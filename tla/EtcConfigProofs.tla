--------------------------- MODULE EtcConfigProofs ---------------------------
(***************************************************************************)
(* Proofs about EtcConfig, for every package, name and number of edits.    *)
(***************************************************************************)
EXTENDS EtcConfig, TreesProofs

(***************************************************************************)
(* What an overlay has at a path.                                          *)
(***************************************************************************)

LEMMA OverlayIs ==
    ASSUME NEW t, NEW u
    PROVE  LET o == ApplyOverlayUpper(t, u)
           IN  /\ Maps(o)
               /\ \A x : x \in DOMAIN o <=>
                    \/ x \in DOMAIN u /\ u[x] # Whiteout
                    \/ x \in DOMAIN t /\ \A h \in Hidden(u) : ~IsPrefix(h, x)
               /\ \A x \in DOMAIN o :
                    /\ x \in DOMAIN u /\ u[x] # Whiteout =>
                         o[x] = IF u[x] = Opaque THEN Dir ELSE u[x]
                    /\ ~(x \in DOMAIN u /\ u[x] # Whiteout) => o[x] = t[x]
<1> DEFINE shown == {x \in DOMAIN u : u[x] # Whiteout}
           top   == [x \in shown |-> IF u[x] = Opaque THEN Dir ELSE u[x]]
           below == Without(t, Hidden(u))
<1>1. ApplyOverlayUpper(t, u) = top ++ below
  BY DEF ApplyOverlayUpper
<1>2. DOMAIN top = shown /\ \A x \in shown : top[x] = IF u[x] = Opaque THEN Dir ELSE u[x]
  OBVIOUS
<1>3. /\ \A x : x \in DOMAIN below <=> x \in DOMAIN t /\ \A h \in Hidden(u) : ~IsPrefix(h, x)
      /\ \A x \in DOMAIN below : below[x] = t[x]
  BY WithoutIs
<1> HIDE DEF top, below
<1> QED  BY <1>1, <1>2, <1>3, OverIs

(***************************************************************************)
(* Trees that are trees.                                                   *)
(***************************************************************************)

LEMMA ConfigIs ==
    ASSUME NEW t, IsConfig(t)
    PROVE  /\ Maps(t)
           /\ \A x \in DOMAIN t : /\ IsPath(x)
                                  /\ t[x] \in Contents \/ t[x] = Dir
                                  /\ \A a \in Ancestors(x) : a \in DOMAIN t /\ t[a] = Dir
           /\ \A x : x \in Leaves(t) <=> x \in DOMAIN t /\ t[x] \in Contents
<1>1. /\ Maps(t)
      /\ \A x \in DOMAIN t : /\ IsPath(x)
                             /\ t[x] \in Contents \/ t[x] = Dir
                             /\ \A a \in Ancestors(x) : a \in DOMAIN t /\ t[a] = Dir
  BY DEF IsConfig, WellFormed, Maps
<1> QED  BY <1>1, EtcAssumption DEF Leaves, Marks

LEMMA MakesConfig ==
    ASSUME NEW t, Maps(t),
           \A x \in DOMAIN t : t[x] \in Contents \/ t[x] = Dir,
           \A x \in DOMAIN t : IsPath(x) /\ \A a \in Ancestors(x) : a \in DOMAIN t /\ t[a] = Dir
    PROVE  IsConfig(t)
  BY DEF IsConfig, WellFormed, Maps

LEMMA UpperIs ==
    ASSUME NEW u, IsUpper(u)
    PROVE  \A x \in DOMAIN u : /\ IsPath(x)
                               /\ u[x] \in Contents \/ u[x] \in {Dir, Opaque, Whiteout}
                               /\ \A a \in Ancestors(x) : a \in DOMAIN u /\ u[a] \in {Dir, Opaque}
  BY DEF IsUpper, Marks

LEMMA NoContent == \A c \in Contents : c # Dir /\ c # Opaque /\ c # Whiteout
  BY EtcAssumption DEF Marks

LEMMA WithoutConfig ==
    ASSUME NEW t, NEW ps, IsConfig(t), \A q \in ps : IsPath(q)
    PROVE  IsConfig(Without(t, ps))
<1> DEFINE w == Without(t, ps)
<1>1. \A x \in DOMAIN w : x \in DOMAIN t /\ w[x] = t[x] /\ IsPath(x) /\ \A q \in ps : ~IsPrefix(q, x)
  BY WithoutIs, ConfigIs
<1>2. ASSUME NEW x \in DOMAIN w, NEW a \in Ancestors(x) PROVE a \in DOMAIN w /\ w[a] = Dir
  <2>1. a \in DOMAIN t /\ t[a] = Dir /\ IsPath(a) /\ IsPrefix(a, x)
    BY <1>1, ConfigIs, AncestorIs
  <2>2. \A q \in ps : ~IsPrefix(q, a)
    BY <1>1, <2>1, PrefixTransitive
  <2> QED  BY <2>1, <2>2, WithoutIs
<1>3. Maps(w) /\ \A x \in DOMAIN w : w[x] \in Contents \/ w[x] = Dir
  BY <1>1, WithoutIs, ConfigIs
<1> HIDE DEF w
<1>4. IsConfig(w)
  BY <1>1, <1>2, <1>3, MakesConfig
<1> QED  BY <1>4 DEF w

LEMMA OverlayConfig ==
    ASSUME NEW t, NEW u, IsConfig(t), IsUpper(u)
    PROVE  IsConfig(ApplyOverlayUpper(t, u))
<1> DEFINE o == ApplyOverlayUpper(t, u)
<1>1. ASSUME NEW x \in DOMAIN o PROVE IsPath(x) /\ (o[x] \in Contents \/ o[x] = Dir)
  BY OverlayIs, ConfigIs, UpperIs
<1>2. ASSUME NEW x \in DOMAIN o, NEW a \in Ancestors(x) PROVE a \in DOMAIN o /\ o[a] = Dir
  <2>1. CASE x \in DOMAIN u /\ u[x] # Whiteout
    <3>1. a \in DOMAIN u /\ u[a] \in {Dir, Opaque} /\ u[a] # Whiteout
      BY <2>1, UpperIs, EtcAssumption
    <3> QED  BY <3>1, OverlayIs
  <2>2. CASE ~(x \in DOMAIN u /\ u[x] # Whiteout)
    <3>1. x \in DOMAIN t /\ \A h \in Hidden(u) : ~IsPrefix(h, x)
      BY <2>2, OverlayIs
    <3>2. a \in DOMAIN t /\ t[a] = Dir /\ IsPath(a) /\ IsPath(x) /\ IsPrefix(a, x)
      BY <3>1, ConfigIs, AncestorIs
    <3>3. \A h \in Hidden(u) : ~IsPrefix(h, a)
      BY <3>1, <3>2, UpperIs, PrefixTransitive DEF Hidden
    <3>4. a \in DOMAIN u => u[a] = Dir
      BY <3>2, <3>3, PrefixReflexive DEF Hidden
    <3> QED  BY <3>2, <3>3, <3>4, OverlayIs, EtcAssumption
  <2> QED  BY <2>1, <2>2
<1>3. Maps(o)
  BY OverlayIs
<1> HIDE DEF o
<1>4. IsConfig(o)
  BY <1>1, <1>2, <1>3, MakesConfig
<1> QED  BY <1>4 DEF o

LEMMA TreeOverlayConfig ==
    ASSUME NEW t, NEW new, IsConfig(t), IsConfig(new)
    PROVE  IsConfig(ApplyTreeOverlay(t, new))
<1> DEFINE w == Without(t, Leaves(new))  o == new ++ w
<1>1. \A x \in DOMAIN w : x \in DOMAIN t /\ w[x] = t[x] /\ \A q \in Leaves(new) : ~IsPrefix(q, x)
  BY WithoutIs
<1>2. IsConfig(w)
  BY ConfigIs, WithoutConfig
<1> HIDE DEF w
<1>3. /\ Maps(o)
      /\ \A x : x \in DOMAIN o <=> x \in DOMAIN new \/ x \in DOMAIN w
      /\ \A x \in DOMAIN new : o[x] = new[x]
      /\ \A x \in DOMAIN w \ DOMAIN new : o[x] = w[x]
  BY OverIs
<1> HIDE DEF o
<1>4. \A x \in DOMAIN o : IsPath(x) /\ (o[x] \in Contents \/ o[x] = Dir)
  BY <1>2, <1>3, ConfigIs
<1>5. ASSUME NEW x \in DOMAIN o, NEW a \in Ancestors(x) PROVE a \in DOMAIN o /\ o[a] = Dir
  <2>1. CASE x \in DOMAIN new
    BY <1>3, <2>1, ConfigIs
  <2>2. CASE x \notin DOMAIN new
    <3>1. x \in DOMAIN w /\ a \in DOMAIN w /\ w[a] = Dir /\ IsPrefix(a, x)
      BY <1>2, <1>3, <2>2, ConfigIs, AncestorIs
    <3>2. a \in DOMAIN new => new[a] = Dir
      BY <1>1, <3>1, ConfigIs
    <3> QED  BY <1>3, <3>1, <3>2
  <2> QED  BY <2>1, <2>2
<1>6. IsConfig(o)
  BY <1>3, <1>4, <1>5, MakesConfig
<1> QED  BY <1>6 DEF o, w, ApplyTreeOverlay

(***************************************************************************)
(* The merge.                                                              *)
(***************************************************************************)

LEMMA DiffIs ==
    ASSUME NEW from, NEW to
    PROVE  /\ \A x : x \in Come(TreeDiff(from, to)) <=>
                       /\ x \in Leaves(to)
                       /\ x \in Leaves(from) => ~SameContent(from[x], to[x])
           /\ \A x : x \in Gone(TreeDiff(from, to)) <=> x \in Leaves(from) /\ x \notin Leaves(to)
           /\ \A x : x \in DOMAIN TreeDiff(from, to) <=>
                       x \in Come(TreeDiff(from, to)) \/ x \in Gone(TreeDiff(from, to))
<1> DEFINE both     == Leaves(from) \cap Leaves(to)
           changed  == {p \in both : ~SameContent(from[p], to[p])}
           modified == [p \in changed |-> "Modified"]
           removed  == [p \in Leaves(from) \ both |-> "Removed"]
           added    == [p \in Leaves(to) \ both |-> "Added"]
           d        == TreeDiff(from, to)
<1>1. d = (modified ++ removed) ++ added
  BY DEF TreeDiff
<1>2. /\ DOMAIN modified = changed /\ \A x \in changed : modified[x] = "Modified"
      /\ DOMAIN removed = Leaves(from) \ both /\ \A x \in DOMAIN removed : removed[x] = "Removed"
      /\ DOMAIN added = Leaves(to) \ both /\ \A x \in DOMAIN added : added[x] = "Added"
  OBVIOUS
<1> HIDE DEF modified, removed, added, d
<1>3. /\ \A x : x \in DOMAIN (modified ++ removed) <=> x \in DOMAIN modified \/ x \in DOMAIN removed
      /\ \A x \in DOMAIN modified : (modified ++ removed)[x] = modified[x]
      /\ \A x \in DOMAIN removed \ DOMAIN modified : (modified ++ removed)[x] = removed[x]
  BY OverIs
<1>4. /\ \A x : x \in DOMAIN d <=> x \in changed \/ x \in Leaves(from) \ both \/ x \in Leaves(to) \ both
      /\ \A x \in changed : d[x] = "Modified"
      /\ \A x \in Leaves(from) \ both : d[x] = "Removed"
      /\ \A x \in Leaves(to) \ both : d[x] = "Added"
  <2> DEFINE first == modified ++ removed
  <2>1. \A x : x \in DOMAIN first <=> x \in changed \/ x \in Leaves(from) \ both
    BY <1>2, <1>3
  <2>2. \A x \in changed : first[x] = "Modified"
    BY <1>2, <1>3
  <2>3. \A x \in Leaves(from) \ both : first[x] = "Removed"
    BY <1>2, <1>3
  <2>4. d = first ++ added
    BY <1>1
  <2> HIDE DEF first
  <2>5. /\ \A x : x \in DOMAIN d <=> x \in DOMAIN first \/ x \in DOMAIN added
        /\ \A x \in DOMAIN first : d[x] = first[x]
        /\ \A x \in DOMAIN added \ DOMAIN first : d[x] = added[x]
    BY <2>4, OverIs
  <2>6. \A x \in DOMAIN added : x \notin DOMAIN first
    BY <1>2, <2>1
  <2> QED  BY <1>2, <2>1, <2>2, <2>3, <2>5, <2>6
<1>5. Come(d) = {x \in DOMAIN d : d[x] \in {"Added", "Modified"}} /\ Gone(d) = DOMAIN d \ Come(d)
  BY DEF Come, Gone
<1>6. \A x : x \in Come(d) <=> x \in changed \/ x \in Leaves(to) \ both
  BY <1>4, <1>5
<1>7. \A x : x \in Gone(d) <=> x \in Leaves(from) \ both
  BY <1>4, <1>5
<1> QED  BY <1>5, <1>6, <1>7 DEF d

\* What a merge has at a path.
LEMMA MergeIs ==
    ASSUME NEW old, NEW new, NEW live, NEW allow
    PROVE  LET mine  == Come(TreeDiff(old, live))
               sides == Sidecars(old, new, live, allow)
               taken == TakenAway(old, new, live)
               m     == MergeConfig(old, new, live, allow)
           IN  /\ Maps(m)
               /\ \A x \in mine : x \in DOMAIN m /\ m[x] = live[x]
               /\ \A x : x \notin mine =>
                    (x \in DOMAIN m <=>
                       /\ \A q \in mine \cup taken : ~IsPrefix(q, x)
                       /\ x \in sides \/ (x \in DOMAIN new /\ \A q \in sides : ~IsPrefix(q, x)))
               /\ \A x \in DOMAIN m : x \notin mine /\ x \notin sides => m[x] = new[x]
               /\ \A x \in DOMAIN m : x \notin mine /\ x \in sides =>
                    \E p \in mine \cap Come(TreeDiff(old, new)) : Sidecar(p) = x /\ m[x] = new[p]
<1> DEFINE mine  == Come(TreeDiff(old, live))
           fresh == Come(TreeDiff(old, new))
           sides == Sidecars(old, new, live, allow)
           taken == TakenAway(old, new, live)
           m     == MergeConfig(old, new, live, allow)
           Beside(x) == CHOOSE p \in mine \cap fresh : Sidecar(p) = x
           beside == [x \in sides |-> new[Beside(x)]]
           rest   == Without(new, sides)
           placed == beside ++ rest
           kept   == Without(placed, taken)
           clear  == Without(kept, mine)
           copy   == Restrict(live, mine)
<1>1. m = copy ++ clear
  BY DEF MergeConfig, CopyFromTree
<1>2. DOMAIN copy = mine /\ \A x \in mine : copy[x] = live[x]
  BY DEF Restrict
<1>3. DOMAIN beside = sides /\ \A x \in sides : beside[x] = new[Beside(x)]
  OBVIOUS
<1>4. \A x \in sides : \E p \in mine \cap fresh : Sidecar(p) = x
  BY DEF Sidecars
<1>5. \A x \in sides : Beside(x) \in mine \cap fresh /\ Sidecar(Beside(x)) = x
  BY <1>4
<1> HIDE DEF mine, fresh, sides, taken, m, Beside, beside
<1>6. /\ \A x : x \in DOMAIN rest <=> x \in DOMAIN new /\ \A q \in sides : ~IsPrefix(q, x)
      /\ \A x \in DOMAIN rest : rest[x] = new[x]
  BY WithoutIs
<1> HIDE DEF rest
<1>7. /\ \A x : x \in DOMAIN placed <=> x \in sides \/ x \in DOMAIN rest
      /\ \A x \in sides : placed[x] = new[Beside(x)]
      /\ \A x \in DOMAIN rest \ sides : placed[x] = rest[x]
  BY <1>3, OverIs
<1> HIDE DEF placed
<1>8. /\ \A x : x \in DOMAIN kept <=> x \in DOMAIN placed /\ \A q \in taken : ~IsPrefix(q, x)
      /\ \A x \in DOMAIN kept : kept[x] = placed[x]
  BY WithoutIs
<1> HIDE DEF kept
<1>9. /\ \A x : x \in DOMAIN clear <=> x \in DOMAIN kept /\ \A q \in mine : ~IsPrefix(q, x)
      /\ \A x \in DOMAIN clear : clear[x] = kept[x]
  BY WithoutIs
<1> HIDE DEF clear, copy
<1>10. /\ Maps(m)
       /\ \A x : x \in DOMAIN m <=> x \in mine \/ x \in DOMAIN clear
       /\ \A x \in mine : m[x] = live[x]
       /\ \A x \in DOMAIN clear \ mine : m[x] = clear[x]
  BY <1>1, <1>2, OverIs
<1>11. \A x : x \notin mine =>
         (x \in DOMAIN m <=>
            /\ \A q \in mine \cup taken : ~IsPrefix(q, x)
            /\ x \in sides \/ (x \in DOMAIN new /\ \A q \in sides : ~IsPrefix(q, x)))
  BY <1>6, <1>7, <1>8, <1>9, <1>10
<1>12. \A x \in DOMAIN m : x \notin mine /\ x \notin sides => m[x] = new[x]
  BY <1>6, <1>7, <1>8, <1>9, <1>10
<1>13. \A x \in DOMAIN m : x \notin mine /\ x \in sides =>
         \E p \in mine \cap fresh : Sidecar(p) = x /\ m[x] = new[p]
  BY <1>5, <1>7, <1>8, <1>9, <1>10
<1> QED  BY <1>10, <1>11, <1>12, <1>13 DEF mine, fresh, sides, taken, m

LEMMA MergedConfig ==
    ASSUME NEW old, NEW new, NEW live, NEW allow,
           IsConfig(old), IsConfig(new), IsConfig(live), CanMerge(old, new, live, allow)
    PROVE  IsConfig(MergeConfig(old, new, live, allow))
<1> DEFINE mine  == Come(TreeDiff(old, live))
           fresh == Come(TreeDiff(old, new))
           sides == Sidecars(old, new, live, allow)
           taken == TakenAway(old, new, live)
           m     == MergeConfig(old, new, live, allow)
<1>1. /\ \A x \in mine : x \in DOMAIN live /\ live[x] \in Contents /\ IsPath(x)
      /\ \A x \in fresh : x \in DOMAIN new /\ new[x] \in Contents
  BY DiffIs, ConfigIs
<1>2. \A x \in taken : IsPath(x) /\ x \in DOMAIN new /\ new[x] \in Contents
  <2> SUFFICES ASSUME NEW x \in taken PROVE IsPath(x) /\ x \in DOMAIN new /\ new[x] \in Contents
    OBVIOUS
  <2>1. x \in Leaves(old) /\ x \notin DOMAIN TreeDiff(old, new)
    BY DiffIs DEF TakenAway
  <2>2. x \in Leaves(new)
    BY <2>1, DiffIs
  <2> QED  BY <2>2, ConfigIs
<1>3. \A x \in sides : \E p \in mine \cap fresh : x = Sidecar(p) /\ IsPath(x) /\ Ancestors(x) = Ancestors(p)
  BY <1>1, SidecarIs DEF Sidecars
<1>4. /\ \A x \in mine : CanReach(new, x)
      /\ \A x \in mine : \A q \in sides : ~IsStrictPrefix(q, x)
  BY DEF CanMerge
<1>5. /\ Maps(m)
      /\ \A x \in mine : x \in DOMAIN m /\ m[x] = live[x]
      /\ \A x : x \notin mine =>
           (x \in DOMAIN m <=>
              /\ \A q \in mine \cup taken : ~IsPrefix(q, x)
              /\ x \in sides \/ (x \in DOMAIN new /\ \A q \in sides : ~IsPrefix(q, x)))
      /\ \A x \in DOMAIN m : x \notin mine /\ x \notin sides => m[x] = new[x]
      /\ \A x \in DOMAIN m : x \notin mine /\ x \in sides =>
           \E p \in mine \cap fresh : Sidecar(p) = x /\ m[x] = new[p]
  BY MergeIs
<1> HIDE DEF mine, fresh, sides, taken, m
<1>6. \A x \in DOMAIN m : IsPath(x) /\ (m[x] \in Contents \/ m[x] = Dir)
  <2> SUFFICES ASSUME NEW x \in DOMAIN m PROVE IsPath(x) /\ (m[x] \in Contents \/ m[x] = Dir)
    OBVIOUS
  <2>1. CASE x \in mine
    BY <1>1, <1>5, <2>1
  <2>2. CASE x \notin mine /\ x \in sides
    BY <1>1, <1>3, <1>5, <2>2
  <2>3. CASE x \notin mine /\ x \notin sides
    BY <1>5, <2>3, ConfigIs
  <2> QED  BY <2>1, <2>2, <2>3
\* A directory of the new tree that nothing replaces stays.
<1>7. ASSUME NEW a \in DOMAIN new, new[a] = Dir, IsPath(a),
             \A q \in mine \cup taken \cup sides : ~IsPrefix(q, a)
      PROVE  a \in DOMAIN m /\ m[a] = Dir
  <2>1. a \notin mine /\ a \notin sides
    BY <1>7, PrefixReflexive
  <2> QED  BY <1>5, <1>7, <2>1
<1>8. ASSUME NEW x \in DOMAIN m, NEW a \in Ancestors(x) PROVE a \in DOMAIN m /\ m[a] = Dir
  <2>1. IsPath(x) /\ IsPath(a) /\ IsPrefix(a, x) /\ a # x
    BY <1>6, AncestorIs
  <2>2. \A q : IsPath(q) /\ IsPrefix(q, a) => q \in Ancestors(x) /\ IsPrefix(q, x)
    <3> SUFFICES ASSUME NEW q, IsPath(q), IsPrefix(q, a) PROVE q \in Ancestors(x) /\ IsPrefix(q, x)
      OBVIOUS
    <3>1. IsPrefix(q, x)
      BY <2>1, PrefixTransitive
    <3>2. q # x
      BY <2>1, PrefixAntisymmetric
    <3> QED  BY <2>1, <3>1, <3>2, PrefixIsAncestor
  <2>3. CASE x \in mine
    <3>1. \A b \in Ancestors(x) : b \in DOMAIN new /\ new[b] = Dir
      <4>1. CASE Parent(x) = <<>> /\ Ancestors(x) = {}
        BY <4>1
      <4>2. CASE /\ Parent(x) \in Ancestors(x) /\ Parent(x) # <<>>
                 /\ \A b \in Ancestors(x) : b = Parent(x) \/ b \in Ancestors(Parent(x))
        <5>1. Parent(x) \in DOMAIN new /\ new[Parent(x)] = Dir
          BY <1>4, <2>3, <4>2 DEF CanReach, IsDir
        <5> QED  BY <4>2, <5>1, ConfigIs
      <4> QED  BY <2>1, <4>1, <4>2, ParentIs
    <3>2. \A b \in Ancestors(x) : b \in DOMAIN live /\ live[b] = Dir
      BY <1>1, <2>3, ConfigIs
    <3>3. \A q \in mine : ~IsPrefix(q, a)
      BY <1>1, <2>2, <3>2, NoContent
    <3>4. \A q \in taken : ~IsPrefix(q, a)
      BY <1>2, <2>2, <3>1, NoContent
    <3>5. \A q \in sides : ~IsPrefix(q, a)
      <4> SUFFICES ASSUME NEW q \in sides, IsPrefix(q, a) PROVE FALSE
        OBVIOUS
      <4>1. q \in Ancestors(x) /\ IsPrefix(q, x)
        BY <1>3, <2>2
      <4>2. q # x
        BY <2>1, <4>1, AncestorIs
      <4> QED  BY <1>4, <2>3, <4>1, <4>2 DEF IsStrictPrefix
    <3> QED  BY <1>7, <2>1, <3>1, <3>3, <3>4, <3>5
  <2>4. CASE x \notin mine
    <3>1. /\ \A q \in mine \cup taken : ~IsPrefix(q, x)
          /\ x \in sides \/ (x \in DOMAIN new /\ \A q \in sides : ~IsPrefix(q, x))
      BY <1>5, <2>4
    <3>2. \A q \in mine \cup taken : ~IsPrefix(q, a)
      BY <1>1, <1>2, <2>2, <3>1
    <3>3. CASE x \in sides
      <4>1. PICK p \in mine \cap fresh : x = Sidecar(p) /\ Ancestors(x) = Ancestors(p)
        BY <1>3, <3>3
      <4>2. a \in DOMAIN new /\ new[a] = Dir
        BY <1>1, <4>1, ConfigIs
      <4>3. \A q \in sides : ~IsPrefix(q, a)
        <5> SUFFICES ASSUME NEW q \in sides, IsPrefix(q, a) PROVE FALSE
          OBVIOUS
        <5>1. q \in Ancestors(p)
          BY <1>3, <2>2, <4>1
        <5>2. IsPrefix(q, p) /\ q # p
          BY <1>1, <5>1, AncestorIs
        <5> QED  BY <1>4, <5>2 DEF IsStrictPrefix
      <4> QED  BY <1>7, <2>1, <3>2, <4>2, <4>3
    <3>4. CASE x \in DOMAIN new /\ \A q \in sides : ~IsPrefix(q, x)
      <4>1. a \in DOMAIN new /\ new[a] = Dir
        BY <3>4, ConfigIs
      <4>2. \A q \in sides : ~IsPrefix(q, a)
        BY <1>3, <2>2, <3>4
      <4> QED  BY <1>7, <2>1, <3>2, <4>1, <4>2
    <3> QED  BY <3>1, <3>3, <3>4
  <2> QED  BY <2>3, <2>4
<1>9. IsConfig(m)
  BY <1>5, <1>6, <1>8, MakesConfig
<1> QED  BY <1>9 DEF m

(***************************************************************************)
(* Edits: what they do to the upper directory is what the user sees.       *)
(***************************************************************************)

\* A directory of /etc is not hidden.
LEMMA SeenDirectory ==
    ASSUME NEW t, NEW u, IsConfig(t), IsUpper(u), NEW a,
           a \in DOMAIN ApplyOverlayUpper(t, u), ApplyOverlayUpper(t, u)[a] = Dir
    PROVE  a \in DOMAIN u => u[a] \in {Dir, Opaque}
<1> DEFINE o == ApplyOverlayUpper(t, u)
<1> SUFFICES ASSUME a \in DOMAIN u PROVE u[a] \in {Dir, Opaque}
  OBVIOUS
<1>1. IsPath(a) /\ (u[a] \in Contents \/ u[a] \in {Dir, Opaque, Whiteout})
  BY UpperIs
<1>2. u[a] \notin Contents
  BY OverlayIs, NoContent
<1>3. u[a] # Whiteout
  <2> SUFFICES ASSUME u[a] = Whiteout PROVE FALSE
    OBVIOUS
  <2>1. a \in Hidden(u)
    BY EtcAssumption DEF Hidden
  <2>2. \A h \in Hidden(u) : ~IsPrefix(h, a)
    BY OverlayIs
  <2> QED  BY <1>1, <2>1, <2>2, PrefixReflexive
<1> QED  BY <1>1, <1>2, <1>3

\* A file, or a new directory, that the user puts at p.
LEMMA PutIsSeen ==
    ASSUME NEW t, NEW u, NEW p, NEW v, NEW d, IsConfig(t), IsUpper(u), IsPath(p),
           v \in Contents \/ v = Opaque,
           Maps(d), \A x : x \in DOMAIN d <=> x \in Ancestors(p) /\ x \notin DOMAIN u,
           \A x \in DOMAIN d : d[x] = Dir,
           \A a \in Ancestors(p) : a \in DOMAIN ApplyOverlayUpper(t, u) /\ ApplyOverlayUpper(t, u)[a] = Dir,
           ~(p \in DOMAIN ApplyOverlayUpper(t, u) /\ ApplyOverlayUpper(t, u)[p] = Dir)
    PROVE  LET after == At(p, v) ++ d ++ u
           IN  /\ IsUpper(after)
               /\ ApplyOverlayUpper(t, after)
                    = At(p, IF v = Opaque THEN Dir ELSE v) ++ ApplyOverlayUpper(t, u)
<1> DEFINE o == ApplyOverlayUpper(t, u)
           w == IF v = Opaque THEN Dir ELSE v
           after == At(p, v) ++ d ++ u
           seen == ApplyOverlayUpper(t, after)
           wish == At(p, w) ++ o
<1>1. IsConfig(o)
  BY OverlayConfig
<1>2. \A a \in Ancestors(p) : IsPath(a) /\ IsPrefix(a, p) /\ a # p /\ (a \in DOMAIN u => u[a] \in {Dir, Opaque})
  BY AncestorIs, SeenDirectory
<1>3. p \in DOMAIN u => u[p] \notin {Dir, Opaque}
  BY OverlayIs, EtcAssumption
<1>4. v # Dir /\ v # Whiteout
  BY NoContent, EtcAssumption
<1>5. /\ Maps(after)
      /\ \A x : x \in DOMAIN after <=> x = p \/ x \in Ancestors(p) \/ x \in DOMAIN u
      /\ after[p] = v
      /\ \A x \in Ancestors(p) : x \notin DOMAIN u => after[x] = Dir
      /\ \A x \in DOMAIN u : x # p => after[x] = u[x]
  <2> DEFINE top == At(p, v) ++ d
  <2>1. /\ \A x : x \in DOMAIN top <=> x = p \/ (x \in Ancestors(p) /\ x \notin DOMAIN u)
        /\ top[p] = v
        /\ \A x \in Ancestors(p) : x \notin DOMAIN u => top[x] = Dir
    BY <1>2, PutIs
  <2>2. after = top ++ u
    OBVIOUS
  <2> HIDE DEF top, after
  <2> QED  BY <2>1, <2>2, OverIs
<1> HIDE DEF after
<1>6. IsUpper(after)
  <2>1. ASSUME NEW x \in DOMAIN after
        PROVE  /\ IsPath(x) /\ after[x] \in Contents \cup Marks
               /\ \A a \in Ancestors(x) : a \in DOMAIN after /\ after[a] \in {Dir, Opaque}
    <3>1. CASE x = p
      BY <1>2, <1>5, <3>1 DEF Marks
    <3>2. CASE x \in Ancestors(p) /\ x # p /\ x \notin DOMAIN u
      <4>1. Ancestors(x) \subseteq Ancestors(p)
        BY <3>2, AncestorsNest
      <4> QED  BY <1>2, <1>5, <3>2, <4>1 DEF Marks
    <3>3. CASE x \in DOMAIN u /\ x # p
      <4>1. \A a \in Ancestors(x) : a \in DOMAIN u /\ u[a] \in {Dir, Opaque} /\ a # p
        BY <1>3, <3>3, UpperIs
      <4> QED  BY <1>5, <3>3, <4>1, UpperIs DEF Marks
    <3> QED  BY <1>5, <3>1, <3>2, <3>3
  <2> QED  BY <1>5, <2>1 DEF IsUpper, Maps
<1>7. \A x : x \in Hidden(after) <=> x = p \/ x \in Hidden(u)
  BY <1>2, <1>3, <1>4, <1>5 DEF Hidden
<1>8. /\ Maps(wish) /\ wish[p] = w
      /\ \A x : x \in DOMAIN wish <=> x = p \/ x \in DOMAIN o
      /\ \A x \in DOMAIN o : x # p => wish[x] = o[x]
  <2> HIDE DEF o, w
  <2> QED  BY PutIs
<1>9. /\ Maps(seen)
      /\ \A x : x \in DOMAIN seen <=>
           \/ x \in DOMAIN after /\ after[x] # Whiteout
           \/ x \in DOMAIN t /\ \A h \in Hidden(after) : ~IsPrefix(h, x)
      /\ \A x \in DOMAIN seen :
           /\ x \in DOMAIN after /\ after[x] # Whiteout =>
                seen[x] = IF after[x] = Opaque THEN Dir ELSE after[x]
           /\ ~(x \in DOMAIN after /\ after[x] # Whiteout) => seen[x] = t[x]
  BY OverlayIs
<1>10. /\ \A x : x \in DOMAIN o <=>
            \/ x \in DOMAIN u /\ u[x] # Whiteout
            \/ x \in DOMAIN t /\ \A h \in Hidden(u) : ~IsPrefix(h, x)
       /\ \A x \in DOMAIN o :
            /\ x \in DOMAIN u /\ u[x] # Whiteout => o[x] = IF u[x] = Opaque THEN Dir ELSE u[x]
            /\ ~(x \in DOMAIN u /\ u[x] # Whiteout) => o[x] = t[x]
  BY OverlayIs
\* Nothing that is seen is below p.
<1>11. \A x \in DOMAIN o : x # p => ~IsPrefix(p, x)
  BY <1>1, ConfigIs, PrefixIsAncestor
<1>12. \A a \in Ancestors(p) : a \in DOMAIN o /\ o[a] = Dir
  OBVIOUS
<1> HIDE DEF seen, wish, o, w
<1>13. \A x : x \in DOMAIN seen <=> x \in DOMAIN wish
  <2>1. ASSUME NEW x \in DOMAIN seen PROVE x \in DOMAIN wish
    BY <1>2, <1>5, <1>7, <1>8, <1>9, <1>10, <1>12
  <2>2. ASSUME NEW x \in DOMAIN wish PROVE x \in DOMAIN seen
    <3>1. CASE x = p
      BY <1>4, <1>5, <1>9, <3>1
    <3>2. CASE x # p /\ x \in DOMAIN o
      BY <1>5, <1>7, <1>9, <1>10, <1>11, <3>2
    <3> QED  BY <1>8, <3>1, <3>2
  <2> QED  BY <2>1, <2>2
<1>14. ASSUME NEW x \in DOMAIN seen PROVE seen[x] = wish[x]
  <2>1. CASE x = p
    BY <1>4, <1>5, <1>8, <1>9, <2>1 DEF w
  <2>2. CASE x # p /\ x \in DOMAIN u
    BY <1>5, <1>8, <1>9, <1>10, <1>13, <2>2
  <2>3. CASE x # p /\ x \in Ancestors(p) /\ x \notin DOMAIN u
    BY <1>5, <1>8, <1>9, <1>12, <2>3, EtcAssumption
  <2>4. CASE x # p /\ x \notin Ancestors(p) /\ x \notin DOMAIN u
    BY <1>5, <1>8, <1>9, <1>10, <1>13, <2>4
  <2> QED  BY <2>1, <2>2, <2>3, <2>4
<1>15. seen = wish
  BY <1>8, <1>9, <1>13, <1>14, SameMap
<1> QED  BY <1>6, <1>15 DEF seen, wish, o, w, after

\* A path that goes, however the upper directory says so.
LEMMA ErasedIsSeen ==
    ASSUME NEW t, NEW u, NEW p, NEW made, NEW after, IsConfig(t), IsUpper(u), IsPath(p),
           p \in DOMAIN ApplyOverlayUpper(t, u),
           \A x \in made : x \in Ancestors(p) /\ x \notin DOMAIN u /\ after[x] = Dir,
           \A x : x \in DOMAIN after /\ after[x] # Whiteout <=>
                    x \in made \/ (x \in DOMAIN u /\ ~IsPrefix(p, x) /\ u[x] # Whiteout),
           \A x \in DOMAIN u : ~IsPrefix(p, x) => after[x] = u[x],
           \A x : x \in Hidden(after) => x = p \/ (x \in Hidden(u) /\ ~IsPrefix(p, x)),
           \A x \in Hidden(u) : ~IsPrefix(p, x) => x \in Hidden(after),
           p \in Hidden(after) \/ (p \in DOMAIN t => \E h \in Hidden(u) : IsStrictPrefix(h, p))
    PROVE  ApplyOverlayUpper(t, after) = Without(ApplyOverlayUpper(t, u), {p})
<1> DEFINE o == ApplyOverlayUpper(t, u)
           seen == ApplyOverlayUpper(t, after)
           wish == Without(o, {p})
<1>1. IsConfig(o)
  BY OverlayConfig
<1>2. \A a \in Ancestors(p) : ~IsPrefix(p, a) /\ a \in DOMAIN o /\ o[a] = Dir
  BY <1>1, AncestorIs, ConfigIs, PrefixAntisymmetric
<1>3. /\ Maps(wish)
      /\ \A x : x \in DOMAIN wish <=> x \in DOMAIN o /\ ~IsPrefix(p, x)
      /\ \A x \in DOMAIN wish : wish[x] = o[x]
  <2> HIDE DEF o
  <2> QED  BY WithoutIs
<1>4. /\ Maps(seen)
      /\ \A x : x \in DOMAIN seen <=>
           \/ x \in DOMAIN after /\ after[x] # Whiteout
           \/ x \in DOMAIN t /\ \A h \in Hidden(after) : ~IsPrefix(h, x)
      /\ \A x \in DOMAIN seen :
           /\ x \in DOMAIN after /\ after[x] # Whiteout =>
                seen[x] = IF after[x] = Opaque THEN Dir ELSE after[x]
           /\ ~(x \in DOMAIN after /\ after[x] # Whiteout) => seen[x] = t[x]
  BY OverlayIs
<1>5. /\ \A x : x \in DOMAIN o <=>
            \/ x \in DOMAIN u /\ u[x] # Whiteout
            \/ x \in DOMAIN t /\ \A h \in Hidden(u) : ~IsPrefix(h, x)
      /\ \A x \in DOMAIN o :
            /\ x \in DOMAIN u /\ u[x] # Whiteout => o[x] = IF u[x] = Opaque THEN Dir ELSE u[x]
            /\ ~(x \in DOMAIN u /\ u[x] # Whiteout) => o[x] = t[x]
  BY OverlayIs
<1>6. ASSUME NEW x \in DOMAIN t, \A h \in Hidden(after) : ~IsPrefix(h, x)
      PROVE  ~IsPrefix(p, x) /\ \A h \in Hidden(u) : ~IsPrefix(h, x)
  <2>1. IsPath(x)
    BY ConfigIs
  <2>2. ~IsPrefix(p, x)
    <3> SUFFICES ASSUME IsPrefix(p, x) PROVE FALSE
      OBVIOUS
    <3>1. p \notin Hidden(after)
      BY <1>6
    <3>2. p \in DOMAIN t
      BY <2>1, ConfigIs, PrefixIsAncestor
    <3>3. PICK h \in Hidden(u) : IsStrictPrefix(h, p)
      BY <3>1, <3>2
    <3>4. IsPath(h) /\ IsPrefix(h, p) /\ h # p
      BY <3>3, UpperIs DEF Hidden, IsStrictPrefix
    <3>5. ~IsPrefix(p, h) /\ IsPrefix(h, x)
      BY <2>1, <3>4, PrefixAntisymmetric, PrefixTransitive
    <3> QED  BY <1>6, <3>5
  <2>3. ASSUME NEW h \in Hidden(u), IsPrefix(h, x) PROVE FALSE
    <3>1. IsPath(h)
      BY UpperIs DEF Hidden
    <3>2. IsPrefix(p, h)
      BY <1>6, <2>3
    <3> QED  BY <2>1, <2>2, <2>3, <3>1, <3>2, PrefixTransitive
  <2> QED  BY <2>2, <2>3
<1> HIDE DEF o, seen, wish
<1>7. \A x : x \in DOMAIN seen <=> x \in DOMAIN wish
  <2>1. ASSUME NEW x \in DOMAIN seen PROVE x \in DOMAIN wish
    BY <1>2, <1>3, <1>4, <1>5, <1>6
  <2>2. ASSUME NEW x \in DOMAIN wish PROVE x \in DOMAIN seen
    BY <1>3, <1>4, <1>5
  <2> QED  BY <2>1, <2>2
<1>8. ASSUME NEW x \in DOMAIN seen PROVE seen[x] = wish[x]
  <2>1. CASE x \in made
    BY <1>2, <1>3, <1>4, <1>7, <2>1, EtcAssumption
  <2>2. CASE x \notin made
    BY <1>3, <1>4, <1>5, <1>7, <2>2
  <2> QED  BY <2>1, <2>2
<1>9. seen = wish
  BY <1>3, <1>4, <1>7, <1>8, SameMap
<1> QED  BY <1>9 DEF seen, wish, o

\* A path of the image below goes: the user's layer gets a whiteout.
LEMMA WhiteoutIsSeen ==
    ASSUME NEW t, NEW u, NEW p, NEW d, IsConfig(t), IsUpper(u), IsPath(p),
           p \in DOMAIN ApplyOverlayUpper(t, u),
           Maps(d), \A x : x \in DOMAIN d <=> x \in Ancestors(p) /\ x \notin DOMAIN u,
           \A x \in DOMAIN d : d[x] = Dir
    PROVE  LET after == At(p, Whiteout) ++ d ++ Without(u, {p})
           IN  /\ IsUpper(after)
               /\ ApplyOverlayUpper(t, after) = Without(ApplyOverlayUpper(t, u), {p})
<1> DEFINE o == ApplyOverlayUpper(t, u)
           k == Without(u, {p})
           top == At(p, Whiteout) ++ d
           after == top ++ k
<1>1. \A a \in Ancestors(p) : /\ IsPath(a) /\ IsPrefix(a, p) /\ a # p /\ ~IsPrefix(p, a)
                              /\ a \in DOMAIN u => u[a] \in {Dir, Opaque}
  <2>1. IsConfig(o)
    BY OverlayConfig
  <2> QED  BY <2>1, AncestorIs, ConfigIs, PrefixAntisymmetric, SeenDirectory
<1>2. /\ Maps(k) /\ \A x : x \in DOMAIN k <=> x \in DOMAIN u /\ ~IsPrefix(p, x)
      /\ \A x \in DOMAIN k : k[x] = u[x] /\ x # p
  BY WithoutIs, PrefixReflexive
<1>3. /\ \A x : x \in DOMAIN top <=> x = p \/ (x \in Ancestors(p) /\ x \notin DOMAIN u)
      /\ top[p] = Whiteout
      /\ \A x \in Ancestors(p) : x \notin DOMAIN u => top[x] = Dir
  BY <1>1, PutIs
<1> HIDE DEF k, top
<1>4. /\ Maps(after)
      /\ \A x : x \in DOMAIN after <=> x \in DOMAIN top \/ x \in DOMAIN k
      /\ \A x \in DOMAIN top : after[x] = top[x]
      /\ \A x \in DOMAIN k \ DOMAIN top : after[x] = k[x]
  BY OverIs
<1> HIDE DEF after
<1>5. \A x : x \in DOMAIN after <=> x = p \/ x \in Ancestors(p) \/ (x \in DOMAIN u /\ ~IsPrefix(p, x))
  BY <1>1, <1>2, <1>3, <1>4
<1>6. /\ after[p] = Whiteout
      /\ \A x \in Ancestors(p) : x \notin DOMAIN u => after[x] = Dir
      /\ \A x \in DOMAIN u : ~IsPrefix(p, x) => after[x] = u[x]
  BY <1>1, <1>2, <1>3, <1>4
<1>7. IsUpper(after)
  <2>1. ASSUME NEW x \in DOMAIN after
        PROVE  /\ IsPath(x) /\ after[x] \in Contents \cup Marks
               /\ \A a \in Ancestors(x) : a \in DOMAIN after /\ after[a] \in {Dir, Opaque}
    <3>1. CASE x = p
      BY <1>1, <1>5, <1>6, <3>1 DEF Marks
    <3>2. CASE x \in Ancestors(p) /\ x \notin DOMAIN u
      <4>1. Ancestors(x) \subseteq Ancestors(p)
        BY <3>2, AncestorsNest
      <4> QED  BY <1>1, <1>5, <1>6, <3>2, <4>1 DEF Marks
    <3>3. CASE x \in DOMAIN u /\ ~IsPrefix(p, x)
      <4>1. \A a \in Ancestors(x) : a \in DOMAIN u /\ u[a] \in {Dir, Opaque} /\ ~IsPrefix(p, a)
        BY <3>3, UpperIs, AncestorIs, PrefixTransitive
      <4> QED  BY <1>5, <1>6, <3>3, <4>1, UpperIs DEF Marks
    <3>4. CASE x \in Ancestors(p) /\ x \in DOMAIN u
      BY <1>1, <3>3, <3>4
    <3> QED  BY <1>5, <3>1, <3>2, <3>3, <3>4
  <2> QED  BY <1>4, <2>1 DEF IsUpper, Maps
<1>8. \A x : x \in Hidden(after) <=> x = p \/ (x \in Hidden(u) /\ ~IsPrefix(p, x))
  BY <1>1, <1>5, <1>6, PrefixReflexive, EtcAssumption DEF Hidden
<1>9. \A x : x \in DOMAIN after /\ after[x] # Whiteout <=>
        \/ x \in DOMAIN u /\ ~IsPrefix(p, x) /\ u[x] # Whiteout
        \/ x \in Ancestors(p) /\ x \notin DOMAIN u
  BY <1>1, <1>5, <1>6, PrefixReflexive, EtcAssumption
<1>10. p \in Hidden(after)
  BY <1>8
<1> DEFINE made == {x \in Ancestors(p) : x \notin DOMAIN u}
<1>11. /\ \A x \in made : x \in Ancestors(p) /\ x \notin DOMAIN u /\ after[x] = Dir
       /\ \A x : x \in DOMAIN after /\ after[x] # Whiteout <=>
                   x \in made \/ (x \in DOMAIN u /\ ~IsPrefix(p, x) /\ u[x] # Whiteout)
  BY <1>6, <1>9
<1> HIDE DEF made
<1>12. /\ \A x \in DOMAIN u : ~IsPrefix(p, x) => after[x] = u[x]
       /\ \A x : x \in Hidden(after) => x = p \/ (x \in Hidden(u) /\ ~IsPrefix(p, x))
       /\ \A x \in Hidden(u) : ~IsPrefix(p, x) => x \in Hidden(after)
  BY <1>6, <1>8
<1>13. ApplyOverlayUpper(t, after) = Without(ApplyOverlayUpper(t, u), {p})
  BY <1>10, <1>11, <1>12, ErasedIsSeen
<1> QED  BY <1>7, <1>13 DEF after, top, k

\* A path that only the user's layer has goes from there.
LEMMA RemovalIsSeen ==
    ASSUME NEW t, NEW u, NEW p, IsConfig(t), IsUpper(u), IsPath(p),
           p \in DOMAIN ApplyOverlayUpper(t, u),
           p \in DOMAIN t => \E h \in Hidden(u) : IsStrictPrefix(h, p)
    PROVE  /\ IsUpper(Without(u, {p}))
           /\ ApplyOverlayUpper(t, Without(u, {p})) = Without(ApplyOverlayUpper(t, u), {p})
<1> DEFINE after == Without(u, {p})
<1>1. /\ Maps(after) /\ \A x : x \in DOMAIN after <=> x \in DOMAIN u /\ ~IsPrefix(p, x)
      /\ \A x \in DOMAIN after : after[x] = u[x]
  BY WithoutIs
<1> HIDE DEF after
<1>2. IsUpper(after)
  <2>1. ASSUME NEW x \in DOMAIN after
        PROVE  /\ IsPath(x) /\ after[x] \in Contents \cup Marks
               /\ \A a \in Ancestors(x) : a \in DOMAIN after /\ after[a] \in {Dir, Opaque}
    <3>1. \A a \in Ancestors(x) : a \in DOMAIN u /\ u[a] \in {Dir, Opaque} /\ ~IsPrefix(p, a)
      BY <1>1, UpperIs, AncestorIs, PrefixTransitive
    <3> QED  BY <1>1, <3>1, UpperIs DEF Marks
  <2> QED  BY <1>1, <2>1 DEF IsUpper, Maps
<1>3. \A x : x \in Hidden(after) <=> x \in Hidden(u) /\ ~IsPrefix(p, x)
  BY <1>1 DEF Hidden
<1> DEFINE made == {}
<1>4. /\ \A x \in made : x \in Ancestors(p) /\ x \notin DOMAIN u /\ after[x] = Dir
      /\ \A x : x \in DOMAIN after /\ after[x] # Whiteout <=>
                  x \in made \/ (x \in DOMAIN u /\ ~IsPrefix(p, x) /\ u[x] # Whiteout)
  BY <1>1
<1> HIDE DEF made
<1>5. ApplyOverlayUpper(t, after) = Without(ApplyOverlayUpper(t, u), {p})
  BY <1>1, <1>3, <1>4, ErasedIsSeen
<1> QED  BY <1>2, <1>5 DEF after

(***************************************************************************)
(* The inductive invariant: the trees are trees, what the user sees is the *)
(* overlay of the mounted image and the upper directory, and the rows name *)
(* paths.  An edit keeps the second because the kernel puts beside it in   *)
(* the upper directory what PutIsSeen, WhiteoutIsSeen and RemovalIsSeen    *)
(* say; a merge keeps the first because CanMerge refuses the others.       *)
(***************************************************************************)
RowsArePaths(rows) == rows # None => \A p \in rows.brought \cup rows.user : IsPath(p)

IInv ==
    /\ TypeOK
    /\ etc = ApplyOverlayUpper(lower, upper)
    /\ RowsArePaths(owned)
    /\ armed # None => RowsArePaths(armed.owned)

LEMMA EmptyUpper == IsUpper(Empty)
  BY DEF IsUpper, Empty

LEMMA NothingOver == ASSUME NEW t, IsConfig(t) PROVE ApplyOverlayUpper(t, Empty) = t
<1> DEFINE o == ApplyOverlayUpper(t, Empty)
<1>1. DOMAIN Empty = {} /\ Hidden(Empty) = {}
  BY DEF Empty, Hidden
<1>2. Maps(o) /\ (\A x : x \in DOMAIN o <=> x \in DOMAIN t) /\ \A x \in DOMAIN o : o[x] = t[x]
  BY <1>1, OverlayIs
<1>3. Maps(t)
  BY ConfigIs
<1> HIDE DEF o
<1>4. o = t
  BY <1>2, <1>3, SameMap
<1> QED  BY <1>4 DEF o

LEMMA Initially == Init => IInv
<1> SUFFICES ASSUME Init PROVE IInv
  OBVIOUS
<1>1. IsConfig(Shipped) /\ ApplyOverlayUpper(Shipped, Empty) = Shipped
  BY EtcAssumption, NothingOver
<1> QED  BY <1>1, EmptyUpper DEF Init, IInv, TypeOK, RowsArePaths

LEMMA CopiedUpIs ==
    ASSUME NEW p
    PROVE  /\ Maps(CopiedUp(p))
           /\ \A x : x \in DOMAIN CopiedUp(p) <=> x \in Ancestors(p) /\ x \notin DOMAIN upper
           /\ \A x \in DOMAIN CopiedUp(p) : CopiedUp(p)[x] = Dir
  BY DEF CopiedUp, Maps

\* The parent of p is a directory: so are all of the ancestors.
LEMMA UpTheTree ==
    ASSUME NEW t, NEW p, IsConfig(t), IsPath(p), IsDir(t, Parent(p))
    PROVE  \A a \in Ancestors(p) : a \in DOMAIN t /\ t[a] = Dir
<1>1. CASE Parent(p) = <<>> /\ Ancestors(p) = {}
  BY <1>1
<1>2. CASE /\ Parent(p) \in Ancestors(p) /\ Parent(p) # <<>>
           /\ \A b \in Ancestors(p) : b = Parent(p) \/ b \in Ancestors(Parent(p))
  <2>1. Parent(p) \in DOMAIN t /\ t[Parent(p)] = Dir
    BY <1>2 DEF IsDir
  <2> QED  BY <1>2, <2>1, ConfigIs
<1> QED  BY <1>1, <1>2, ParentIs

\* What an edit that puts v at p makes of the two trees.
LEMMA Puts ==
    ASSUME NEW p, IsPath(p), NEW v, v \in Contents \/ v = Opaque, IInv,
           \A a \in Ancestors(p) : a \in DOMAIN etc /\ etc[a] = Dir,
           ~(p \in DOMAIN etc /\ etc[p] = Dir)
    PROVE  LET after == At(p, v) ++ CopiedUp(p) ++ upper
               seen  == At(p, IF v = Opaque THEN Dir ELSE v) ++ etc
           IN  IsUpper(after) /\ seen = ApplyOverlayUpper(lower, after) /\ IsConfig(seen)
<1> DEFINE d == CopiedUp(p)
           after == At(p, v) ++ d ++ upper
           seen == At(p, IF v = Opaque THEN Dir ELSE v) ++ etc
<1>1. IsConfig(lower) /\ IsUpper(upper) /\ etc = ApplyOverlayUpper(lower, upper)
  BY DEF IInv, TypeOK
<1>2. Maps(d) /\ (\A x : x \in DOMAIN d <=> x \in Ancestors(p) /\ x \notin DOMAIN upper)
      /\ \A x \in DOMAIN d : d[x] = Dir
  BY CopiedUpIs
<1> HIDE DEF d
<1>3. IsUpper(after) /\ ApplyOverlayUpper(lower, after) = seen
  BY <1>1, <1>2, PutIsSeen
<1>4. IsConfig(seen)
  <2> HIDE DEF after, seen
  <2>1. IsConfig(ApplyOverlayUpper(lower, after))
    BY <1>1, <1>3, OverlayConfig
  <2> QED  BY <1>3, <2>1
<1> QED  BY <1>3, <1>4 DEF d

LEMMA LiveConfig == IInv => IsConfig(Live)
  BY OverlayConfig DEF IInv, TypeOK, Live

LEMMA EditKeeps ==
    ASSUME IInv, Edit, IsUpper(upper'), IsConfig(etc'), etc' = ApplyOverlayUpper(lower, upper')
    PROVE  IInv'
  BY DEF IInv, TypeOK, Edit

LEMMA WriteKeeps ==
    ASSUME IInv, NEW p \in Names, NEW file \in Files, Write(p, file)
    PROVE  IInv'
<1>1. IsPath(p) /\ file \in Contents /\ file # Opaque
  BY EtcAssumption, NoContent DEF Contents
<1>2. IsConfig(etc)
  BY DEF IInv, TypeOK
<1>3. \A a \in Ancestors(p) : a \in DOMAIN etc /\ etc[a] = Dir
  BY <1>1, <1>2, UpTheTree DEF Write
<1>4. ~(p \in DOMAIN etc /\ etc[p] = Dir)
  BY DEF Write, IsDir
<1> DEFINE after == At(p, file) ++ CopiedUp(p) ++ upper
           seen == At(p, file) ++ etc
<1>5. IsUpper(after) /\ seen = ApplyOverlayUpper(lower, after) /\ IsConfig(seen)
  BY <1>1, <1>3, <1>4, Puts
<1>6. upper' = after /\ etc' = seen /\ Edit
  BY DEF Write
<1> HIDE DEF after, seen
<1> QED  BY <1>5, <1>6, EditKeeps

LEMMA MakeDirKeeps ==
    ASSUME IInv, NEW p \in Names, MakeDir(p)
    PROVE  IInv'
<1>1. IsPath(p) /\ IsConfig(etc)
  BY EtcAssumption DEF IInv, TypeOK
<1>2. \A a \in Ancestors(p) : a \in DOMAIN etc /\ etc[a] = Dir
  BY <1>1, UpTheTree DEF MakeDir
<1> DEFINE after == At(p, Opaque) ++ CopiedUp(p) ++ upper
           seen == At(p, Dir) ++ etc
<1>3. IsUpper(after) /\ seen = ApplyOverlayUpper(lower, after) /\ IsConfig(seen)
  BY <1>1, <1>2, Puts DEF MakeDir
<1>4. upper' = after /\ etc' = seen /\ Edit
  BY DEF MakeDir
<1> HIDE DEF after, seen
<1> QED  BY <1>3, <1>4, EditKeeps

LEMMA DeleteKeeps ==
    ASSUME IInv, NEW p \in Names, Delete(p)
    PROVE  IInv'
<1>1. /\ IsPath(p) /\ IsConfig(lower) /\ IsUpper(upper) /\ IsConfig(etc)
      /\ etc = ApplyOverlayUpper(lower, upper) /\ p \in DOMAIN etc
  BY EtcAssumption DEF IInv, TypeOK, Delete
<1> DEFINE d == CopiedUp(p)
           left == Without(upper, {p})
           after == At(p, Whiteout) ++ d ++ left
           seen == Without(etc, {p})
<1>2. Maps(d) /\ (\A x : x \in DOMAIN d <=> x \in Ancestors(p) /\ x \notin DOMAIN upper)
      /\ \A x \in DOMAIN d : d[x] = Dir
  BY CopiedUpIs
<1>3. IsConfig(seen)
  BY <1>1, WithoutConfig
<1>4. Edit /\ etc' = seen /\ upper' = IF LowerHas(p) THEN after ELSE left
  BY DEF Delete
<1>5. CASE LowerHas(p)
  <2> HIDE DEF d
  <2>1. IsUpper(after) /\ ApplyOverlayUpper(lower, after) = seen
    BY <1>1, <1>2, WhiteoutIsSeen
  <2> HIDE DEF after, seen
  <2> QED  BY <1>3, <1>4, <1>5, <2>1, EditKeeps
<1>6. CASE ~LowerHas(p)
  <2>1. p \in DOMAIN lower => \E h \in Hidden(upper) : IsStrictPrefix(h, p)
    BY <1>6 DEF LowerHas
  <2>2. IsUpper(left) /\ ApplyOverlayUpper(lower, left) = seen
    BY <1>1, <2>1, RemovalIsSeen
  <2> HIDE DEF left, seen
  <2> QED  BY <1>3, <1>4, <1>6, <2>2, EditKeeps
<1> QED  BY <1>5, <1>6

LEMMA BootKeeps == ASSUME IInv, Boot PROVE IInv'
<1>1. IsConfig(base') /\ IsUpper(upper') /\ RowsArePaths(owned')
  BY EmptyUpper DEF IInv, TypeOK, Boot
<1>2. /\ lower' = base' /\ etc' = ApplyOverlayUpper(base', upper') /\ armed' = None
  BY DEF Boot
<1>3. IsConfig(ApplyOverlayUpper(base', upper'))
  BY <1>1, OverlayConfig
<1> QED  BY <1>1, <1>2, <1>3 DEF IInv, TypeOK

(***************************************************************************)
(* Commands.                                                               *)
(***************************************************************************)

LEMMA MergeKeeps ==
    ASSUME IInv, NEW new, IsConfig(new), NEW rows, RowsArePaths(rows), NEW allow, NEW command,
           Merge(new, rows, allow, command)
    PROVE  IInv'
<1> DEFINE config == MergeConfig(base, new, Live, allow)
<1>1. IsConfig(base) /\ IsConfig(Live) /\ CanMerge(base, new, Live, allow)
  BY LiveConfig DEF IInv, TypeOK, Merge, CanBuild
<1>2. IsConfig(config)
  BY <1>1, MergedConfig
<1> HIDE DEF config
<1>3. armed' = Deploy(config, rows, command)
  BY DEF Merge, config
<1>4. armed'.config = config /\ armed'.owned = rows
  BY <1>3 DEF Deploy
<1>5. UNCHANGED <<lower, base, upper, etc, owned>>
  BY DEF Merge, Command
<1> QED  BY <1>2, <1>4, <1>5 DEF IInv, TypeOK

LEMMA FailsKeeps == ASSUME IInv, NEW why, Fails(why) PROVE IInv'
  BY DEF IInv, TypeOK, Fails, Command

LEMMA RowsOfPaths == ASSUME NEW release, IsConfig(release) PROVE RowsArePaths(RowsOf(release))
<1>1. \A p \in Leaves(release) : IsPath(p)
  BY ConfigIs
<1> QED  BY <1>1 DEF RowsArePaths, RowsOf, Owned

LEMMA InstallKeeps ==
    ASSUME IInv, NEW release \in Releases, NEW allow \in BOOLEAN, Install(release, allow)
    PROVE  IInv'
<1> DEFINE new == ApplyTreeOverlay(base, release)
<1>1. IsConfig(release) /\ IsConfig(base)
  BY EtcAssumption DEF IInv, TypeOK
<1>2. IsConfig(new) /\ RowsArePaths(RowsOf(release))
  BY <1>1, TreeOverlayConfig, RowsOfPaths
<1>3. \/ Merge(new, RowsOf(release), allow, "install")
      \/ Fails(~CanOverlay(base, release) \/ ~CanBuild(new, allow))
  BY DEF Install
<1> HIDE DEF new
<1> QED  BY <1>2, <1>3, MergeKeeps, FailsKeeps

LEMMA UpdateKeeps ==
    ASSUME IInv, NEW release \in Releases, NEW allow \in BOOLEAN, Update(release, allow)
    PROVE  IInv'
<1> DEFINE rest == Without(base, owned.brought)
           new == ApplyTreeOverlay(rest, release)
<1>1. IsConfig(release) /\ IsConfig(base) /\ \A p \in owned.brought : IsPath(p)
  BY EtcAssumption DEF IInv, TypeOK, Update, RowsArePaths
<1>2. IsConfig(rest)
  BY <1>1, WithoutConfig
<1>3. Merge(new, RowsOf(release), allow, "update") \/ \E why \in BOOLEAN : Fails(why)
  BY DEF Update, Fails
<1> HIDE DEF rest
<1>4. IsConfig(new) /\ RowsArePaths(RowsOf(release))
  BY <1>1, <1>2, TreeOverlayConfig, RowsOfPaths
<1> HIDE DEF new
<1> QED  BY <1>3, <1>4, MergeKeeps, FailsKeeps

LEMMA UninstallKeeps ==
    ASSUME IInv, NEW purge \in BOOLEAN, Uninstall(purge)
    PROVE  IInv'
<1> DEFINE gone == owned.brought \cup IF purge THEN owned.user ELSE {}
           new == Without(base, gone)
<1>1. IsConfig(base) /\ \A p \in gone : IsPath(p)
  BY DEF IInv, TypeOK, Uninstall, RowsArePaths
<1>2. Merge(new, None, TRUE, "uninstall") \/ Fails(~CanBuild(new, TRUE))
  BY DEF Uninstall
<1> HIDE DEF gone
<1>3. IsConfig(new) /\ RowsArePaths(None)
  BY <1>1, WithoutConfig DEF RowsArePaths
<1> HIDE DEF new
<1> QED  BY <1>2, <1>3, MergeKeeps, FailsKeeps

LEMMA CommitKeeps == ASSUME IInv, Commit PROVE IInv'
  BY LiveConfig DEF IInv, TypeOK, Commit

\* What files does to the two trees, and what it arms.
LEMMA FilesKeeps ==
    ASSUME IInv, NEW rows, RowsArePaths(rows), Command, Inherit(rows) \/ FailsLater,
           IsUpper(upper'), IsConfig(etc'), etc' = ApplyOverlayUpper(lower, upper')
    PROVE  IInv'
<1>1. UNCHANGED <<lower, base, owned>>
  BY DEF Command
<1>2. CASE Inherit(rows)
  <2>1. armed'.config = base /\ armed'.owned = rows
    BY <1>2 DEF Inherit, Deploy
  <2> QED  BY <1>1, <2>1 DEF IInv, TypeOK
<1>3. CASE FailsLater
  BY <1>1, <1>3 DEF IInv, TypeOK, FailsLater
<1> QED  BY <1>2, <1>3

LEMMA AddFileKeeps == ASSUME IInv, NEW p \in Names, AddFile(p) PROVE IInv'
<1> DEFINE v == CopiedFrom(p)
           after == At(p, v) ++ CopiedUp(p) ++ upper
           seen == At(p, v) ++ etc
           rows == Owned(owned.brought \ {p}, owned.user \cup {p}, owned.from)
<1>1. IsPath(p) /\ IsConfig(etc) /\ p \in DOMAIN etc /\ etc[p] \in Contents
  BY EtcAssumption, ConfigIs DEF IInv, TypeOK, AddFile
<1>2. v \in Contents
  BY <1>1 DEF CopiedFrom, Contents, Files, Leaf
<1>3. \A a \in Ancestors(p) : a \in DOMAIN etc /\ etc[a] = Dir
  BY <1>1, ConfigIs
<1>4. v # Opaque /\ etc[p] # Dir
  BY <1>1, <1>2, NoContent
<1>5. upper' = after /\ etc' = seen /\ Command /\ (Inherit(rows) \/ FailsLater)
  BY DEF AddFile
<1>6. RowsArePaths(rows)
  BY <1>1 DEF RowsArePaths, Owned, IInv, AddFile
<1> HIDE DEF v, rows
<1>7. IsUpper(after) /\ seen = ApplyOverlayUpper(lower, after) /\ IsConfig(seen)
  BY <1>1, <1>2, <1>3, <1>4, Puts
<1> HIDE DEF after, seen
<1> QED  BY <1>5, <1>6, <1>7, FilesKeeps

LEMMA RemoveFileKeeps == ASSUME IInv, NEW p \in Names, RemoveFile(p) PROVE IInv'
<1> DEFINE after == Restrict(upper, DOMAIN upper \ {p})
           rows == Owned(owned.brought, owned.user \ {p}, owned.from)
<1>1. IsUpper(upper) /\ p \in DOMAIN upper /\ upper[p] \notin {Dir, Opaque} /\ IsConfig(lower)
  BY DEF IInv, TypeOK, RemoveFile
<1>2. Maps(after) /\ DOMAIN after = DOMAIN upper \ {p} /\ \A x \in DOMAIN after : after[x] = upper[x]
  BY DEF Restrict, Maps
<1>3. upper' = after /\ etc' = ApplyOverlayUpper(lower, upper') /\ Command /\ (Inherit(rows) \/ FailsLater)
  BY DEF RemoveFile
<1>4. RowsArePaths(rows)
  BY DEF RowsArePaths, Owned, IInv, RemoveFile
<1> HIDE DEF after, rows
<1>5. IsUpper(after)
  <2>1. ASSUME NEW x \in DOMAIN after
        PROVE  /\ IsPath(x) /\ after[x] \in Contents \cup Marks
               /\ \A a \in Ancestors(x) : a \in DOMAIN after /\ after[a] \in {Dir, Opaque}
    BY <1>1, <1>2, UpperIs DEF Marks
  <2> QED  BY <1>2, <2>1 DEF IsUpper, Maps
<1>6. IsConfig(ApplyOverlayUpper(lower, after))
  BY <1>1, <1>5, OverlayConfig
<1> QED  BY <1>3, <1>4, <1>5, <1>6, FilesKeeps

LEMMA StepKeeps == IInv /\ [Next]_vars => IInv'
<1> SUFFICES ASSUME IInv, [Next]_vars PROVE IInv'
  OBVIOUS
<1>1. CASE User
  BY <1>1, WriteKeeps, MakeDirKeeps, DeleteKeeps, BootKeeps DEF User
<1>2. CASE Manager
  BY <1>2, InstallKeeps, UpdateKeeps, UninstallKeeps, CommitKeeps, AddFileKeeps, RemoveFileKeeps DEF Manager
<1>3. CASE UNCHANGED vars
  BY <1>3 DEF vars, IInv, TypeOK
<1> QED  BY <1>1, <1>2, <1>3 DEF Next

LEMMA Invariant == Spec => []IInv
  BY Initially, StepKeeps, PTL DEF Spec

\* The trees stay trees: no sequence of edits, merges, commits and boots, with
\* any packages, leaves an entry below a file or below nothing.
THEOREM TypeCorrect == Spec => []TypeOK
<1>1. IInv => TypeOK
  BY DEF IInv
<1> QED  BY <1>1, Invariant, PTL

\* What apply_overlay_upper rebuilds is what the user sees, whatever the edits.
THEOREM LiveIsSeen == Spec => []LiveIsWhatIsSeen
<1>1. IInv => LiveIsWhatIsSeen
  BY DEF IInv, LiveIsWhatIsSeen, Live
<1> QED  BY <1>1, Invariant, PTL

LEMMA MergeCarries ==
    ASSUME IInv, lower = base, NEW new, NEW rows, NEW allow, NEW command,
           Merge(new, rows, allow, command), NEW p, Edited(p)
    PROVE  p \in DOMAIN armed'.config /\ armed'.config[p] = etc[p]
<1>1. Live = etc
  BY DEF IInv, Live
<1>2. p \in Come(TreeDiff(base, Live))
  BY <1>1, DiffIs DEF Edited, SameContent
<1> DEFINE config == MergeConfig(base, new, Live, allow)
<1>3. p \in DOMAIN config /\ config[p] = Live[p]
  BY <1>2, MergeIs
<1> HIDE DEF config
<1>4. armed'.config = config
  BY DEF Merge, Deploy, config
<1> QED  BY <1>1, <1>3, <1>4

\* Every file the user has created or changed is in what a merge arms, whatever
\* the packages bring and however the conflicts are treated.
THEOREM EditsAreKept == Spec => EditsSurvive
<1> DEFINE Kept == lower = base /\ Merges =>
                     \A p \in Names : Edited(p) => p \in DOMAIN armed'.config /\ armed'.config[p] = etc[p]
<1>1. IInv /\ [Next]_vars => [Kept]_vars
  <2> SUFFICES ASSUME IInv, Next, lower = base, Merges, NEW p \in Names, Edited(p)
               PROVE  p \in DOMAIN armed'.config /\ armed'.config[p] = etc[p]
    OBVIOUS
  <2>1. CASE User
    BY <2>1 DEF User, Merges, Write, MakeDir, Delete, Edit, Boot
  <2>2. CASE Manager
    <3>1. CASE \E q \in Names : AddFile(q) \/ RemoveFile(q)
      BY <3>1 DEF Merges, AddFile, RemoveFile, Inherit, FailsLater, Deploy
    <3>2. CASE Commit
      BY <3>2 DEF Merges, Commit
    <3>3. CASE \E new, rows, allow, command : Merge(new, rows, allow, command)
      BY <3>3, MergeCarries
    <3>4. CASE \E why : Fails(why)
      BY <3>4 DEF Merges, Fails
    <3> QED  BY <2>2, <3>1, <3>2, <3>3, <3>4 DEF Manager, Install, Update, Uninstall
  <2> QED  BY <2>1, <2>2 DEF Next
<1> QED  BY <1>1, Invariant, PTL DEF Spec, EditsSurvive

----------------------------------------------------------------------------
(***************************************************************************)
(* What the user has deleted, and what the package brings.                 *)
(***************************************************************************)

\* The new tree has the release's files, and others only as they were.
Brings(new, release) ==
    /\ \A x \in Leaves(release) : x \in DOMAIN new /\ new[x] = release[x]
    /\ \A x \in Leaves(new) \ Leaves(release) : x \in Leaves(base) /\ new[x] = base[x]

LEMMA OverlayBrings ==
    ASSUME NEW t, NEW release, \A x \in Leaves(t) : x \in Leaves(base) /\ t[x] = base[x]
    PROVE  Brings(ApplyTreeOverlay(t, release), release)
<1> DEFINE rest == Without(t, Leaves(release))
           new  == ApplyTreeOverlay(t, release)
<1>1. \A x \in DOMAIN rest : x \in DOMAIN t /\ rest[x] = t[x]
  BY WithoutIs
<1>2. new = release ++ rest
  BY DEF ApplyTreeOverlay
<1> HIDE DEF rest, new
<1>3. /\ \A x : x \in DOMAIN new <=> x \in DOMAIN release \/ x \in DOMAIN rest
      /\ \A x \in DOMAIN release : new[x] = release[x]
      /\ \A x \in DOMAIN rest \ DOMAIN release : new[x] = rest[x]
  BY <1>2, OverIs
<1>4. \A x \in Leaves(release) : x \in DOMAIN new /\ new[x] = release[x]
  BY <1>3 DEF Leaves
<1>5. ASSUME NEW x \in Leaves(new), x \notin Leaves(release) PROVE x \in Leaves(base) /\ new[x] = base[x]
  <2>1. x \notin DOMAIN release
    BY <1>3, <1>5 DEF Leaves
  <2>2. x \in DOMAIN rest /\ new[x] = t[x]
    BY <1>1, <1>3, <2>1 DEF Leaves
  <2>3. x \in Leaves(t)
    BY <1>1, <2>2 DEF Leaves
  <2> QED  BY <2>2, <2>3
<1>6. Brings(new, release)
  BY <1>4, <1>5 DEF Brings
<1> QED  BY <1>6 DEF new

\* Whoever merges reports the conflicts, and an uninstall has none; the others
\* bring a release.
LEMMA Reports ==
    ASSUME IInv, Next, Merges
    PROVE  \E new, rows, allow, command :
              /\ IsConfig(new)
              /\ Merge(new, rows, allow, command)
              /\ reported' = Conflicts(base, new, Live)
              /\ armed'.owned # None =>
                   armed'.owned.from \in Releases /\ Brings(new, armed'.owned.from)
<1>1. CASE User
  BY <1>1 DEF User, Merges, Write, MakeDir, Delete, Edit, Boot
<1>2. CASE \E q \in Names : AddFile(q) \/ RemoveFile(q)
  BY <1>2 DEF Merges, AddFile, RemoveFile, Inherit, FailsLater, Deploy
<1>3. CASE Commit
  BY <1>3 DEF Merges, Commit
<1>4. ~\E why : Fails(why)
  BY DEF Merges, Fails
<1>5. CASE \E release \in Releases, allow \in BOOLEAN : Install(release, allow)
  <2>1. PICK release \in Releases, allow \in BOOLEAN : Install(release, allow)
    BY <1>5
  <2> DEFINE new == ApplyTreeOverlay(base, release)
  <2>2. IsConfig(new)
    BY EtcAssumption, TreeOverlayConfig DEF IInv, TypeOK
  <2>3. Merge(new, RowsOf(release), allow, "install") /\ reported' = Conflicts(base, new, Live)
    BY <1>4, <2>1 DEF Install
  <2>4. Brings(new, release)
    BY OverlayBrings
  <2> HIDE DEF new
  <2>5. armed'.owned.from = release
    BY <2>3 DEF Merge, Deploy, RowsOf, Owned
  <2> QED  BY <2>2, <2>3, <2>4, <2>5
<1>6. CASE \E release \in Releases, allow \in BOOLEAN : Update(release, allow)
  <2>1. PICK release \in Releases, allow \in BOOLEAN : Update(release, allow)
    BY <1>6
  <2> DEFINE rest == Without(base, owned.brought)
             new  == ApplyTreeOverlay(rest, release)
  <2>2. IsConfig(rest)
    BY <2>1, WithoutConfig DEF IInv, TypeOK, Update, RowsArePaths
  <2>3. IsConfig(new)
    BY <2>2, EtcAssumption, TreeOverlayConfig
  <2>4. Merge(new, RowsOf(release), allow, "update") /\ reported' = Conflicts(base, new, Live)
    BY <1>4, <2>1 DEF Update
  <2>5. \A x \in Leaves(rest) : x \in Leaves(base) /\ rest[x] = base[x]
    BY WithoutIs DEF Leaves
  <2>6. Brings(new, release)
    BY <2>5, OverlayBrings
  <2> HIDE DEF new
  <2>7. armed'.owned.from = release
    BY <2>4 DEF Merge, Deploy, RowsOf, Owned
  <2> QED  BY <2>3, <2>4, <2>6, <2>7
<1>7. CASE \E purge \in BOOLEAN : Uninstall(purge)
  <2>1. PICK purge \in BOOLEAN : Uninstall(purge)
    BY <1>7
  <2> DEFINE gone == owned.brought \cup IF purge THEN owned.user ELSE {}
             new  == Without(base, gone)
  <2>2. \A q \in gone : IsPath(q)
    BY <2>1 DEF IInv, Uninstall, RowsArePaths
  <2>3. Merge(new, None, TRUE, "uninstall") /\ reported' = {}
    BY <1>4, <2>1 DEF Uninstall
  <2> HIDE DEF gone
  <2>4. IsConfig(new)
    BY <2>2, WithoutConfig DEF IInv, TypeOK
  <2>5. \A x \in Leaves(new) : x \in Leaves(base) /\ new[x] = base[x]
    BY WithoutIs DEF Leaves
  <2> HIDE DEF new
  <2>6. Come(TreeDiff(base, new)) = {}
    BY <2>5, DiffIs DEF SameContent
  <2>7. Conflicts(base, new, Live) = {}
    BY <2>6 DEF Conflicts
  <2>8. armed'.owned = None
    BY <2>3 DEF Merge, Deploy
  <2> QED  BY <2>3, <2>4, <2>7, <2>8
<1> QED  BY <1>1, <1>2, <1>3, <1>5, <1>6, <1>7 DEF Next, Manager

\* A merge leaves no file at a path whose file the user has deleted, but one
\* of a conflict.
LEMMA MergeLeavesOut ==
    ASSUME IInv, lower = base, NEW new, NEW rows, NEW allow, NEW command,
           Merge(new, rows, allow, command), NEW p, Deleted(p), p \in Leaves(armed'.config)
    PROVE  \/ p \in Conflicts(base, new, Live)
           \/ \E q \in Conflicts(base, new, Live) : p = Sidecar(q)
<1> DEFINE config == MergeConfig(base, new, Live, allow)
           mine   == Come(TreeDiff(base, Live))
           fresh  == Come(TreeDiff(base, new))
           sides  == Sidecars(base, new, Live, allow)
           taken  == TakenAway(base, new, Live)
<1>1. Live = etc
  BY DEF IInv, Live
<1>2. armed'.config = config
  BY DEF Merge, Deploy
<1>3. p \in Leaves(base) /\ p \notin Leaves(Live)
  BY <1>1 DEF Deleted
<1>4. /\ p \notin mine
      /\ p \in DOMAIN TreeDiff(base, Live)
      /\ p \in Gone(TreeDiff(base, Live))
  BY <1>3, DiffIs
<1>5. p \in DOMAIN config /\ config[p] \notin Marks
  BY <1>2 DEF Leaves
<1>6. /\ \A q \in mine \cup taken : ~IsPrefix(q, p)
      /\ p \notin sides => p \in DOMAIN new /\ config[p] = new[p]
  BY <1>4, <1>5, MergeIs
<1>7. CASE p \in sides
  <2>1. PICK q \in mine \cap fresh : p = Sidecar(q)
    BY <1>7 DEF Sidecars
  <2>2. q \in Conflicts(base, new, Live)
    BY <2>1, DiffIs DEF Conflicts
  <2> QED  BY <2>1, <2>2
<1>8. CASE p \notin sides
  <2>1. p \in Leaves(new)
    BY <1>5, <1>6, <1>8 DEF Leaves
  <2>2. p \notin taken
    <3>1. IsPath(p)
      BY <1>3, ConfigIs DEF IInv, TypeOK
    <3> QED  BY <1>6, <3>1, PrefixReflexive
  <2>3. p \in DOMAIN TreeDiff(base, new)
    BY <1>4, <2>2 DEF TakenAway
  <2>4. p \in fresh
    BY <2>1, <2>3, DiffIs
  <2> QED  BY <1>4, <2>4 DEF Conflicts
<1> QED  BY <1>7, <1>8

\* Nothing the user has deleted comes back in silence, whatever the packages
\* bring and however the conflicts are treated.
THEOREM DeletionsStay == Spec => DeletionsSurvive
<1> DEFINE Kept == lower = base /\ Merges =>
                     \A p \in Names : Deleted(p) /\ p \in Leaves(armed'.config) =>
                        p \in reported' \/ \E q \in reported' : p = Sidecar(q)
<1>1. IInv /\ [Next]_vars => [Kept]_vars
  <2> SUFFICES ASSUME IInv, Next, lower = base, Merges, NEW p \in Names, Deleted(p),
                      p \in Leaves(armed'.config)
               PROVE  p \in reported' \/ \E q \in reported' : p = Sidecar(q)
    OBVIOUS
  <2> QED  BY Reports, MergeLeavesOut
<1> QED  BY <1>1, Invariant, PTL DEF Spec, DeletionsSurvive

\* No package ships a file under the name that a conflict takes.
NoneShipsSidecars == \A r \in Releases : \A p \in Leaves(r) : Sidecar(p) \notin DOMAIN r

\* What a merge does with a file that comes: it is there, or it is reported, or
\* the user's file, directory or deletion goes before it.
LEMMA MergeBrings ==
    ASSUME IInv, lower = base, NoneShipsSidecars,
           NEW new, IsConfig(new), NEW release \in Releases, Brings(new, release),
           NEW rows, NEW allow, NEW command, Merge(new, rows, allow, command),
           NEW p \in Leaves(release)
    PROVE  \/ p \in Leaves(armed'.config) /\ SameContent(armed'.config[p], release[p])
           \/ p \in Conflicts(base, new, Live)
           \/ p \in Leaves(base) /\ SameContent(base[p], release[p])
           \/ \E q \in Ancestors(p) : q \in Leaves(etc)
<1> DEFINE config == MergeConfig(base, new, Live, allow)
           mine   == Come(TreeDiff(base, Live))
           fresh  == Come(TreeDiff(base, new))
           sides  == Sidecars(base, new, Live, allow)
           taken  == TakenAway(base, new, Live)
<1>1. Live = etc /\ IsConfig(base) /\ IsConfig(Live) /\ IsConfig(release)
  BY LiveConfig, EtcAssumption DEF IInv, TypeOK, Live
<1>2. armed'.config = config
  BY DEF Merge, Deploy
<1>3. /\ p \in DOMAIN release /\ IsPath(p)
      /\ p \in Leaves(new) /\ new[p] = release[p]
      /\ \A a \in Ancestors(p) : a \in DOMAIN new /\ new[a] = Dir
      /\ \A a \in Ancestors(p) : a \in DOMAIN release
  BY <1>1, ConfigIs DEF Brings, Leaves
<1>4. ASSUME p \in Leaves(base) => ~SameContent(base[p], release[p]) PROVE p \in fresh
  BY <1>3, <1>4, DiffIs
\* No file of a conflict is at p or on the way to it.
<1>5. ASSUME NEW q \in sides, IsPrefix(q, p) PROVE FALSE
  <2>1. PICK o \in mine \cap fresh : q = Sidecar(o)
    BY DEF Sidecars
  <2>2. o \in Leaves(release)
    BY DiffIs DEF Brings, SameContent
  <2>3. IsPath(q)
    BY <1>1, <2>1, <2>2, SidecarIs, ConfigIs DEF Leaves
  <2>4. q = p \/ q \in Ancestors(p)
    BY <1>3, <1>5, <2>3, PrefixIsAncestor
  <2> QED  BY <1>3, <2>1, <2>2, <2>4 DEF NoneShipsSidecars
<1>6. p \notin sides
  BY <1>3, <1>5, PrefixReflexive
<1>7. CASE p \in mine
  <2>1. p \in DOMAIN TreeDiff(base, Live)
    BY <1>7, DiffIs
  <2> QED  BY <1>4, <2>1 DEF Conflicts
<1>8. CASE p \notin mine /\ p \in DOMAIN config
  <2>1. config[p] = new[p]
    BY <1>6, <1>8, MergeIs
  <2> QED  BY <1>2, <1>3, <1>8, <2>1 DEF Leaves, SameContent
<1>9. CASE p \notin mine /\ p \notin DOMAIN config
  <2>1. PICK q \in mine \cup taken : IsPrefix(q, p)
    BY <1>3, <1>5, <1>9, MergeIs DEF Leaves
  <2>2. CASE q \in mine
    <3>1. q \in Leaves(etc) /\ IsPath(q)
      BY <1>1, <2>2, DiffIs, ConfigIs
    <3>2. q # p
      BY <1>9, <2>2
    <3> QED  BY <1>3, <2>1, <3>1, <3>2, PrefixIsAncestor
  <2>3. CASE q \in taken
    <3>1. q \in Leaves(base) /\ IsPath(q) /\ q \notin DOMAIN TreeDiff(base, new)
      BY <1>1, <2>3, DiffIs, ConfigIs DEF TakenAway
    <3>2. q \in Leaves(new) /\ SameContent(base[q], new[q])
      BY <3>1, DiffIs
    <3>3. new[q] # Dir
      BY <3>2 DEF Leaves, Marks
    <3>4. q = p
      BY <1>3, <2>1, <3>1, <3>3, PrefixIsAncestor
    <3> QED  BY <1>3, <3>1, <3>2, <3>4
  <2> QED  BY <2>1, <2>2, <2>3
<1> QED  BY <1>7, <1>8, <1>9

\* No file of a release is lost in silence by an install or an update, if no
\* package ships files under the names of conflicts.
THEOREM DefaultsCome == NoneShipsSidecars => (Spec => DefaultsArrive)
<1> DEFINE Came == lower = base /\ Merges /\ armed'.owned # None =>
                     \A p \in Leaves(armed'.owned.from) :
                        \/ p \in Leaves(armed'.config) /\ SameContent(armed'.config[p], armed'.owned.from[p])
                        \/ p \in reported'
                        \/ p \in Leaves(base) /\ SameContent(base[p], armed'.owned.from[p])
                        \/ \E q \in Ancestors(p) : q \in Leaves(etc)
<1> SUFFICES ASSUME NoneShipsSidecars PROVE Spec => DefaultsArrive
  OBVIOUS
<1>1. IInv /\ [Next]_vars => [Came]_vars
  <2> SUFFICES ASSUME IInv, Next, lower = base, Merges, armed'.owned # None,
                      NEW p \in Leaves(armed'.owned.from)
               PROVE  \/ p \in Leaves(armed'.config) /\ SameContent(armed'.config[p], armed'.owned.from[p])
                      \/ p \in reported'
                      \/ p \in Leaves(base) /\ SameContent(base[p], armed'.owned.from[p])
                      \/ \E q \in Ancestors(p) : q \in Leaves(etc)
    OBVIOUS
  <2> DEFINE release == armed'.owned.from
  <2>1. PICK new, rows, allow, command :
           /\ IsConfig(new)
           /\ Merge(new, rows, allow, command)
           /\ reported' = Conflicts(base, new, Live)
           /\ release \in Releases /\ Brings(new, release)
    BY Reports
  <2> HIDE DEF release
  <2>2. p \in Leaves(release)
    BY DEF release
  <2>3. \/ p \in Leaves(armed'.config) /\ SameContent(armed'.config[p], release[p])
        \/ p \in Conflicts(base, new, Live)
        \/ p \in Leaves(base) /\ SameContent(base[p], release[p])
        \/ \E q \in Ancestors(p) : q \in Leaves(etc)
    BY <2>1, <2>2, MergeBrings
  <2> QED  BY <2>1, <2>3 DEF release
<1> QED  BY <1>1, Invariant, PTL DEF Spec, DefaultsArrive
=============================================================================
