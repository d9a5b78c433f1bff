----------------------------- MODULE TreesProofs -----------------------------
(***************************************************************************)
(* Lemmas about paths and trees: what the operations of Trees make of a    *)
(* well-formed tree.                                                       *)
(***************************************************************************)
EXTENDS Trees, TLAPS

(***************************************************************************)
(* Paths.                                                                  *)
(***************************************************************************)

LEMMA InItsRange ==
    ASSUME NEW n \in Nat, NEW f, f = [i \in 1 .. n |-> f[i]]
    PROVE  f \in Seq(Range(f))
<1>1. DOMAIN f = 1 .. n /\ \A i \in 1 .. n : f[i] \in Range(f)
  BY DEF Range
<1>2. f \in [1 .. n -> Range(f)]
  BY <1>1
<1> QED  BY <1>2

LEMMA PathIs ==
    ASSUME NEW p, IsPath(p)
    PROVE  /\ Len(p) \in Nat \ {0} /\ DOMAIN p = 1 .. Len(p)
           /\ p = [i \in 1 .. Len(p) |-> p[i]]
  BY DEF IsPath

LEMMA SubPathIs ==
    ASSUME NEW p, IsPath(p), NEW n \in 1 .. Len(p)
    PROVE  /\ IsPath(SubSeq(p, 1, n)) /\ Len(SubSeq(p, 1, n)) = n
           /\ \A i \in 1 .. n : SubSeq(p, 1, n)[i] = p[i]
<1> DEFINE s == SubSeq(p, 1, n)
<1>1. p \in Seq(Range(p)) /\ Len(p) \in Nat \ {0}
  BY PathIs DEF IsPath
<1>2. s \in Seq(Range(p)) /\ Len(s) = n /\ \A i \in 1 .. n : s[i] = p[i]
  BY <1>1
<1>3. s = [i \in 1 .. n |-> s[i]] /\ s # <<>> /\ DOMAIN s = 1 .. n
  BY <1>1, <1>2
<1>4. s \in Seq(Range(s))
  <2>1. n \in Nat
    BY <1>1
  <2> HIDE DEF s
  <2> QED  BY <2>1, <1>3, InItsRange
<1> QED  BY <1>2, <1>3, <1>4 DEF IsPath

LEMMA PathsEqual ==
    ASSUME NEW p, NEW q, IsPath(p), IsPath(q), Len(p) = Len(q),
           \A i \in 1 .. Len(p) : p[i] = q[i]
    PROVE  p = q
  BY PathIs

LEMMA PrefixIs ==
    ASSUME NEW p, NEW q, IsPath(p), IsPath(q)
    PROVE  IsPrefix(p, q) <=> Len(p) <= Len(q) /\ \A i \in 1 .. Len(p) : p[i] = q[i]
<1>1. Len(p) \in Nat \ {0} /\ Len(q) \in Nat \ {0}
  BY PathIs
<1>2. CASE Len(p) <= Len(q)
  <2> DEFINE a == SubSeq(p, 1, Len(p))  b == SubSeq(q, 1, Len(p))
  <2>1. /\ IsPath(a) /\ Len(a) = Len(p) /\ \A i \in 1 .. Len(p) : a[i] = p[i]
        /\ IsPath(b) /\ Len(b) = Len(p) /\ \A i \in 1 .. Len(p) : b[i] = q[i]
    BY <1>1, <1>2, SubPathIs
  <2>2. IsPrefix(p, q) <=> a = b
    BY <1>2 DEF IsPrefix
  <2>3. (\A i \in 1 .. Len(p) : p[i] = q[i]) => a = b
    BY <2>1, PathsEqual
  <2>4. a = b => \A i \in 1 .. Len(p) : p[i] = q[i]
    BY <2>1
  <2> QED  BY <1>2, <2>2, <2>3, <2>4
<1>3. CASE ~(Len(p) <= Len(q))
  BY <1>3 DEF IsPrefix
<1> QED  BY <1>2, <1>3

LEMMA PrefixReflexive == ASSUME NEW p, IsPath(p) PROVE IsPrefix(p, p)
  BY PathIs, PrefixIs

LEMMA PrefixTransitive ==
    ASSUME NEW p, NEW q, NEW r, IsPath(p), IsPath(q), IsPath(r), IsPrefix(p, q), IsPrefix(q, r)
    PROVE  IsPrefix(p, r)
  BY PathIs, PrefixIs

LEMMA PrefixAntisymmetric ==
    ASSUME NEW p, NEW q, IsPath(p), IsPath(q), IsPrefix(p, q), IsPrefix(q, p)
    PROVE  p = q
  BY PathIs, PrefixIs, PathsEqual

\* The ancestors of a path are its prefixes that are shorter.
LEMMA AncestorIs ==
    ASSUME NEW p, IsPath(p), NEW a \in Ancestors(p)
    PROVE  IsPath(a) /\ IsPrefix(a, p) /\ a # p /\ Len(a) < Len(p)
<1>1. PICK n \in 1 .. Len(p) - 1 : a = SubSeq(p, 1, n)
  BY DEF Ancestors
<1>2. Len(p) \in Nat \ {0}
  BY PathIs
<1>3. n \in 1 .. Len(p)
  BY <1>2
<1>4. IsPath(a) /\ Len(a) = n /\ \A i \in 1 .. n : a[i] = p[i]
  BY <1>1, <1>3, SubPathIs
<1> QED  BY <1>2, <1>4, PrefixIs

LEMMA PrefixIsAncestor ==
    ASSUME NEW p, NEW a, IsPath(p), IsPath(a), IsPrefix(a, p), a # p
    PROVE  a \in Ancestors(p)
<1>1. Len(p) \in Nat \ {0} /\ Len(a) \in Nat \ {0}
  BY PathIs
<1>2. Len(a) <= Len(p) /\ \A i \in 1 .. Len(a) : a[i] = p[i]
  BY PrefixIs
<1>3. Len(a) # Len(p)
  BY <1>2, PathsEqual
<1>4. Len(a) \in 1 .. Len(p) - 1 /\ Len(a) \in 1 .. Len(p)
  BY <1>1, <1>2, <1>3
<1>5. a = SubSeq(p, 1, Len(a))
  <2> DEFINE n == Len(a)  s == SubSeq(p, 1, n)
  <2>1. n \in 1 .. Len(p) /\ n \in Nat
    BY <1>1, <1>4
  <2>2. IsPath(s) /\ Len(s) = n /\ \A i \in 1 .. n : s[i] = p[i]
    BY <2>1, SubPathIs
  <2>3. Len(a) = Len(s) /\ \A i \in 1 .. Len(a) : a[i] = s[i]
    BY <2>2, <1>2
  <2> HIDE DEF s
  <2>4. a = s
    BY <2>2, <2>3, PathsEqual
  <2> QED  BY <2>4 DEF s
<1> QED  BY <1>4, <1>5 DEF Ancestors

LEMMA AncestorsNest ==
    ASSUME NEW p, IsPath(p), NEW a \in Ancestors(p)
    PROVE  Ancestors(a) \subseteq Ancestors(p)
<1> SUFFICES ASSUME NEW b \in Ancestors(a) PROVE b \in Ancestors(p)
  OBVIOUS
<1>1. IsPath(a) /\ IsPrefix(a, p) /\ Len(a) < Len(p) /\ Len(a) \in Nat /\ Len(p) \in Nat
  BY AncestorIs, PathIs
<1>2. IsPath(b) /\ IsPrefix(b, a) /\ Len(b) < Len(a) /\ Len(b) \in Nat
  BY <1>1, AncestorIs, PathIs
<1>3. IsPrefix(b, p) /\ b # p
  BY <1>1, <1>2, PrefixTransitive
<1> QED  BY <1>2, <1>3, PrefixIsAncestor

\* The nearest ancestor is the parent, and the others are the parent's.
LEMMA ParentIs ==
    ASSUME NEW p, IsPath(p)
    PROVE  \/ Parent(p) = <<>> /\ Ancestors(p) = {}
           \/ /\ Parent(p) \in Ancestors(p) /\ Parent(p) # <<>>
              /\ \A a \in Ancestors(p) : a = Parent(p) \/ a \in Ancestors(Parent(p))
<1>1. Len(p) \in Nat \ {0} /\ p \in Seq(Range(p))
  BY PathIs DEF IsPath
<1>2. Parent(p) = SubSeq(p, 1, Len(p) - 1)
  BY <1>1 DEF Parent, Front
<1>3. CASE Len(p) = 1
  BY <1>1, <1>2, <1>3 DEF Ancestors
<1>4. CASE Len(p) # 1
  <2> DEFINE n == Len(p)
  <2>0. n \in Nat \ {0} /\ n # 1
    BY <1>1, <1>4
  <2> HIDE DEF n
  <2>00. n - 1 \in 1 .. n - 1 /\ n - 1 \in 1 .. n
    BY <2>0
  <2>1. Len(p) - 1 \in 1 .. Len(p) - 1 /\ Len(p) - 1 \in 1 .. Len(p)
    BY <2>00 DEF n
  <2>2. Parent(p) \in Ancestors(p)
    BY <1>2, <2>1 DEF Ancestors
  <2>3. /\ IsPath(Parent(p)) /\ Len(Parent(p)) = Len(p) - 1
        /\ \A i \in 1 .. Len(p) - 1 : Parent(p)[i] = p[i]
    BY <1>2, <2>1, SubPathIs
  <2>4. ASSUME NEW a \in Ancestors(p), a # Parent(p) PROVE a \in Ancestors(Parent(p))
    <3>1. /\ IsPath(a) /\ Len(a) < Len(p) /\ Len(a) \in Nat
          /\ \A i \in 1 .. Len(a) : a[i] = p[i]
      BY AncestorIs, PathIs, PrefixIs
    <3>2. IsPrefix(a, Parent(p))
      BY <1>1, <2>3, <3>1, PrefixIs
    <3> QED  BY <2>3, <2>4, <3>1, <3>2, PrefixIsAncestor
  <2> QED  BY <2>2, <2>3, <2>4 DEF IsPath
<1> QED  BY <1>3, <1>4

\* A sidecar is in the directory of its file.
LEMMA SidecarIs ==
    ASSUME NEW p, IsPath(p)
    PROVE  IsPath(Sidecar(p)) /\ Ancestors(Sidecar(p)) = Ancestors(p)
<1> DEFINE n == Len(p)  f == Front(p)  x == Suffixed(Last(p))  s == Sidecar(p)
<1>1. n \in Nat \ {0} /\ p \in Seq(Range(p))
  BY PathIs DEF IsPath
<1>2. f \in Seq(Range(p) \cup {x}) /\ Len(f) = n - 1 /\ \A i \in 1 .. n - 1 : f[i] = p[i]
  <2>1. f = [i \in 1 .. n - 1 |-> p[i]] /\ n - 1 \in Nat
    BY <1>1 DEF Front
  <2>2. \A i \in 1 .. n - 1 : p[i] \in Range(p) \cup {x}
    BY <1>1
  <2>3. f \in [1 .. n - 1 -> Range(p) \cup {x}]
    BY <2>1, <2>2
  <2>4. f \in Seq(Range(p) \cup {x}) /\ Len(f) = n - 1
    BY <2>1, <2>3
  <2> QED  BY <2>1, <2>4
<1>3. s = Append(f, x)
  BY DEF Sidecar
<1> HIDE DEF f, x, s
<1>4. /\ s \in Seq(Range(p) \cup {x}) /\ Len(s) = n /\ s # <<>>
      /\ \A i \in 1 .. n - 1 : s[i] = p[i]
  BY <1>1, <1>2, <1>3
<1>5. s = [i \in 1 .. n |-> s[i]] /\ DOMAIN s = 1 .. n
  BY <1>1, <1>4
<1>6. IsPath(s)
  BY <1>1, <1>4, <1>5 DEF IsPath, Range
<1>7. ASSUME NEW m \in 1 .. n - 1 PROVE SubSeq(s, 1, m) = SubSeq(p, 1, m)
  <2>1. m \in 1 .. n /\ \A i \in 1 .. m : i \in 1 .. n - 1
    BY <1>1
  <2> QED  BY <1>4, <1>6, <2>1, SubPathIs, PathsEqual
<1>8. Ancestors(s) = Ancestors(p)
  BY <1>4, <1>7 DEF Ancestors
<1> QED  BY <1>6, <1>8 DEF s

(***************************************************************************)
(* What the operators on trees have at a path.                             *)
(***************************************************************************)

Maps(f) == f = [x \in DOMAIN f |-> f[x]]

LEMMA SameMap ==
    ASSUME NEW f, NEW g, Maps(f), Maps(g),
           \A x : x \in DOMAIN f <=> x \in DOMAIN g,
           \A x \in DOMAIN f : f[x] = g[x]
    PROVE  f = g
  BY DEF Maps

LEMMA OverIs ==
    ASSUME NEW top, NEW below
    PROVE  /\ Maps(top ++ below)
           /\ \A x : x \in DOMAIN (top ++ below) <=> x \in DOMAIN top \/ x \in DOMAIN below
           /\ \A x \in DOMAIN top : (top ++ below)[x] = top[x]
           /\ \A x \in DOMAIN below \ DOMAIN top : (top ++ below)[x] = below[x]
  BY DEF ++, Maps

LEMMA AtIs == ASSUME NEW p, NEW v PROVE DOMAIN At(p, v) = {p} /\ At(p, v)[p] = v
  BY DEF At

LEMMA PutIs ==
    ASSUME NEW p, NEW v, NEW f
    PROVE  /\ Maps(At(p, v) ++ f)
           /\ \A x : x \in DOMAIN (At(p, v) ++ f) <=> x = p \/ x \in DOMAIN f
           /\ (At(p, v) ++ f)[p] = v
           /\ \A x \in DOMAIN f : x # p => (At(p, v) ++ f)[x] = f[x]
<1> DEFINE at == At(p, v)
<1>1. DOMAIN at = {p} /\ at[p] = v
  BY AtIs
<1> HIDE DEF at
<1>2. /\ Maps(at ++ f)
      /\ \A x : x \in DOMAIN (at ++ f) <=> x \in DOMAIN at \/ x \in DOMAIN f
      /\ \A x \in DOMAIN at : (at ++ f)[x] = at[x]
      /\ \A x \in DOMAIN f \ DOMAIN at : (at ++ f)[x] = f[x]
  BY OverIs
<1>3. /\ Maps(at ++ f)
      /\ \A x : x \in DOMAIN (at ++ f) <=> x = p \/ x \in DOMAIN f
      /\ (at ++ f)[p] = v
      /\ \A x \in DOMAIN f : x # p => (at ++ f)[x] = f[x]
  BY <1>1, <1>2
<1> QED  BY <1>3 DEF at

LEMMA WithoutIs ==
    ASSUME NEW t, NEW ps
    PROVE  /\ Maps(Without(t, ps))
           /\ \A x : x \in DOMAIN Without(t, ps) <=> x \in DOMAIN t /\ \A q \in ps : ~IsPrefix(q, x)
           /\ \A x \in DOMAIN Without(t, ps) : Without(t, ps)[x] = t[x]
  BY DEF Without, Under, Restrict, Maps

(***************************************************************************)
(* What stays a tree.                                                      *)
(***************************************************************************)

LEMMA WithoutWellFormed ==
    ASSUME NEW t, NEW ps, WellFormed(t), \A q \in ps : IsPath(q)
    PROVE  WellFormed(Without(t, ps))
<1> DEFINE w == Without(t, ps)
<1>1. ASSUME NEW p \in DOMAIN w, NEW a \in Ancestors(p) PROVE a \in DOMAIN w /\ w[a] = Dir
  <2>1. p \in DOMAIN t /\ IsPath(p) /\ \A q \in ps : ~IsPrefix(q, p)
    BY WithoutIs DEF WellFormed
  <2>2. a \in DOMAIN t /\ t[a] = Dir /\ IsPath(a) /\ IsPrefix(a, p)
    BY <2>1, AncestorIs DEF WellFormed
  <2>3. \A q \in ps : ~IsPrefix(q, a)
    BY <2>1, <2>2, PrefixTransitive
  <2> QED  BY <2>2, <2>3, WithoutIs
<1>2. \A p \in DOMAIN w : IsPath(p)
  BY WithoutIs DEF WellFormed
<1> QED  BY <1>1, <1>2 DEF WellFormed

LEMMA ImportWellFormed ==
    ASSUME NEW t, NEW source, WellFormed(t), WellFormed(source)
    PROVE  WellFormed(ImportDirectory(t, source))
<1> DEFINE w == Without(t, DOMAIN source)  i == source ++ w
<1>1. WellFormed(w)
  BY WithoutWellFormed DEF WellFormed
<1>2. ASSUME NEW p \in DOMAIN w, NEW a \in Ancestors(p) PROVE a \in DOMAIN w \ DOMAIN source /\ w[a] = Dir
  <2>1. a \in DOMAIN w /\ w[a] = Dir /\ IsPath(a)
    BY <1>1 DEF WellFormed
  <2> QED  BY <2>1, WithoutIs, PrefixReflexive
<1> HIDE DEF w
<1>3. WellFormed(i)
  <2>1. /\ \A x : x \in DOMAIN i <=> x \in DOMAIN source \/ x \in DOMAIN w
        /\ \A x \in DOMAIN source : i[x] = source[x]
        /\ \A x \in DOMAIN w \ DOMAIN source : i[x] = w[x]
    BY OverIs
  <2>2. \A p \in DOMAIN source : IsPath(p) /\ \A a \in Ancestors(p) : a \in DOMAIN source /\ source[a] = Dir
    BY DEF WellFormed
  <2>3. \A p \in DOMAIN w : IsPath(p)
    BY <1>1 DEF WellFormed
  <2> HIDE DEF i
  <2>4. ASSUME NEW p \in DOMAIN i PROVE IsPath(p) /\ \A a \in Ancestors(p) : a \in DOMAIN i /\ i[a] = Dir
    BY <2>1, <2>2, <2>3, <1>2
  <2> QED  BY <2>4 DEF WellFormed
<1> QED  BY <1>3 DEF ImportDirectory, w

LEMMA InsertIs ==
    ASSUME NEW t, NEW p, NEW v
    PROVE  LET new == Insert(t, p, v)
           IN  /\ \A x : x \in DOMAIN new <=> x = p \/ (x \in DOMAIN t /\ ~IsPrefix(p, x))
               /\ new[p] = v
               /\ \A x \in DOMAIN new : x # p => new[x] = t[x]
<1> DEFINE w == Without(t, {p})
<1>1. /\ \A x : x \in DOMAIN w <=> x \in DOMAIN t /\ ~IsPrefix(p, x)
      /\ \A x \in DOMAIN w : w[x] = t[x]
  BY WithoutIs
<1> HIDE DEF w
<1>2. Insert(t, p, v) = At(p, v) ++ w
  BY DEF Insert, w
<1> QED  BY <1>1, <1>2, PutIs

\* What is put at a path is an entry of a tree when the way there is one.
LEMMA InsertWellFormed ==
    ASSUME NEW t, NEW p, NEW v, WellFormed(t), IsPath(p),
           \A a \in Ancestors(p) : a \in DOMAIN t /\ t[a] = Dir
    PROVE  WellFormed(Insert(t, p, v))
<1> DEFINE new == Insert(t, p, v)
<1>1. /\ \A x : x \in DOMAIN new <=> x = p \/ (x \in DOMAIN t /\ ~IsPrefix(p, x))
      /\ \A x \in DOMAIN new : x # p => new[x] = t[x]
  BY InsertIs
<1> HIDE DEF new
<1>2. ASSUME NEW x \in DOMAIN new PROVE IsPath(x) /\ \A a \in Ancestors(x) : a \in DOMAIN t /\ t[a] = Dir
  BY <1>1 DEF WellFormed
<1>3. ASSUME NEW x \in DOMAIN new, NEW a \in Ancestors(x) PROVE ~IsPrefix(p, a)
  <2>1. IsPath(x) /\ IsPath(a) /\ IsPrefix(a, x) /\ a # x
    BY <1>2, AncestorIs
  <2>2. CASE x = p
    BY <2>1, <2>2, PrefixAntisymmetric
  <2>3. CASE x # p
    BY <1>1, <2>1, <2>3, PrefixTransitive
  <2> QED  BY <2>2, <2>3
<1>4. ASSUME NEW x \in DOMAIN new, NEW a \in Ancestors(x) PROVE a \in DOMAIN new /\ new[a] = Dir
  <2>1. a # p
    BY <1>2, <1>3, AncestorIs, PrefixReflexive
  <2> QED  BY <1>1, <1>2, <1>3, <2>1
<1>5. WellFormed(new)
  BY <1>2, <1>4 DEF WellFormed
<1> QED  BY <1>5 DEF new

\* The directories above an entry are those above its parent, and the parent.
LEMMA ReachIs ==
    ASSUME NEW t, NEW p, WellFormed(t), IsPath(p), CanReach(t, p)
    PROVE  \A a \in Ancestors(p) : a \in DOMAIN t /\ t[a] = Dir
  BY ParentIs DEF CanReach, IsDir, WellFormed
=============================================================================
