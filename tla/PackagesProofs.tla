---------------------------- MODULE PackagesProofs ----------------------------
(***************************************************************************)
(* Proofs about Packages, for every set of archives, every content of      *)
(* them, every file of the user and every number of commands.              *)
(***************************************************************************)
EXTENDS Packages, TreesProofs

(***************************************************************************)
(* What the operations on the database have in their tables.               *)
(***************************************************************************)

IsDb(db) ==
    db = [metas |-> db.metas, byName |-> db.byName, triggers |-> db.triggers,
          files |-> db.files, byPath |-> db.byPath]

\* Two tables are written at a time.
WithMetas(db, x, y) == [db EXCEPT !.metas = x, !.byName = y]
WithRows(db, x, y) == [db EXCEPT !.files = x, !.byPath = y]

LEMMA MetasPut ==
    ASSUME NEW db, IsDb(db), NEW x, NEW y
    PROVE  LET new == WithMetas(db, x, y)
           IN  /\ IsDb(new)
               /\ new.metas = x /\ new.byName = y
               /\ new.triggers = db.triggers /\ new.files = db.files /\ new.byPath = db.byPath
<1> DEFINE one == [db EXCEPT !.metas = x]  two == [one EXCEPT !.byName = y]
<1>1. /\ IsDb(one) /\ one.metas = x /\ one.byName = db.byName
      /\ one.triggers = db.triggers /\ one.files = db.files /\ one.byPath = db.byPath
  BY DEF IsDb
<1>2. WithMetas(db, x, y) = two
  BY Zenon DEF WithMetas, two, one
<1> HIDE DEF one
<1>3. /\ IsDb(two) /\ two.metas = x /\ two.byName = y
      /\ two.triggers = db.triggers /\ two.files = db.files /\ two.byPath = db.byPath
  BY <1>1 DEF IsDb
<1> HIDE DEF two
<1> QED  BY <1>2, <1>3

LEMMA FilesPut ==
    ASSUME NEW db, IsDb(db), NEW x, NEW y
    PROVE  LET new == WithRows(db, x, y)
           IN  /\ IsDb(new)
               /\ new.files = x /\ new.byPath = y
               /\ new.metas = db.metas /\ new.byName = db.byName /\ new.triggers = db.triggers
<1> DEFINE one == [db EXCEPT !.files = x]  two == [one EXCEPT !.byPath = y]
<1>1. /\ IsDb(one) /\ one.files = x /\ one.byPath = db.byPath
      /\ one.metas = db.metas /\ one.byName = db.byName /\ one.triggers = db.triggers
  BY DEF IsDb
<1>2. WithRows(db, x, y) = two
  BY Zenon DEF WithRows, two, one
<1> HIDE DEF one
<1>3. /\ IsDb(two) /\ two.files = x /\ two.byPath = y
      /\ two.metas = db.metas /\ two.byName = db.byName /\ two.triggers = db.triggers
  BY <1>1 DEF IsDb
<1> HIDE DEF two
<1> QED  BY <1>2, <1>3

LEMMA DropIs ==
    ASSUME NEW table, NEW key
    PROVE  /\ \A x : x \in DOMAIN Drop(table, key) <=> x \in DOMAIN table /\ x # key
           /\ \A x \in DOMAIN Drop(table, key) : Drop(table, key)[x] = table[x]
  BY DEF Drop, Restrict

LEMMA InsertPackageMetaIs ==
    ASSUME NEW db, IsDb(db), NEW uuid, NEW meta
    PROVE  LET new == InsertPackageMeta(db, uuid, meta)
           IN  /\ IsDb(new)
               /\ new.triggers = db.triggers /\ new.files = db.files /\ new.byPath = db.byPath
               /\ \A u : u \in DOMAIN new.metas <=> u = uuid \/ u \in DOMAIN db.metas
               /\ new.metas[uuid] = meta
               /\ \A u \in DOMAIN db.metas : u # uuid => new.metas[u] = db.metas[u]
               /\ \A n : n \in DOMAIN new.byName <=> n = meta.name \/ n \in DOMAIN db.byName
               /\ new.byName[meta.name] = uuid
               /\ \A n \in DOMAIN db.byName : n # meta.name => new.byName[n] = db.byName[n]
<1> DEFINE m == At(uuid, meta) ++ db.metas  b == At(meta.name, uuid) ++ db.byName
           new == InsertPackageMeta(db, uuid, meta)
<1>1. /\ IsDb(new) /\ new.metas = m /\ new.byName = b
      /\ new.triggers = db.triggers /\ new.files = db.files /\ new.byPath = db.byPath
  <2>1. new = WithMetas(db, m, b)
    BY DEF WithMetas, InsertPackageMeta, IsDb
  <2> HIDE DEF m, b
  <2> QED  BY <2>1, MetasPut
<1>2. /\ \A u : u \in DOMAIN m <=> u = uuid \/ u \in DOMAIN db.metas
      /\ m[uuid] = meta
      /\ \A u \in DOMAIN db.metas : u # uuid => m[u] = db.metas[u]
  BY PutIs
<1>3. /\ \A n : n \in DOMAIN b <=> n = meta.name \/ n \in DOMAIN db.byName
      /\ b[meta.name] = uuid
      /\ \A n \in DOMAIN db.byName : n # meta.name => b[n] = db.byName[n]
  BY PutIs
<1> HIDE DEF m, b, new
<1>4. /\ \A u : u \in DOMAIN new.metas <=> u = uuid \/ u \in DOMAIN db.metas
      /\ new.metas[uuid] = meta
      /\ \A u \in DOMAIN db.metas : u # uuid => new.metas[u] = db.metas[u]
  BY <1>1, <1>2
<1>5. /\ \A n : n \in DOMAIN new.byName <=> n = meta.name \/ n \in DOMAIN db.byName
      /\ new.byName[meta.name] = uuid
      /\ \A n \in DOMAIN db.byName : n # meta.name => new.byName[n] = db.byName[n]
  BY <1>1, <1>3
<1> QED  BY <1>1, <1>4, <1>5 DEF new

LEMMA UpdatePackageMetaIs ==
    ASSUME NEW db, IsDb(db), NEW meta, NEW uuid, uuid = db.byName[meta.name]
    PROVE  LET new == UpdatePackageMeta(db, meta)
           IN  /\ IsDb(new)
               /\ new.triggers = db.triggers /\ new.files = db.files /\ new.byPath = db.byPath
               /\ new.byName = db.byName /\ DOMAIN new.metas = DOMAIN db.metas
               /\ uuid \in DOMAIN db.metas => new.metas[uuid] = meta
               /\ \A u \in DOMAIN db.metas : u # uuid => new.metas[u] = db.metas[u]
<1> DEFINE new == UpdatePackageMeta(db, meta)  m == [db.metas EXCEPT ![uuid] = meta]
<1>1. /\ IsDb(new) /\ new.metas = m /\ new.byName = db.byName
      /\ new.triggers = db.triggers /\ new.files = db.files /\ new.byPath = db.byPath
  BY DEF IsDb, UpdatePackageMeta
<1>2. /\ DOMAIN m = DOMAIN db.metas
      /\ uuid \in DOMAIN db.metas => m[uuid] = meta
      /\ \A u \in DOMAIN db.metas : u # uuid => m[u] = db.metas[u]
  OBVIOUS
<1> HIDE DEF new, m
<1> QED  BY <1>1, <1>2 DEF new

LEMMA RemovePackageMetaIs ==
    ASSUME NEW db, IsDb(db), NEW name
    PROVE  LET new == RemovePackageMeta(db, name)
           IN  /\ IsDb(new)
               /\ new.triggers = db.triggers /\ new.files = db.files /\ new.byPath = db.byPath
               /\ new.metas = Drop(db.metas, db.byName[name]) /\ new.byName = Drop(db.byName, name)
<1> DEFINE m == Drop(db.metas, db.byName[name])  b == Drop(db.byName, name)
<1>1. RemovePackageMeta(db, name) = WithMetas(db, m, b)
  BY DEF WithMetas, RemovePackageMeta, IsDb
<1> HIDE DEF m, b
<1>2. LET new == RemovePackageMeta(db, name)
      IN  /\ IsDb(new) /\ new.metas = m /\ new.byName = b
          /\ new.triggers = db.triggers /\ new.files = db.files /\ new.byPath = db.byPath
  BY <1>1, MetasPut
<1> QED  BY <1>2 DEF m, b

LEMMA SetTriggersIs ==
    ASSUME NEW db, IsDb(db), NEW uuid, NEW trigger
    PROVE  LET new == SetTriggers(db, uuid, trigger)
           IN  /\ IsDb(new)
               /\ new.metas = db.metas /\ new.byName = db.byName
               /\ new.files = db.files /\ new.byPath = db.byPath
               /\ new.triggers = At(uuid, trigger) ++ db.triggers
  BY DEF IsDb, SetTriggers

LEMMA RemoveTriggersIs ==
    ASSUME NEW db, IsDb(db), NEW uuid
    PROVE  LET new == RemoveTriggers(db, uuid)
           IN  /\ IsDb(new)
               /\ new.metas = db.metas /\ new.byName = db.byName
               /\ new.files = db.files /\ new.byPath = db.byPath
               /\ new.triggers = Drop(db.triggers, uuid)
  BY DEF IsDb, RemoveTriggers

\* The rows that an insertion writes are those that are not the user's.
Taken(db, uuid, paths) == paths \ UserPaths(db, uuid)

LEMMA InsertFilesIs ==
    ASSUME NEW db, IsDb(db), NEW uuid, NEW paths, NEW row
    PROVE  LET new   == InsertFiles(db, uuid, paths, row)
               taken == Taken(db, uuid, paths)
           IN  /\ IsDb(new)
               /\ new.metas = db.metas /\ new.byName = db.byName /\ new.triggers = db.triggers
               /\ \A k : k \in DOMAIN new.files <=> k \in {uuid} \X taken \/ k \in DOMAIN db.files
               /\ \A k \in {uuid} \X taken : new.files[k] = row
               /\ \A k \in DOMAIN db.files : k \notin {uuid} \X taken => new.files[k] = db.files[k]
               /\ \A p : p \in DOMAIN new.byPath <=> p \in taken \/ p \in DOMAIN db.byPath
               /\ \A p \in taken : new.byPath[p] = uuid
               /\ \A p \in DOMAIN db.byPath : p \notin taken => new.byPath[p] = db.byPath[p]
<1> DEFINE taken == Taken(db, uuid, paths)
           f == [key \in {uuid} \X taken |-> row]  g == [p \in taken |-> uuid]
           new == InsertFiles(db, uuid, paths, row)
<1>1. /\ IsDb(new) /\ new.files = f ++ db.files /\ new.byPath = g ++ db.byPath
      /\ new.metas = db.metas /\ new.byName = db.byName /\ new.triggers = db.triggers
  <2> DEFINE x == f ++ db.files  y == g ++ db.byPath
  <2>1. new = WithRows(db, x, y)
    BY DEF WithRows, InsertFiles, Taken, IsDb
  <2> HIDE DEF x, y
  <2>2. /\ IsDb(new) /\ new.files = x /\ new.byPath = y
        /\ new.metas = db.metas /\ new.byName = db.byName /\ new.triggers = db.triggers
    BY <2>1, FilesPut
  <2> QED  BY <2>2 DEF x, y
<1>2. DOMAIN f = {uuid} \X taken /\ \A k \in {uuid} \X taken : f[k] = row
  OBVIOUS
<1>3. DOMAIN g = taken /\ \A p \in taken : g[p] = uuid
  OBVIOUS
<1> HIDE DEF taken, f, g, new
<1>4. /\ \A k : k \in DOMAIN new.files <=> k \in {uuid} \X taken \/ k \in DOMAIN db.files
      /\ \A k \in {uuid} \X taken : new.files[k] = row
      /\ \A k \in DOMAIN db.files : k \notin {uuid} \X taken => new.files[k] = db.files[k]
  BY <1>1, <1>2, OverIs
<1>5. /\ \A p : p \in DOMAIN new.byPath <=> p \in taken \/ p \in DOMAIN db.byPath
      /\ \A p \in taken : new.byPath[p] = uuid
      /\ \A p \in DOMAIN db.byPath : p \notin taken => new.byPath[p] = db.byPath[p]
  BY <1>1, <1>3, OverIs
<1> QED  BY <1>1, <1>4, <1>5 DEF new, taken

LEMMA RemoveFilesIs ==
    ASSUME NEW db, IsDb(db), NEW uuid, NEW paths
    PROVE  LET new == RemoveFiles(db, uuid, paths)
           IN  /\ IsDb(new)
               /\ new.metas = db.metas /\ new.byName = db.byName /\ new.triggers = db.triggers
               /\ \A k : k \in DOMAIN new.files <=> k \in DOMAIN db.files /\ k \notin {uuid} \X paths
               /\ \A k \in DOMAIN new.files : new.files[k] = db.files[k]
               /\ \A p : p \in DOMAIN new.byPath <=> p \in DOMAIN db.byPath /\ p \notin paths
               /\ \A p \in DOMAIN new.byPath : new.byPath[p] = db.byPath[p]
<1> DEFINE f == Restrict(db.files, DOMAIN db.files \ ({uuid} \X paths))
           g == Restrict(db.byPath, DOMAIN db.byPath \ paths)
           new == RemoveFiles(db, uuid, paths)
<1>1. /\ IsDb(new) /\ new.files = f /\ new.byPath = g
      /\ new.metas = db.metas /\ new.byName = db.byName /\ new.triggers = db.triggers
  <2>1. new = WithRows(db, f, g)
    BY DEF WithRows, RemoveFiles, IsDb
  <2> HIDE DEF f, g
  <2> QED  BY <2>1, FilesPut
<1>2. /\ \A k : k \in DOMAIN f <=> k \in DOMAIN db.files /\ k \notin {uuid} \X paths
      /\ \A k \in DOMAIN f : f[k] = db.files[k]
  BY DEF Restrict
<1>3. /\ \A p : p \in DOMAIN g <=> p \in DOMAIN db.byPath /\ p \notin paths
      /\ \A p \in DOMAIN g : g[p] = db.byPath[p]
  BY DEF Restrict
<1> HIDE DEF f, g, new
<1> QED  BY <1>1, <1>2, <1>3 DEF new

(***************************************************************************)
(* The database of an image, or of a command that works on one, when the   *)
(* uuids below next have been handed out.                                  *)
(***************************************************************************)

FilesIn(a) == Leaves(a.usr) \cup Leaves(a.etc)

MetasInv(db, next) ==
    \A u \in DOMAIN db.metas : u \in Nat /\ u < next /\ \E a \in Known : db.metas[u] = Meta(a)

NamesInv(db) ==
    \A n \in DOMAIN db.byName : db.byName[n] \in DOMAIN db.metas /\ db.metas[db.byName[n]].name = n

TriggersInv(db) == DOMAIN db.triggers \subseteq DOMAIN db.metas

KeysInv(db, next) ==
    \A k \in DOMAIN db.files : k = <<k[1], k[2]>> /\ k[1] \in Nat /\ k[1] < next

ScopesInv(db) ==
    \A k \in DOMAIN db.files : \/ db.files[k].scope = "prefix" /\ IsPath(k[2])
                               \/ db.files[k].scope = "config" /\ k[2] \in EtcPaths

PathsInv(db) == \A p \in DOMAIN db.byPath : <<db.byPath[p], p>> \in DOMAIN db.files

ArchiveInv(db) ==
    \A k \in DOMAIN db.files :
       k[1] \in DOMAIN db.metas /\ ~db.files[k].isUser =>
          \A a \in Known : db.metas[k[1]] = Meta(a) => k[2] \in FilesIn(a)

DbInv(db, next) ==
    /\ IsDb(db) /\ MetasInv(db, next) /\ NamesInv(db) /\ TriggersInv(db)
    /\ KeysInv(db, next) /\ ScopesInv(db) /\ PathsInv(db) /\ ArchiveInv(db)

LEMMA RowsOfIs ==
    ASSUME NEW db, NEW next, KeysInv(db, next)
    PROVE  /\ \A u, p : p \in PathsOf(db, u) <=> <<u, p>> \in DOMAIN db.files
           /\ \A u, p : u \in Owners(db, p) <=> <<u, p>> \in DOMAIN db.files
           /\ \A u, p : p \in UserPaths(db, u) <=> IsUserRow(db, u, p)
<1>1. \A u, p : p \in PathsOf(db, u) <=> <<u, p>> \in DOMAIN db.files
  <2>1. ASSUME NEW u, NEW p, p \in PathsOf(db, u) PROVE <<u, p>> \in DOMAIN db.files
    <3>1. PICK k \in DOMAIN db.files : k[1] = u /\ k[2] = p
      BY <2>1 DEF PathsOf
    <3> QED  BY <3>1 DEF KeysInv
  <2>2. ASSUME NEW u, NEW p, <<u, p>> \in DOMAIN db.files PROVE p \in PathsOf(db, u)
    <3> DEFINE key == <<u, p>>
    <3>1. key \in DOMAIN db.files /\ key[1] = u /\ key[2] = p
      BY <2>2
    <3> HIDE DEF key
    <3> QED  BY <3>1 DEF PathsOf
  <2> QED  BY <2>1, <2>2
<1>2. \A u, p : u \in Owners(db, p) <=> <<u, p>> \in DOMAIN db.files
  <2>1. ASSUME NEW u, NEW p, u \in Owners(db, p) PROVE <<u, p>> \in DOMAIN db.files
    <3>1. PICK k \in DOMAIN db.files : k[1] = u /\ k[2] = p
      BY <2>1 DEF Owners
    <3> QED  BY <3>1 DEF KeysInv
  <2>2. ASSUME NEW u, NEW p, <<u, p>> \in DOMAIN db.files PROVE u \in Owners(db, p)
    <3> DEFINE key == <<u, p>>
    <3>1. key \in DOMAIN db.files /\ key[1] = u /\ key[2] = p
      BY <2>2
    <3> HIDE DEF key
    <3> QED  BY <3>1 DEF Owners
  <2> QED  BY <2>1, <2>2
<1>3. \A u, p : p \in UserPaths(db, u) <=> IsUserRow(db, u, p)
  BY <1>1 DEF UserPaths, IsUserRow
<1> QED  BY <1>1, <1>2, <1>3

LEMMA InsertFilesInv ==
    ASSUME NEW next \in Nat, NEW db, DbInv(db, next), NEW uuid \in Nat, uuid < next,
           NEW paths, NEW row,
           \A p \in paths : \/ row.scope = "prefix" /\ IsPath(p)
                            \/ row.scope = "config" /\ p \in EtcPaths,
           \/ row.isUser
           \/ \E a \in Known : db.metas[uuid] = Meta(a) /\ paths \subseteq FilesIn(a)
    PROVE  DbInv(InsertFiles(db, uuid, paths, row), next)
<1> DEFINE new == InsertFiles(db, uuid, paths, row)  taken == Taken(db, uuid, paths)
           keys == {uuid} \X taken
<1>1. /\ IsDb(new)
      /\ new.metas = db.metas /\ new.byName = db.byName /\ new.triggers = db.triggers
      /\ \A k : k \in DOMAIN new.files <=> k \in keys \/ k \in DOMAIN db.files
      /\ \A k \in keys : new.files[k] = row
      /\ \A k \in DOMAIN db.files : k \notin keys => new.files[k] = db.files[k]
      /\ \A p : p \in DOMAIN new.byPath <=> p \in taken \/ p \in DOMAIN db.byPath
      /\ \A p \in taken : new.byPath[p] = uuid
      /\ \A p \in DOMAIN db.byPath : p \notin taken => new.byPath[p] = db.byPath[p]
  BY InsertFilesIs DEF DbInv
<1>2. /\ taken \subseteq paths
      /\ \A k \in keys : k = <<k[1], k[2]>> /\ k[1] = uuid /\ k[2] \in taken
      /\ \A p \in taken : <<uuid, p>> \in keys
  BY DEF Taken
<1> HIDE DEF new, taken, keys
<1>3. MetasInv(new, next) /\ NamesInv(new) /\ TriggersInv(new)
  BY <1>1 DEF DbInv, MetasInv, NamesInv, TriggersInv
<1>4. KeysInv(new, next)
  BY <1>1, <1>2 DEF DbInv, KeysInv
<1>5. ScopesInv(new)
  <2>1. ASSUME NEW k \in keys PROVE \/ new.files[k].scope = "prefix" /\ IsPath(k[2])
                                    \/ new.files[k].scope = "config" /\ k[2] \in EtcPaths
    BY <1>1, <1>2
  <2>2. ASSUME NEW k \in DOMAIN db.files, k \notin keys
        PROVE \/ new.files[k].scope = "prefix" /\ IsPath(k[2])
              \/ new.files[k].scope = "config" /\ k[2] \in EtcPaths
    BY <1>1, <2>2 DEF DbInv, ScopesInv
  <2> QED  BY <1>1, <2>1, <2>2 DEF ScopesInv
<1>6. PathsInv(new)
  BY <1>1, <1>2 DEF DbInv, PathsInv
<1>7. ArchiveInv(new)
  <2> SUFFICES ASSUME NEW k \in DOMAIN new.files, k[1] \in DOMAIN new.metas, ~new.files[k].isUser,
                      NEW a \in Known, new.metas[k[1]] = Meta(a)
               PROVE  k[2] \in FilesIn(a)
    BY DEF ArchiveInv
  <2>1. CASE k \in keys
    <3>1. PICK b \in Known : db.metas[uuid] = Meta(b) /\ paths \subseteq FilesIn(b)
      BY <1>1, <2>1
    <3>2. a = b
      BY <1>1, <1>2, <2>1, <3>1, PackagesAssumption
    <3> QED  BY <1>2, <2>1, <3>1, <3>2
  <2>2. CASE k \notin keys
    BY <1>1, <2>2 DEF DbInv, ArchiveInv
  <2> QED  BY <2>1, <2>2
<1>8. DbInv(new, next)
  BY <1>1, <1>3, <1>4, <1>5, <1>6, <1>7 DEF DbInv
<1> QED  BY <1>8 DEF new

LEMMA RemoveFilesInv ==
    ASSUME NEW next \in Nat, NEW db, DbInv(db, next), NEW uuid, NEW paths
    PROVE  DbInv(RemoveFiles(db, uuid, paths), next)
<1> DEFINE new == RemoveFiles(db, uuid, paths)  keys == {uuid} \X paths
<1>1. /\ IsDb(new)
      /\ new.metas = db.metas /\ new.byName = db.byName /\ new.triggers = db.triggers
      /\ \A k : k \in DOMAIN new.files <=> k \in DOMAIN db.files /\ k \notin keys
      /\ \A k \in DOMAIN new.files : new.files[k] = db.files[k]
      /\ \A p : p \in DOMAIN new.byPath <=> p \in DOMAIN db.byPath /\ p \notin paths
      /\ \A p \in DOMAIN new.byPath : new.byPath[p] = db.byPath[p]
  BY RemoveFilesIs DEF DbInv
<1>2. \A u, p : p \notin paths => <<u, p>> \notin keys
  OBVIOUS
<1> HIDE DEF new, keys
<1>3. MetasInv(new, next) /\ NamesInv(new) /\ TriggersInv(new)
  BY <1>1 DEF DbInv, MetasInv, NamesInv, TriggersInv
<1>4. KeysInv(new, next)
  BY <1>1 DEF DbInv, KeysInv
<1>5. ScopesInv(new)
  BY <1>1 DEF DbInv, ScopesInv
<1>6. PathsInv(new)
  BY <1>1, <1>2 DEF DbInv, PathsInv
<1>7. ArchiveInv(new)
  BY <1>1 DEF DbInv, ArchiveInv
<1>8. DbInv(new, next)
  BY <1>1, <1>3, <1>4, <1>5, <1>6, <1>7 DEF DbInv
<1> QED  BY <1>8 DEF new

\* The uuid that comes next is new: no row has it, not even one of a package
\* that is gone.
LEMMA InsertMetaInv ==
    ASSUME NEW next \in Nat, NEW db, DbInv(db, next), NEW a \in Known
    PROVE  DbInv(InsertPackageMeta(db, next, Meta(a)), next + 1)
<1> DEFINE new == InsertPackageMeta(db, next, Meta(a))
<1>1. /\ IsDb(new)
      /\ new.triggers = db.triggers /\ new.files = db.files /\ new.byPath = db.byPath
      /\ \A u : u \in DOMAIN new.metas <=> u = next \/ u \in DOMAIN db.metas
      /\ new.metas[next] = Meta(a)
      /\ \A u \in DOMAIN db.metas : u # next => new.metas[u] = db.metas[u]
      /\ \A n : n \in DOMAIN new.byName <=> n = Meta(a).name \/ n \in DOMAIN db.byName
      /\ new.byName[Meta(a).name] = next
      /\ \A n \in DOMAIN db.byName : n # Meta(a).name => new.byName[n] = db.byName[n]
  BY InsertPackageMetaIs DEF DbInv
<1>2. \A u \in Nat : u < next => u < next + 1 /\ u # next
  OBVIOUS
<1>3. next < next + 1
  OBVIOUS
<1> HIDE DEF new
<1>4. MetasInv(new, next + 1)
  BY <1>1, <1>2, <1>3 DEF DbInv, MetasInv
<1>5. NamesInv(new)
  BY <1>1, <1>2 DEF DbInv, NamesInv, MetasInv
<1>6. TriggersInv(new) /\ PathsInv(new) /\ ScopesInv(new)
  BY <1>1 DEF DbInv, TriggersInv, PathsInv, ScopesInv
<1>7. KeysInv(new, next + 1)
  BY <1>1, <1>2 DEF DbInv, KeysInv
<1>8. ArchiveInv(new)
  BY <1>1, <1>2 DEF DbInv, KeysInv, ArchiveInv
<1>9. DbInv(new, next + 1)
  BY <1>1, <1>4, <1>5, <1>6, <1>7, <1>8 DEF DbInv
<1> QED  BY <1>9 DEF new

\* A package may be set to another archive of its name while it has no rows.
LEMMA UpdateMetaInv ==
    ASSUME NEW next \in Nat, NEW db, DbInv(db, next), NEW a \in Known, HasPackage(db, a.name),
           PathsOf(db, db.byName[a.name]) = {}
    PROVE  DbInv(UpdatePackageMeta(db, Meta(a)), next)
<1> DEFINE new == UpdatePackageMeta(db, Meta(a))  uuid == db.byName[a.name]
<1>0. Meta(a).name = a.name
  BY DEF Meta
<1>1. /\ IsDb(new)
      /\ new.triggers = db.triggers /\ new.files = db.files /\ new.byPath = db.byPath
      /\ new.byName = db.byName /\ DOMAIN new.metas = DOMAIN db.metas
      /\ uuid \in DOMAIN db.metas => new.metas[uuid] = Meta(a)
      /\ \A u \in DOMAIN db.metas : u # uuid => new.metas[u] = db.metas[u]
  <2> DEFINE m == Meta(a)
  <2>1. IsDb(db) /\ m.name = a.name
    BY <1>0 DEF DbInv
  <2> HIDE DEF m
  <2>2. LET n == UpdatePackageMeta(db, m)
        IN  /\ IsDb(n)
            /\ n.triggers = db.triggers /\ n.files = db.files /\ n.byPath = db.byPath
            /\ n.byName = db.byName /\ DOMAIN n.metas = DOMAIN db.metas
            /\ uuid \in DOMAIN db.metas => n.metas[uuid] = m
            /\ \A u \in DOMAIN db.metas : u # uuid => n.metas[u] = db.metas[u]
    <3> HIDE DEF uuid
    <3>1. uuid = db.byName[m.name]
      BY <2>1 DEF uuid
    <3> QED  BY <2>1, <3>1, UpdatePackageMetaIs
  <2> QED  BY <2>2 DEF m
<1>2. a.name \in DOMAIN db.byName /\ uuid \in DOMAIN db.metas /\ db.metas[uuid].name = a.name
  BY DEF DbInv, NamesInv, HasPackage
<1>3. \A k \in DOMAIN db.files : k[1] # uuid
  BY DEF PathsOf
<1> HIDE DEF new, uuid
<1>4. MetasInv(new, next)
  BY <1>1, <1>2 DEF DbInv, MetasInv
<1>5. NamesInv(new)
  BY <1>0, <1>1, <1>2 DEF DbInv, NamesInv
<1>6. TriggersInv(new) /\ PathsInv(new) /\ ScopesInv(new) /\ KeysInv(new, next)
  BY <1>1 DEF DbInv, TriggersInv, PathsInv, ScopesInv, KeysInv
<1>7. ArchiveInv(new)
  BY <1>1, <1>3 DEF DbInv, ArchiveInv
<1>8. DbInv(new, next)
  BY <1>1, <1>4, <1>5, <1>6, <1>7 DEF DbInv
<1> QED  BY <1>8 DEF new

LEMMA SetTriggersInv ==
    ASSUME NEW next \in Nat, NEW db, DbInv(db, next), NEW uuid \in DOMAIN db.metas, NEW trigger
    PROVE  DbInv(SetTriggers(db, uuid, trigger), next)
<1> DEFINE new == SetTriggers(db, uuid, trigger)
<1>1. /\ IsDb(new)
      /\ new.metas = db.metas /\ new.byName = db.byName
      /\ new.files = db.files /\ new.byPath = db.byPath
      /\ new.triggers = At(uuid, trigger) ++ db.triggers
  BY SetTriggersIs DEF DbInv
<1>2. DOMAIN new.triggers \subseteq DOMAIN db.metas
  <2> DEFINE x == At(uuid, trigger) ++ db.triggers
  <2>1. \A u : u \in DOMAIN x <=> u = uuid \/ u \in DOMAIN db.triggers
    BY PutIs
  <2> HIDE DEF x, new
  <2>2. new.triggers = x
    BY <1>1 DEF x
  <2> QED  BY <2>1, <2>2 DEF DbInv, TriggersInv
<1> HIDE DEF new
<1>3. MetasInv(new, next) /\ NamesInv(new) /\ TriggersInv(new)
  BY <1>1, <1>2 DEF DbInv, MetasInv, NamesInv, TriggersInv
<1>4. KeysInv(new, next) /\ ScopesInv(new) /\ PathsInv(new) /\ ArchiveInv(new)
  BY <1>1 DEF DbInv, KeysInv, ScopesInv, PathsInv, ArchiveInv
<1>5. DbInv(new, next)
  BY <1>1, <1>3, <1>4 DEF DbInv
<1> QED  BY <1>5 DEF new

\* The package goes, and its triggers; its rows may stay.
LEMMA RemoveMetaInv ==
    ASSUME NEW next \in Nat, NEW db, DbInv(db, next), NEW name, HasPackage(db, name)
    PROVE  DbInv(RemoveTriggers(RemovePackageMeta(db, name), db.byName[name]), next)
<1> DEFINE uuid == db.byName[name]  mid == RemovePackageMeta(db, name)
           new == RemoveTriggers(mid, uuid)
<1>1. /\ IsDb(mid)
      /\ mid.triggers = db.triggers /\ mid.files = db.files /\ mid.byPath = db.byPath
      /\ mid.metas = Drop(db.metas, uuid) /\ mid.byName = Drop(db.byName, name)
  BY RemovePackageMetaIs DEF DbInv
<1> HIDE DEF mid
<1>2. /\ IsDb(new)
      /\ new.metas = mid.metas /\ new.byName = mid.byName
      /\ new.files = mid.files /\ new.byPath = mid.byPath
      /\ new.triggers = Drop(mid.triggers, uuid)
  BY <1>1, RemoveTriggersIs
<1>3. name \in DOMAIN db.byName /\ uuid \in DOMAIN db.metas /\ db.metas[uuid].name = name
  BY DEF DbInv, NamesInv, HasPackage
<1> HIDE DEF new, uuid
<1>4. /\ \A u : u \in DOMAIN new.metas <=> u \in DOMAIN db.metas /\ u # uuid
      /\ \A u \in DOMAIN new.metas : new.metas[u] = db.metas[u]
  BY <1>1, <1>2, DropIs
<1>5. /\ \A n : n \in DOMAIN new.byName <=> n \in DOMAIN db.byName /\ n # name
      /\ \A n \in DOMAIN new.byName : new.byName[n] = db.byName[n]
  BY <1>1, <1>2, DropIs
<1>6. \A u : u \in DOMAIN new.triggers <=> u \in DOMAIN db.triggers /\ u # uuid
  BY <1>1, <1>2, DropIs
<1>7. new.files = db.files /\ new.byPath = db.byPath
  BY <1>1, <1>2
<1>8. MetasInv(new, next)
  BY <1>4 DEF DbInv, MetasInv
<1>9. NamesInv(new)
  BY <1>3, <1>4, <1>5 DEF DbInv, NamesInv
<1>10. TriggersInv(new)
  BY <1>4, <1>6 DEF DbInv, TriggersInv
<1>11. KeysInv(new, next) /\ ScopesInv(new) /\ PathsInv(new)
  BY <1>7 DEF DbInv, KeysInv, ScopesInv, PathsInv
<1>12. ArchiveInv(new)
  BY <1>4, <1>7 DEF DbInv, ArchiveInv
<1>13. DbInv(new, next)
  BY <1>2, <1>8, <1>9, <1>10, <1>11, <1>12 DEF DbInv
<1> QED  BY <1>13 DEF new, mid, uuid

(***************************************************************************)
(* What the operations do to rows that are there already.                  *)
(***************************************************************************)

LEMMA InsertRows ==
    ASSUME NEW next, NEW db, DbInv(db, next), NEW uuid, NEW paths, NEW row
    PROVE  LET new == InsertFiles(db, uuid, paths, row)
           IN  /\ IsDb(new)
               /\ new.metas = db.metas /\ new.byName = db.byName /\ new.triggers = db.triggers
               /\ \A k \in DOMAIN db.files :
                     /\ k \in DOMAIN new.files
                     /\ k[1] # uuid \/ db.files[k].isUser => new.files[k] = db.files[k]
               /\ \A p \in paths : <<uuid, p>> \in DOMAIN new.files
               /\ \A k \in DOMAIN new.files : \/ k[2] \in paths /\ new.files[k] = row
                                              \/ k \in DOMAIN db.files /\ new.files[k] = db.files[k]
<1> DEFINE new == InsertFiles(db, uuid, paths, row)  taken == Taken(db, uuid, paths)
           keys == {uuid} \X taken
<1>1. /\ IsDb(new)
      /\ new.metas = db.metas /\ new.byName = db.byName /\ new.triggers = db.triggers
      /\ \A k : k \in DOMAIN new.files <=> k \in keys \/ k \in DOMAIN db.files
      /\ \A k \in keys : new.files[k] = row
      /\ \A k \in DOMAIN db.files : k \notin keys => new.files[k] = db.files[k]
  BY InsertFilesIs DEF DbInv
<1>2. /\ \A k \in keys : k = <<k[1], k[2]>> /\ k[1] = uuid /\ k[2] \in taken
      /\ \A p \in taken : <<uuid, p>> \in keys
  OBVIOUS
<1>3. /\ \A p : p \in taken <=> p \in paths /\ ~IsUserRow(db, uuid, p)
      /\ \A k \in DOMAIN db.files : k = <<k[1], k[2]>>
  BY RowsOfIs DEF Taken, DbInv, KeysInv
<1> HIDE DEF new, taken, keys
<1>4. ASSUME NEW k \in DOMAIN db.files, k[1] # uuid \/ db.files[k].isUser PROVE k \notin keys
  <2>1. k = <<k[1], k[2]>>
    BY <1>3
  <2>2. k[1] = uuid => IsUserRow(db, uuid, k[2])
    BY <1>4, <2>1 DEF IsUserRow
  <2> QED  BY <1>2, <1>3, <2>2
<1>5. ASSUME NEW p \in paths PROVE <<uuid, p>> \in DOMAIN new.files
  <2>1. CASE IsUserRow(db, uuid, p)
    BY <1>1, <2>1 DEF IsUserRow
  <2>2. CASE ~IsUserRow(db, uuid, p)
    BY <1>1, <1>2, <1>3, <2>2
  <2> QED  BY <2>1, <2>2
<1>6. ASSUME NEW k \in DOMAIN new.files
      PROVE \/ k[2] \in paths /\ new.files[k] = row
            \/ k \in DOMAIN db.files /\ new.files[k] = db.files[k]
  BY <1>1, <1>2, <1>3
<1>7. \A k \in DOMAIN db.files : /\ k \in DOMAIN new.files
                                 /\ k[1] # uuid \/ db.files[k].isUser => new.files[k] = db.files[k]
  BY <1>1, <1>4
<1> QED  BY <1>1, <1>5, <1>6, <1>7 DEF new

LEMMA WithFilesInv ==
    ASSUME NEW next \in Nat, NEW db, DbInv(db, next), NEW uuid \in Nat, uuid < next,
           NEW a \in Known, db.metas[uuid] = Meta(a)
    PROVE  DbInv(WithFiles(db, uuid, a), next)
<1> DEFINE usr == Imported(a.usr)  etc == Imported(a.etc)
           u == Row(FALSE, "prefix")  e == Row(FALSE, "config")
           mid == InsertFiles(db, uuid, usr, u)
<1>1. usr \subseteq FilesIn(a) /\ etc \subseteq FilesIn(a) /\ etc \subseteq EtcPaths
  BY DEF Imported, FilesIn, EtcPaths
<1>2. \A p \in usr : IsPath(p)
  BY PackagesAssumption DEF Imported, Leaves, WellFormed
<1>3. u.scope = "prefix" /\ e.scope = "config"
  BY DEF Row
<1> HIDE DEF usr, etc, u, e
<1>4. DbInv(mid, next)
  BY <1>1, <1>2, <1>3, InsertFilesInv
<1>5. mid.metas[uuid] = Meta(a)
  BY InsertFilesIs DEF DbInv
<1> HIDE DEF mid
<1>6. DbInv(InsertFiles(mid, uuid, etc, e), next)
  BY <1>1, <1>3, <1>4, <1>5, InsertFilesInv
<1> QED  BY <1>6 DEF WithFiles, mid, usr, etc, u, e

\* Rows of one package for some files have come, and others of /etc; those that
\* were there are there, as they were if they are of another or the user's.
RowsCame(old, new, uuid, paths) ==
    /\ new.metas = old.metas /\ new.byName = old.byName /\ new.triggers = old.triggers
    /\ \A k \in DOMAIN old.files :
          /\ k \in DOMAIN new.files
          /\ k[1] # uuid \/ old.files[k].isUser => new.files[k] = old.files[k]
    /\ \A p \in paths : <<uuid, p>> \in DOMAIN new.files
    /\ \A k \in DOMAIN new.files :
          new.files[k].scope = "prefix" =>
             k[2] \in paths \/ (k \in DOMAIN old.files /\ old.files[k].scope = "prefix")

LEMMA WithFilesRows ==
    ASSUME NEW next \in Nat, NEW db, DbInv(db, next), NEW uuid \in Nat, uuid < next,
           NEW a \in Known, db.metas[uuid] = Meta(a)
    PROVE  RowsCame(db, WithFiles(db, uuid, a), uuid, Leaves(a.usr))
<1> DEFINE usr == Leaves(a.usr)  etc == Leaves(a.etc)
           u == Row(FALSE, "prefix")  e == Row(FALSE, "config")
           mid == InsertFiles(db, uuid, usr, u)  new == InsertFiles(mid, uuid, etc, e)
<1>1. /\ \A p \in usr : IsPath(p) /\ p \in FilesIn(a)
      /\ u.scope = "prefix" /\ e.scope = "config"
  BY PackagesAssumption DEF Leaves, WellFormed, Row, FilesIn
<1> HIDE DEF usr, etc, u, e
<1>2. DbInv(mid, next)
  <2>1. usr \subseteq FilesIn(a)
    BY <1>1
  <2> QED  BY <1>1, <2>1, InsertFilesInv
<1>3. /\ mid.metas = db.metas /\ mid.byName = db.byName /\ mid.triggers = db.triggers
      /\ \A k \in DOMAIN db.files :
            /\ k \in DOMAIN mid.files
            /\ k[1] # uuid \/ db.files[k].isUser => mid.files[k] = db.files[k]
      /\ \A p \in usr : <<uuid, p>> \in DOMAIN mid.files
      /\ \A k \in DOMAIN mid.files : \/ k[2] \in usr /\ mid.files[k] = u
                                     \/ k \in DOMAIN db.files /\ mid.files[k] = db.files[k]
  BY InsertRows
<1> HIDE DEF mid
<1>4. /\ new.metas = mid.metas /\ new.byName = mid.byName /\ new.triggers = mid.triggers
      /\ \A k \in DOMAIN mid.files :
            /\ k \in DOMAIN new.files
            /\ k[1] # uuid \/ mid.files[k].isUser => new.files[k] = mid.files[k]
      /\ \A k \in DOMAIN new.files : \/ k[2] \in etc /\ new.files[k] = e
                                     \/ k \in DOMAIN mid.files /\ new.files[k] = mid.files[k]
  BY <1>2, InsertRows
<1> HIDE DEF new
<1>5. \A k \in DOMAIN db.files :
         /\ k \in DOMAIN new.files
         /\ k[1] # uuid \/ db.files[k].isUser => new.files[k] = db.files[k]
  BY <1>3, <1>4
<1>6. \A p \in usr : <<uuid, p>> \in DOMAIN new.files
  BY <1>3, <1>4
<1>7. ASSUME NEW k \in DOMAIN new.files, new.files[k].scope = "prefix"
      PROVE  k[2] \in usr \/ (k \in DOMAIN db.files /\ db.files[k].scope = "prefix")
  BY <1>1, <1>3, <1>4, <1>7
<1>8. WithFiles(db, uuid, a) = new
  BY DEF WithFiles, Imported, new, mid, usr, etc, u, e
<1> HIDE DEF usr
<1>9. new.metas = db.metas /\ new.byName = db.byName /\ new.triggers = db.triggers
  BY <1>3, <1>4
<1>10. RowsCame(db, new, uuid, usr)
  BY <1>5, <1>6, <1>7, <1>9 DEF RowsCame
<1> QED  BY <1>8, <1>10 DEF usr

(***************************************************************************)
(* How a database may differ from an earlier one.                          *)
(***************************************************************************)

Others(old, new, names) ==
    \A u \in DOMAIN old.metas : old.metas[u].name \notin names =>
       /\ u \in DOMAIN new.metas /\ new.metas[u] = old.metas[u]
       /\ u \in DOMAIN old.triggers =>
             u \in DOMAIN new.triggers /\ new.triggers[u] = old.triggers[u]
       /\ \A k \in DOMAIN old.files : k[1] = u =>
             k \in DOMAIN new.files /\ new.files[k] = old.files[k]

UserRowsKept(old, new) ==
    \A k \in DOMAIN old.files : old.files[k].isUser =>
       k \in DOMAIN new.files /\ new.files[k].isUser

Laid(old, new, brought) ==
    \A k \in DOMAIN new.files : new.files[k].scope = "prefix" =>
       k[2] \in brought \/ (k \in DOMAIN old.files /\ old.files[k].scope = "prefix")

\* Only files of packages with one of the names have gone, and nothing else
\* has changed.
Took(from, old, to, new, names) ==
    /\ \A p \in DOMAIN to : p \in DOMAIN from /\ to[p] = from[p]
    /\ \A p \in DOMAIN from : p \in DOMAIN to \/
          \E k \in DOMAIN old.files : /\ old.files[k].scope = "prefix" /\ IsPrefix(k[2], p)
                                    /\ k[1] \in DOMAIN old.metas /\ old.metas[k[1]].name \in names
    /\ \A k \in DOMAIN new.files : k \in DOMAIN old.files /\ new.files[k] = old.files[k]
    /\ \A u \in DOMAIN new.metas : u \in DOMAIN old.metas /\ new.metas[u] = old.metas[u]

LEMMA TookTransitive ==
    ASSUME NEW s, NEW a, NEW t, NEW b, NEW v, NEW c, NEW names,
           Took(s, a, t, b, names), Took(t, b, v, c, names)
    PROVE  Took(s, a, v, c, names)
<1>1. \A p \in DOMAIN v : p \in DOMAIN s /\ v[p] = s[p]
  BY DEF Took
<1>2. \A k \in DOMAIN c.files : k \in DOMAIN a.files /\ c.files[k] = a.files[k]
  BY DEF Took
<1>3. \A u \in DOMAIN c.metas : u \in DOMAIN a.metas /\ c.metas[u] = a.metas[u]
  BY DEF Took
<1>4. ASSUME NEW p \in DOMAIN s, p \notin DOMAIN v
      PROVE  \E k \in DOMAIN a.files : /\ a.files[k].scope = "prefix" /\ IsPrefix(k[2], p)
                                      /\ k[1] \in DOMAIN a.metas /\ a.metas[k[1]].name \in names
  <2>1. CASE p \notin DOMAIN t
    BY <2>1 DEF Took
  <2>2. CASE p \in DOMAIN t
    <3>1. PICK k \in DOMAIN b.files : /\ b.files[k].scope = "prefix" /\ IsPrefix(k[2], p)
                                     /\ k[1] \in DOMAIN b.metas /\ b.metas[k[1]].name \in names
      BY <1>4, <2>2 DEF Took
    <3>2. k \in DOMAIN a.files /\ b.files[k] = a.files[k]
      BY DEF Took
    <3>3. k[1] \in DOMAIN a.metas /\ b.metas[k[1]] = a.metas[k[1]]
      BY <3>1 DEF Took
    <3> QED  BY <3>1, <3>2, <3>3
  <2> QED  BY <2>1, <2>2
<1> QED  BY <1>1, <1>2, <1>3, <1>4 DEF Took

LEMMA OthersTransitive ==
    ASSUME NEW a, NEW b, NEW c, NEW names, Others(a, b, names), Others(b, c, names)
    PROVE  Others(a, c, names)
<1> SUFFICES ASSUME NEW u \in DOMAIN a.metas, a.metas[u].name \notin names
             PROVE  /\ u \in DOMAIN c.metas /\ c.metas[u] = a.metas[u]
                    /\ u \in DOMAIN a.triggers =>
                          u \in DOMAIN c.triggers /\ c.triggers[u] = a.triggers[u]
                    /\ \A k \in DOMAIN a.files : k[1] = u =>
                          k \in DOMAIN c.files /\ c.files[k] = a.files[k]
  BY DEF Others
<1>1. /\ u \in DOMAIN b.metas /\ b.metas[u] = a.metas[u]
      /\ u \in DOMAIN a.triggers => u \in DOMAIN b.triggers /\ b.triggers[u] = a.triggers[u]
      /\ \A k \in DOMAIN a.files : k[1] = u => k \in DOMAIN b.files /\ b.files[k] = a.files[k]
  BY DEF Others
<1>2. /\ u \in DOMAIN c.metas /\ c.metas[u] = b.metas[u]
      /\ u \in DOMAIN b.triggers => u \in DOMAIN c.triggers /\ c.triggers[u] = b.triggers[u]
      /\ \A k \in DOMAIN b.files : k[1] = u => k \in DOMAIN c.files /\ c.files[k] = b.files[k]
  BY <1>1 DEF Others
<1> QED  BY <1>1, <1>2

\* An install: the package comes beside what is there.
NewPackage(db, next, a) ==
    WithFiles(SetTriggers(InsertPackageMeta(db, next, Meta(a)), next, a.triggers), next, a)

LEMMA NewPackageIs ==
    ASSUME NEW next \in Nat, NEW db, DbInv(db, next), NEW a \in Known
    PROVE  LET new == NewPackage(db, next, a)
           IN  /\ DbInv(new, next + 1) /\ Others(db, new, {}) /\ UserRowsKept(db, new)
               /\ Laid(db, new, Leaves(a.usr))
               /\ \A k \in DOMAIN db.files : k \in DOMAIN new.files
               /\ \A p \in Leaves(a.usr) : <<next, p>> \in DOMAIN new.files
<1> DEFINE one == InsertPackageMeta(db, next, Meta(a))  two == SetTriggers(one, next, a.triggers)
           new == WithFiles(two, next, a)  t == At(next, a.triggers) ++ one.triggers
<1>0. next \in Nat /\ next + 1 \in Nat /\ next < next + 1 /\ \A n \in Nat : n < next => n # next
  OBVIOUS
<1>1. /\ DbInv(one, next + 1) /\ IsDb(one)
      /\ one.triggers = db.triggers /\ one.files = db.files
      /\ next \in DOMAIN one.metas /\ one.metas[next] = Meta(a)
      /\ \A u \in DOMAIN db.metas : u # next => u \in DOMAIN one.metas /\ one.metas[u] = db.metas[u]
  <2>1. DbInv(one, next + 1)
    BY InsertMetaInv
  <2>2. /\ one.triggers = db.triggers /\ one.files = db.files
        /\ next \in DOMAIN one.metas /\ one.metas[next] = Meta(a)
        /\ \A u \in DOMAIN db.metas : u # next => u \in DOMAIN one.metas /\ one.metas[u] = db.metas[u]
    BY InsertPackageMetaIs DEF DbInv
  <2> QED  BY <2>1, <2>2 DEF DbInv
<1>2. \A u \in DOMAIN t : u # next => t[u] = one.triggers[u]
  <2>1. /\ \A x : x \in DOMAIN t <=> x = next \/ x \in DOMAIN one.triggers
        /\ \A x \in DOMAIN one.triggers : x # next => t[x] = one.triggers[x]
    BY PutIs
  <2> QED  BY <2>1
<1>3. \A u \in DOMAIN one.triggers : u \in DOMAIN t
  BY PutIs
<1> HIDE DEF one, t
<1>4. DbInv(two, next + 1)
  BY <1>0, <1>1, SetTriggersInv
<1>5. two.metas = one.metas /\ two.files = one.files /\ two.triggers = t
  BY <1>1, SetTriggersIs DEF t
<1> HIDE DEF two
<1>6. DbInv(new, next + 1)
  BY <1>0, <1>1, <1>4, <1>5, WithFilesInv
<1>7. /\ new.metas = two.metas /\ new.triggers = two.triggers
      /\ \A k \in DOMAIN two.files :
            /\ k \in DOMAIN new.files
            /\ k[1] # next \/ two.files[k].isUser => new.files[k] = two.files[k]
      /\ \A p \in Leaves(a.usr) : <<next, p>> \in DOMAIN new.files
      /\ \A k \in DOMAIN new.files :
            new.files[k].scope = "prefix" =>
               k[2] \in Leaves(a.usr) \/ (k \in DOMAIN two.files /\ two.files[k].scope = "prefix")
  <2>1. RowsCame(two, new, next, Leaves(a.usr))
    BY <1>0, <1>1, <1>4, <1>5, WithFilesRows
  <2> HIDE DEF new
  <2> QED  BY <2>1 DEF RowsCame
<1> HIDE DEF new
<1>8. \A k \in DOMAIN db.files : k[1] # next /\ k \in DOMAIN new.files /\ new.files[k] = db.files[k]
  BY <1>0, <1>1, <1>5, <1>7 DEF DbInv, KeysInv
<1>9. \A u \in DOMAIN db.metas : /\ u # next /\ u \in DOMAIN new.metas /\ new.metas[u] = db.metas[u]
                                 /\ u \in DOMAIN db.triggers =>
                                       u \in DOMAIN new.triggers /\ new.triggers[u] = db.triggers[u]
  BY <1>0, <1>1, <1>2, <1>3, <1>5, <1>7 DEF DbInv, MetasInv
<1>10. Others(db, new, {})
  BY <1>8, <1>9 DEF Others
<1>11. UserRowsKept(db, new)
  BY <1>8 DEF UserRowsKept
<1>12. Laid(db, new, Leaves(a.usr))
  BY <1>1, <1>5, <1>7 DEF Laid
<1>13. NewPackage(db, next, a) = new
  BY DEF NewPackage, new, two, one
<1> QED  BY <1>6, <1>7, <1>8, <1>10, <1>11, <1>12, <1>13

\* An update: the rows of the old version go, and none of them is the user's.
OtherVersion(db, a) ==
    LET uuid == db.byName[a.name]
    IN  WithFiles(SetTriggers(UpdatePackageMeta(RemoveFiles(db, uuid, PathsOf(db, uuid)), Meta(a)),
                              uuid, a.triggers), uuid, a)

LEMMA OtherVersionIs ==
    ASSUME NEW next \in Nat, NEW db, DbInv(db, next), NEW a \in Known,
           HasPackage(db, a.name), NEW uuid, uuid = db.byName[a.name], UserPaths(db, uuid) = {}
    PROVE  LET new == OtherVersion(db, a)
           IN  /\ DbInv(new, next) /\ Others(db, new, {a.name}) /\ UserRowsKept(db, new)
               /\ Laid(db, new, Leaves(a.usr))
               /\ \A k \in DOMAIN db.files : k[1] # uuid => k \in DOMAIN new.files
               /\ \A p \in Leaves(a.usr) : <<uuid, p>> \in DOMAIN new.files
<1> DEFINE m == Meta(a)  old == PathsOf(db, uuid)
           one == RemoveFiles(db, uuid, old)  two == UpdatePackageMeta(one, m)
           three == SetTriggers(two, uuid, a.triggers)
           new == WithFiles(three, uuid, a)  t == At(uuid, a.triggers) ++ two.triggers
<1>0. /\ uuid \in DOMAIN db.metas /\ uuid \in Nat /\ uuid < next /\ db.metas[uuid].name = a.name
      /\ a.name \in DOMAIN db.byName /\ m.name = a.name
  BY DEF DbInv, NamesInv, MetasInv, HasPackage, Meta
<1>1. /\ IsDb(one) /\ one.metas = db.metas /\ one.byName = db.byName /\ one.triggers = db.triggers
      /\ \A k : k \in DOMAIN one.files <=> k \in DOMAIN db.files /\ k \notin {uuid} \X old
      /\ \A k \in DOMAIN one.files : one.files[k] = db.files[k]
  BY RemoveFilesIs DEF DbInv
<1>2. DbInv(one, next)
  BY RemoveFilesInv
<1>3. \A k \in DOMAIN db.files : k \in {uuid} \X old <=> k[1] = uuid
  <2>1. \A k \in DOMAIN db.files : k = <<k[1], k[2]>> /\ (k[1] = uuid => k[2] \in old)
    BY DEF DbInv, KeysInv, PathsOf
  <2> HIDE DEF old
  <2> QED  BY <2>1
<1> HIDE DEF one, old, m
<1>4. \A k : k \in DOMAIN one.files <=> k \in DOMAIN db.files /\ k[1] # uuid
  BY <1>1, <1>3
<1>5. PathsOf(one, uuid) = {}
  BY <1>4 DEF PathsOf
<1>6. DbInv(two, next)
  <2>1. HasPackage(one, a.name) /\ one.byName[a.name] = uuid
    BY <1>0, <1>1 DEF HasPackage
  <2> QED  BY <1>2, <1>5, <2>1, UpdateMetaInv DEF m
<1>7. /\ IsDb(two) /\ two.triggers = one.triggers /\ two.files = one.files
      /\ DOMAIN two.metas = DOMAIN one.metas /\ two.metas[uuid] = m
      /\ \A u \in DOMAIN one.metas : u # uuid => two.metas[u] = one.metas[u]
  <2>1. uuid = one.byName[m.name] /\ uuid \in DOMAIN one.metas
    BY <1>0, <1>1
  <2> QED  BY <1>1, <2>1, UpdatePackageMetaIs
<1>8. /\ \A u \in DOMAIN two.triggers : u \in DOMAIN t /\ (u # uuid => t[u] = two.triggers[u])
  BY PutIs
<1> HIDE DEF two, t
<1>9. DbInv(three, next)
  BY <1>0, <1>1, <1>6, <1>7, SetTriggersInv
<1>10. three.metas = two.metas /\ three.files = two.files /\ three.triggers = t
  BY <1>7, SetTriggersIs DEF t
<1> HIDE DEF three
<1>11. three.metas[uuid] = Meta(a)
  BY <1>7, <1>10 DEF m
<1>12. DbInv(new, next)
  BY <1>0, <1>9, <1>11, WithFilesInv
<1>13. /\ new.metas = three.metas /\ new.triggers = three.triggers
       /\ \A k \in DOMAIN three.files :
             /\ k \in DOMAIN new.files
             /\ k[1] # uuid \/ three.files[k].isUser => new.files[k] = three.files[k]
       /\ \A p \in Leaves(a.usr) : <<uuid, p>> \in DOMAIN new.files
       /\ \A k \in DOMAIN new.files :
             new.files[k].scope = "prefix" =>
                k[2] \in Leaves(a.usr) \/ (k \in DOMAIN three.files /\ three.files[k].scope = "prefix")
  <2>1. RowsCame(three, new, uuid, Leaves(a.usr))
    BY <1>0, <1>9, <1>11, WithFilesRows
  <2> HIDE DEF new
  <2> QED  BY <2>1 DEF RowsCame
<1> HIDE DEF new
<1>14. \A k \in DOMAIN db.files : k[1] # uuid => k \in DOMAIN new.files /\ new.files[k] = db.files[k]
  BY <1>1, <1>4, <1>7, <1>10, <1>13
<1>15. Others(db, new, {a.name})
  <2> SUFFICES ASSUME NEW u \in DOMAIN db.metas, db.metas[u].name # a.name
               PROVE  /\ u \in DOMAIN new.metas /\ new.metas[u] = db.metas[u]
                      /\ u \in DOMAIN db.triggers =>
                            u \in DOMAIN new.triggers /\ new.triggers[u] = db.triggers[u]
                      /\ \A k \in DOMAIN db.files : k[1] = u =>
                            k \in DOMAIN new.files /\ new.files[k] = db.files[k]
    BY DEF Others
  <2>1. u # uuid
    BY <1>0
  <2>2. u \in DOMAIN new.metas /\ new.metas[u] = db.metas[u]
    BY <1>1, <1>7, <1>10, <1>13, <2>1
  <2>3. u \in DOMAIN db.triggers => u \in DOMAIN new.triggers /\ new.triggers[u] = db.triggers[u]
    BY <1>1, <1>7, <1>8, <1>10, <1>13, <2>1
  <2> QED  BY <1>14, <2>1, <2>2, <2>3
<1>16. UserRowsKept(db, new)
  <2>1. \A k \in DOMAIN db.files : db.files[k].isUser => k[1] # uuid
    <3>1. \A p : ~IsUserRow(db, uuid, p)
      BY RowsOfIs DEF DbInv
    <3> QED  BY <3>1 DEF IsUserRow, DbInv, KeysInv
  <2> QED  BY <1>14, <2>1 DEF UserRowsKept
<1>17. Laid(db, new, Leaves(a.usr))
  BY <1>1, <1>4, <1>7, <1>10, <1>13 DEF Laid
<1>18. OtherVersion(db, a) = new
  BY DEF OtherVersion, new, three, two, one, m, old
<1> QED  BY <1>12, <1>13, <1>14, <1>15, <1>16, <1>17, <1>18

\* An uninstall: the package goes, with some of its rows.
NoPackage(db, name, rows) ==
    LET uuid == db.byName[name]
    IN  RemoveTriggers(RemovePackageMeta(RemoveFiles(db, uuid, rows), name), uuid)

\* The rows of one package for some paths have gone, and no others.
RowsGone(old, new, uuid, paths) ==
    /\ \A k : k \in DOMAIN new.files <=> k \in DOMAIN old.files /\ ~(k[1] = uuid /\ k[2] \in paths)
    /\ \A k \in DOMAIN new.files : new.files[k] = old.files[k]

LEMMA NoPackageIs ==
    ASSUME NEW next \in Nat, NEW db, DbInv(db, next), NEW name, HasPackage(db, name),
           NEW uuid, uuid = db.byName[name], NEW rows, NEW names, name \in names,
           NEW none, none = NoPackage(db, name, rows)
    PROVE  DbInv(none, next) /\ Others(db, none, names) /\ RowsGone(db, none, uuid, rows)
<1> DEFINE one == RemoveFiles(db, uuid, rows)  two == RemovePackageMeta(one, name)
           new == RemoveTriggers(two, uuid)
<1>0. uuid \in DOMAIN db.metas /\ db.metas[uuid].name = name /\ name \in DOMAIN db.byName
  BY DEF DbInv, NamesInv, HasPackage
<1>1. /\ IsDb(one) /\ one.metas = db.metas /\ one.byName = db.byName /\ one.triggers = db.triggers
      /\ \A k : k \in DOMAIN one.files <=> k \in DOMAIN db.files /\ k \notin {uuid} \X rows
      /\ \A k \in DOMAIN one.files : one.files[k] = db.files[k]
  BY RemoveFilesIs DEF DbInv
<1>2. DbInv(one, next)
  BY RemoveFilesInv
<1> HIDE DEF one
<1>3. DbInv(new, next)
  <2>1. HasPackage(one, name) /\ one.byName[name] = uuid
    BY <1>0, <1>1 DEF HasPackage
  <2>2. DbInv(RemoveTriggers(RemovePackageMeta(one, name), one.byName[name]), next)
    BY <1>2, <2>1, RemoveMetaInv
  <2> QED  BY <2>1, <2>2
<1>4. IsDb(two) /\ two.triggers = one.triggers /\ two.files = one.files /\ two.metas = Drop(one.metas, uuid)
  <2>1. uuid = one.byName[name]
    BY <1>1
  <2> QED  BY <1>1, <2>1, RemovePackageMetaIs
<1> HIDE DEF two
<1>5. new.metas = two.metas /\ new.files = two.files /\ new.triggers = Drop(two.triggers, uuid)
  BY <1>4, RemoveTriggersIs
<1> HIDE DEF new
<1>6. \A u \in DOMAIN db.metas : u # uuid => u \in DOMAIN new.metas /\ new.metas[u] = db.metas[u]
  BY <1>1, <1>4, <1>5, DropIs
<1>7. \A u \in DOMAIN db.triggers : u # uuid => u \in DOMAIN new.triggers /\ new.triggers[u] = db.triggers[u]
  BY <1>1, <1>4, <1>5, DropIs
<1>8. /\ \A k : k \in DOMAIN new.files <=> k \in DOMAIN db.files /\ ~(k[1] = uuid /\ k[2] \in rows)
      /\ \A k \in DOMAIN new.files : new.files[k] = db.files[k]
  <2>1. \A k \in DOMAIN db.files : k \in {uuid} \X rows <=> k[1] = uuid /\ k[2] \in rows
    BY DEF DbInv, KeysInv
  <2> QED  BY <1>1, <1>4, <1>5, <2>1
<1>9. Others(db, new, names)
  BY <1>0, <1>6, <1>7, <1>8 DEF Others
<1>10. none = new
  BY DEF NoPackage, new, two, one
<1> QED  BY <1>3, <1>8, <1>9, <1>10 DEF RowsGone

LEMMA NoPackageMetas ==
    ASSUME NEW db, IsDb(db), NEW name, NEW rows
    PROVE  \A u \in DOMAIN NoPackage(db, name, rows).metas :
              u \in DOMAIN db.metas /\ NoPackage(db, name, rows).metas[u] = db.metas[u]
<1> DEFINE uuid == db.byName[name]  one == RemoveFiles(db, uuid, rows)
           two == RemovePackageMeta(one, name)  new == RemoveTriggers(two, uuid)
           id == one.byName[name]
<1>1. IsDb(one) /\ one.metas = db.metas
  BY RemoveFilesIs
<1> HIDE DEF one
<1>2. IsDb(two) /\ two.metas = Drop(one.metas, id)
  BY <1>1, RemovePackageMetaIs
<1> HIDE DEF two, id
<1>3. new.metas = two.metas
  BY <1>2, RemoveTriggersIs
<1>4. NoPackage(db, name, rows) = new
  BY DEF NoPackage, new, two, one
<1> HIDE DEF new
<1> QED  BY <1>1, <1>2, <1>3, <1>4, DropIs

(***************************************************************************)
(* Trees and the lists of what is in them.                                 *)
(***************************************************************************)

\* Every file but the database is on the list of some package.
Listed(tree, db) ==
    \A p \in Leaves(tree) \ ({DbPath} \cup EtcPaths) : \E u : <<u, p>> \in DOMAIN db.files

Good(tree, db, next) == WellFormed(tree) /\ DbInv(db, next) /\ Listed(tree, db)

LEMMA ImportIs ==
    ASSUME NEW t, NEW source
    PROVE  LET new == ImportDirectory(t, source)
           IN  /\ \A p \in Leaves(new) : p \in Leaves(source) \/ p \in Leaves(t)
               /\ \A p \in DOMAIN t : p \in DOMAIN new \/ \E q \in DOMAIN source : IsPrefix(q, p)
<1> DEFINE w == Without(t, DOMAIN source)  new == source ++ w
<1>1. /\ \A x : x \in DOMAIN w <=> x \in DOMAIN t /\ \A q \in DOMAIN source : ~IsPrefix(q, x)
      /\ \A x \in DOMAIN w : w[x] = t[x]
  BY WithoutIs
<1> HIDE DEF w
<1>2. /\ \A x : x \in DOMAIN new <=> x \in DOMAIN source \/ x \in DOMAIN w
      /\ \A x \in DOMAIN source : new[x] = source[x]
      /\ \A x \in DOMAIN w \ DOMAIN source : new[x] = w[x]
  BY OverIs
<1>3. ImportDirectory(t, source) = new
  BY DEF ImportDirectory, new, w
<1> HIDE DEF new
<1>4. \A p \in Leaves(new) : p \in Leaves(source) \/ p \in Leaves(t)
  BY <1>1, <1>2 DEF Leaves
<1>5. \A p \in DOMAIN t : p \in DOMAIN new \/ \E q \in DOMAIN source : IsPrefix(q, p)
  BY <1>1, <1>2
<1> QED  BY <1>3, <1>4, <1>5

LEMMA LeavesWithout ==
    ASSUME NEW t, NEW ps, WellFormed(t)
    PROVE  \A p \in Leaves(Without(t, ps)) : p \in Leaves(t) /\ p \notin ps
<1>1. \A p \in Leaves(Without(t, ps)) : p \in Leaves(t) /\ \A q \in ps : ~IsPrefix(q, p)
  BY WithoutIs DEF Leaves
<1>2. \A p \in Leaves(t) : IsPrefix(p, p)
  BY PrefixReflexive DEF Leaves, WellFormed
<1> QED  BY <1>1, <1>2

LEMMA WithFileIs ==
    ASSUME NEW t, NEW p, NEW leaf, WellFormed(t), IsPath(p),
           \A a \in Ancestors(p) \cap DOMAIN t : t[a] = Dir
    PROVE  LET new == WithFile(t, p, leaf)
           IN  /\ WellFormed(new)
               /\ \A x \in Leaves(new) : x = p \/ x \in Leaves(t)
               /\ p \in DOMAIN new /\ new[p] = leaf
<1> DEFINE f == [a \in Missing(t, p) |-> Dir]  mid == f ++ t  new == Insert(mid, p, leaf)
<1>0. DOMAIN f = Missing(t, p) /\ \A a \in DOMAIN f : f[a] = Dir
  OBVIOUS
<1> HIDE DEF f
<1>1. /\ \A x : x \in DOMAIN mid <=> x \in Missing(t, p) \/ x \in DOMAIN t
      /\ \A x \in Missing(t, p) : mid[x] = Dir
      /\ \A x \in DOMAIN t : x \notin Missing(t, p) => mid[x] = t[x]
  BY <1>0, OverIs
<1> HIDE DEF mid
<1>2. \A a \in Ancestors(p) : a \in DOMAIN mid /\ mid[a] = Dir
  BY <1>1 DEF Missing
<1>3. \A x \in DOMAIN t : mid[x] = t[x]
  BY <1>1 DEF Missing
<1>4. WellFormed(mid)
  <2> SUFFICES ASSUME NEW x \in DOMAIN mid
               PROVE  IsPath(x) /\ \A a \in Ancestors(x) : a \in DOMAIN mid /\ mid[a] = Dir
    BY DEF WellFormed
  <2>1. CASE x \in DOMAIN t
    BY <1>1, <1>3, <2>1 DEF WellFormed
  <2>2. CASE x \in Missing(t, p)
    <3>1. x \in Ancestors(p)
      BY <2>2 DEF Missing
    <3>2. IsPath(x) /\ Ancestors(x) \subseteq Ancestors(p)
      BY <3>1, AncestorIs, AncestorsNest
    <3> QED  BY <1>2, <3>2
  <2> QED  BY <1>1, <2>1, <2>2
<1>5. WellFormed(new)
  BY <1>2, <1>4, InsertWellFormed
<1>6. /\ \A x : x \in DOMAIN new <=> x = p \/ (x \in DOMAIN mid /\ ~IsPrefix(p, x))
      /\ new[p] = leaf
      /\ \A x \in DOMAIN new : x # p => new[x] = mid[x]
  BY InsertIs
<1>7. WithFile(t, p, leaf) = new
  BY DEF WithFile, new, mid, f
<1> HIDE DEF new
<1>8. ASSUME NEW x \in Leaves(new), x # p PROVE x \in Leaves(t)
  <2>1. x \in DOMAIN new /\ new[x] \notin Marks
    BY <1>8 DEF Leaves
  <2>2. x \in DOMAIN mid /\ mid[x] \notin Marks
    BY <1>6, <1>8, <2>1
  <2>3. x \notin Missing(t, p)
    BY <1>1, <2>2 DEF Marks
  <2> QED  BY <1>1, <2>2, <2>3 DEF Leaves
<1> QED  BY <1>5, <1>6, <1>7, <1>8

(***************************************************************************)
(* The working copies.                                                     *)
(***************************************************************************)

IsWork(w) ==
    w = [command |-> w.command, names |-> w.names, rest |-> w.rest,
         tree |-> w.tree, db |-> w.db, next |-> w.next]

WithCopies(w, t, d) == [w EXCEPT !.tree = t, !.db = d]
WithCopiesNext(w, t, d, n) == [w EXCEPT !.tree = t, !.db = d, !.next = n]

LEMMA CopiesPut ==
    ASSUME NEW w, IsWork(w), NEW t, NEW d
    PROVE  LET new == WithCopies(w, t, d)
           IN  /\ IsWork(new) /\ new.tree = t /\ new.db = d /\ new.next = w.next
               /\ new.command = w.command /\ new.names = w.names /\ new.rest = w.rest
<1> DEFINE one == [w EXCEPT !.tree = t]  two == [one EXCEPT !.db = d]
<1>1. /\ IsWork(one) /\ one.tree = t /\ one.db = w.db /\ one.next = w.next
      /\ one.command = w.command /\ one.names = w.names /\ one.rest = w.rest
  BY DEF IsWork
<1>2. WithCopies(w, t, d) = two
  BY Zenon DEF WithCopies, two, one
<1> HIDE DEF one
<1>3. /\ IsWork(two) /\ two.tree = t /\ two.db = d /\ two.next = w.next
      /\ two.command = w.command /\ two.names = w.names /\ two.rest = w.rest
  BY <1>1 DEF IsWork
<1> HIDE DEF two
<1> QED  BY <1>2, <1>3

LEMMA CopiesNextPut ==
    ASSUME NEW w, IsWork(w), NEW t, NEW d, NEW n
    PROVE  LET new == WithCopiesNext(w, t, d, n)
           IN  /\ IsWork(new) /\ new.tree = t /\ new.db = d /\ new.next = n
               /\ new.command = w.command /\ new.names = w.names /\ new.rest = w.rest
<1> DEFINE one == WithCopies(w, t, d)  two == [one EXCEPT !.next = n]
<1>1. /\ IsWork(one) /\ one.tree = t /\ one.db = d /\ one.next = w.next
      /\ one.command = w.command /\ one.names = w.names /\ one.rest = w.rest
  BY CopiesPut
<1>2. WithCopiesNext(w, t, d, n) = two
  BY Zenon DEF WithCopiesNext, WithCopies, two, one
<1> HIDE DEF one
<1>3. /\ IsWork(two) /\ two.tree = t /\ two.db = d /\ two.next = n
      /\ two.command = w.command /\ two.names = w.names /\ two.rest = w.rest
  BY <1>1 DEF IsWork
<1> HIDE DEF two
<1> QED  BY <1>2, <1>3

LEMMA DbPut ==
    ASSUME NEW w, IsWork(w), NEW d
    PROVE  LET new == [w EXCEPT !.db = d]
           IN  /\ IsWork(new) /\ new.tree = w.tree /\ new.db = d /\ new.next = w.next
               /\ new.command = w.command /\ new.names = w.names /\ new.rest = w.rest
  BY DEF IsWork

WithRest(w, r) == [w EXCEPT !.rest = r]

LEMMA RestPut ==
    ASSUME NEW w, IsWork(w), NEW r
    PROVE  LET new == WithRest(w, r)
           IN  /\ IsWork(new) /\ new.tree = w.tree /\ new.db = w.db /\ new.next = w.next
               /\ new.command = w.command /\ new.names = w.names /\ new.rest = r
  BY DEF IsWork, WithRest

\* What a command lays into the tree, and the commands that keep the files of
\* the user.
Lays(w) == {DbPath} \cup IF w.command \in {"install", "update", "downgrade"}
                         THEN UNION {DOMAIN a.usr : a \in {b \in Archives : b.name \in w.names}}
                         ELSE {}

Keeping == {"install", "update", "downgrade", "uninstall"}

\* A path leaves the tree under something that is laid there, or under a file
\* that is on a list and is not the user's.
Loses(w, n) ==
    \A p \in DOMAIN w.tree :
       \/ p \in DOMAIN n.tree
       \/ \E q \in Lays(w) : IsPrefix(q, p)
       \/ \E k \in DOMAIN w.db.files : /\ ~w.db.files[k].isUser /\ w.db.files[k].scope = "prefix"
                                       /\ IsPrefix(k[2], p)

Working(w) == IsWork(w) /\ w.next \in Nat /\ Good(w.tree, w.db, w.next)

Stage(w, n) ==
    /\ Working(n) /\ n.next >= w.next
    /\ n.command = w.command /\ n.names = w.names /\ n.rest = w.rest
    /\ Others(w.db, n.db, w.names)
    /\ w.command = "files" => n.db.byName = w.db.byName
    /\ w.command \in Keeping =>
          UserRowsKept(w.db, n.db) /\ Laid(w.db, n.db, Lays(w)) /\ Loses(w, n)
    /\ w.command \in {"uninstall", "purge"} => Took(w.tree, w.db, n.tree, n.db, w.names)

LEMMA LaysIs ==
    ASSUME NEW w, w.command \in {"install", "update", "downgrade"}, NEW a \in Archives, a.name \in w.names
    PROVE  /\ \A q \in DOMAIN a.usr : q \in Lays(w)
           /\ Leaves(a.usr) \subseteq Lays(w)
<1>1. DOMAIN a.usr \subseteq UNION {DOMAIN b.usr : b \in {c \in Archives : c.name \in w.names}}
  OBVIOUS
<1>2. DOMAIN a.usr \subseteq Lays(w)
  BY <1>1 DEF Lays
<1> QED  BY <1>2 DEF Leaves

LEMMA OthersGrow ==
    ASSUME NEW old, NEW new, NEW some, NEW names, some \subseteq names, Others(old, new, some)
    PROVE  Others(old, new, names)
  BY DEF Others

LEMMA LaidGrow ==
    ASSUME NEW old, NEW new, NEW some, NEW brought, some \subseteq brought, Laid(old, new, some)
    PROVE  Laid(old, new, brought)
  BY DEF Laid

LEMMA InstallStage ==
    ASSUME NEW w, Working(w), w.command = "install", NEW a \in Archives, a.name \in w.names
    PROVE  Stage(w, ImportPackage(w, a))
<1> DEFINE n == ImportPackage(w, a)  t == ImportDirectory(w.tree, a.usr)
           d == NewPackage(w.db, w.next, a)  next == w.next + 1
<1>0. a \in Known /\ WellFormed(a.usr) /\ w.next \in Nat /\ next \in Nat /\ next >= w.next
  BY PackagesAssumption DEF Known, Working
<1>1. n = WithCopiesNext(w, t, d, next)
  BY DEF ImportPackage, NewPackage, WithCopiesNext, Working, IsWork
<1>2. WellFormed(t)
  BY <1>0, ImportWellFormed DEF Working, Good
<1>3. /\ DbInv(d, next) /\ Others(w.db, d, {}) /\ UserRowsKept(w.db, d)
      /\ Laid(w.db, d, Leaves(a.usr))
      /\ \A k \in DOMAIN w.db.files : k \in DOMAIN d.files
      /\ \A p \in Leaves(a.usr) : <<w.next, p>> \in DOMAIN d.files
  BY <1>0, NewPackageIs DEF Working, Good
<1>4. /\ \A p \in Leaves(t) : p \in Leaves(a.usr) \/ p \in Leaves(w.tree)
      /\ \A p \in DOMAIN w.tree : p \in DOMAIN t \/ \E q \in DOMAIN a.usr : IsPrefix(q, p)
  BY ImportIs
<1> HIDE DEF n, t, d, next
<1>5. /\ IsWork(n) /\ n.tree = t /\ n.db = d /\ n.next = next
      /\ n.command = w.command /\ n.names = w.names /\ n.rest = w.rest
  BY <1>1, CopiesNextPut DEF Working
<1>6. Listed(t, d)
  BY <1>3, <1>4 DEF Listed, Working, Good
<1>7. Working(n)
  BY <1>0, <1>2, <1>3, <1>5, <1>6 DEF Working, Good
<1>8. Loses(w, n)
  BY <1>4, <1>5, LaysIs DEF Loses
<1>9. Others(w.db, n.db, w.names)
  BY <1>3, <1>5, OthersGrow
<1>10. Laid(w.db, n.db, Lays(w))
  <2>1. Leaves(a.usr) \subseteq Lays(w)
    BY LaysIs
  <2> QED  BY <1>3, <1>5, <2>1, LaidGrow
<1>11. Stage(w, n)
  BY <1>0, <1>3, <1>5, <1>7, <1>8, <1>9, <1>10 DEF Stage
<1> QED  BY <1>11 DEF n

LEMMA UpdateStage ==
    ASSUME NEW w, Working(w), w.command \in {"update", "downgrade"},
           NEW a \in Archives, a.name \in w.names, ReplacePackage(w, a) # None
    PROVE  Stage(w, ReplacePackage(w, a))
<1> DEFINE n == ReplacePackage(w, a)  uuid == w.db.byName[a.name]
           gone == InScope(w.db, uuid, "prefix")  mid == Without(w.tree, gone)
           t == ImportDirectory(mid, a.usr)  d == OtherVersion(w.db, a)
<1>0. a \in Known /\ WellFormed(a.usr) /\ w.next \in Nat /\ w.next >= w.next
  BY PackagesAssumption DEF Known, Working
<1>1. /\ HasPackage(w.db, a.name) /\ n = WithCopies(w, t, d)
      /\ PathsOf(w.db, uuid) \cap UserPaths(w.db, uuid) = {}
  BY DEF ReplacePackage, CanRemovePackageFiles, OtherVersion, WithCopies, Working, IsWork
<1>2. /\ \A k \in DOMAIN w.db.files : k = <<k[1], k[2]>>
      /\ \A u, p : p \in PathsOf(w.db, u) <=> <<u, p>> \in DOMAIN w.db.files
      /\ \A u, p : p \in UserPaths(w.db, u) <=> IsUserRow(w.db, u, p)
  BY RowsOfIs DEF Working, Good, DbInv, KeysInv
<1>3. UserPaths(w.db, uuid) = {}
  BY <1>1 DEF UserPaths
<1>4. \A p : p \in gone <=> <<uuid, p>> \in DOMAIN w.db.files /\ w.db.files[<<uuid, p>>].scope = "prefix"
  BY <1>2 DEF InScope
<1>5. \A p \in gone : IsPath(p) /\ ~w.db.files[<<uuid, p>>].isUser
  <2> SUFFICES ASSUME NEW p \in gone PROVE IsPath(p) /\ ~w.db.files[<<uuid, p>>].isUser
    OBVIOUS
  <2> DEFINE k == <<uuid, p>>
  <2>1. k \in DOMAIN w.db.files /\ w.db.files[k].scope = "prefix" /\ k[2] = p
    BY <1>4
  <2>2. ~w.db.files[k].isUser
    BY <1>2, <1>3, <2>1 DEF IsUserRow
  <2> HIDE DEF k
  <2>3. IsPath(p)
    BY <2>1 DEF Working, Good, DbInv, ScopesInv
  <2> QED  BY <2>2, <2>3 DEF k
<1> HIDE DEF gone
<1>6. WellFormed(mid)
  BY <1>5, WithoutWellFormed DEF Working, Good
<1>7. /\ DbInv(d, w.next) /\ Others(w.db, d, {a.name}) /\ UserRowsKept(w.db, d)
      /\ Laid(w.db, d, Leaves(a.usr))
      /\ \A k \in DOMAIN w.db.files : k[1] # uuid => k \in DOMAIN d.files
      /\ \A p \in Leaves(a.usr) : <<uuid, p>> \in DOMAIN d.files
  BY <1>0, <1>1, <1>3, OtherVersionIs DEF Working, Good
<1>8. \A p \in Leaves(mid) : p \in Leaves(w.tree) /\ p \notin gone
  BY LeavesWithout DEF Working, Good
<1>9. \A p \in DOMAIN w.tree : p \in DOMAIN mid \/ \E q \in gone : IsPrefix(q, p)
  BY WithoutIs
<1> HIDE DEF n, mid, d, uuid
<1>10. WellFormed(t)
  BY <1>0, <1>6, ImportWellFormed
<1>11. /\ \A p \in Leaves(t) : p \in Leaves(a.usr) \/ p \in Leaves(mid)
       /\ \A p \in DOMAIN mid : p \in DOMAIN t \/ \E q \in DOMAIN a.usr : IsPrefix(q, p)
  BY ImportIs
<1> HIDE DEF t
<1>12. /\ IsWork(n) /\ n.tree = t /\ n.db = d /\ n.next = w.next
       /\ n.command = w.command /\ n.names = w.names /\ n.rest = w.rest
  BY <1>1, CopiesPut DEF Working
<1>13. Listed(t, d)
  <2> SUFFICES ASSUME NEW p \in Leaves(t) \ ({DbPath} \cup EtcPaths) PROVE \E u : <<u, p>> \in DOMAIN d.files
    BY DEF Listed
  <2>1. CASE p \in Leaves(a.usr)
    BY <1>7, <2>1
  <2>2. CASE p \in Leaves(mid)
    <3>1. p \in Leaves(w.tree) /\ p \notin gone
      BY <1>8, <2>2
    <3>2. PICK u : <<u, p>> \in DOMAIN w.db.files
      BY <3>1 DEF Working, Good, Listed
    <3> DEFINE k == <<u, p>>
    <3>3. k \in DOMAIN w.db.files /\ k[1] = u /\ k[2] = p
      BY <3>2
    <3>4. w.db.files[k].scope = "prefix"
      <4> HIDE DEF k
      <4> QED  BY <3>3 DEF Working, Good, DbInv, ScopesInv
    <3>5. u # uuid
      BY <1>4, <3>1, <3>2, <3>4
    <3>6. k \in DOMAIN d.files
      <4> HIDE DEF k
      <4> QED  BY <1>7, <3>3, <3>5
    <3> QED  BY <3>6
  <2> QED  BY <1>11, <2>1, <2>2
<1>14. Working(n)
  BY <1>0, <1>7, <1>10, <1>12, <1>13 DEF Working, Good
<1>15. Loses(w, n)
  <2> SUFFICES ASSUME NEW p \in DOMAIN w.tree, p \notin DOMAIN n.tree, ~\E q \in Lays(w) : IsPrefix(q, p)
               PROVE  \E k \in DOMAIN w.db.files : /\ ~w.db.files[k].isUser /\ w.db.files[k].scope = "prefix"
                                                   /\ IsPrefix(k[2], p)
    BY DEF Loses
  <2>1. \A q \in DOMAIN a.usr : q \in Lays(w)
    BY LaysIs
  <2>2. PICK q \in gone : IsPrefix(q, p)
    BY <1>9, <1>11, <1>12, <2>1
  <2> DEFINE k == <<uuid, q>>
  <2>3. k \in DOMAIN w.db.files /\ k[2] = q /\ ~w.db.files[k].isUser /\ w.db.files[k].scope = "prefix"
    BY <1>4, <1>5
  <2> HIDE DEF k
  <2> QED  BY <2>2, <2>3
<1>16. Others(w.db, n.db, w.names)
  <2>1. {a.name} \subseteq w.names
    OBVIOUS
  <2> QED  BY <1>7, <1>12, <2>1, OthersGrow
<1>17. Laid(w.db, n.db, Lays(w))
  <2>1. Leaves(a.usr) \subseteq Lays(w)
    BY LaysIs
  <2> QED  BY <1>7, <1>12, <2>1, LaidGrow
<1>18. Stage(w, n)
  BY <1>0, <1>7, <1>12, <1>14, <1>15, <1>16, <1>17 DEF Stage
<1> QED  BY <1>18 DEF n

LEMMA RemoveStage ==
    ASSUME NEW w, Working(w), w.command \in {"uninstall", "purge"},
           NEW name \in w.names, RemovePackage(w, name) # None
    PROVE  Stage(w, RemovePackage(w, name))
<1> DEFINE n == RemovePackage(w, name)  uuid == w.db.byName[name]
           rows == PathsOf(w.db, uuid) \ IF w.command = "purge" THEN {} ELSE UserPaths(w.db, uuid)
           gone == rows \cap InScope(w.db, uuid, "prefix")
           t == Without(w.tree, gone)  d == NoPackage(w.db, name, rows)
<1>0. w.next \in Nat /\ w.next >= w.next
  BY DEF Working
<1>1. HasPackage(w.db, name) /\ n = WithCopies(w, t, d)
  BY DEF RemovePackage, NoPackage, WithCopies, Working, IsWork
<1>2. /\ \A k \in DOMAIN w.db.files : k = <<k[1], k[2]>>
      /\ \A u, p : p \in PathsOf(w.db, u) <=> <<u, p>> \in DOMAIN w.db.files
      /\ \A u, p : p \in UserPaths(w.db, u) <=> IsUserRow(w.db, u, p)
  BY RowsOfIs DEF Working, Good, DbInv, KeysInv
<1>3. \A p : p \in rows <=> /\ <<uuid, p>> \in DOMAIN w.db.files
                            /\ w.command # "purge" => ~w.db.files[<<uuid, p>>].isUser
  BY <1>2 DEF IsUserRow
<1>4. \A p : p \in gone <=> p \in rows /\ w.db.files[<<uuid, p>>].scope = "prefix"
  BY <1>2, <1>3 DEF InScope
<1>5. \A p \in gone : IsPath(p)
  <2> SUFFICES ASSUME NEW p \in gone PROVE IsPath(p)
    OBVIOUS
  <2> DEFINE k == <<uuid, p>>
  <2>1. k \in DOMAIN w.db.files /\ w.db.files[k].scope = "prefix" /\ k[2] = p
    BY <1>3, <1>4
  <2> HIDE DEF k
  <2> QED  BY <2>1 DEF Working, Good, DbInv, ScopesInv
<1> HIDE DEF gone, rows
<1>6. WellFormed(t)
  BY <1>5, WithoutWellFormed DEF Working, Good
<1>7. /\ DbInv(d, w.next) /\ Others(w.db, d, w.names)
      /\ \A k : k \in DOMAIN d.files <=> k \in DOMAIN w.db.files /\ ~(k[1] = uuid /\ k[2] \in rows)
      /\ \A k \in DOMAIN d.files : d.files[k] = w.db.files[k]
  <2> DEFINE db == w.db  names == w.names  next == w.next
  <2>1. DbInv(db, next) /\ uuid = db.byName[name] /\ d = NoPackage(db, name, rows)
    BY DEF Working, Good
  <2>2. HasPackage(db, name) /\ next \in Nat /\ name \in names
    BY <1>0, <1>1
  <2> HIDE DEF uuid, n, t, d, db, names, next
  <2>3. DbInv(d, next) /\ Others(db, d, names) /\ RowsGone(db, d, uuid, rows)
    BY <2>1, <2>2, NoPackageIs
  <2> QED  BY <2>3 DEF RowsGone, db, names, next
<1>8. \A u \in DOMAIN d.metas : u \in DOMAIN w.db.metas /\ d.metas[u] = w.db.metas[u]
  BY NoPackageMetas DEF Working, Good, DbInv
<1>9. \A p \in Leaves(t) : p \in Leaves(w.tree) /\ p \notin gone
  BY LeavesWithout DEF Working, Good
<1>10. /\ \A p \in DOMAIN w.tree : p \in DOMAIN t \/ \E q \in gone : IsPrefix(q, p)
      /\ \A p \in DOMAIN t : p \in DOMAIN w.tree /\ t[p] = w.tree[p]
  BY WithoutIs
<1>11. uuid \in DOMAIN w.db.metas /\ w.db.metas[uuid].name \in w.names
  BY <1>1 DEF Working, Good, DbInv, NamesInv, HasPackage
<1> HIDE DEF n, t, d, uuid
<1>12. /\ IsWork(n) /\ n.tree = t /\ n.db = d /\ n.next = w.next
       /\ n.command = w.command /\ n.names = w.names /\ n.rest = w.rest
  BY <1>1, CopiesPut DEF Working
<1>13. Listed(t, d)
  <2> SUFFICES ASSUME NEW p \in Leaves(t) \ ({DbPath} \cup EtcPaths) PROVE \E u : <<u, p>> \in DOMAIN d.files
    BY DEF Listed
  <2>1. p \in Leaves(w.tree) /\ p \notin gone
    BY <1>9
  <2>2. PICK u : <<u, p>> \in DOMAIN w.db.files
    BY <2>1 DEF Working, Good, Listed
  <2> DEFINE k == <<u, p>>
  <2>3. k \in DOMAIN w.db.files /\ k[1] = u /\ k[2] = p
    BY <2>2
  <2>4. w.db.files[k].scope = "prefix"
    <3> HIDE DEF k
    <3> QED  BY <2>3 DEF Working, Good, DbInv, ScopesInv
  <2>5. ~(k[1] = uuid /\ k[2] \in rows)
    BY <1>4, <2>1, <2>3, <2>4
  <2>6. k \in DOMAIN d.files
    <3> HIDE DEF k
    <3> QED  BY <1>7, <2>3, <2>5
  <2> QED  BY <2>6
<1>14. Working(n)
  BY <1>0, <1>6, <1>7, <1>12, <1>13 DEF Working, Good
<1>15. Others(w.db, n.db, w.names)
  BY <1>7, <1>12
<1>16. Laid(w.db, n.db, Lays(w))
  BY <1>7, <1>12 DEF Laid
<1>17. ASSUME w.command # "purge" PROVE UserRowsKept(w.db, n.db) /\ Loses(w, n)
  <2>1. \A k \in DOMAIN w.db.files : w.db.files[k].isUser => ~(k[1] = uuid /\ k[2] \in rows)
    BY <1>2, <1>3, <1>17
  <2>2. UserRowsKept(w.db, n.db)
    BY <1>7, <1>12, <2>1 DEF UserRowsKept
  <2>3. Loses(w, n)
    <3> SUFFICES ASSUME NEW p \in DOMAIN w.tree, p \notin DOMAIN n.tree
                 PROVE  \E k \in DOMAIN w.db.files :
                           /\ ~w.db.files[k].isUser /\ w.db.files[k].scope = "prefix"
                           /\ IsPrefix(k[2], p)
      BY DEF Loses
    <3>1. PICK q \in gone : IsPrefix(q, p)
      BY <1>10, <1>12
    <3> DEFINE k == <<uuid, q>>
    <3>2. k \in DOMAIN w.db.files /\ k[2] = q /\ ~w.db.files[k].isUser /\ w.db.files[k].scope = "prefix"
      BY <1>3, <1>4, <1>17
    <3> HIDE DEF k
    <3> QED  BY <3>1, <3>2
  <2> QED  BY <2>2, <2>3
<1>18. Took(w.tree, w.db, t, d, w.names)
  <2>1. ASSUME NEW p \in DOMAIN w.tree, p \notin DOMAIN t
        PROVE  \E k \in DOMAIN w.db.files :
                  /\ w.db.files[k].scope = "prefix" /\ IsPrefix(k[2], p)
                  /\ k[1] \in DOMAIN w.db.metas /\ w.db.metas[k[1]].name \in w.names
    <3>1. PICK q \in gone : IsPrefix(q, p)
      BY <1>10, <2>1
    <3> DEFINE k == <<uuid, q>>
    <3>2. k \in DOMAIN w.db.files /\ k[1] = uuid /\ k[2] = q /\ w.db.files[k].scope = "prefix"
      BY <1>3, <1>4
    <3> HIDE DEF k
    <3> QED  BY <1>11, <3>1, <3>2
  <2> QED  BY <1>7, <1>10, <1>8, <2>1 DEF Took
<1>19. Stage(w, n)
  BY <1>0, <1>12, <1>14, <1>15, <1>16, <1>17, <1>18 DEF Stage, Keeping
<1> QED  BY <1>19 DEF n

(***************************************************************************)
(* The files command.                                                      *)
(***************************************************************************)

\* The package whose rows are written has one of the names.
LEMMA WrittenOthers ==
    ASSUME NEW next, NEW db, DbInv(db, next), NEW uuid, NEW names,
           uuid \in DOMAIN db.metas, db.metas[uuid].name \in names, NEW paths, NEW row
    PROVE  Others(db, InsertFiles(db, uuid, paths, row), names)
<1> DEFINE new == InsertFiles(db, uuid, paths, row)
<1>1. /\ new.metas = db.metas /\ new.triggers = db.triggers
      /\ \A k \in DOMAIN db.files :
            /\ k \in DOMAIN new.files
            /\ k[1] # uuid \/ db.files[k].isUser => new.files[k] = db.files[k]
  BY InsertRows
<1> HIDE DEF new
<1>2. Others(db, new, names)
  BY <1>1 DEF Others
<1> QED  BY <1>2 DEF new

LEMMA RemovedOthers ==
    ASSUME NEW next, NEW db, DbInv(db, next), NEW uuid, NEW names,
           uuid \in DOMAIN db.metas, db.metas[uuid].name \in names, NEW paths
    PROVE  Others(db, RemoveFiles(db, uuid, paths), names)
<1> DEFINE new == RemoveFiles(db, uuid, paths)
<1>1. /\ new.metas = db.metas /\ new.byName = db.byName /\ new.triggers = db.triggers
      /\ \A k : k \in DOMAIN new.files <=> k \in DOMAIN db.files /\ k \notin {uuid} \X paths
      /\ \A k \in DOMAIN new.files : new.files[k] = db.files[k]
  BY RemoveFilesIs DEF DbInv
<1>2. \A k : k \in {uuid} \X paths => k[1] = uuid
  OBVIOUS
<1> HIDE DEF new
<1>3. Others(db, new, names)
  BY <1>1, <1>2 DEF Others
<1> QED  BY <1>3 DEF new

LEMMA OneRowRemoved ==
    ASSUME NEW db, IsDb(db), NEW uuid, NEW p
    PROVE  LET new == RemoveFiles(db, uuid, {p})
           IN  /\ new.byName = db.byName
               /\ \A k \in DOMAIN db.files : k # <<uuid, p>> => k \in DOMAIN new.files
<1> DEFINE new == RemoveFiles(db, uuid, {p})
<1>1. /\ new.byName = db.byName
      /\ \A k : k \in DOMAIN new.files <=> k \in DOMAIN db.files /\ k \notin {uuid} \X {p}
  BY RemoveFilesIs
<1>2. \A k : k \in {uuid} \X {p} => k = <<uuid, p>>
  OBVIOUS
<1> HIDE DEF new
<1> QED  BY <1>1, <1>2 DEF new

LEMMA AddFileStage ==
    ASSUME NEW w, Working(w), w.command = "files", NEW name \in w.names, name \in DOMAIN w.db.byName,
           NEW uuid, uuid = w.db.byName[name], NEW file \in UserFiles, AddFile(w, uuid, file) # None
    PROVE  Stage(w, AddFile(w, uuid, file))
<1> DEFINE n == AddFile(w, uuid, file)  p == file.path  row == Row(TRUE, "prefix")
           t == WithFile(w.tree, p, file.leaf)  d == InsertFiles(w.db, uuid, {p}, row)
<1>0. /\ IsPath(p) /\ w.next \in Nat /\ w.next >= w.next
      /\ row.isUser /\ row.scope = "prefix"
  BY PackagesAssumption DEF Working, Row
<1>1. /\ \A a \in Ancestors(p) \cap DOMAIN w.tree : w.tree[a] = Dir
      /\ n = WithCopies(w, t, d)
  BY DEF AddFile, WithCopies, Working, IsWork
<1> HIDE DEF n, row
<1>2. /\ WellFormed(t)
      /\ \A x \in Leaves(t) : x = p \/ x \in Leaves(w.tree)
  BY <1>0, <1>1, WithFileIs DEF Working, Good
<1>3. /\ DbInv(d, w.next) /\ Others(w.db, d, w.names) /\ d.byName = w.db.byName
      /\ \A k \in DOMAIN w.db.files : k \in DOMAIN d.files
      /\ <<uuid, p>> \in DOMAIN d.files
  <2>1. DbInv(w.db, w.next) /\ IsDb(w.db)
    BY DEF Working, Good, DbInv
  <2>2. /\ uuid \in Nat /\ uuid < w.next /\ uuid \in DOMAIN w.db.metas
        /\ w.db.metas[uuid].name \in w.names
    BY <2>1 DEF DbInv, NamesInv, MetasInv
  <2>3. DbInv(d, w.next)
    <3>1. \A q \in {p} : \/ row.scope = "prefix" /\ IsPath(q)
                         \/ row.scope = "config" /\ q \in EtcPaths
      BY <1>0
    <3> QED  BY <1>0, <2>1, <2>2, <3>1, InsertFilesInv
  <2>4. Others(w.db, d, w.names)
    BY <2>1, <2>2, WrittenOthers
  <2>5. /\ d.byName = w.db.byName
        /\ \A k \in DOMAIN w.db.files : k \in DOMAIN d.files
        /\ \A q \in {p} : <<uuid, q>> \in DOMAIN d.files
    BY <2>1, InsertRows
  <2> QED  BY <2>3, <2>4, <2>5
<1> HIDE DEF t, d
<1>4. /\ IsWork(n) /\ n.tree = t /\ n.db = d /\ n.next = w.next
      /\ n.command = w.command /\ n.names = w.names /\ n.rest = w.rest
  BY <1>1, CopiesPut DEF Working
<1>5. Listed(t, d)
  BY <1>2, <1>3 DEF Listed, Working, Good
<1>6. Working(n)
  BY <1>0, <1>2, <1>3, <1>4, <1>5 DEF Working, Good
<1>7. Others(w.db, n.db, w.names)
  BY <1>3, <1>4
<1>8. Stage(w, n)
  BY <1>0, <1>3, <1>4, <1>6, <1>7 DEF Stage, Keeping
<1> QED  BY <1>8 DEF n

LEMMA RemoveFileStage ==
    ASSUME NEW w, Working(w), w.command = "files", NEW name \in w.names, name \in DOMAIN w.db.byName,
           NEW uuid, uuid = w.db.byName[name], NEW p \in FilePaths, RemoveFile(w, uuid, p) # None
    PROVE  Stage(w, RemoveFile(w, uuid, p))
<1> DEFINE n == RemoveFile(w, uuid, p)
           t == Without(w.tree, {p})  d == RemoveFiles(w.db, uuid, {p})
<1>0. IsPath(p) /\ w.next \in Nat /\ w.next >= w.next
  BY PackagesAssumption DEF Working, FilePaths
<1>1. n = WithCopies(w, t, d)
  BY DEF RemoveFile, RemoveInTree, WithCopies, Working, IsWork
<1> HIDE DEF n
<1>2. WellFormed(t)
  BY <1>0, WithoutWellFormed DEF Working, Good
<1>3. \A x \in Leaves(t) : x # p /\ x \in Leaves(w.tree)
  BY LeavesWithout DEF Working, Good
<1>4. /\ DbInv(d, w.next) /\ Others(w.db, d, w.names) /\ d.byName = w.db.byName
      /\ \A k \in DOMAIN w.db.files : k # <<uuid, p>> => k \in DOMAIN d.files
  <2>1. DbInv(w.db, w.next) /\ IsDb(w.db)
    BY DEF Working, Good, DbInv
  <2>2. /\ uuid \in Nat /\ uuid < w.next /\ uuid \in DOMAIN w.db.metas
        /\ w.db.metas[uuid].name \in w.names
    BY <2>1 DEF DbInv, NamesInv, MetasInv
  <2>3. DbInv(d, w.next)
    BY <1>0, <2>1, RemoveFilesInv
  <2>4. Others(w.db, d, w.names)
    BY <2>1, <2>2, RemovedOthers
  <2>5. /\ d.byName = w.db.byName
        /\ \A k \in DOMAIN w.db.files : k # <<uuid, p>> => k \in DOMAIN d.files
    BY <2>1, OneRowRemoved
  <2> QED  BY <2>3, <2>4, <2>5
<1> HIDE DEF t, d
<1>5. /\ IsWork(n) /\ n.tree = t /\ n.db = d /\ n.next = w.next
      /\ n.command = w.command /\ n.names = w.names /\ n.rest = w.rest
  BY <1>1, CopiesPut DEF Working
<1>6. Listed(t, d)
  <2> SUFFICES ASSUME NEW x \in Leaves(t) \ ({DbPath} \cup EtcPaths) PROVE \E u : <<u, x>> \in DOMAIN d.files
    BY DEF Listed
  <2>1. PICK u : <<u, x>> \in DOMAIN w.db.files
    BY <1>3 DEF Working, Good, Listed
  <2>2. <<u, x>> # <<uuid, p>>
    BY <1>3
  <2> QED  BY <1>4, <2>1, <2>2
<1>7. Working(n)
  BY <1>0, <1>2, <1>4, <1>5, <1>6 DEF Working, Good
<1>8. Others(w.db, n.db, w.names)
  BY <1>4, <1>5
<1>9. Stage(w, n)
  BY <1>0, <1>4, <1>5, <1>7, <1>8 DEF Stage, Keeping
<1> QED  BY <1>9 DEF n

LEMMA AttachConfigStage ==
    ASSUME NEW w, Working(w), w.command = "files", NEW name \in w.names, name \in DOMAIN w.db.byName,
           NEW uuid, uuid = w.db.byName[name], NEW p \in ConfigPaths
    PROVE  Stage(w, AttachConfig(w, uuid, p))
<1> DEFINE n == AttachConfig(w, uuid, p)  row == Row(TRUE, "config")
           d == InsertFiles(w.db, uuid, {p}, row)
<1>0. /\ p \in EtcPaths /\ w.next \in Nat /\ w.next >= w.next
      /\ row.isUser /\ row.scope = "config"
  BY DEF Working, Row, EtcPaths
<1>1. n = [w EXCEPT !.db = d]
  BY DEF AttachConfig, Working, IsWork
<1> HIDE DEF n, row
<1>2. /\ DbInv(d, w.next) /\ Others(w.db, d, w.names) /\ d.byName = w.db.byName
      /\ \A k \in DOMAIN w.db.files : k \in DOMAIN d.files
  <2>1. DbInv(w.db, w.next) /\ IsDb(w.db)
    BY DEF Working, Good, DbInv
  <2>2. /\ uuid \in Nat /\ uuid < w.next /\ uuid \in DOMAIN w.db.metas
        /\ w.db.metas[uuid].name \in w.names
    BY <2>1 DEF DbInv, NamesInv, MetasInv
  <2>3. DbInv(d, w.next)
    <3>1. \A q \in {p} : \/ row.scope = "prefix" /\ IsPath(q)
                         \/ row.scope = "config" /\ q \in EtcPaths
      BY <1>0
    <3> QED  BY <1>0, <2>1, <2>2, <3>1, InsertFilesInv
  <2>4. Others(w.db, d, w.names)
    BY <2>1, <2>2, WrittenOthers
  <2>5. /\ d.byName = w.db.byName
        /\ \A k \in DOMAIN w.db.files : k \in DOMAIN d.files
        /\ \A q \in {p} : <<uuid, q>> \in DOMAIN d.files
    BY <2>1, InsertRows
  <2> QED  BY <2>3, <2>4, <2>5
<1> HIDE DEF d
<1>3. /\ IsWork(n) /\ n.tree = w.tree /\ n.db = d /\ n.next = w.next
      /\ n.command = w.command /\ n.names = w.names /\ n.rest = w.rest
  BY <1>1, DbPut DEF Working
<1>4. Listed(w.tree, d)
  BY <1>2 DEF Listed, Working, Good
<1>5. Working(n)
  BY <1>0, <1>2, <1>3, <1>4 DEF Working, Good
<1>6. Others(w.db, n.db, w.names)
  BY <1>2, <1>3
<1>7. Stage(w, n)
  BY <1>0, <1>2, <1>3, <1>5, <1>6 DEF Stage, Keeping
<1> QED  BY <1>7 DEF n

LEMMA DetachConfigStage ==
    ASSUME NEW w, Working(w), w.command = "files", NEW name \in w.names, name \in DOMAIN w.db.byName,
           NEW uuid, uuid = w.db.byName[name], NEW p \in ConfigPaths, DetachConfig(w, uuid, p) # None
    PROVE  Stage(w, DetachConfig(w, uuid, p))
<1> DEFINE n == DetachConfig(w, uuid, p)  d == RemoveFiles(w.db, uuid, {p})
<1>0. p \in EtcPaths /\ w.next \in Nat /\ w.next >= w.next
  BY DEF Working, EtcPaths
<1>1. n = [w EXCEPT !.db = d]
  BY DEF DetachConfig, Working, IsWork
<1> HIDE DEF n
<1>2. /\ DbInv(d, w.next) /\ Others(w.db, d, w.names) /\ d.byName = w.db.byName
      /\ \A k \in DOMAIN w.db.files : k # <<uuid, p>> => k \in DOMAIN d.files
  <2>1. DbInv(w.db, w.next) /\ IsDb(w.db)
    BY DEF Working, Good, DbInv
  <2>2. /\ uuid \in Nat /\ uuid < w.next /\ uuid \in DOMAIN w.db.metas
        /\ w.db.metas[uuid].name \in w.names
    BY <2>1 DEF DbInv, NamesInv, MetasInv
  <2>3. DbInv(d, w.next)
    BY <1>0, <2>1, RemoveFilesInv
  <2>4. Others(w.db, d, w.names)
    BY <2>1, <2>2, RemovedOthers
  <2>5. /\ d.byName = w.db.byName
        /\ \A k \in DOMAIN w.db.files : k # <<uuid, p>> => k \in DOMAIN d.files
    BY <2>1, OneRowRemoved
  <2> QED  BY <2>3, <2>4, <2>5
<1> HIDE DEF d
<1>3. /\ IsWork(n) /\ n.tree = w.tree /\ n.db = d /\ n.next = w.next
      /\ n.command = w.command /\ n.names = w.names /\ n.rest = w.rest
  BY <1>1, DbPut DEF Working
<1>4. Listed(w.tree, d)
  <2> SUFFICES ASSUME NEW x \in Leaves(w.tree) \ ({DbPath} \cup EtcPaths) PROVE \E u : <<u, x>> \in DOMAIN d.files
    BY DEF Listed
  <2>1. PICK u : <<u, x>> \in DOMAIN w.db.files
    BY DEF Working, Good, Listed
  <2>2. <<u, x>> # <<uuid, p>>
    BY <1>0
  <2> QED  BY <1>2, <2>1, <2>2
<1>5. Working(n)
  BY <1>0, <1>2, <1>3, <1>4 DEF Working, Good
<1>6. Others(w.db, n.db, w.names)
  BY <1>2, <1>3
<1>7. Stage(w, n)
  BY <1>0, <1>2, <1>3, <1>5, <1>6 DEF Stage, Keeping
<1> QED  BY <1>7 DEF n

(***************************************************************************)
(* The inductive invariant.  Both images are good, and so are the working  *)
(* copies, which also remember what they were copied from.                 *)
(***************************************************************************)

Image(t, next) == DbPath \in DOMAIN t /\ Good(t, Database(t), next)

\* What is left to do is about packages that were named.
Asked(w) ==
    /\ w.command \in {"install", "update", "downgrade"} =>
          w.rest \in Seq({a \in Archives : a.name \in w.names})
    /\ w.command \in {"uninstall", "purge", "files"} => w.rest \in Seq(w.names)
    /\ w.command = "files" => w.names \subseteq DOMAIN w.db.byName

FilesStay(from, to, lays) ==
    LET old == Database(from)
    IN  \A k \in DOMAIN old.files : old.files[k].isUser =>
           \/ k[2] \notin DOMAIN from \/ k[2] \in DOMAIN to
           \/ \E q \in lays : IsPrefix(q, k[2])
           \/ \E v : v # k[1] /\ <<v, k[2]>> \in DOMAIN old.files
           \/ \E q \in Ancestors(k[2]) : \E v : <<v, q>> \in DOMAIN old.files

WorkInv(w, from, next) ==
    /\ Working(w) /\ w.next >= next /\ Asked(w)
    /\ Others(Database(from), w.db, w.names)
    /\ w.command \in Keeping =>
          /\ UserRowsKept(Database(from), w.db)
          /\ Laid(Database(from), w.db, Lays(w))
          /\ FilesStay(from, w.tree, Lays(w))
    /\ w.command \in {"uninstall", "purge"} => Took(from, Database(from), w.tree, w.db, w.names)

Inv ==
    /\ minted \in Nat
    /\ Image(booted, minted + 1)
    /\ armed = None \/ Image(armed, minted + 1)
    /\ work = None \/ WorkInv(work, booted, minted + 1)

LEMMA ImageGrows ==
    ASSUME NEW t, NEW next \in Nat, NEW more \in Nat, next <= more, Image(t, next)
    PROVE  Image(t, more)
<1> DEFINE db == Database(t)
<1>1. DbInv(db, next) /\ WellFormed(t) /\ Listed(t, db) /\ DbPath \in DOMAIN t
  BY DEF Image, Good
<1> HIDE DEF db
<1>2. MetasInv(db, more) /\ KeysInv(db, more)
  <2>1. \A u \in Nat : u < next => u < more
    OBVIOUS
  <2> QED  BY <1>1, <2>1 DEF DbInv, MetasInv, KeysInv
<1>3. DbInv(db, more)
  BY <1>1, <1>2 DEF DbInv
<1> QED  BY <1>1, <1>3 DEF Image, Good, db

\* A stage keeps what the working copies remember.
LEMMA StageKeeps ==
    ASSUME NEW w, NEW from, NEW next \in Nat, WorkInv(w, from, next), w.rest # <<>>,
           NEW n, Stage(w, n)
    PROVE  WorkInv([n EXCEPT !.rest = Tail(@)], from, next)
<1> DEFINE m == [n EXCEPT !.rest = Tail(@)]  old == Database(from)
<1>0. Working(w) /\ w.next \in Nat /\ n.next \in Nat /\ n.next >= w.next /\ w.next >= next
  BY DEF WorkInv, Stage, Working
<1>1. /\ IsWork(m) /\ m.tree = n.tree /\ m.db = n.db /\ m.next = n.next
      /\ m.command = w.command /\ m.names = w.names /\ m.rest = Tail(w.rest)
  <2> DEFINE r == Tail(n.rest)
  <2>1. m = WithRest(n, r) /\ IsWork(n)
    BY DEF Stage, Working, IsWork, WithRest
  <2>2. r = Tail(w.rest)
    BY DEF Stage
  <2> HIDE DEF m, r
  <2> QED  BY <2>1, <2>2, RestPut DEF Stage
<1> HIDE DEF m, old
<1>2. Working(m) /\ m.next >= next
  BY <1>0, <1>1 DEF Working, Stage
<1>3. Asked(m)
  <2>1. ASSUME NEW S, w.rest \in Seq(S) PROVE Tail(w.rest) \in Seq(S)
    BY <2>1
  <2>2. /\ w.command \in {"install", "update", "downgrade"} =>
              w.rest \in Seq({a \in Archives : a.name \in w.names})
        /\ w.command \in {"uninstall", "purge", "files"} => w.rest \in Seq(w.names)
        /\ w.command = "files" => w.names \subseteq DOMAIN m.db.byName
    BY <1>1 DEF WorkInv, Asked, Stage
  <2> QED  BY <1>1, <2>1, <2>2 DEF Asked
<1>4. Others(old, m.db, m.names)
  BY <1>1, OthersTransitive DEF WorkInv, Stage, old
<1>5. Lays(m) = Lays(w)
  BY <1>1 DEF Lays
<1>6. ASSUME w.command \in Keeping
      PROVE  /\ UserRowsKept(old, m.db) /\ Laid(old, m.db, Lays(m))
             /\ FilesStay(from, m.tree, Lays(m))
  <2>1. /\ UserRowsKept(old, w.db) /\ Laid(old, w.db, Lays(w)) /\ FilesStay(from, w.tree, Lays(w))
        /\ UserRowsKept(w.db, m.db) /\ Laid(w.db, m.db, Lays(w)) /\ Loses(w, n)
    BY <1>1, <1>6 DEF WorkInv, Stage, old
  <2>2. UserRowsKept(old, m.db)
    BY <2>1 DEF UserRowsKept
  <2>3. Laid(old, m.db, Lays(m))
    BY <1>5, <2>1 DEF Laid
  <2>4. FilesStay(from, m.tree, Lays(m))
    <3> SUFFICES ASSUME NEW k \in DOMAIN old.files, old.files[k].isUser,
                        k[2] \in DOMAIN from, k[2] \notin DOMAIN m.tree,
                        \A q \in Lays(w) : ~IsPrefix(q, k[2]),
                        ~\E q \in Ancestors(k[2]) : \E v : <<v, q>> \in DOMAIN old.files
                 PROVE  \E v : v # k[1] /\ <<v, k[2]>> \in DOMAIN old.files
      BY <1>5 DEF FilesStay, old
    <3>1. CASE k[2] \notin DOMAIN w.tree
      BY <2>1, <3>1 DEF FilesStay, old
    <3>2. CASE k[2] \in DOMAIN w.tree
      <4>1. PICK r \in DOMAIN w.db.files : /\ ~w.db.files[r].isUser /\ w.db.files[r].scope = "prefix"
                                           /\ IsPrefix(r[2], k[2])
        BY <1>1, <2>1, <3>2 DEF Loses
      <4>2. r \in DOMAIN old.files
        BY <2>1, <4>1 DEF Laid
      <4>3. r = <<r[1], r[2]>> /\ IsPath(r[2]) /\ IsPath(k[2])
        BY <1>0, <3>2, <4>1 DEF Working, Good, DbInv, KeysInv, ScopesInv, WellFormed
      <4>4. k[2] = r[2]
        <5>1. r[2] \notin Ancestors(k[2])
          BY <4>2, <4>3
        <5> QED  BY <4>1, <4>3, <5>1, PrefixIsAncestor
      <4>5. r # k
        BY <2>1, <4>1 DEF UserRowsKept
      <4>6. k \in DOMAIN w.db.files /\ k = <<k[1], k[2]>>
        BY <1>0, <2>1 DEF UserRowsKept, Working, Good, DbInv, KeysInv
      <4> QED  BY <4>2, <4>3, <4>4, <4>5, <4>6
    <3> QED  BY <3>1, <3>2
  <2> QED  BY <2>2, <2>3, <2>4
<1>7. w.command \in {"uninstall", "purge"} => Took(from, old, m.tree, m.db, m.names)
  BY <1>1, TookTransitive DEF WorkInv, Stage, old
<1>8. WorkInv(m, from, next)
  BY <1>1, <1>2, <1>3, <1>4, <1>6, <1>7 DEF WorkInv, old
<1> QED  BY <1>8 DEF m

LEMMA OpenedInv ==
    ASSUME Inv, NEW command, NEW names, NEW rest, Asked(Opened(command, names, rest))
    PROVE  WorkInv(Opened(command, names, rest), booted, minted + 1)
<1> DEFINE w == Opened(command, names, rest)
<1>1. /\ IsWork(w) /\ w.tree = booted /\ w.db = Database(booted) /\ w.next = minted + 1
      /\ w.next \in Nat /\ w.next >= minted + 1
  BY DEF Opened, IsWork, Inv
<1> HIDE DEF w
<1>2. Working(w)
  BY <1>1 DEF Working, Inv, Image
<1>3. Others(w.db, w.db, w.names) /\ UserRowsKept(w.db, w.db) /\ Laid(w.db, w.db, Lays(w))
  BY DEF Others, UserRowsKept, Laid
<1>4. FilesStay(booted, w.tree, Lays(w))
  BY <1>1 DEF FilesStay
<1>5. Asked(w)
  BY DEF w
<1>6. Took(booted, Database(booted), w.tree, w.db, w.names)
  BY <1>1 DEF Took
<1> QED  BY <1>1, <1>2, <1>3, <1>4, <1>5, <1>6 DEF WorkInv, w

LEMMA BatchesIs ==
    ASSUME NEW S, NEW b \in Batches(S)
    PROVE  b \in Seq(S) /\ b \in Seq(Range(b)) /\ Range(b) \subseteq S
<1>1. b \in Seq(S)
  <2>1. CASE \E a \in S : b = <<a>>
    BY <2>1
  <2>2. CASE b \in S \X S
    <3>1. PICK x \in S, y \in S : b = <<x, y>>
      BY <2>2
    <3> QED  BY <3>1
  <2> QED  BY <2>1, <2>2 DEF Batches
<1>2. Range(b) \subseteq S
  BY <1>1 DEF Range
<1>3. b \in Seq(Range(b))
  <2>1. Len(b) \in Nat /\ b = [i \in 1 .. Len(b) |-> b[i]]
    BY <1>1
  <2> QED  BY <2>1, InItsRange
<1> QED  BY <1>1, <1>2, <1>3

LEMMA InitInv == Init => Inv
<1> SUFFICES ASSUME Init PROVE Inv
  OBVIOUS
<1> DEFINE m == Meta(Genesis)  one == InsertPackageMeta(NewInMemory, 1, m)
           db == WithFiles(one, 1, Genesis)  t == ImportDirectory(Empty, Genesis.usr)
           leaf == Leaf(db, None)
<1>0. /\ Genesis \in Known /\ WellFormed(Genesis.usr) /\ IsPath(DbPath)
      /\ \A d \in Ancestors(DbPath) \cap DOMAIN Genesis.usr : Genesis.usr[d] = Dir
  BY PackagesAssumption DEF Known
<1>1. booted = WithFile(t, DbPath, leaf) /\ armed = None /\ work = None /\ minted = 1
  BY DEF Init
<1>2. DbInv(one, 2) /\ one.metas[1] = m
  <2>1. DbInv(NewInMemory, 1)
    BY DEF NewInMemory, NoTable, DbInv, IsDb, MetasInv, NamesInv, TriggersInv, KeysInv,
           ScopesInv, PathsInv, ArchiveInv
  <2>2. 1 \in Nat /\ 1 + 1 = 2
    OBVIOUS
  <2>3. DbInv(one, 1 + 1)
    BY <1>0, <2>1, <2>2, InsertMetaInv
  <2>4. one.metas[1] = m
    BY <2>1, InsertPackageMetaIs DEF DbInv
  <2> QED  BY <2>2, <2>3, <2>4
<1> HIDE DEF one
<1>3. DbInv(db, 2) /\ \A p \in Leaves(Genesis.usr) : <<1, p>> \in DOMAIN db.files
  <2>1. 2 \in Nat /\ 1 \in Nat /\ 1 < 2
    OBVIOUS
  <2>2. one.metas[1] = Meta(Genesis)
    BY <1>2
  <2>3. DbInv(db, 2)
    BY <1>0, <1>2, <2>1, <2>2, WithFilesInv
  <2>4. \A p \in Leaves(Genesis.usr) : <<1, p>> \in DOMAIN db.files
    <3>1. RowsCame(one, db, 1, Leaves(Genesis.usr))
      BY <1>0, <1>2, <2>1, <2>2, WithFilesRows
    <3> HIDE DEF db
    <3> QED  BY <3>1 DEF RowsCame
  <2> QED  BY <2>3, <2>4
<1> HIDE DEF db
<1>4. WellFormed(t) /\ \A p \in Leaves(t) : p \in Leaves(Genesis.usr)
  <2>1. WellFormed(Empty) /\ Leaves(Empty) = {}
    BY DEF WellFormed, Empty, Leaves
  <2> QED  BY <1>0, <2>1, ImportWellFormed, ImportIs
<1>5. \A a \in Ancestors(DbPath) \cap DOMAIN t : t[a] = Dir
  <2> DEFINE w == Without(Empty, DOMAIN Genesis.usr)
  <2>1. \A x : x \notin DOMAIN w
    BY WithoutIs DEF Empty
  <2> HIDE DEF w
  <2>2. t = Genesis.usr ++ w
    BY DEF ImportDirectory, w
  <2>3. \A x \in DOMAIN t : x \in DOMAIN Genesis.usr /\ t[x] = Genesis.usr[x]
    BY <2>1, <2>2, OverIs
  <2> QED  BY <1>0, <2>3
<1> HIDE DEF t, leaf
<1>6. /\ WellFormed(booted) /\ DbPath \in DOMAIN booted /\ booted[DbPath] = leaf
      /\ \A x \in Leaves(booted) : x = DbPath \/ x \in Leaves(t)
  BY <1>0, <1>1, <1>4, <1>5, WithFileIs
<1>7. Database(booted) = db
  BY <1>6 DEF Database, Leaf, leaf
<1>8. Listed(booted, db)
  BY <1>3, <1>4, <1>6 DEF Listed
<1>9. Image(booted, 2)
  BY <1>3, <1>6, <1>7, <1>8 DEF Image, Good
<1> QED  BY <1>1, <1>9 DEF Inv

LEMMA InstallInv == ASSUME Inv, NEW archives \in Batches(Archives), Install(archives) PROVE Inv'
<1> DEFINE names == NamesOf(archives)  w == Opened("install", names, archives)
<1>1. /\ work' = w
      /\ booted' = booted /\ armed' = armed /\ minted' = minted
  BY DEF Install, Open
<1>2. /\ w.command = "install" /\ w.names = names /\ w.rest = archives
  BY DEF Opened
<1>3. archives \in Seq({a \in Archives : a.name \in names})
  <2>1. archives \in Seq(Archives)
    BY BatchesIs
  <2>2. \A i \in DOMAIN archives : archives[i].name \in names
    BY DEF NamesOf
  <2> HIDE DEF names
  <2> QED  BY <2>1, <2>2
<1> HIDE DEF names, w
<1>4. Asked(w)
  BY <1>2, <1>3 DEF Asked
<1>5. WorkInv(w, booted, minted + 1)
  BY <1>4, OpenedInv DEF w
<1> QED  BY <1>1, <1>5 DEF Inv

LEMMA UpdateInv ==
    ASSUME Inv, NEW archives \in Batches(Archives), NEW allowDowngrade \in BOOLEAN,
           Update(archives, allowDowngrade)
    PROVE  Inv'
<1> DEFINE names == NamesOf(archives)  command == IF allowDowngrade THEN "downgrade" ELSE "update"
           w == Opened(command, names, archives)
<1>1. /\ work' = w
      /\ booted' = booted /\ armed' = armed /\ minted' = minted
  BY DEF Update, Open
<1>2. /\ w.command \in {"update", "downgrade"} /\ w.names = names /\ w.rest = archives
  BY DEF Opened
<1>3. archives \in Seq({a \in Archives : a.name \in names})
  <2>1. archives \in Seq(Archives)
    BY BatchesIs
  <2>2. \A i \in DOMAIN archives : archives[i].name \in names
    BY DEF NamesOf
  <2> HIDE DEF names
  <2> QED  BY <2>1, <2>2
<1> HIDE DEF names, command, w
<1>4. Asked(w)
  BY <1>2, <1>3 DEF Asked
<1>5. WorkInv(w, booted, minted + 1)
  BY <1>4, OpenedInv DEF w
<1> QED  BY <1>1, <1>5 DEF Inv

LEMMA UninstallInv ==
    ASSUME Inv, NEW names \in Batches(Names), NEW purge \in BOOLEAN, Uninstall(names, purge)
    PROVE  Inv'
<1> DEFINE command == IF purge THEN "purge" ELSE "uninstall"
           w == Opened(command, Range(names), names)
<1>1. /\ work' = w
      /\ booted' = booted /\ armed' = armed /\ minted' = minted
  BY DEF Uninstall, Open
<1>2. /\ w.command \in {"uninstall", "purge"} /\ w.names = Range(names) /\ w.rest = names
  BY DEF Opened
<1>3. names \in Seq(Range(names))
  BY BatchesIs
<1> HIDE DEF command, w
<1>4. Asked(w)
  BY <1>2, <1>3 DEF Asked
<1>5. WorkInv(w, booted, minted + 1)
  BY <1>4, OpenedInv DEF w
<1> QED  BY <1>1, <1>5 DEF Inv

LEMMA FilesInv == ASSUME Inv, NEW name \in Names, Files(name) PROVE Inv'
<1> DEFINE w == Opened("files", {name}, <<name>>)
<1>1. /\ work' = w
      /\ booted' = booted /\ armed' = armed /\ minted' = minted
  BY DEF Files, Open
<1>2. /\ w.command = "files" /\ w.names = {name} /\ w.rest = <<name>> /\ w.db = Database(booted)
  BY DEF Opened
<1>3. <<name>> \in Seq({name}) /\ {name} \subseteq DOMAIN Database(booted).byName
  BY DEF Files, HasPackage
<1> HIDE DEF w
<1>4. Asked(w)
  BY <1>2, <1>3 DEF Asked
<1>5. WorkInv(w, booted, minted + 1)
  BY <1>4, OpenedInv DEF w
<1> QED  BY <1>1, <1>5 DEF Inv

\* A stage leaves the command's working copies in order, or ends the command.
LEMMA LeadsInv ==
    ASSUME Inv, work # None, work.rest # <<>>, NEW done, Leads(done),
           done # None => Stage(work, done)
    PROVE  Inv'
<1>1. booted' = booted /\ armed' = armed /\ minted' = minted
  BY DEF Leads
<1>2. CASE done = None
  BY <1>1, <1>2 DEF Inv, Leads
<1>3. CASE done # None
  <2> DEFINE m == [done EXCEPT !.rest = Tail(@)]  next == minted + 1
  <2>1. work' = m
    BY <1>3 DEF Leads
  <2>2. WorkInv(work, booted, next) /\ next \in Nat
    BY DEF Inv
  <2> HIDE DEF next
  <2>3. WorkInv(m, booted, next)
    BY <1>3, <2>2, StageKeeps
  <2> HIDE DEF m
  <2> QED  BY <1>1, <2>1, <2>3 DEF Inv, next
<1> QED  BY <1>2, <1>3

LEMMA InstallOneInv == ASSUME Inv, InstallOne PROVE Inv'
<1> DEFINE a == Head(work.rest)
<1>1. /\ work # None /\ work.rest # <<>> /\ work.command = "install"
      /\ Leads(ImportPackage(work, a)) /\ Working(work)
      /\ work.rest \in Seq({b \in Archives : b.name \in work.names})
  BY DEF InstallOne, Turn, Inv, WorkInv, Asked
<1>2. a \in Archives /\ a.name \in work.names
  BY <1>1
<1> HIDE DEF a
<1>3. Stage(work, ImportPackage(work, a))
  BY <1>1, <1>2, InstallStage
<1> QED  BY <1>1, <1>3, LeadsInv

LEMMA UpdateOneInv == ASSUME Inv, UpdateOne PROVE Inv'
<1> DEFINE a == Head(work.rest)
<1>1. /\ work # None /\ work.rest # <<>> /\ work.command \in {"update", "downgrade"}
      /\ Leads(ReplacePackage(work, a)) /\ Working(work)
      /\ work.rest \in Seq({b \in Archives : b.name \in work.names})
  BY DEF UpdateOne, Turn, Inv, WorkInv, Asked
<1>2. a \in Archives /\ a.name \in work.names
  BY <1>1
<1> HIDE DEF a
<1>3. ReplacePackage(work, a) # None => Stage(work, ReplacePackage(work, a))
  BY <1>1, <1>2, UpdateStage
<1> QED  BY <1>1, <1>3, LeadsInv

LEMMA RemoveOneInv == ASSUME Inv, RemoveOne PROVE Inv'
<1> DEFINE name == Head(work.rest)
<1>1. /\ work # None /\ work.rest # <<>> /\ work.command \in {"uninstall", "purge"}
      /\ Leads(RemovePackage(work, name)) /\ Working(work)
      /\ work.rest \in Seq(work.names)
  BY DEF RemoveOne, Turn, Inv, WorkInv, Asked
<1>2. name \in work.names
  BY <1>1
<1> HIDE DEF name
<1>3. RemovePackage(work, name) # None => Stage(work, RemovePackage(work, name))
  BY <1>1, <1>2, RemoveStage
<1> QED  BY <1>1, <1>3, LeadsInv

LEMMA ApplyFileInv == ASSUME Inv, ApplyFile PROVE Inv'
<1> DEFINE name == Head(work.rest)  uuid == work.db.byName[name]
<1>1. /\ work # None /\ work.rest # <<>> /\ work.command = "files" /\ Working(work)
      /\ work.rest \in Seq(work.names) /\ work.names \subseteq DOMAIN work.db.byName
      /\ \/ \E file \in UserFiles : Leads(AddFile(work, uuid, file))
         \/ \E p \in FilePaths : Leads(RemoveFile(work, uuid, p))
         \/ \E p \in ConfigPaths : Leads(AttachConfig(work, uuid, p))
         \/ \E p \in ConfigPaths : Leads(DetachConfig(work, uuid, p))
  BY DEF ApplyFile, Turn, Inv, WorkInv, Asked
<1>2. name \in work.names /\ name \in DOMAIN work.db.byName
  BY <1>1
<1>3. uuid = work.db.byName[name]
  OBVIOUS
<1> HIDE DEF name, uuid
<1>4. CASE \E file \in UserFiles : Leads(AddFile(work, uuid, file))
  <2>1. PICK file \in UserFiles : Leads(AddFile(work, uuid, file))
    BY <1>4
  <2>2. AddFile(work, uuid, file) # None => Stage(work, AddFile(work, uuid, file))
    BY <1>1, <1>2, <1>3, AddFileStage
  <2> QED  BY <1>1, <2>1, <2>2, LeadsInv
<1>5. CASE \E p \in FilePaths : Leads(RemoveFile(work, uuid, p))
  <2>1. PICK p \in FilePaths : Leads(RemoveFile(work, uuid, p))
    BY <1>5
  <2>2. RemoveFile(work, uuid, p) # None => Stage(work, RemoveFile(work, uuid, p))
    BY <1>1, <1>2, <1>3, RemoveFileStage
  <2> QED  BY <1>1, <2>1, <2>2, LeadsInv
<1>6. CASE \E p \in ConfigPaths : Leads(AttachConfig(work, uuid, p))
  <2>1. PICK p \in ConfigPaths : Leads(AttachConfig(work, uuid, p))
    BY <1>6
  <2>2. Stage(work, AttachConfig(work, uuid, p))
    BY <1>1, <1>2, <1>3, AttachConfigStage
  <2> QED  BY <1>1, <2>1, <2>2, LeadsInv
<1>7. CASE \E p \in ConfigPaths : Leads(DetachConfig(work, uuid, p))
  <2>1. PICK p \in ConfigPaths : Leads(DetachConfig(work, uuid, p))
    BY <1>7
  <2>2. DetachConfig(work, uuid, p) # None => Stage(work, DetachConfig(work, uuid, p))
    BY <1>1, <1>2, <1>3, DetachConfigStage
  <2> QED  BY <1>1, <2>1, <2>2, LeadsInv
<1> QED  BY <1>1, <1>4, <1>5, <1>6, <1>7

\* What a commit arms has the database of the working copies.
LEMMA Armed ==
    ASSUME Inv, work # None, CanReach(work.tree, DbPath)
    PROVE  LET new == Insert(work.tree, DbPath, Leaf(work.db, None))
           IN  /\ Database(new) = work.db /\ Image(new, work.next)
               /\ \A p \in DOMAIN work.tree : p \in DOMAIN new \/ IsPrefix(DbPath, p)
<1> DEFINE leaf == Leaf(work.db, None)  new == Insert(work.tree, DbPath, leaf)
<1>1. Good(work.tree, work.db, work.next) /\ IsPath(DbPath)
  BY PackagesAssumption DEF Inv, WorkInv, Working
<1>2. leaf.data = work.db
  BY DEF Leaf
<1> HIDE DEF leaf
<1>3. /\ \A x : x \in DOMAIN new <=> x = DbPath \/ (x \in DOMAIN work.tree /\ ~IsPrefix(DbPath, x))
      /\ new[DbPath] = leaf
      /\ \A x \in DOMAIN new : x # DbPath => new[x] = work.tree[x]
  BY InsertIs
<1>4. WellFormed(new)
  <2>1. WellFormed(work.tree)
    BY <1>1 DEF Good
  <2>2. \A a \in Ancestors(DbPath) : a \in DOMAIN work.tree /\ work.tree[a] = Dir
    BY <1>1, <2>1, ReachIs
  <2> QED  BY <1>1, <2>1, <2>2, InsertWellFormed
<1> HIDE DEF new
<1>5. Database(new) = work.db
  BY <1>2, <1>3 DEF Database
<1>6. Listed(new, work.db)
  <2>1. \A x \in Leaves(new) : x = DbPath \/ x \in Leaves(work.tree)
    BY <1>3 DEF Leaves
  <2> QED  BY <1>1, <2>1 DEF Good, Listed
<1>7. Image(new, work.next)
  BY <1>1, <1>3, <1>4, <1>5, <1>6 DEF Image, Good
<1> QED  BY <1>3, <1>5, <1>7 DEF new, leaf

LEMMA CommitInv == ASSUME Inv, Commit PROVE Inv'
<1>1. work # None /\ work' = None /\ booted' = booted
  BY DEF Commit
<1>2. CASE CanReach(work.tree, DbPath)
  <2> DEFINE new == Insert(work.tree, DbPath, Leaf(work.db, None))  next == work.next
  <2>1. armed' = new /\ minted' = next - 1
    BY <1>2 DEF Commit
  <2>2. Image(new, next)
    BY <1>1, <1>2, Armed
  <2>3. next \in Nat /\ minted \in Nat /\ next >= minted + 1 /\ Image(booted, minted + 1)
    BY <1>1 DEF Inv, WorkInv, Working
  <2> HIDE DEF new, next
  <2>4. minted' \in Nat /\ minted' + 1 = next /\ minted + 1 \in Nat /\ minted + 1 <= next
    BY <2>1, <2>3
  <2>5. Image(booted, next)
    BY <2>3, <2>4, ImageGrows
  <2>6. Image(booted', minted' + 1) /\ Image(armed', minted' + 1)
    BY <1>1, <2>1, <2>2, <2>4, <2>5
  <2> QED  BY <1>1, <2>4, <2>6 DEF Inv
<1>3. CASE ~CanReach(work.tree, DbPath)
  BY <1>1, <1>3 DEF Inv, Commit
<1> QED  BY <1>2, <1>3

LEMMA BootInv == ASSUME Inv, Boot PROVE Inv'
  BY DEF Inv, Boot

LEMMA NextInv == Inv /\ [Next]_vars => Inv'
<1> SUFFICES ASSUME Inv, [Next]_vars PROVE Inv'
  OBVIOUS
<1>1. CASE UNCHANGED vars
  BY <1>1 DEF Inv, vars
<1>2. CASE \E archives \in Batches(Archives) :
              Install(archives) \/ \E allowDowngrade \in BOOLEAN : Update(archives, allowDowngrade)
  BY <1>2, InstallInv, UpdateInv
<1>3. CASE \E names \in Batches(Names), purge \in BOOLEAN : Uninstall(names, purge)
  BY <1>3, UninstallInv
<1>4. CASE \E name \in Names : Files(name)
  BY <1>4, FilesInv
<1>5. CASE InstallOne
  BY <1>5, InstallOneInv
<1>6. CASE UpdateOne
  BY <1>6, UpdateOneInv
<1>7. CASE RemoveOne
  BY <1>7, RemoveOneInv
<1>8. CASE ApplyFile
  BY <1>8, ApplyFileInv
<1>9. CASE Commit
  BY <1>9, CommitInv
<1>10. CASE Boot
  BY <1>10, BootInv
<1> QED  BY <1>1, <1>2, <1>3, <1>4, <1>5, <1>6, <1>7, <1>8, <1>9, <1>10 DEF Next

THEOREM InvKept == Spec => []Inv
  BY InitInv, NextInv, PTL DEF Spec

(***************************************************************************)
(* What the invariant says of the images.                                  *)
(***************************************************************************)

LEMMA ImagesAre ==
    ASSUME Inv, NEW tree \in Images
    PROVE  WellFormed(tree) /\ DbInv(Database(tree), minted + 1) /\ Listed(tree, Database(tree))
  BY DEF Inv, Images, Image, Good

\* Through any sequence of commands and boots the tables of both images fit
\* together, and their trees are trees.
THEOREM TypesKept == Spec => []TypeOK
<1>1. Inv => TypeOK
  <2> SUFFICES ASSUME Inv, NEW tree \in Images
               PROVE  LET db == Database(tree)
                      IN  /\ WellFormed(tree)
                          /\ \A name \in DOMAIN db.byName : /\ db.byName[name] \in DOMAIN db.metas
                                                            /\ MetaOf(db, name).name = name
                          /\ DOMAIN db.triggers \subseteq DOMAIN db.metas
                          /\ \A p \in DOMAIN db.byPath : p \in PathsOf(db, db.byPath[p])
    BY DEF TypeOK
  <2> DEFINE db == Database(tree)
  <2>1. WellFormed(tree) /\ DbInv(db, minted + 1)
    BY ImagesAre
  <2> HIDE DEF db
  <2>2. \A p \in DOMAIN db.byPath : p \in PathsOf(db, db.byPath[p])
    BY <2>1, RowsOfIs DEF DbInv, PathsInv
  <2>3. \A name \in DOMAIN db.byName : db.byName[name] \in DOMAIN db.metas /\ MetaOf(db, name).name = name
    BY <2>1 DEF DbInv, NamesInv, MetaOf
  <2> QED  BY <2>1, <2>2, <2>3 DEF DbInv, TriggersInv, db
<1> QED  BY <1>1, InvKept, PTL

\* No row but the user's outlives the version of the archive it came with.
THEOREM ArchivesOnly == Spec => []RowsAreTheArchives
<1>1. Inv => RowsAreTheArchives
  <2> SUFFICES ASSUME Inv, NEW tree \in Images, NEW u \in DOMAIN Database(tree).metas,
                      NEW p \in PathsOf(Database(tree), u), p \notin UserPaths(Database(tree), u)
               PROVE  LET a == ArchiveOf(Database(tree).metas[u])
                      IN  p \in Leaves(a.usr) \cup Leaves(a.etc)
    BY DEF RowsAreTheArchives
  <2> DEFINE db == Database(tree)  a == ArchiveOf(db.metas[u])  k == <<u, p>>
  <2>1. DbInv(db, minted + 1) /\ u \in DOMAIN db.metas
    BY ImagesAre
  <2>2. p \in PathsOf(db, u) /\ p \notin UserPaths(db, u)
    OBVIOUS
  <2> HIDE DEF db
  <2>3. a \in Known /\ Meta(a) = db.metas[u]
    BY <2>1 DEF DbInv, MetasInv, ArchiveOf
  <2> HIDE DEF a
  <2>4. k \in DOMAIN db.files /\ ~db.files[k].isUser /\ k[1] = u /\ k[2] = p
    BY <2>1, <2>2, RowsOfIs DEF DbInv, IsUserRow
  <2> HIDE DEF k
  <2>5. p \in FilesIn(a)
    BY <2>1, <2>3, <2>4 DEF DbInv, ArchiveInv
  <2> QED  BY <2>5 DEF FilesIn, a, db
<1> QED  BY <1>1, InvKept, PTL

\* No file of /usr is left without a package that lists it.
THEOREM FilesListed == Spec => []EveryFileIsListed
<1>1. Inv => EveryFileIsListed
  <2> SUFFICES ASSUME Inv, NEW tree \in Images, NEW p \in Leaves(tree) \ ({DbPath} \cup EtcPaths)
               PROVE  Owners(Database(tree), p) # {}
    BY DEF EveryFileIsListed
  <2> DEFINE db == Database(tree)
  <2>1. DbInv(db, minted + 1) /\ Listed(tree, db)
    BY ImagesAre
  <2> HIDE DEF db
  <2>2. PICK u : <<u, p>> \in DOMAIN db.files
    BY <2>1 DEF Listed
  <2>3. u \in Owners(db, p)
    BY <2>1, <2>2, RowsOfIs DEF DbInv
  <2> QED  BY <2>3 DEF db
<1> QED  BY <1>1, InvKept, PTL

(***************************************************************************)
(* What a command may do to what is booted.                                *)
(***************************************************************************)

\* Only a commit arms.
LEMMA ArmsIsCommit ==
    ASSUME Inv, [Next]_vars, NEW names, Arms(names)
    PROVE  /\ work # None /\ work.command \in names
           /\ WorkInv(work, booted, minted + 1)
           /\ Database(armed') = work.db
           /\ armed' = Insert(work.tree, DbPath, Leaf(work.db, None))
           /\ \A p \in DOMAIN work.tree : p \in DOMAIN armed' \/ IsPrefix(DbPath, p)
<1>1. work # None /\ work.command \in names /\ armed' # armed /\ armed' # None
  BY DEF Arms
<1>2. Commit
  BY <1>1 DEF Next, vars, Install, Update, Uninstall, Files, Open, InstallOne, UpdateOne, RemoveOne,
     ApplyFile, Leads, Boot
<1>3. CanReach(work.tree, DbPath) /\ armed' = Insert(work.tree, DbPath, Leaf(work.db, None))
  BY <1>1, <1>2 DEF Commit
<1>4. WorkInv(work, booted, minted + 1)
  BY <1>1 DEF Inv
<1>5. Database(armed') = work.db /\ \A p \in DOMAIN work.tree : p \in DOMAIN armed' \/ IsPrefix(DbPath, p)
  BY <1>1, <1>3, Armed
<1> QED  BY <1>1, <1>3, <1>4, <1>5

\* A command leaves the metas, the triggers and the rows of the packages it
\* does not name as they were in the image it started from.
THEOREM OthersUntouched == Spec => OthersKeepTheirRows
<1> DEFINE commands1 == {"install", "update", "downgrade", "uninstall", "purge", "files"}
<1>1. ASSUME Inv, [Next]_vars, Arms(commands1)
      PROVE  LET old == Database(booted)
                 new == Database(armed')
             IN  \A u \in DOMAIN old.metas : old.metas[u].name \notin work.names =>
                    /\ u \in DOMAIN new.metas /\ new.metas[u] = old.metas[u]
                    /\ u \in DOMAIN old.triggers =>
                          u \in DOMAIN new.triggers /\ new.triggers[u] = old.triggers[u]
                    /\ \A p \in PathsOf(old, u) : u \in Owners(new, p)
                                                  /\ new.files[<<u, p>>] = old.files[<<u, p>>]
  <2> DEFINE old == Database(booted)  new == Database(armed')
  <2>1. DbInv(old, minted + 1)
    BY <1>1 DEF Inv, Image, Good
  <2>2. Others(old, new, work.names) /\ DbInv(new, work.next)
    BY <1>1, ArmsIsCommit DEF WorkInv, Working, Good
  <2> HIDE DEF old, new
  <2> SUFFICES ASSUME NEW u \in DOMAIN old.metas, old.metas[u].name \notin work.names
               PROVE  /\ u \in DOMAIN new.metas /\ new.metas[u] = old.metas[u]
                      /\ u \in DOMAIN old.triggers =>
                            u \in DOMAIN new.triggers /\ new.triggers[u] = old.triggers[u]
                      /\ \A p \in PathsOf(old, u) : u \in Owners(new, p)
                                                    /\ new.files[<<u, p>>] = old.files[<<u, p>>]
    BY DEF old, new
  <2>3. /\ u \in DOMAIN new.metas /\ new.metas[u] = old.metas[u]
        /\ u \in DOMAIN old.triggers => u \in DOMAIN new.triggers /\ new.triggers[u] = old.triggers[u]
        /\ \A k \in DOMAIN old.files : k[1] = u => k \in DOMAIN new.files /\ new.files[k] = old.files[k]
    BY <2>2 DEF Others
  <2>4. ASSUME NEW p \in PathsOf(old, u)
        PROVE  u \in Owners(new, p) /\ new.files[<<u, p>>] = old.files[<<u, p>>]
    <3> DEFINE k == <<u, p>>
    <3>1. k \in DOMAIN old.files /\ k[1] = u
      BY <2>1, RowsOfIs DEF DbInv
    <3>2. k \in DOMAIN new.files /\ new.files[k] = old.files[k]
      <4> HIDE DEF k
      <4> QED  BY <2>3, <3>1
    <3> QED  BY <2>2, <3>2, RowsOfIs DEF DbInv
  <2> QED  BY <2>3, <2>4
<1>2. Inv /\ [Next]_vars =>
        [Arms(commands1) =>
           LET old == Database(booted)
               new == Database(armed')
           IN  \A u \in DOMAIN old.metas : old.metas[u].name \notin work.names =>
                  /\ u \in DOMAIN new.metas /\ new.metas[u] = old.metas[u]
                  /\ u \in DOMAIN old.triggers =>
                        u \in DOMAIN new.triggers /\ new.triggers[u] = old.triggers[u]
                  /\ \A p \in PathsOf(old, u) : u \in Owners(new, p)
                                                /\ new.files[<<u, p>>] = old.files[<<u, p>>]]_vars
  BY <1>1
<1> QED  BY <1>2, InvKept, PTL DEF Spec, OthersKeepTheirRows

\* A user's file stays with its row through what is neither purged nor taken
\* away by the user, but for what the property names.
THEOREM UsersKept == Spec => UserFilesStay
<1> DEFINE Stays ==
             LET old == Database(booted)
                 new == Database(armed')
             IN  \A u \in {k[1] : k \in DOMAIN old.files} : \A p \in UserPaths(old, u) :
                    /\ IsUserRow(new, u, p)
                    /\ \/ p \notin DOMAIN booted \/ p \in DOMAIN armed'
                       \/ \E q \in Brought : IsPrefix(q, p)
                       \/ Owners(old, p) # {u} \/ \E q \in Ancestors(p) : Owners(old, q) # {}
<1>1. ASSUME Inv, [Next]_vars, Arms({"install", "update", "downgrade", "uninstall"}) PROVE Stays
  <2> DEFINE old == Database(booted)  new == Database(armed')
  <2>1. KeysInv(old, minted + 1)
    BY <1>1 DEF Inv, Image, Good, DbInv
  <2>2. /\ UserRowsKept(old, new) /\ Brought = Lays(work) /\ DbPath \in Brought
        /\ FilesStay(booted, work.tree, Brought)
        /\ \A p \in DOMAIN work.tree : p \in DOMAIN armed' \/ IsPrefix(DbPath, p)
    BY <1>1, ArmsIsCommit DEF WorkInv, Keeping, Brought, Lays
  <2> SUFFICES ASSUME NEW u, NEW p \in UserPaths(old, u)
               PROVE  /\ IsUserRow(new, u, p)
                      /\ \/ p \notin DOMAIN booted \/ p \in DOMAIN armed'
                         \/ \E q \in Brought : IsPrefix(q, p)
                         \/ Owners(old, p) # {u} \/ \E q \in Ancestors(p) : Owners(old, q) # {}
    OBVIOUS
  <2> DEFINE k == <<u, p>>
  <2>3. k \in DOMAIN old.files /\ old.files[k].isUser /\ k[1] = u /\ k[2] = p
    <3> HIDE DEF old
    <3> QED  BY <2>1, RowsOfIs DEF IsUserRow
  <2>4. \/ p \notin DOMAIN booted \/ p \in DOMAIN work.tree
        \/ \E q \in Brought : IsPrefix(q, p)
        \/ \E v : v # u /\ <<v, p>> \in DOMAIN old.files
        \/ \E q \in Ancestors(p) : \E v : <<v, q>> \in DOMAIN old.files
    <3> HIDE DEF k
    <3> QED  BY <2>2, <2>3 DEF FilesStay
  <2>5. IsUserRow(new, u, p)
    <3>1. k \in DOMAIN new.files /\ new.files[k].isUser
      <4> HIDE DEF k
      <4> QED  BY <2>2, <2>3 DEF UserRowsKept
    <3> QED  BY <3>1 DEF IsUserRow
  <2> HIDE DEF old, new, k
  <2>6. \/ p \notin DOMAIN booted \/ p \in DOMAIN armed'
        \/ \E q \in Brought : IsPrefix(q, p)
        \/ Owners(old, p) # {u} \/ \E q \in Ancestors(p) : Owners(old, q) # {}
    BY <2>1, <2>2, <2>4, RowsOfIs
  <2> QED  BY <2>5, <2>6
<1>2. Inv /\ [Next]_vars => [Arms({"install", "update", "downgrade", "uninstall"}) => Stays]_vars
  BY <1>1
<1> QED  BY <1>2, InvKept, PTL DEF Spec, UserFilesStay

(***************************************************************************)
(* The diff of the images before and after an uninstall.                   *)
(***************************************************************************)

\* A file that has gone from a tree is in the diff as removed, and so is
\* nothing that is as it was.
LEMMA RemovedIs ==
    ASSUME NEW from, NEW to, NEW p \in DOMAIN TreeDiff(from, to),
           p \in DOMAIN to => p \in DOMAIN from /\ to[p] = from[p]
    PROVE  TreeDiff(from, to)[p] = "Removed" /\ p \in DOMAIN from /\ p \notin DOMAIN to
<1> DEFINE both == Leaves(from) \cap Leaves(to)
           changed == {q \in both : ~SameContent(from[q], to[q])}
           f == [q \in changed |-> "Modified"]
           g == [q \in Leaves(from) \ both |-> "Removed"]
           h == [q \in Leaves(to) \ both |-> "Added"]
           fg == f ++ g
<1>1. TreeDiff(from, to) = fg ++ h
  BY DEF TreeDiff
<1>2. /\ \A x : x \in DOMAIN fg <=> x \in DOMAIN f \/ x \in DOMAIN g
      /\ \A x \in DOMAIN f : fg[x] = f[x]
      /\ \A x \in DOMAIN g \ DOMAIN f : fg[x] = g[x]
  BY OverIs
<1>3. p \notin changed
  BY DEF Leaves, SameContent
<1>4. p \in Leaves(to) => p \in both
  BY DEF Leaves
<1>5. DOMAIN f = changed /\ DOMAIN g = Leaves(from) \ both /\ DOMAIN h = Leaves(to) \ both
  OBVIOUS
<1>6. \A x \in DOMAIN g : g[x] = "Removed"
  OBVIOUS
<1> HIDE DEF f, g, h, fg, both, changed
<1>7. /\ \A x : x \in DOMAIN (fg ++ h) <=> x \in DOMAIN fg \/ x \in DOMAIN h
      /\ \A x \in DOMAIN fg : (fg ++ h)[x] = fg[x]
  BY OverIs
<1>8. p \in DOMAIN g /\ p \in Leaves(from) /\ p \notin both
  BY <1>1, <1>2, <1>3, <1>4, <1>5, <1>7
<1>9. TreeDiff(from, to)[p] = "Removed"
  BY <1>1, <1>2, <1>3, <1>5, <1>6, <1>7, <1>8
<1>10. p \notin DOMAIN to
  BY <1>8 DEF Leaves, both
<1> QED  BY <1>8, <1>9, <1>10 DEF Leaves

\* A package is reported as removed only if all of its name have gone.
LEMMA ReportIs ==
    ASSUME NEW from, NEW to, NEW changes, NEW name \in DOMAIN Diff(from, to, changes),
           Diff(from, to, changes)[name] = "Removed"
    PROVE  /\ \E u \in DOMAIN from.metas : from.metas[u].name = name
           /\ \A u \in DOMAIN to.metas : to.metas[u].name # name
<1> DEFINE old == ByIdentity(ListPackages(from))  new == ByIdentity(ListPackages(to))
           f == [n \in {m \in DOMAIN old \cap DOMAIN new : old[m].sha256 # new[m].sha256} |-> "Modified"]
           g == [n \in DOMAIN old \ DOMAIN new |-> "Removed"]
           h == [n \in DOMAIN new \ DOMAIN old |-> "Added"]
           fg == f ++ g  fgh == fg ++ h
           e == [n \in {Blamed(from, to, changes, p) : p \in DOMAIN changes \ Unattached(from, to, changes)}
                   |-> "FilesChanged"]
<1>1. Diff(from, to, changes) = fgh ++ e /\ DiffPackages(from, to) = fgh
  BY DEF Diff, DiffPackages
<1>2. /\ \A x \in DOMAIN f : f[x] = "Modified"
      /\ \A x \in DOMAIN h : h[x] = "Added"
      /\ \A x \in DOMAIN e : e[x] = "FilesChanged"
  OBVIOUS
<1>3. DOMAIN g = DOMAIN old \ DOMAIN new
  OBVIOUS
<1> HIDE DEF f, g, h, e
<1>4. /\ \A x : x \in DOMAIN fg <=> x \in DOMAIN f \/ x \in DOMAIN g
      /\ \A x \in DOMAIN f : fg[x] = f[x]
  BY OverIs
<1> HIDE DEF fg
<1>5. /\ \A x : x \in DOMAIN fgh <=> x \in DOMAIN fg \/ x \in DOMAIN h
      /\ \A x \in DOMAIN fg : fgh[x] = fg[x]
      /\ \A x \in DOMAIN h \ DOMAIN fg : fgh[x] = h[x]
  BY OverIs
<1> HIDE DEF fgh
<1>6. /\ \A x : x \in DOMAIN (fgh ++ e) <=> x \in DOMAIN fgh \/ x \in DOMAIN e
      /\ \A x \in DOMAIN fgh : (fgh ++ e)[x] = fgh[x]
      /\ \A x \in DOMAIN e \ DOMAIN fgh : (fgh ++ e)[x] = e[x]
  BY OverIs
<1>7. name \in DOMAIN fgh /\ fgh[name] = "Removed"
  BY <1>1, <1>2, <1>6
<1>8. name \in DOMAIN g
  BY <1>2, <1>4, <1>5, <1>7
<1>9. name \in DOMAIN old /\ name \notin DOMAIN new
  BY <1>3, <1>8
<1> QED  BY <1>9 DEF ByIdentity, ListPackages

\* A file with one owner that has gone is laid to a package with one of the
\* names.
LEMMA BlamedIs ==
    ASSUME NEW from, NEW old, NEW to, NEW new, NEW names, NEW next,
           Took(from, old, to, new, names), DbInv(old, next),
           NEW p \in DOMAIN from, p \notin DOMAIN to, IsPath(p), HasOneOwner(old, p)
    PROVE  AttributeFile(old, p) \in names
<1>1. PICK k \in DOMAIN old.files : /\ old.files[k].scope = "prefix" /\ IsPrefix(k[2], p)
                                    /\ k[1] \in DOMAIN old.metas /\ old.metas[k[1]].name \in names
  BY DEF Took
<1>2. k = <<k[1], k[2]>>
  BY DEF DbInv, KeysInv
<1>3. KeysInv(old, next) /\ <<old.byPath[p], p>> \in DOMAIN old.files
  BY DEF DbInv, PathsInv, HasOneOwner
<1>4. IsPath(k[2])
  BY <1>1 DEF DbInv, ScopesInv
<1>5. k[1] \in Owners(old, k[2])
  BY <1>2, <1>3, RowsOfIs
<1>6. k[2] = p
  BY <1>1, <1>4, <1>5, PrefixIsAncestor DEF HasOneOwner
<1>7. old.byPath[p] \in Owners(old, p) /\ p \in PathsOf(old, old.byPath[p])
  BY <1>3, RowsOfIs
<1>8. old.byPath[p] = k[1]
  BY <1>5, <1>6, <1>7 DEF HasOneOwner
<1>9. FindFileOwner(old, p) = k[1]
  BY <1>8 DEF FindFileOwner, HasOneOwner
<1> QED  BY <1>1, <1>7, <1>8, <1>9 DEF AttributeFile

\* The report of an uninstall names what was uninstalled and nothing else as
\* removed, and lays the files that have gone to it.
THEOREM UninstallExplained == Spec => DiffExplainsUninstall
<1> DEFINE Explained ==
             LET old     == Database(booted)
                 new     == Database(armed')
                 changes == TreeDiff(booted, armed')
                 report  == Diff(old, new, changes)
             IN  /\ \A name \in DOMAIN report : report[name] = "Removed" => name \in work.names
                 /\ \A p \in DOMAIN changes : ~IsPrefix(DbPath, p) /\ HasOneOwner(old, p) =>
                       Blamed(old, new, changes, p) \in work.names
<1>1. ASSUME Inv, [Next]_vars, Arms({"uninstall", "purge"}) PROVE Explained
  <2> DEFINE old == Database(booted)  new == Database(armed')  to == armed'  names == work.names
             changes == TreeDiff(booted, to)  report == Diff(old, new, changes)
  <2>1. DbInv(old, minted + 1) /\ WellFormed(booted) /\ IsPath(DbPath)
    BY <1>1, PackagesAssumption DEF Inv, Image, Good
  <2>2. /\ Others(old, new, names) /\ Took(booted, old, work.tree, new, names)
        /\ to = Insert(work.tree, DbPath, Leaf(work.db, None))
        /\ \A p \in DOMAIN work.tree : p \in DOMAIN to \/ IsPrefix(DbPath, p)
    BY <1>1, ArmsIsCommit DEF WorkInv
  <2>3. /\ \A p \in DOMAIN to : p = DbPath \/ (p \in DOMAIN work.tree /\ to[p] = work.tree[p])
    BY <2>2, InsertIs
  <2> HIDE DEF old, new, to, names
  <2>4. ASSUME NEW name \in DOMAIN report, report[name] = "Removed"
        PROVE  name \in names
    <3>1. /\ \E u \in DOMAIN old.metas : old.metas[u].name = name
          /\ \A u \in DOMAIN new.metas : new.metas[u].name # name
      BY <2>4, ReportIs
    <3> QED  BY <2>2, <3>1 DEF Others
  <2>5. ASSUME NEW p \in DOMAIN changes, ~IsPrefix(DbPath, p), HasOneOwner(old, p)
        PROVE  Blamed(old, new, changes, p) \in names
    <3>1. p # DbPath
      BY <2>1, <2>5, PrefixReflexive
    <3>2. p \in DOMAIN to => p \in DOMAIN booted /\ to[p] = booted[p]
      BY <2>2, <2>3, <3>1 DEF Took
    <3>3. changes[p] = "Removed" /\ p \in DOMAIN booted /\ p \notin DOMAIN to
      BY <3>2, RemovedIs
    <3>4. p \notin DOMAIN work.tree /\ IsPath(p)
      BY <2>1, <2>2, <2>5, <3>3 DEF WellFormed
    <3>5. AttributeFile(old, p) \in names
      BY <2>1, <2>2, <2>5, <3>3, <3>4, BlamedIs
    <3> QED  BY <3>3, <3>5 DEF Blamed
  <2> QED  BY <2>4, <2>5 DEF old, new, to, names
<1>2. Inv /\ [Next]_vars => [Arms({"uninstall", "purge"}) => Explained]_vars
  BY <1>1
<1> QED  BY <1>2, InvKept, PTL DEF Spec, DiffExplainsUninstall
=============================================================================
