----------------------------- MODULE MCPackages -----------------------------
\* Two versions of one package and another that shares a path with the first,
\* a directory with the second, and one that brings the directory above the
\* database.
EXTENDS Packages, TLC

CONSTANTS mode

MCSuffixed(name) == name
MCBefore(p, q) == Len(p) < Len(q)

File(data) == Leaf(data, mode)
Archive(name, version, usr, etc) ==
    [name |-> name, version |-> version, sha256 |-> version, usr |-> usr, etc |-> etc,
     triggers |-> {<<name, version>>}]

Bin == <<"bin">>
Share == <<"share">>
MCDbDir == <<"share", "upac">>
X == <<"x">>
Conf == <<"conf">>

MCArchives ==
    {Archive("p", 1, X :> File(1), Conf :> File(1)),
     Archive("p", 2, (Bin :> Dir) @@ (<<"bin", "z">> :> File(1)), Conf :> File(2)),
     Archive("q", 1, (Bin :> Dir) @@ (<<"bin", "y">> :> File(1)) @@ (X :> File(2)), Empty),
     Archive("s", 1, (Share :> Dir) @@ (<<"share", "d">> :> File(1)), Empty)}

MCGenesis == Archive("g", 1, (Bin :> Dir) @@ (<<"bin", "g">> :> File(1)), <<"base">> :> File(1))

MCUserFiles == {[path |-> <<"bin", "u">>, leaf |-> File(3)], [path |-> X, leaf |-> File(3)]}
MCConfigPaths == {Conf}
=============================================================================
