----------------------------- MODULE MCEtcConfig -----------------------------
\* One file at the top, one in a directory that ships, one of the package's
\* own, and a directory that only the user may make.
EXTENDS EtcConfig

CONSTANTS wide, narrow

MCSuffixed(name) == name \o ".upac-new"

Top == <<"a">>
Folder == <<"d">>
Inner == <<"d", "b">>
Own == <<"d", "c">>
Fresh == <<"e">>
Within == <<"e", "b">>

MCNames == {Top, Sidecar(Top), Folder, Inner, Own, Fresh, Within}
MCModes == {wide, narrow}

MCShipped == (Top :> Leaf(1, wide)) @@ (Folder :> Dir) @@ (Inner :> Leaf(1, wide))
First == (Top :> Leaf(2, wide)) @@ (Folder :> Dir) @@ (Own :> Leaf(1, wide))
Second == (Folder :> Dir) @@ (Inner :> Leaf(2, wide)) @@ (Own :> Leaf(2, wide))
MCReleases == {First, Second}
=============================================================================
