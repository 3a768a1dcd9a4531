------------------------ MODULE MCSurfaceComposition ------------------------
(***************************************************************************)
(* Three capabilities, one of them with two surfaces.  The workspaces: all *)
(* is well; two modules whose items share an id; a module without the      *)
(* export between two that have it; a package that exports one surface to  *)
(* a missing file, and another out of its directory.                       *)
(***************************************************************************)
EXTENDS SurfaceComposition

CONSTANTS a, b, c, web, server

MCCapabilities == {a, b, c}
MCSurfaces == {web, server}

Both(f, g) == [s \in MCSurfaces |-> IF s = web THEN f ELSE g]
Of(x, y, z) == [d \in MCCapabilities |-> CASE d = a -> x [] d = b -> y [] OTHER -> z]

Sound ==
    [active |-> <<a, b, c>>,
     marked |-> Of({web}, {web, server}, {web}),
     target |-> Of(Both("inside", "none"), Both("inside", "inside"), Both("inside", "none")),
     items |-> Of(Both(<<1>>, <<>>), Both(<<2, 3>>, <<1>>), Both(<<4>>, <<>>))]

MCWorkspaces ==
    {Sound,
     [Sound EXCEPT !.items = Of(Both(<<1>>, <<>>), Both(<<2>>, <<1>>), Both(<<1>>, <<>>))],
     [Sound EXCEPT !.items[b][web] = <<>>],
     [Sound EXCEPT !.target[b][web] = "gone", !.target[b][server] = "outside"]}
=============================================================================
