--------------------------- MODULE MCRemoteLayers ---------------------------
(***************************************************************************)
(* Maps of three layers that differ from a plain WMS layer in one way      *)
(* each, so that every pair of ways meets in some map, and of four layers  *)
(* of the kinds that matter to merging.                                    *)
(***************************************************************************)
EXTENDS RemoteLayers

CONSTANTS s1, s2, c1

Plain == [type |-> "WMS", visible |-> TRUE, outside |-> FALSE, server |-> s1,
          separate |-> FALSE, essential |-> FALSE, cookie |-> None,
          timeout |-> 0, post |-> FALSE]

Kinds == {Plain,
          [Plain EXCEPT !.outside = TRUE],
          [Plain EXCEPT !.separate = TRUE],
          [Plain EXCEPT !.essential = TRUE],
          [Plain EXCEPT !.cookie = c1, !.timeout = 2],
          [Plain EXCEPT !.server = s2, !.timeout = 1],
          [Plain EXCEPT !.post = TRUE],
          [Plain EXCEPT !.type = "WFS"],
          [Plain EXCEPT !.type = "LOCAL"],
          [Plain EXCEPT !.visible = FALSE]}

MapsOf(n) == [1 .. n -> Kinds]

\* Maps in which no WMS layer outside of the view comes after a WFS layer (see
\* RemoteOverwritten.cfg for the others).
MixedMaps ==
    [1 .. 4 -> {Plain, [Plain EXCEPT !.separate = TRUE], [Plain EXCEPT !.type = "LOCAL"],
                [Plain EXCEPT !.type = "WFS"]}]
    \cup {m \in MapsOf(3) : NoOutsideAfterWFS(m)}

\* Maps of plain WMS layers, WFS layers and WMS layers outside of the view.
OutsideMaps ==
    [1 .. 4 -> {Plain, [Plain EXCEPT !.outside = TRUE], [Plain EXCEPT !.type = "WFS"]}]
=============================================================================
