---------------------------- MODULE PostGISCursor ----------------------------
(***************************************************************************)
(* Reading and retrieving rows with the PostGIS driver (mappostgis.cpp).   *)
(* The whole result set is held in layerinfo->pgresult, and rownum is the  *)
(* row to be read next.                                                    *)
(***************************************************************************)
EXTENDS ResultRows

VARIABLES
    pgresult,           \* layerinfo->pgresult
    rownum              \* layerinfo->rownum

vars == <<faults, mode, rows, resultcache, answer, pgresult, rownum>>

TypeOK ==
    /\ RowsTypeOK
    /\ pgresult \in Seq(Features)
    /\ rownum \in 0 .. Len(pgresult)

Init ==
    /\ RowsInit
    /\ pgresult = <<>>
    /\ rownum = 0

\* msPostGISLayerWhichShapes
WhichShapes(q) ==
    /\ NewQuery(q)
    /\ pgresult' = q
    /\ rownum' = 0

\* msPostGISLayerNextShape rolls on to the next row that can be drawn.
NextShape ==
    /\ mode = "reading"
    /\ \E i \in DOMAIN pgresult :
          /\ IsFirst(i, DrawableAfter(pgresult, rownum))
          /\ AddResult(pgresult[i], i - 1)
          /\ rownum' = i
    /\ UNCHANGED pgresult

NextDone ==
    /\ mode = "reading"
    /\ DrawableAfter(pgresult, rownum) = {}
    /\ NoMoreShapes
    /\ rownum' = Len(pgresult)
    /\ UNCHANGED pgresult

\* msPostGISLayerGetShape out of the open result set.
GetShape(r) ==
    /\ r.resultindex >= 0
    /\ IF r.resultindex >= Len(pgresult)
       THEN Answer(r, "missing", NoShape) /\ UNCHANGED rownum
       ELSE AnswerWith(r, pgresult[r.resultindex + 1]) /\ rownum' = r.resultindex
    /\ UNCHANGED pgresult

\* msPostGISLayerGetShape by identifier replaces the result set.
GetShapeById(r) ==
    /\ r.resultindex = -1
    /\ AnswerWith(r, r.shapeindex)
    /\ pgresult' = <<r.shapeindex>>
    /\ rownum' = 0

\* The query by identifier fails; the result set is kept.
GetShapeFails(r) ==
    /\ r.resultindex = -1
    /\ Answer(r, "error", NoShape)
    /\ UNCHANGED <<pgresult, rownum>>

\* msQueryByIndex closes and opens the layer and fetches by identifier.
QueryByIndex(f) ==
    /\ QueryByIndexResult(f)
    /\ pgresult' = <<f>>
    /\ rownum' = 0

Next ==
    \/ \E q \in Queries : WhichShapes(q)
    \/ NextShape
    \/ NextDone
    \/ \E r \in Range(resultcache) :
          GetShape(r) \/ GetShapeById(r) \/ GetShapeFails(r)
    \/ \E f \in Features : QueryByIndex(f)

Spec == Init /\ [][Next]_vars
=============================================================================
