------------------------------ MODULE ResultSet ------------------------------
(***************************************************************************)
(* What a driver promises the query code: NextShape returns the drawable   *)
(* rows of the query in order, each once and with its position, until      *)
(* there are no more; GetShape of a cached result returns the shape that   *)
(* was cached, however often and in whatever order results are retrieved.  *)
(* Either may fail, and says so.                                           *)
(***************************************************************************)
EXTENDS ResultRows

Init == RowsInit

\* The position of the row that was delivered last.
Delivered == IF resultcache = <<>> THEN 0 ELSE Last(resultcache).resultindex + 1

WhichShapes == \E q \in Queries : NewQuery(q)

NextShape ==
    /\ mode = "reading"
    /\ \E i \in DOMAIN rows :
          IsFirst(i, DrawableAfter(rows, Delivered)) /\ AddResult(rows[i], i - 1)

NextDone ==
    /\ mode = "reading"
    /\ DrawableAfter(rows, Delivered) = {}
    /\ NoMoreShapes

NextFails ==
    /\ mode = "reading"
    /\ ShapesFail

GetShape ==
    \E r \in Range(resultcache) :
        Answer(r, "success", r.shapeindex) \/ Answer(r, "error", NoShape)

QueryByIndex == \E f \in Features : QueryByIndexResult(f)

Next == WhichShapes \/ NextShape \/ NextDone \/ NextFails \/ GetShape \/ QueryByIndex

Spec == Init /\ [][Next]_rowVars
=============================================================================
