------------------------------ MODULE OgrCursor ------------------------------
(***************************************************************************)
(* Reading and retrieving features with the OGR driver (mapogr.cpp).  The  *)
(* library only reads forward: the driver keeps the index of the feature   *)
(* it read last and resets the reading when it has to go back.             *)
(***************************************************************************)
EXTENDS ResultRows

VARIABLES
    hLayer,                     \* the features the filters let through
    position,                   \* how many of them the library has returned
    last_record_index_read,     \* psInfo->last_record_index_read
    hLastFeature,               \* psInfo->hLastFeature, kept for its style
    shape                       \* the shape the caller has been given last

vars == <<faults, mode, rows, resultcache, answer,
          hLayer, position, last_record_index_read, hLastFeature, shape>>
cursorVars == <<hLayer, position, last_record_index_read, hLastFeature, shape>>

NoResult == [index |-> NoShape, resultindex |-> -1]

TypeOK ==
    /\ RowsTypeOK
    /\ hLayer \in Seq(Features)
    /\ position \in 0 .. Len(hLayer)
    /\ last_record_index_read \in -1 .. Len(hLayer) - 1
    /\ hLastFeature \in Features \cup {NoShape}
    /\ shape \in [index : Features \cup {NoShape}, resultindex : Nat \cup {-1}]

Init ==
    /\ RowsInit
    /\ hLayer = <<>>
    /\ position = 0
    /\ last_record_index_read = -1
    /\ hLastFeature = NoShape
    /\ shape = NoResult

\* msOGRFileWhichShapes sets the filters and resets the reading; the last
\* feature of an earlier query stays.
WhichShapes(q) ==
    /\ NewQuery(q)
    /\ hLayer' = q
    /\ position' = 0
    /\ last_record_index_read' = -1
    /\ shape' = NoResult
    /\ UNCHANGED hLastFeature

\* Slip: only the features that are returned are counted.
NextShapeCountsReturned ==
    /\ mode = "reading"
    /\ \E i \in DOMAIN hLayer :
          LET index == last_record_index_read + 1 IN
          /\ IsFirst(i, DrawableAfter(hLayer, position))
          /\ AddResult(hLayer[i], index)
          /\ position' = i
          /\ last_record_index_read' = index
          /\ hLastFeature' = hLayer[i]
          /\ shape' = [index |-> hLayer[i], resultindex |-> index]
    /\ UNCHANGED hLayer

\* msOGRFileNextShape skips features that do not suit the layer.
NextShape ==
    /\ mode = "reading"
    /\ \E i \in DOMAIN hLayer :
          LET index == last_record_index_read + i - position IN
          /\ IsFirst(i, DrawableAfter(hLayer, position))
          /\ AddResult(hLayer[i], index)
          /\ position' = i
          /\ last_record_index_read' = index
          /\ hLastFeature' = hLayer[i]
          /\ shape' = [index |-> hLayer[i], resultindex |-> index]
    /\ UNCHANGED hLayer

NextDone ==
    /\ mode = "reading"
    /\ DrawableAfter(hLayer, position) = {}
    /\ NoMoreShapes
    /\ position' = Len(hLayer)
    /\ last_record_index_read' = -1
    /\ shape' = NoResult
    /\ UNCHANGED <<hLayer, hLastFeature>>

\* The library reports an error instead of a feature, or the attributes or the
\* geometry of the feature that was read cannot be converted.
NextFails ==
    /\ mode = "reading"
    /\ \E p \in position .. Len(hLayer) :
          LET readable == DrawableAfter(hLayer, position) IN
          /\ \A i \in readable : p <= i
          /\ position' = p
          /\ \/ p \notin readable /\ last_record_index_read' = -1
             \/ p > position /\ last_record_index_read' = last_record_index_read + p - position
    /\ ShapesFail
    /\ shape' = NoResult
    /\ UNCHANGED <<hLayer, hLastFeature>>

\* msOGRFileGetShape has to go back to the first feature.
MustReset(record) ==
    record <= last_record_index_read \/ last_record_index_read = -1

\* msOGRFileGetShape by offset reads forward until it has read the record.
GetShape(r) ==
    LET record == r.resultindex
        start == IF MustReset(record) THEN 0 ELSE position
        before == IF MustReset(record) THEN -1 ELSE last_record_index_read
        i == start + (record - before)
    IN  /\ record >= 0
        /\ IF i > Len(hLayer)
           THEN /\ Answer(r, "missing", NoShape)
                /\ position' = Len(hLayer)
                /\ last_record_index_read' = before + (Len(hLayer) - start)
                /\ shape' = NoResult
                /\ UNCHANGED hLastFeature
           ELSE /\ AnswerWith(r, hLayer[i])
                /\ position' = i
                /\ last_record_index_read' = record
                /\ IF hLayer[i] \in Undrawable
                   THEN shape' = NoResult /\ UNCHANGED hLastFeature
                   ELSE /\ shape' = [index |-> hLayer[i], resultindex |-> record]
                        /\ hLastFeature' = hLayer[i]
        /\ UNCHANGED hLayer

\* Slip: the feature read by its identifier is not kept.
GetShapeByIdUnkept(r) ==
    /\ r.resultindex = -1
    /\ AnswerWith(r, r.shapeindex)
    /\ shape' = [index |-> r.shapeindex, resultindex |-> -1]
    /\ UNCHANGED <<hLayer, position, last_record_index_read, hLastFeature>>

\* msOGRFileGetShape by identifier leaves the reading as it is.
GetShapeById(r) ==
    /\ r.resultindex = -1
    /\ AnswerWith(r, r.shapeindex)
    /\ hLastFeature' = r.shapeindex
    /\ shape' = [index |-> r.shapeindex, resultindex |-> -1]
    /\ UNCHANGED <<hLayer, position, last_record_index_read>>

\* The library cannot read the feature.
GetShapeFails(r) ==
    /\ r.resultindex = -1
    /\ Answer(r, "error", NoShape)
    /\ shape' = NoResult
    /\ UNCHANGED <<hLayer, position, last_record_index_read, hLastFeature>>

\* msQueryByIndex closes and opens the layer, which has no filter then.
QueryByIndex(f) ==
    /\ QueryByIndexResult(f)
    /\ hLayer' \in Queries
    /\ position' = 0
    /\ last_record_index_read' = -1
    /\ hLastFeature' = f
    /\ shape' = [index |-> f, resultindex |-> -1]

Next ==
    \/ \E q \in Queries : WhichShapes(q)
    \/ NextShape
    \/ NextDone
    \/ NextFails
    \/ \E r \in Range(resultcache) :
          GetShape(r) \/ GetShapeById(r) \/ GetShapeFails(r)
    \/ \E f \in Features : QueryByIndex(f)

Spec == Init /\ [][Next]_vars

-----------------------------------------------------------------------------
\* msOGRLayerGetAutoStyle takes the style from hLastFeature after comparing
\* indexes only: the feature is the one of the shape the caller holds.
StyleOfShape ==
    /\ shape.index # NoShape
    /\ shape.resultindex = last_record_index_read
    => hLastFeature = shape.index
=============================================================================
