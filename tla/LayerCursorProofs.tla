------------------------- MODULE LayerCursorProofs --------------------------
(***************************************************************************)
(* The drivers' cursors, for any features, queries and size of the Oracle  *)
(* buffer: what is read and retrieved through a driver is what the query   *)
(* yielded (ContractSpec), the style of an OGR shape is its own, a buffer  *)
(* is not read beyond its rows, a query that is issued again is right.     *)
(***************************************************************************)
EXTENDS LayerCursor, TLAPS

-----------------------------------------------------------------------------
(* The inductive invariant.                                                *)

\* Every cached result is a row of the query, under its position.
FromQuery ==
    \A k \in DOMAIN resultcache :
        /\ resultcache[k].resultindex \in 0 .. Len(rows) - 1
        /\ rows[resultcache[k].resultindex + 1] = resultcache[k].shapeindex

\* Every cached result was put there by queryByIndex.
ById == \A k \in DOMAIN resultcache : resultcache[k].resultindex = -1

\* Only what can be drawn is cached.
CacheDrawable == \A k \in DOMAIN resultcache : resultcache[k].shapeindex \notin Undrawable

\* While the rows of a query are read, the driver holds these rows in s and has
\* gone p rows into them, to the one it delivered last.
ReadingAt(s, p) ==
    mode = "reading" => /\ s = rows
                        /\ p = Contract!Delivered
                        /\ FromQuery
                        /\ answer = NoAnswer

PostGISInv ==
    /\ ReadingAt(pgresult, rownum)
    /\ faults = {} => (FromQuery /\ pgresult = rows) \/ ById

\* The count of the features read is right or is known not to be.
OgrInv ==
    /\ ReadingAt(hLayer, position)
    /\ mode = "reading" => last_record_index_read = position - 1
    /\ last_record_index_read \in {-1, position - 1}
    /\ faults = {} => (FromQuery /\ hLayer = rows) \/ ById

\* The last feature is kept as long as the caller has a shape.
StyleInv == shape.index \in {NoShape, hLastFeature}

\* A layer with a query of its own has cached only rows of it; the statement
\* still is where row_num says, unless another layer may have used it.
MssqlInv ==
    /\ ReadingAt(hstmt.rows, hstmt.fetched)
    /\ mode = "reading" => sql /\ hstmt.fetched = row_num
    /\ sql => FromQuery
    /\ sql /\ ~HasNulls => \A i \in DOMAIN rows : rows[i] \notin Undrawable
    /\ sql /\ faults \subseteq {"add"} => hstmt.rows = rows /\ hstmt.fetched = row_num

\* The buffer ends within the result, while rows are read it is where row_num
\* and row say; and so later if no fetch can fail.
OracleInv ==
    /\ ReadingAt(result, row_num)
    /\ mode = "reading" => /\ first = row_num - row
                           /\ rows_fetched = 0 => first = Len(result)
    /\ first + rows_fetched <= Len(result)
    /\ faults = {} =>
          /\ rows_fetched > 0 => first = row_num - row
          /\ \A k \in DOMAIN resultcache : resultcache[k].resultindex < rows_count
          /\ (FromQuery /\ result = rows) \/ ById

\* The types of the drivers' private variables.
PostGISType ==
    /\ pgresult \in Seq(Features)
    /\ rownum \in 0 .. Len(pgresult)

OgrType ==
    /\ hLayer \in Seq(Features)
    /\ position \in 0 .. Len(hLayer)
    /\ last_record_index_read \in -1 .. Len(hLayer) - 1
    /\ hLastFeature \in Features \cup {NoShape}
    /\ shape \in [index : Features \cup {NoShape}, resultindex : Nat \cup {-1}]

MssqlType ==
    /\ hstmt \in [rows : Seq(Features), fetched : Nat, open : BOOLEAN]
    /\ hstmt.fetched <= Len(hstmt.rows)
    /\ row_num \in Nat
    /\ sql \in BOOLEAN

OracleType ==
    /\ result \in Seq(Features)
    /\ first \in 0 .. Len(result)
    /\ rows_fetched \in 0 .. ARRAY_SIZE
    /\ rows_count \in 0 .. Len(result)
    /\ row_num \in 0 .. Len(result)
    /\ row \in 0 .. ARRAY_SIZE

TypeInv ==
    /\ driver \in Drivers
    /\ RowsTypeOK
    /\ PostGISType
    /\ OgrType
    /\ driver = "mssql" => MssqlType
    /\ driver = "oracle" => OracleType

\* The state of the driver that serves the layer, and what the others keep.
CursorInv ==
    /\ TypeInv
    /\ CacheDrawable
    /\ StyleInv
    /\ driver = "postgis" => PostGISInv
    /\ driver = "ogr" => OgrInv
    /\ driver = "mssql" => MssqlInv
    /\ driver # "mssql" => ~sql
    /\ driver = "oracle" => OracleInv /\ Oracle!ReadsInsideBuffer

-----------------------------------------------------------------------------
(* What the steps of ResultRows do to the rows and the cache, and which    *)
(* steps of the contract they are.                                         *)

\* A retrieved result is one of the cache, with a shape that can be drawn.
LEMMA CachedResult ==
    ASSUME RowsTypeOK, CacheDrawable, NEW k \in DOMAIN resultcache
    PROVE  /\ resultcache[k] \in resultObj
           /\ resultcache[k].shapeindex \in Features \ Undrawable
           /\ resultcache[k].resultindex \in Nat \cup {-1}
<1>1. resultcache[k] \in resultObj
  BY DEF RowsTypeOK
<1> QED
  BY <1>1 DEF CacheDrawable, resultObj

\* A new query starts with an empty cache and nothing delivered.
LEMMA NewQueryRows ==
    ASSUME RowsTypeOK, NEW q \in Queries, NewQuery(q)
    PROVE  /\ RowsTypeOK' /\ CacheDrawable' /\ FromQuery'
           /\ q \in Seq(Features)
           /\ mode' = "reading" /\ rows' = q /\ answer' = NoAnswer
           /\ faults' = faults /\ Contract!Delivered' = 0
           /\ Contract!Next
<1>1. /\ mode' = "reading" /\ rows' = q /\ answer' = NoAnswer
      /\ faults' = faults /\ resultcache' = <<>> /\ q \in Seq(Features)
  BY RowsAssumption DEF NewQuery
<1>2. RowsTypeOK'
  BY <1>1 DEF RowsTypeOK
<1>3. CacheDrawable' /\ FromQuery' /\ Contract!Delivered' = 0
  BY <1>1 DEF CacheDrawable, FromQuery, Contract!Delivered
<1>4. Contract!NewQuery(q)
  BY <1>1 DEF Contract!NewQuery, NoAnswer, Contract!NoAnswer
<1>5. Contract!Next
  BY <1>4 DEF Contract!Next, Contract!WhichShapes
<1> QED
  BY <1>1, <1>2, <1>3, <1>5

\* Row i of the query is delivered as result i - 1.
LEMMA AddResultRows ==
    ASSUME RowsTypeOK, CacheDrawable, FromQuery, NEW i \in DOMAIN rows,
           rows[i] \notin Undrawable, AddResult(rows[i], i - 1)
    PROVE  /\ RowsTypeOK' /\ CacheDrawable' /\ FromQuery'
           /\ UNCHANGED <<mode, rows, answer, faults>>
           /\ Contract!Delivered' = i
           /\ Len(resultcache') = Len(resultcache) + 1
           /\ \A k \in 1 .. Len(resultcache) : resultcache'[k] = resultcache[k]
           /\ resultcache'[Len(resultcache) + 1].resultindex = i - 1
<1> DEFINE e == [shapeindex |-> rows[i], resultindex |-> i - 1]
<1>1. /\ resultcache' = Append(resultcache, e)
      /\ UNCHANGED <<mode, rows, answer, faults>>
  BY DEF AddResult
<1>2. /\ resultcache \in Seq(resultObj) /\ rows \in Seq(Features)
      /\ i \in 1 .. Len(rows) /\ i - 1 \in Nat
  BY DEF RowsTypeOK
<1>3. e \in resultObj /\ e.shapeindex = rows[i] /\ e.resultindex = i - 1
  BY <1>2 DEF resultObj
<1> HIDE DEF e
<1>4. /\ resultcache' \in Seq(resultObj)
      /\ Len(resultcache') = Len(resultcache) + 1
      /\ DOMAIN resultcache' = 1 .. Len(resultcache) + 1
      /\ \A k \in 1 .. Len(resultcache) : resultcache'[k] = resultcache[k]
      /\ resultcache'[Len(resultcache) + 1] = e
      /\ DOMAIN resultcache = 1 .. Len(resultcache) /\ Len(resultcache) \in Nat
      /\ resultcache' # <<>>
  BY <1>1, <1>2, <1>3
<1>5. RowsTypeOK'
  BY <1>1, <1>4 DEF RowsTypeOK
<1>6. \A k \in DOMAIN resultcache' :
         k \in DOMAIN resultcache \/ resultcache'[k] = e
  BY <1>4
<1>7. CacheDrawable'
  BY <1>3, <1>4, <1>6 DEF CacheDrawable
<1>8. FromQuery'
  <2>1. e.resultindex \in 0 .. Len(rows) - 1 /\ rows[e.resultindex + 1] = e.shapeindex
    BY <1>2, <1>3
  <2> QED
    BY <1>1, <1>4, <1>6, <2>1 DEF FromQuery
<1>9. Contract!Delivered' = i
  BY <1>2, <1>3, <1>4 DEF Contract!Delivered, Contract!Last
<1> QED
  BY <1>1, <1>3, <1>4, <1>5, <1>7, <1>8, <1>9

\* The next row that can be drawn, after those delivered, is what NextShape of
\* the contract delivers.
LEMMA ContractNextShape ==
    ASSUME mode = "reading", NEW i \in DOMAIN rows,
           IsFirst(i, DrawableAfter(rows, Contract!Delivered)),
           AddResult(rows[i], i - 1)
    PROVE  Contract!Next
<1>1. Contract!IsFirst(i, Contract!DrawableAfter(rows, Contract!Delivered))
  BY DEF IsFirst, Contract!IsFirst, DrawableAfter, Contract!DrawableAfter
<1>2. Contract!AddResult(rows[i], i - 1)
  BY DEF AddResult, Contract!AddResult
<1> QED
  BY <1>1, <1>2 DEF Contract!Next, Contract!NextShape

\* Reading ends, in the contract when no row is left that can be drawn.
LEMMA NoMoreShapesRows ==
    ASSUME RowsTypeOK, CacheDrawable, NoMoreShapes
    PROVE  /\ RowsTypeOK' /\ CacheDrawable'
           /\ mode' = "retrieving"
           /\ UNCHANGED <<rows, resultcache, answer, faults>>
           /\ (FromQuery <=> FromQuery') /\ (ById <=> ById')
           /\ mode = "reading" /\ DrawableAfter(rows, Contract!Delivered) = {}
                 => Contract!Next
<1>1. mode' = "retrieving" /\ UNCHANGED <<rows, resultcache, answer, faults>>
  BY DEF NoMoreShapes
<1>2. /\ RowsTypeOK' /\ CacheDrawable'
      /\ (FromQuery <=> FromQuery') /\ (ById <=> ById')
  BY <1>1 DEF RowsTypeOK, CacheDrawable, FromQuery, ById
<1>3. Contract!NoMoreShapes
  BY <1>1 DEF Contract!NoMoreShapes
<1>4. ASSUME mode = "reading", DrawableAfter(rows, Contract!Delivered) = {}
      PROVE  Contract!Next
  BY <1>3, <1>4 DEF Contract!Next, Contract!NextDone, DrawableAfter,
                    Contract!DrawableAfter
<1> QED
  BY <1>1, <1>2, <1>4

\* Reading is given up.
LEMMA ShapesFailRows ==
    ASSUME RowsTypeOK, CacheDrawable, mode = "reading", ShapesFail
    PROVE  /\ RowsTypeOK' /\ CacheDrawable'
           /\ mode' = "failed"
           /\ UNCHANGED <<rows, resultcache, answer, faults>>
           /\ (FromQuery <=> FromQuery')
           /\ Contract!Next
<1>1. mode' = "failed" /\ UNCHANGED <<rows, resultcache, answer, faults>>
  BY DEF ShapesFail
<1>2. RowsTypeOK' /\ CacheDrawable' /\ (FromQuery <=> FromQuery')
  BY <1>1 DEF RowsTypeOK, CacheDrawable, FromQuery
<1>3. Contract!ShapesFail
  BY <1>1 DEF Contract!ShapesFail
<1> QED
  BY <1>1, <1>2, <1>3 DEF Contract!Next, Contract!NextFails

\* A retrieval leaves the rows and the cache alone.  The contract has it give
\* the shape that was cached, or fail.
LEMMA AnswerRows ==
    ASSUME RowsTypeOK, CacheDrawable, NEW k \in DOMAIN resultcache,
           NEW status \in {"success", "missing", "error"},
           NEW f \in Features \cup {NoShape}, Answer(resultcache[k], status, f)
    PROVE  /\ RowsTypeOK' /\ CacheDrawable'
           /\ mode' = "retrieving" /\ UNCHANGED <<rows, resultcache, faults>>
           /\ answer' = [asked |-> resultcache[k], status |-> status, index |-> f]
           /\ (FromQuery <=> FromQuery') /\ (ById <=> ById')
           /\ \/ status = "success" /\ f = resultcache[k].shapeindex
              \/ status = "error" /\ f = NoShape
              => Contract!Next
<1>1. /\ mode' = "retrieving" /\ UNCHANGED <<rows, resultcache, faults>>
      /\ answer' = [asked |-> resultcache[k], status |-> status, index |-> f]
  BY DEF Answer
<1>2. RowsTypeOK'
  <2>1. resultcache[k] \in resultObj
    BY CachedResult
  <2>2. answer' \in [asked : resultObj, status : {"success", "missing", "error"},
                     index : Features \cup {NoShape}]
    BY <1>1, <2>1
  <2> QED
    BY <1>1, <2>2 DEF RowsTypeOK
<1>3. CacheDrawable' /\ (FromQuery <=> FromQuery') /\ (ById <=> ById')
  BY <1>1 DEF CacheDrawable, FromQuery, ById
<1>4. ASSUME \/ status = "success" /\ f = resultcache[k].shapeindex
             \/ status = "error" /\ f = NoShape
      PROVE  Contract!Next
  <2>1. resultcache[k] \in Contract!Range(resultcache)
    BY DEF Contract!Range
  <2>2. \/ Contract!Answer(resultcache[k], "success", resultcache[k].shapeindex)
        \/ Contract!Answer(resultcache[k], "error", NoShape)
    BY <1>1, <1>4 DEF Contract!Answer
  <2> QED
    BY <2>1, <2>2 DEF Contract!Next, Contract!GetShape
<1> QED
  BY <1>1, <1>2, <1>3, <1>4

\* The same where the row that was found decides on the answer.
LEMMA AnswerWithRows ==
    ASSUME RowsTypeOK, CacheDrawable, NEW k \in DOMAIN resultcache,
           NEW x \in Features \cup {NoShape}, AnswerWith(resultcache[k], x)
    PROVE  /\ RowsTypeOK' /\ CacheDrawable'
           /\ mode' = "retrieving" /\ UNCHANGED <<rows, resultcache, faults>>
           /\ answer'.asked = resultcache[k]
           /\ (FromQuery <=> FromQuery') /\ (ById <=> ById')
           /\ x = resultcache[k].shapeindex => Contract!Next
<1>1. CASE x \in Undrawable
  <2>1. Answer(resultcache[k], "missing", NoShape)
    BY <1>1 DEF AnswerWith
  <2>2. x # resultcache[k].shapeindex
    BY <1>1, CachedResult
  <2> QED
    BY <2>1, <2>2, AnswerRows
<1>2. CASE x \notin Undrawable
  <2>1. Answer(resultcache[k], "success", x)
    BY <1>2 DEF AnswerWith
  <2> QED
    BY <2>1, AnswerRows
<1> QED
  BY <1>1, <1>2

\* queryByIndex leaves a cache of results without index, unless it adds to it.
LEMMA QueryByIndexRows ==
    ASSUME RowsTypeOK, CacheDrawable, NEW f \in Features, QueryByIndexResult(f)
    PROVE  /\ RowsTypeOK' /\ CacheDrawable'
           /\ mode' = "retrieving" /\ answer' = NoAnswer
           /\ UNCHANGED <<rows, faults>>
           /\ faults = {} => ById'
           /\ Contract!Next
<1> DEFINE r == [shapeindex |-> f, resultindex |-> -1]
<1>1. /\ f \notin Undrawable
      /\ resultcache' = <<r>> \/ (Adds /\ resultcache' = Append(resultcache, r))
      /\ mode' = "retrieving" /\ answer' = NoAnswer /\ UNCHANGED <<rows, faults>>
  BY DEF QueryByIndexResult
<1>2. /\ r \in resultObj /\ r.shapeindex = f /\ r.resultindex = -1
      /\ resultcache \in Seq(resultObj)
  BY DEF resultObj, RowsTypeOK
<1>3. Contract!Next
  <2>1. Contract!QueryByIndexResult(f)
    BY DEF QueryByIndexResult, Contract!QueryByIndexResult, Adds, Contract!Adds,
           NoAnswer, Contract!NoAnswer
  <2> QED
    BY <2>1 DEF Contract!Next, Contract!QueryByIndex
<1> HIDE DEF r
<1>4. /\ resultcache' \in Seq(resultObj)
      /\ \A k \in DOMAIN resultcache' :
            \/ resultcache'[k] = r
            \/ k \in DOMAIN resultcache /\ resultcache'[k] = resultcache[k]
  <2>1. CASE resultcache' = <<r>>
    BY <1>2, <2>1
  <2>2. CASE resultcache' = Append(resultcache, r)
    <3>1. /\ resultcache' \in Seq(resultObj)
          /\ DOMAIN resultcache' = 1 .. Len(resultcache) + 1
          /\ DOMAIN resultcache = 1 .. Len(resultcache) /\ Len(resultcache) \in Nat
          /\ resultcache'[Len(resultcache) + 1] = r
          /\ \A k \in 1 .. Len(resultcache) : resultcache'[k] = resultcache[k]
      BY <1>2, <2>2
    <3> QED
      BY <3>1
  <2> QED
    BY <1>1, <2>1, <2>2
<1>5. RowsTypeOK'
  BY <1>1, <1>4 DEF RowsTypeOK
<1>6. CacheDrawable'
  BY <1>1, <1>2, <1>4 DEF CacheDrawable
<1>7. ASSUME faults = {} PROVE ById'
  <2>1. resultcache' = <<r>>
    BY <1>1, <1>7 DEF Adds
  <2> QED
    BY <1>2, <2>1 DEF ById
<1> QED
  BY <1>1, <1>3, <1>5, <1>6, <1>7

-----------------------------------------------------------------------------
(* PostGIS.                                                                *)

\* The whole result set is at hand: its rows are delivered in order, and are
\* retrieved from it as long as the cache has its rows only.
LEMMA PostGISStep ==
    ASSUME RowsTypeOK, CacheDrawable, PostGISType, PostGISInv, PostGIS!Next
    PROVE  /\ RowsTypeOK' /\ CacheDrawable' /\ PostGISType' /\ PostGISInv'
           /\ faults' = faults
           /\ faults = {} => Contract!Next
<1>1. ASSUME NEW q \in Queries, PostGIS!WhichShapes(q)
      PROVE  /\ RowsTypeOK' /\ CacheDrawable' /\ PostGISType' /\ PostGISInv'
             /\ faults' = faults /\ Contract!Next
  <2>1. NewQuery(q) /\ pgresult' = q /\ rownum' = 0
    BY <1>1 DEF PostGIS!WhichShapes, PostGIS!NewQuery, NewQuery,
                PostGIS!NoAnswer, NoAnswer
  <2>2. /\ RowsTypeOK' /\ CacheDrawable' /\ FromQuery' /\ q \in Seq(Features)
        /\ rows' = q /\ answer' = NoAnswer /\ faults' = faults
        /\ Contract!Delivered' = 0 /\ Contract!Next
    BY <2>1, NewQueryRows
  <2>3. PostGISType'
    BY <2>1, <2>2 DEF PostGISType
  <2>4. PostGISInv'
    BY <2>1, <2>2 DEF PostGISInv, ReadingAt
  <2> QED
    BY <2>2, <2>3, <2>4
<1>2. ASSUME PostGIS!NextShape
      PROVE  /\ RowsTypeOK' /\ CacheDrawable' /\ PostGISType' /\ PostGISInv'
             /\ faults' = faults /\ Contract!Next
  <2>1. PICK i \in DOMAIN pgresult :
           /\ mode = "reading" /\ pgresult' = pgresult /\ rownum' = i
           /\ IsFirst(i, DrawableAfter(pgresult, rownum))
           /\ AddResult(pgresult[i], i - 1)
    BY <1>2 DEF PostGIS!NextShape, PostGIS!IsFirst, IsFirst, PostGIS!DrawableAfter,
                DrawableAfter, PostGIS!AddResult, AddResult
  <2>2. pgresult = rows /\ rownum = Contract!Delivered /\ FromQuery /\ answer = NoAnswer
    BY <2>1 DEF PostGISInv, ReadingAt
  <2>3. rows[i] \notin Undrawable
    BY <2>1, <2>2 DEF IsFirst, DrawableAfter
  <2>4. /\ RowsTypeOK' /\ CacheDrawable' /\ FromQuery'
        /\ mode' = mode /\ rows' = rows /\ answer' = answer /\ faults' = faults
        /\ Contract!Delivered' = i
    BY <2>1, <2>2, <2>3, AddResultRows
  <2>5. Contract!Next
    BY <2>1, <2>2, ContractNextShape
  <2>6. PostGISType'
    BY <2>1 DEF PostGISType
  <2>7. PostGISInv'
    BY <2>1, <2>2, <2>4 DEF PostGISInv, ReadingAt
  <2> QED
    BY <2>4, <2>5, <2>6, <2>7
<1>3. ASSUME PostGIS!NextDone
      PROVE  /\ RowsTypeOK' /\ CacheDrawable' /\ PostGISType' /\ PostGISInv'
             /\ faults' = faults /\ Contract!Next
  <2>1. /\ mode = "reading" /\ pgresult' = pgresult /\ rownum' = Len(pgresult)
        /\ DrawableAfter(pgresult, rownum) = {} /\ NoMoreShapes
    BY <1>3 DEF PostGIS!NextDone, PostGIS!DrawableAfter, DrawableAfter,
                PostGIS!NoMoreShapes, NoMoreShapes
  <2>2. pgresult = rows /\ rownum = Contract!Delivered /\ FromQuery
    BY <2>1 DEF PostGISInv, ReadingAt
  <2>3. /\ RowsTypeOK' /\ CacheDrawable' /\ FromQuery' /\ mode' = "retrieving"
        /\ rows' = rows /\ faults' = faults /\ Contract!Next
    BY <2>1, <2>2, NoMoreShapesRows
  <2>4. PostGISType'
    BY <2>1 DEF PostGISType
  <2>5. PostGISInv'
    BY <2>1, <2>2, <2>3 DEF PostGISInv, ReadingAt
  <2> QED
    BY <2>3, <2>4, <2>5
<1>4. ASSUME NEW k \in DOMAIN resultcache,
             \/ PostGIS!GetShape(resultcache[k])
             \/ PostGIS!GetShapeById(resultcache[k])
             \/ PostGIS!GetShapeFails(resultcache[k])
      PROVE  /\ RowsTypeOK' /\ CacheDrawable' /\ PostGISType' /\ PostGISInv'
             /\ faults' = faults /\ (faults = {} => Contract!Next)

  <2> DEFINE r == resultcache[k]
  <2>1. /\ r.shapeindex \in Features \ Undrawable /\ r.resultindex \in Nat \cup {-1}
        /\ FromQuery => /\ r.resultindex \in 0 .. Len(rows) - 1
                        /\ rows[r.resultindex + 1] = r.shapeindex
        /\ ById => r.resultindex = -1
        /\ pgresult \in Seq(Features) /\ rownum \in 0 .. Len(pgresult)
    BY CachedResult DEF FromQuery, ById, PostGISType
  <2> HIDE DEF r
  <2>2. CASE PostGIS!GetShape(r)
    <3>1. r.resultindex \in Nat /\ pgresult' = pgresult /\ r.resultindex + 1 \in Nat \ {0}
      BY <2>1, <2>2 DEF PostGIS!GetShape
    <3>2. CASE r.resultindex >= Len(pgresult)
      <4>1. Answer(r, "missing", NoShape) /\ rownum' = rownum
        BY <2>2, <3>2 DEF PostGIS!GetShape, PostGIS!Answer, Answer
      <4>2. /\ RowsTypeOK' /\ CacheDrawable' /\ mode' = "retrieving"
            /\ faults' = faults /\ rows' = rows
            /\ (FromQuery <=> FromQuery') /\ (ById <=> ById')
        BY <4>1, AnswerRows DEF r
      <4>3. faults # {}
        BY <2>1, <3>1, <3>2 DEF PostGISInv
      <4>4. PostGISType' /\ PostGISInv'
        BY <2>1, <3>1, <4>1, <4>2, <4>3 DEF PostGISType, PostGISInv, ReadingAt
      <4> QED
        BY <4>2, <4>3, <4>4
    <3>3. CASE r.resultindex < Len(pgresult)
      <4>1. /\ AnswerWith(r, pgresult[r.resultindex + 1])
            /\ rownum' = r.resultindex
        BY <2>1, <2>2, <3>1, <3>3
           DEF PostGIS!GetShape, PostGIS!AnswerWith, AnswerWith, PostGIS!Answer, Answer
      <4>2. pgresult[r.resultindex + 1] \in Features
        BY <2>1, <3>1, <3>3
      <4>3. /\ RowsTypeOK' /\ CacheDrawable' /\ mode' = "retrieving"
            /\ faults' = faults /\ rows' = rows
            /\ (FromQuery <=> FromQuery') /\ (ById <=> ById')
            /\ pgresult[r.resultindex + 1] = r.shapeindex => Contract!Next
        BY <4>1, <4>2, AnswerWithRows DEF r
      <4>4. PostGISType' /\ PostGISInv'
        BY <2>1, <3>1, <3>3, <4>1, <4>3 DEF PostGISType, PostGISInv, ReadingAt
      <4>5. faults = {} => pgresult[r.resultindex + 1] = r.shapeindex
        BY <2>1, <3>1 DEF PostGISInv
      <4> QED
        BY <4>3, <4>4, <4>5
    <3> QED
      BY <2>1, <3>1, <3>2, <3>3
  <2>3. CASE PostGIS!GetShapeById(r)
    <3>1. /\ AnswerWith(r, r.shapeindex) /\ r.resultindex = -1
          /\ pgresult' = <<r.shapeindex>> /\ rownum' = 0
      BY <2>3 DEF PostGIS!GetShapeById, PostGIS!AnswerWith, AnswerWith,
                  PostGIS!Answer, Answer
    <3>2. /\ RowsTypeOK' /\ CacheDrawable' /\ mode' = "retrieving"
          /\ faults' = faults /\ rows' = rows /\ Contract!Next
          /\ (FromQuery <=> FromQuery') /\ (ById <=> ById')
      BY <2>1, <3>1, AnswerWithRows DEF r
    <3>3. PostGISType'
      BY <2>1, <3>1 DEF PostGISType
    <3>4. ~FromQuery
      BY <2>1, <3>1
    <3>5. PostGISInv'
      BY <3>2, <3>4 DEF PostGISInv, ReadingAt
    <3> QED
      BY <3>2, <3>3, <3>5
  <2>4. CASE PostGIS!GetShapeFails(r)
    <3>1. Answer(r, "error", NoShape) /\ pgresult' = pgresult /\ rownum' = rownum
      BY <2>4 DEF PostGIS!GetShapeFails, PostGIS!Answer, Answer
    <3>2. /\ RowsTypeOK' /\ CacheDrawable' /\ mode' = "retrieving"
          /\ faults' = faults /\ rows' = rows /\ Contract!Next
          /\ (FromQuery <=> FromQuery') /\ (ById <=> ById')
      BY <3>1, AnswerRows DEF r
    <3>3. PostGISType' /\ PostGISInv'
      BY <3>1, <3>2 DEF PostGISType, PostGISInv, ReadingAt
    <3> QED
      BY <3>2, <3>3
  <2> QED
    BY <1>4, <2>2, <2>3, <2>4 DEF r
<1>5. ASSUME NEW f \in Features, PostGIS!QueryByIndex(f)
      PROVE  /\ RowsTypeOK' /\ CacheDrawable' /\ PostGISType' /\ PostGISInv'
             /\ faults' = faults /\ Contract!Next
  <2>1. QueryByIndexResult(f) /\ pgresult' = <<f>> /\ rownum' = 0
    BY <1>5 DEF PostGIS!QueryByIndex, PostGIS!QueryByIndexResult, QueryByIndexResult,
                PostGIS!Adds, Adds, PostGIS!NoAnswer, NoAnswer
  <2>2. /\ RowsTypeOK' /\ CacheDrawable' /\ mode' = "retrieving" /\ rows' = rows
        /\ faults' = faults /\ (faults = {} => ById') /\ Contract!Next
    BY <2>1, QueryByIndexRows
  <2>3. PostGISType' /\ PostGISInv'
    BY <2>1, <2>2 DEF PostGISType, PostGISInv, ReadingAt
  <2> QED
    BY <2>2, <2>3
<1> QED
  BY <1>1, <1>2, <1>3, <1>4, <1>5, Zenon DEF PostGIS!Next, PostGIS!Range

-----------------------------------------------------------------------------
(* OGR.                                                                    *)

\* Reading forward reaches the row with the index that was cached, because the
\* count of the rows read is right whenever it is used; and the last feature
\* is kept with every shape that is handed out.
LEMMA OgrStep ==
    ASSUME RowsTypeOK, CacheDrawable, OgrType, OgrInv, StyleInv, Ogr!Next
    PROVE  /\ RowsTypeOK' /\ CacheDrawable' /\ OgrType' /\ OgrInv' /\ StyleInv'
           /\ faults' = faults
           /\ faults = {} => Contract!Next
<1>t. /\ hLayer \in Seq(Features) /\ position \in 0 .. Len(hLayer)
      /\ last_record_index_read \in -1 .. Len(hLayer) - 1
      /\ hLastFeature \in Features \cup {NoShape}
      /\ shape \in [index : Features \cup {NoShape}, resultindex : Nat \cup {-1}]
      /\ Len(hLayer) \in Nat /\ DOMAIN hLayer = 1 .. Len(hLayer)
  BY DEF OgrType
<1>n. /\ Ogr!NoResult \in [index : Features \cup {NoShape}, resultindex : Nat \cup {-1}]
      /\ Ogr!NoResult.index = NoShape
  BY DEF Ogr!NoResult
<1>1. ASSUME NEW q \in Queries, Ogr!WhichShapes(q)
      PROVE  /\ RowsTypeOK' /\ CacheDrawable' /\ OgrType' /\ OgrInv' /\ StyleInv'
             /\ faults' = faults /\ Contract!Next
  <2>1. /\ NewQuery(q) /\ hLayer' = q /\ position' = 0
        /\ last_record_index_read' = -1 /\ shape' = Ogr!NoResult
        /\ hLastFeature' = hLastFeature
    BY <1>1 DEF Ogr!WhichShapes, Ogr!NewQuery, NewQuery, Ogr!NoAnswer, NoAnswer
  <2>2. /\ RowsTypeOK' /\ CacheDrawable' /\ FromQuery' /\ q \in Seq(Features)
        /\ rows' = q /\ answer' = NoAnswer /\ faults' = faults
        /\ Contract!Delivered' = 0 /\ Contract!Next
    BY <2>1, NewQueryRows
  <2>3. OgrType' /\ StyleInv'
    BY <1>t, <1>n, <2>1, <2>2 DEF OgrType, StyleInv
  <2>4. OgrInv'
    BY <2>1, <2>2 DEF OgrInv, ReadingAt
  <2> QED
    BY <2>2, <2>3, <2>4
<1>2. ASSUME Ogr!NextShape
      PROVE  /\ RowsTypeOK' /\ CacheDrawable' /\ OgrType' /\ OgrInv' /\ StyleInv'
             /\ faults' = faults /\ Contract!Next
  <2>0. mode = "reading"
    BY <1>2 DEF Ogr!NextShape
  <2>1. /\ hLayer = rows /\ position = Contract!Delivered /\ FromQuery
        /\ answer = NoAnswer /\ last_record_index_read = position - 1
    BY <2>0 DEF OgrInv, ReadingAt
  <2>2. \A i \in DOMAIN hLayer : last_record_index_read + i - position = i - 1
    BY <1>t, <2>1
  <2>3. PICK i \in DOMAIN hLayer :
           /\ IsFirst(i, DrawableAfter(hLayer, position))
           /\ AddResult(hLayer[i], i - 1)
           /\ position' = i
           /\ last_record_index_read' = i - 1
           /\ hLastFeature' = hLayer[i]
           /\ shape' = [index |-> hLayer[i], resultindex |-> i - 1]
           /\ hLayer' = hLayer
    BY <1>2, <2>2 DEF Ogr!NextShape, Ogr!IsFirst, IsFirst, Ogr!DrawableAfter,
                DrawableAfter, Ogr!AddResult, AddResult
  <2>4. rows[i] \notin Undrawable
    BY <2>1, <2>3 DEF IsFirst, DrawableAfter
  <2>5. /\ RowsTypeOK' /\ CacheDrawable' /\ FromQuery'
        /\ mode' = mode /\ rows' = rows /\ answer' = answer /\ faults' = faults
        /\ Contract!Delivered' = i
    BY <2>1, <2>3, <2>4, AddResultRows
  <2>6. Contract!Next
    BY <2>0, <2>1, <2>3, ContractNextShape
  <2>7. i \in 1 .. Len(hLayer) /\ hLayer[i] \in Features /\ i - 1 \in Nat
    BY <1>t
  <2>8. OgrType' /\ StyleInv'
    BY <1>t, <2>3, <2>7 DEF OgrType, StyleInv
  <2>9. OgrInv'
    BY <2>1, <2>3, <2>5 DEF OgrInv, ReadingAt
  <2> QED
    BY <2>5, <2>6, <2>8, <2>9
<1>3. ASSUME Ogr!NextDone
      PROVE  /\ RowsTypeOK' /\ CacheDrawable' /\ OgrType' /\ OgrInv' /\ StyleInv'
             /\ faults' = faults /\ Contract!Next
  <2>1. /\ mode = "reading" /\ hLayer' = hLayer /\ position' = Len(hLayer)
        /\ last_record_index_read' = -1 /\ shape' = Ogr!NoResult
        /\ hLastFeature' = hLastFeature
        /\ DrawableAfter(hLayer, position) = {} /\ NoMoreShapes
    BY <1>3 DEF Ogr!NextDone, Ogr!DrawableAfter, DrawableAfter,
                Ogr!NoMoreShapes, NoMoreShapes
  <2>2. hLayer = rows /\ position = Contract!Delivered /\ FromQuery
    BY <2>1 DEF OgrInv, ReadingAt
  <2>3. /\ RowsTypeOK' /\ CacheDrawable' /\ FromQuery' /\ mode' = "retrieving"
        /\ rows' = rows /\ faults' = faults /\ Contract!Next
    BY <2>1, <2>2, NoMoreShapesRows
  <2>4. OgrType' /\ StyleInv'
    BY <1>t, <1>n, <2>1 DEF OgrType, StyleInv
  <2>5. OgrInv'
    BY <2>1, <2>2, <2>3 DEF OgrInv, ReadingAt
  <2> QED
    BY <2>3, <2>4, <2>5
<1>4. ASSUME NEW k \in DOMAIN resultcache,
             \/ Ogr!GetShape(resultcache[k])
             \/ Ogr!GetShapeById(resultcache[k])
             \/ Ogr!GetShapeFails(resultcache[k])
      PROVE  /\ RowsTypeOK' /\ CacheDrawable' /\ OgrType' /\ OgrInv' /\ StyleInv'
             /\ faults' = faults /\ (faults = {} => Contract!Next)
  <2> DEFINE r == resultcache[k]
  <2>1. /\ r.shapeindex \in Features \ Undrawable /\ r.resultindex \in Nat \cup {-1}
        /\ FromQuery => /\ r.resultindex \in 0 .. Len(rows) - 1
                        /\ rows[r.resultindex + 1] = r.shapeindex
        /\ ById => r.resultindex = -1
    BY CachedResult DEF FromQuery, ById
  <2> HIDE DEF r
  <2>2. CASE Ogr!GetShape(r)
    <3> DEFINE record == r.resultindex
               start == IF Ogr!MustReset(record) THEN 0 ELSE position
               before == IF Ogr!MustReset(record) THEN -1 ELSE last_record_index_read
    <3>1. record \in Nat /\ hLayer' = hLayer
      BY <2>1, <2>2 DEF Ogr!GetShape
    <3>2. before = start - 1 /\ start \in 0 .. Len(hLayer)
      BY <1>t DEF OgrInv, Ogr!MustReset
    <3>3. start + (record - before) = record + 1
      BY <1>t, <3>1, <3>2
    <3>4. before + (Len(hLayer) - start) = Len(hLayer) - 1
      BY <1>t, <3>2
    <3>5. PICK i : i = start + (record - before)
      OBVIOUS
    <3>6. \/ /\ i > Len(hLayer)
             /\ Answer(r, "missing", NoShape)
             /\ position' = Len(hLayer)
             /\ last_record_index_read' = before + (Len(hLayer) - start)
             /\ shape' = Ogr!NoResult /\ hLastFeature' = hLastFeature
          \/ /\ ~(i > Len(hLayer))
             /\ AnswerWith(r, hLayer[i])
             /\ position' = i
             /\ last_record_index_read' = record
             /\ \/ shape' = Ogr!NoResult /\ hLastFeature' = hLastFeature
                \/ /\ shape' = [index |-> hLayer[i], resultindex |-> record]
                   /\ hLastFeature' = hLayer[i]
      BY <2>2, <3>5 DEF Ogr!GetShape, Ogr!AnswerWith, AnswerWith, Ogr!Answer, Answer
    <3>7. i = record + 1
      BY <3>3, <3>5
    <3>8. \/ /\ record + 1 > Len(hLayer)
             /\ Answer(r, "missing", NoShape)
             /\ position' = Len(hLayer)
             /\ last_record_index_read' = Len(hLayer) - 1
             /\ shape' = Ogr!NoResult /\ hLastFeature' = hLastFeature
          \/ /\ ~(record + 1 > Len(hLayer))
             /\ AnswerWith(r, hLayer[record + 1])
             /\ position' = record + 1
             /\ last_record_index_read' = record
             /\ \/ shape' = Ogr!NoResult /\ hLastFeature' = hLastFeature
                \/ /\ shape' = [index |-> hLayer[record + 1], resultindex |-> record]
                   /\ hLastFeature' = hLayer[record + 1]
      BY <3>4, <3>6, <3>7
    <3> HIDE DEF start, before, record
    <3>9. CASE record + 1 > Len(hLayer)
      <4>1. /\ Answer(r, "missing", NoShape)
            /\ position' = Len(hLayer)
            /\ last_record_index_read' = Len(hLayer) - 1
            /\ shape' = Ogr!NoResult /\ hLastFeature' = hLastFeature
        BY <3>8, <3>9
      <4>2. /\ RowsTypeOK' /\ CacheDrawable' /\ mode' = "retrieving"
            /\ faults' = faults /\ rows' = rows
            /\ (FromQuery <=> FromQuery') /\ (ById <=> ById')
        BY <4>1, AnswerRows DEF r
      <4>3. faults # {}
        BY <1>t, <2>1, <3>1, <3>9 DEF OgrInv, record
      <4>4. OgrType' /\ StyleInv'
        BY <1>t, <1>n, <3>1, <4>1 DEF OgrType, StyleInv
      <4>5. OgrInv'
        BY <1>t, <3>1, <4>1, <4>2, <4>3 DEF OgrInv, ReadingAt
      <4> QED
        BY <4>2, <4>3, <4>4, <4>5
    <3>10. CASE ~(record + 1 > Len(hLayer))
      <4>1. /\ AnswerWith(r, hLayer[record + 1])
            /\ position' = record + 1
            /\ last_record_index_read' = record
            /\ \/ shape' = Ogr!NoResult /\ hLastFeature' = hLastFeature
               \/ /\ shape' = [index |-> hLayer[record + 1], resultindex |-> record]
                  /\ hLastFeature' = hLayer[record + 1]
        BY <3>8, <3>10
      <4>2. record + 1 \in 1 .. Len(hLayer) /\ hLayer[record + 1] \in Features
        BY <1>t, <3>1, <3>10
      <4>3. /\ RowsTypeOK' /\ CacheDrawable' /\ mode' = "retrieving"
            /\ faults' = faults /\ rows' = rows
            /\ (FromQuery <=> FromQuery') /\ (ById <=> ById')
            /\ hLayer[record + 1] = r.shapeindex => Contract!Next
        BY <4>1, <4>2, AnswerWithRows DEF r
      <4>4. faults = {} => hLayer[record + 1] = r.shapeindex
        BY <2>1, <3>1 DEF OgrInv, record
      <4>5. OgrType' /\ StyleInv'
        BY <1>t, <1>n, <3>1, <4>1, <4>2 DEF OgrType, StyleInv
      <4>6. OgrInv'
        BY <1>t, <3>1, <4>1, <4>3 DEF OgrInv, ReadingAt
      <4> QED
        BY <4>3, <4>4, <4>5, <4>6
    <3> QED
      BY <3>9, <3>10
  <2>3. CASE Ogr!GetShapeById(r)
    <3>1. /\ AnswerWith(r, r.shapeindex)
          /\ hLastFeature' = r.shapeindex
          /\ shape' = [index |-> r.shapeindex, resultindex |-> -1]
          /\ UNCHANGED <<hLayer, position, last_record_index_read>>
      BY <2>3 DEF Ogr!GetShapeById, Ogr!AnswerWith, AnswerWith, Ogr!Answer, Answer
    <3>2. /\ RowsTypeOK' /\ CacheDrawable' /\ mode' = "retrieving"
          /\ faults' = faults /\ rows' = rows /\ Contract!Next
          /\ (FromQuery <=> FromQuery') /\ (ById <=> ById')
      BY <2>1, <3>1, AnswerWithRows DEF r
    <3>3. OgrType' /\ StyleInv'
      BY <1>t, <2>1, <3>1 DEF OgrType, StyleInv
    <3>4. OgrInv'
      BY <3>1, <3>2 DEF OgrInv, ReadingAt
    <3> QED
      BY <3>2, <3>3, <3>4
  <2>4. CASE Ogr!GetShapeFails(r)
    <3>1. /\ Answer(r, "error", NoShape) /\ shape' = Ogr!NoResult
          /\ UNCHANGED <<hLayer, position, last_record_index_read, hLastFeature>>
      BY <2>4 DEF Ogr!GetShapeFails, Ogr!Answer, Answer
    <3>2. /\ RowsTypeOK' /\ CacheDrawable' /\ mode' = "retrieving"
          /\ faults' = faults /\ rows' = rows /\ Contract!Next
          /\ (FromQuery <=> FromQuery') /\ (ById <=> ById')
      BY <3>1, AnswerRows DEF r
    <3>3. OgrType' /\ StyleInv'
      BY <1>t, <1>n, <3>1 DEF OgrType, StyleInv
    <3>4. OgrInv'
      BY <3>1, <3>2 DEF OgrInv, ReadingAt
    <3> QED
      BY <3>2, <3>3, <3>4
  <2> QED
    BY <1>4, <2>2, <2>3, <2>4 DEF r
<1>5. ASSUME NEW f \in Features, Ogr!QueryByIndex(f)
      PROVE  /\ RowsTypeOK' /\ CacheDrawable' /\ OgrType' /\ OgrInv' /\ StyleInv'
             /\ faults' = faults /\ Contract!Next
  <2>1. /\ QueryByIndexResult(f) /\ hLayer' \in Queries /\ position' = 0
        /\ last_record_index_read' = -1 /\ hLastFeature' = f
        /\ shape' = [index |-> f, resultindex |-> -1]
    BY <1>5 DEF Ogr!QueryByIndex, Ogr!QueryByIndexResult, QueryByIndexResult,
                Ogr!Adds, Adds, Ogr!NoAnswer, NoAnswer
  <2>2. /\ RowsTypeOK' /\ CacheDrawable' /\ mode' = "retrieving" /\ rows' = rows
        /\ faults' = faults /\ (faults = {} => ById') /\ Contract!Next
    BY <2>1, QueryByIndexRows
  <2>3. hLayer' \in Seq(Features) /\ Len(hLayer') \in Nat
    BY <2>1, RowsAssumption
  <2>4. OgrType' /\ StyleInv'
    BY <2>1, <2>3 DEF OgrType, StyleInv
  <2>5. OgrInv'
    BY <2>1, <2>2 DEF OgrInv, ReadingAt
  <2> QED
    BY <2>2, <2>4, <2>5
<1>6. ASSUME Ogr!NextFails
      PROVE  /\ RowsTypeOK' /\ CacheDrawable' /\ OgrType' /\ OgrInv' /\ StyleInv'
             /\ faults' = faults /\ Contract!Next
  <2>1. /\ mode = "reading" /\ hLayer' = hLayer /\ shape' = Ogr!NoResult
        /\ hLastFeature' = hLastFeature /\ ShapesFail
    BY <1>6 DEF Ogr!NextFails, Ogr!ShapesFail, ShapesFail
  <2>2. hLayer = rows /\ FromQuery /\ last_record_index_read = position - 1
    BY <2>1 DEF OgrInv, ReadingAt
  <2>3. PICK p \in position .. Len(hLayer) :
           /\ position' = p
           /\ \/ last_record_index_read' = -1
              \/ p > position /\ last_record_index_read' = last_record_index_read + p - position
    BY <1>6 DEF Ogr!NextFails
  <2>4. /\ position' \in 0 .. Len(hLayer)
        /\ last_record_index_read' \in {-1, position' - 1}
        /\ last_record_index_read' \in -1 .. Len(hLayer) - 1
    BY <1>t, <2>2, <2>3
  <2>5. /\ RowsTypeOK' /\ CacheDrawable' /\ FromQuery' /\ mode' = "failed"
        /\ rows' = rows /\ faults' = faults /\ Contract!Next
    BY <2>1, <2>2, ShapesFailRows
  <2>6. OgrType' /\ StyleInv'
    BY <1>t, <1>n, <2>1, <2>4 DEF OgrType, StyleInv
  <2>7. OgrInv'
    BY <2>1, <2>2, <2>4, <2>5 DEF OgrInv, ReadingAt
  <2> QED
    BY <2>5, <2>6, <2>7
<1> QED
  BY <1>1, <1>2, <1>3, <1>4, <1>5, <1>6, Zenon DEF Ogr!Next, Ogr!Range

-----------------------------------------------------------------------------
(* MSSQL.                                                                  *)

Statements == [rows : Seq(Features), fetched : Nat, open : BOOLEAN]

\* Where msMSSQL2008LayerGetShape can be, from fetched rows on, when it has
\* moved on to the target.
Reached(s, fetched, target) ==
    IF fetched >= target THEN {fetched}
                         ELSE {i \in DrawableAfter(s, fetched) : i >= target}

\* When all rows can be drawn, moving on to row x stops there, and the next
\* fetch gets the row with index x.
LEMMA ReachedDrawable ==
    ASSUME NEW s \in Seq(Features), \A i \in DOMAIN s : s[i] \notin Undrawable,
           NEW n \in Nat, NEW x \in 0 .. Len(s) - 1, n <= x
    PROVE  /\ x \in Reached(s, n, x) /\ x + 1 \in DrawableAfter(s, x)
           /\ \A p, i : IsFirst(p, Reached(s, n, x)) /\ IsFirst(i, DrawableAfter(s, p))
                           => i = x + 1
<1>1. Len(s) \in Nat /\ DOMAIN s = 1 .. Len(s) /\ x \in Nat
  OBVIOUS
<1>2. x + 1 \in DrawableAfter(s, x)
  BY <1>1 DEF DrawableAfter
<1>3. x \in Reached(s, n, x)
  BY <1>1 DEF Reached, DrawableAfter
<1>4. ASSUME NEW p, IsFirst(p, Reached(s, n, x)) PROVE p = x
  <2>1. p \in Nat /\ p >= x
    BY <1>1, <1>4 DEF IsFirst, Reached, DrawableAfter
  <2>2. p <= x
    BY <1>3, <1>4 DEF IsFirst
  <2> QED
    BY <1>1, <2>1, <2>2
<1>5. ASSUME NEW i, IsFirst(i, DrawableAfter(s, x)) PROVE i = x + 1
  <2>1. i \in Nat /\ i > x
    BY <1>1, <1>5 DEF IsFirst, DrawableAfter
  <2>2. i <= x + 1
    BY <1>2, <1>5 DEF IsFirst
  <2> QED
    BY <1>1, <2>1, <2>2
<1> QED
  BY <1>2, <1>3, <1>4, <1>5, Zenon

\* What is fetched lies beyond what was fetched before.
LEMMA ReachedBeyond ==
    ASSUME NEW s \in Seq(Features), NEW n \in Nat, NEW x \in Int, NEW p, NEW i,
           IsFirst(p, Reached(s, n, x)), IsFirst(i, DrawableAfter(s, p))
    PROVE  i \in Nat /\ i > n /\ i <= Len(s)
<1>1. p \in Nat /\ p >= n
  BY DEF IsFirst, Reached, DrawableAfter
<1>2. i \in 1 .. Len(s) /\ i > p
  BY DEF IsFirst, DrawableAfter
<1> QED
  BY <1>1, <1>2

\* Fetching changes the number of fetched rows only.
LEMMA FetchedStatement ==
    ASSUME NEW s \in Statements, NEW i \in Nat
    PROVE  LET t == [s EXCEPT !.fetched = i] IN
           /\ t \in Statements
           /\ t.rows = s.rows /\ t.fetched = i /\ t.open = s.open
<1> DEFINE t == [s EXCEPT !.fetched = i]
<1>1. t \in Statements
  BY DEF Statements
<1>2. t.rows = s.rows /\ t.fetched = i /\ t.open = s.open
  BY DEF Statements
<1> QED
  BY <1>1, <1>2

\* The statement that GetShape reads, after issuing the query again or not.
Statement(r) == IF Mssql!Reissued(r) THEN Mssql!Executed(rows) ELSE hstmt
RowNum(r) == IF Mssql!Reissued(r) THEN 0 ELSE row_num

\* The two ways in which msMSSQL2008LayerGetShape ends.
GetShapeFetches(r, s, n) ==
    \E p \in 0 .. Len(s.rows), i \in 1 .. Len(s.rows) :
       /\ IsFirst(p, Reached(s.rows, s.fetched, s.fetched + (r.resultindex - n)))
       /\ IsFirst(i, DrawableAfter(s.rows, p))
       /\ hstmt' = [s EXCEPT !.fetched = i]
       /\ row_num' = n + (i - s.fetched)
       /\ Answer(r, "success", s.rows[i])

GetShapeRunsOut(r, s, n) ==
    /\ \A p \in Reached(s.rows, s.fetched, s.fetched + (r.resultindex - n)) :
          DrawableAfter(s.rows, p) = {}
    /\ hstmt' = [s EXCEPT !.fetched = Len(s.rows)]
    /\ row_num' = n + (Len(s.rows) - s.fetched)
    /\ Answer(r, IF Reached(s.rows, s.fetched, s.fetched + (r.resultindex - n)) = {}
                 THEN "error" ELSE "missing", NoShape)

LEMMA MssqlGetShape ==
    ASSUME NEW r, Mssql!GetShape(r)
    PROVE  /\ r.resultindex >= 0 /\ sql /\ sql' = sql
           /\ \/ GetShapeFetches(r, Statement(r), RowNum(r))
              \/ GetShapeRunsOut(r, Statement(r), RowNum(r))
BY DEF Mssql!GetShape, GetShapeFetches, GetShapeRunsOut, Statement, RowNum, Reached,
       IsFirst, Mssql!IsFirst, DrawableAfter, Mssql!DrawableAfter,
       Answer, Mssql!Answer, Mssql!Fetched

\* The statement is of the right type, and row_num is a number.
LEMMA StatementType ==
    ASSUME RowsTypeOK, MssqlType, NEW r
    PROVE  /\ Statement(r) \in Statements
           /\ Statement(r).fetched <= Len(Statement(r).rows)
           /\ RowNum(r) \in Nat
           /\ Mssql!Reissued(r) => /\ Statement(r).rows = rows
                                   /\ Statement(r).fetched = 0
                                   /\ RowNum(r) = 0
           /\ ~Mssql!Reissued(r) => Statement(r) = hstmt /\ RowNum(r) = row_num
<1>1. /\ Mssql!Executed(rows) \in Statements
      /\ Mssql!Executed(rows).rows = rows /\ Mssql!Executed(rows).fetched = 0
      /\ 0 <= Len(rows)
  BY DEF Mssql!Executed, Statements, RowsTypeOK
<1> QED
  BY <1>1 DEF Statement, RowNum, MssqlType, Statements

\* From a statement that yields the rows of the query and is not beyond the
\* cached result, that result is read.
LEMMA MssqlRightRow ==
    ASSUME RowsTypeOK, FromQuery, NEW k \in DOMAIN resultcache,
           \A i \in DOMAIN rows : rows[i] \notin Undrawable,
           NEW s \in Statements, s.rows = rows,
           NEW n \in Nat, s.fetched = n, n <= resultcache[k].resultindex,
           \/ GetShapeFetches(resultcache[k], s, n)
           \/ GetShapeRunsOut(resultcache[k], s, n)
    PROVE  Answer(resultcache[k], "success", resultcache[k].shapeindex)
<1> PICK x : x = resultcache[k].resultindex
  OBVIOUS
<1>1. /\ x \in 0 .. Len(rows) - 1 /\ rows[x + 1] = resultcache[k].shapeindex
      /\ rows \in Seq(Features) /\ s.fetched + (x - n) = x
  BY DEF FromQuery, RowsTypeOK
<1>2. /\ x \in Reached(rows, n, x) /\ x + 1 \in DrawableAfter(rows, x)
      /\ \A p, i : IsFirst(p, Reached(rows, n, x)) /\ IsFirst(i, DrawableAfter(rows, p))
                      => i = x + 1
  BY <1>1, ReachedDrawable
<1>3. CASE GetShapeFetches(resultcache[k], s, n)
  <2>1. PICK p, i : /\ IsFirst(p, Reached(rows, n, x))
                    /\ IsFirst(i, DrawableAfter(rows, p))
                    /\ Answer(resultcache[k], "success", rows[i])
    BY <1>1, <1>3 DEF GetShapeFetches
  <2> QED
    BY <1>1, <1>2, <2>1
<1>4. CASE GetShapeRunsOut(resultcache[k], s, n)
  BY <1>1, <1>2, <1>4 DEF GetShapeRunsOut
<1> QED
  BY <1>3, <1>4

\* Whatever is fetched, the statement and row_num are of the right type and
\* move on together.
LEMMA MssqlFetched ==
    ASSUME RowsTypeOK, NEW r, r.resultindex \in Nat,
           NEW s \in Statements, s.fetched <= Len(s.rows), NEW n \in Nat,
           GetShapeFetches(r, s, n) \/ GetShapeRunsOut(r, s, n)
    PROVE  /\ hstmt' \in Statements /\ hstmt'.fetched <= Len(hstmt'.rows)
           /\ hstmt'.rows = s.rows /\ row_num' \in Nat
           /\ s.fetched = n => row_num' = hstmt'.fetched
           /\ \E status \in {"success", "missing", "error"},
                 f \in Features \cup {NoShape} : Answer(r, status, f)
<1>1. /\ s.rows \in Seq(Features) /\ s.fetched \in Nat /\ Len(s.rows) \in Nat
      /\ DOMAIN s.rows = 1 .. Len(s.rows)
      /\ s.fetched + (r.resultindex - n) \in Int
  BY DEF Statements
<1>2. CASE GetShapeFetches(r, s, n)
  <2>1. PICK p \in 0 .. Len(s.rows), i \in 1 .. Len(s.rows) :
           /\ IsFirst(p, Reached(s.rows, s.fetched, s.fetched + (r.resultindex - n)))
           /\ IsFirst(i, DrawableAfter(s.rows, p))
           /\ hstmt' = [s EXCEPT !.fetched = i]
           /\ row_num' = n + (i - s.fetched)
           /\ Answer(r, "success", s.rows[i])
    BY <1>2 DEF GetShapeFetches
  <2>2. i \in Nat /\ i > s.fetched /\ i <= Len(s.rows)
    BY <1>1, <2>1, ReachedBeyond
  <2>3. /\ hstmt' \in Statements /\ hstmt'.rows = s.rows /\ hstmt'.fetched = i
    BY <2>1, <2>2, FetchedStatement
  <2>4. s.rows[i] \in Features
    BY <1>1
  <2>5. /\ row_num' \in Nat /\ hstmt'.fetched <= Len(hstmt'.rows)
        /\ s.fetched = n => row_num' = hstmt'.fetched
    <3>1. row_num' = n + (i - s.fetched)
      BY <2>1
    <3> QED
      BY <1>1, <2>2, <2>3, <3>1
  <2> QED
    BY <2>1, <2>3, <2>4, <2>5
<1>3. CASE GetShapeRunsOut(r, s, n)
  <2>1. /\ hstmt' = [s EXCEPT !.fetched = Len(s.rows)]
        /\ row_num' = n + (Len(s.rows) - s.fetched)
        /\ Answer(r, "missing", NoShape) \/ Answer(r, "error", NoShape)
    BY <1>3 DEF GetShapeRunsOut
  <2>2. /\ hstmt' \in Statements /\ hstmt'.rows = s.rows
        /\ hstmt'.fetched = Len(s.rows)
    BY <1>1, <2>1, FetchedStatement
  <2>3. /\ row_num' \in Nat /\ hstmt'.fetched <= Len(hstmt'.rows)
        /\ s.fetched = n => row_num' = hstmt'.fetched
    BY <1>1, <2>1, <2>2
  <2> QED
    BY <2>1, <2>2, <2>3
<1> QED
  BY <1>2, <1>3

\* The statement yields the rows of the query from where row_num says, as long
\* as the layer has a query and shares the connection with no other.
LEMMA MssqlStep ==
    ASSUME RowsTypeOK, CacheDrawable, MssqlType, MssqlInv, Mssql!Next
    PROVE  /\ RowsTypeOK' /\ CacheDrawable' /\ MssqlType' /\ MssqlInv'
           /\ faults' = faults
           /\ faults \subseteq {"add"} => Contract!Next
<1>t. /\ hstmt \in Statements /\ hstmt.rows \in Seq(Features) /\ hstmt.fetched \in Nat
      /\ hstmt.fetched <= Len(hstmt.rows) /\ Len(hstmt.rows) \in Nat
      /\ row_num \in Nat /\ sql \in BOOLEAN /\ DOMAIN hstmt.rows = 1 .. Len(hstmt.rows)
  BY DEF MssqlType, Statements
<1>1. ASSUME NEW q \in Queries, Mssql!WhichShapes(q)
      PROVE  /\ RowsTypeOK' /\ CacheDrawable' /\ MssqlType' /\ MssqlInv'
             /\ faults' = faults /\ Contract!Next
  <2>1. /\ NewQuery(q) /\ hstmt' = Mssql!Executed(q) /\ row_num' = 0 /\ sql' = TRUE
        /\ HasNulls \/ Range(q) \cap Undrawable = {}
    BY <1>1 DEF Mssql!WhichShapes, Mssql!NewQuery, NewQuery, Mssql!NoAnswer, NoAnswer,
                Mssql!HasNulls, HasNulls, Mssql!Range, Range
  <2>2. /\ RowsTypeOK' /\ CacheDrawable' /\ FromQuery' /\ q \in Seq(Features)
        /\ mode' = "reading" /\ rows' = q /\ answer' = NoAnswer /\ faults' = faults
        /\ Contract!Delivered' = 0 /\ Contract!Next
    BY <2>1, NewQueryRows
  <2>3. /\ hstmt' \in Statements /\ hstmt'.rows = q /\ hstmt'.fetched = 0
        /\ hstmt'.fetched <= Len(hstmt'.rows)
    BY <2>1, <2>2 DEF Mssql!Executed, Statements
  <2>4. MssqlType'
    BY <2>1, <2>3 DEF MssqlType, Statements
  <2>5. ~HasNulls => \A i \in DOMAIN q : q[i] \notin Undrawable
    BY <2>1 DEF Range
  <2>6. MssqlInv'
    BY <2>1, <2>2, <2>3, <2>5 DEF MssqlInv, ReadingAt, HasNulls
  <2> QED
    BY <2>2, <2>4, <2>6
<1>2. ASSUME NEW q \in Queries, Mssql!OtherLayer(q)
      PROVE  /\ RowsTypeOK' /\ CacheDrawable' /\ MssqlType' /\ MssqlInv'
             /\ faults' = faults /\ ~(faults \subseteq {"add"})
  <2>1. /\ "share" \in faults /\ mode = "retrieving" /\ hstmt' = Mssql!Executed(q)
        /\ UNCHANGED <<faults, mode, rows, resultcache, answer, row_num, sql>>
    BY <1>2 DEF Mssql!OtherLayer, Mssql!Shares, Mssql!rowVars
  <2>2. q \in Seq(Features)
    BY RowsAssumption
  <2>3. hstmt' \in Statements /\ hstmt'.fetched <= Len(hstmt'.rows)
    BY <2>1, <2>2 DEF Mssql!Executed, Statements
  <2>4. MssqlType'
    BY <1>t, <2>1, <2>3 DEF MssqlType, Statements
  <2>5. RowsTypeOK' /\ CacheDrawable' /\ (FromQuery => FromQuery')
    BY <2>1 DEF RowsTypeOK, CacheDrawable, FromQuery
  <2>6. MssqlInv'
    BY <2>1, <2>5 DEF MssqlInv, ReadingAt, HasNulls
  <2> QED
    BY <2>1, <2>4, <2>5, <2>6
<1>3. ASSUME Mssql!NextShape
      PROVE  /\ RowsTypeOK' /\ CacheDrawable' /\ MssqlType' /\ MssqlInv'
             /\ faults' = faults /\ Contract!Next
  <2>0. mode = "reading"
    BY <1>3 DEF Mssql!NextShape
  <2>1. /\ hstmt.rows = rows /\ hstmt.fetched = Contract!Delivered /\ FromQuery
        /\ answer = NoAnswer /\ sql /\ hstmt.fetched = row_num
    BY <2>0 DEF MssqlInv, ReadingAt
  <2>2. PICK i \in DOMAIN hstmt.rows :
           /\ IsFirst(i, DrawableAfter(hstmt.rows, hstmt.fetched))
           /\ hstmt' = [hstmt EXCEPT !.fetched = i]
           /\ row_num' = row_num + (i - hstmt.fetched)
           /\ AddResult(hstmt.rows[i], row_num' - 1)
           /\ sql' = sql
    BY <1>3 DEF Mssql!NextShape, Mssql!IsFirst, IsFirst, Mssql!DrawableAfter,
                DrawableAfter, Mssql!AddResult, AddResult, Mssql!Fetched
  <2>3. i \in 1 .. Len(hstmt.rows) /\ row_num' = i
    BY <1>t, <2>1, <2>2
  <2>4. AddResult(rows[i], i - 1)
    BY <2>1, <2>2, <2>3
  <2>5. rows[i] \notin Undrawable
    BY <2>1, <2>2 DEF IsFirst, DrawableAfter
  <2>6. /\ RowsTypeOK' /\ CacheDrawable' /\ FromQuery'
        /\ mode' = mode /\ rows' = rows /\ answer' = answer /\ faults' = faults
        /\ Contract!Delivered' = i
    BY <2>1, <2>4, <2>5, AddResultRows
  <2>7. Contract!Next
    BY <2>0, <2>1, <2>2, <2>4, ContractNextShape
  <2>8. hstmt' \in Statements /\ hstmt'.rows = hstmt.rows /\ hstmt'.fetched = i
    BY <1>t, <2>2, <2>3, FetchedStatement
  <2>9. MssqlType'
    BY <1>t, <2>2, <2>3, <2>8 DEF MssqlType, Statements
  <2>10. MssqlInv'
    BY <2>1, <2>2, <2>3, <2>6, <2>8 DEF MssqlInv, ReadingAt, HasNulls
  <2> QED
    BY <2>6, <2>7, <2>9, <2>10
<1>4. ASSUME Mssql!NextDone
      PROVE  /\ RowsTypeOK' /\ CacheDrawable' /\ MssqlType' /\ MssqlInv'
             /\ faults' = faults /\ Contract!Next
  <2>1. /\ mode = "reading" /\ NoMoreShapes /\ sql' = sql
        /\ DrawableAfter(hstmt.rows, hstmt.fetched) = {}
        /\ hstmt' = [hstmt EXCEPT !.fetched = Len(hstmt.rows)]
        /\ row_num' = row_num + (Len(hstmt.rows) - hstmt.fetched)
    BY <1>4 DEF Mssql!NextDone, Mssql!DrawableAfter, DrawableAfter,
                Mssql!NoMoreShapes, NoMoreShapes, Mssql!Fetched
  <2>2. /\ hstmt.rows = rows /\ hstmt.fetched = Contract!Delivered /\ FromQuery
        /\ sql /\ hstmt.fetched = row_num
    BY <2>1 DEF MssqlInv, ReadingAt
  <2>3. /\ RowsTypeOK' /\ CacheDrawable' /\ FromQuery' /\ mode' = "retrieving"
        /\ rows' = rows /\ faults' = faults /\ Contract!Next
    BY <2>1, <2>2, NoMoreShapesRows
  <2>4. /\ hstmt' \in Statements /\ hstmt'.rows = hstmt.rows
        /\ hstmt'.fetched = Len(hstmt.rows) /\ row_num' = Len(hstmt.rows)
    BY <1>t, <2>1, <2>2, FetchedStatement
  <2>5. MssqlType'
    BY <1>t, <2>1, <2>4 DEF MssqlType, Statements
  <2>6. MssqlInv'
    BY <2>1, <2>2, <2>3, <2>4 DEF MssqlInv, ReadingAt, HasNulls
  <2> QED
    BY <2>3, <2>5, <2>6
<1>5. ASSUME NEW k \in DOMAIN resultcache, Mssql!GetShape(resultcache[k])
      PROVE  /\ RowsTypeOK' /\ CacheDrawable' /\ MssqlType' /\ MssqlInv'
             /\ faults' = faults /\ (faults \subseteq {"add"} => Contract!Next)
  <2> PICK r : r = resultcache[k]
    OBVIOUS
  <2> PICK s, n : s = Statement(r) /\ n = RowNum(r)
    OBVIOUS
  <2>1. /\ r.resultindex \in Nat /\ sql /\ sql' = sql /\ FromQuery
        /\ GetShapeFetches(r, s, n) \/ GetShapeRunsOut(r, s, n)
    BY <1>5, MssqlGetShape, CachedResult DEF MssqlInv
  <2>2. /\ s \in Statements /\ s.fetched <= Len(s.rows) /\ n \in Nat
        /\ Mssql!Reissued(r) => s.rows = rows /\ s.fetched = 0 /\ n = 0
        /\ ~Mssql!Reissued(r) => s = hstmt /\ n = row_num
    BY StatementType
  <2>3. /\ hstmt' \in Statements /\ hstmt'.fetched <= Len(hstmt'.rows)
        /\ hstmt'.rows = s.rows /\ row_num' \in Nat
        /\ s.fetched = n => row_num' = hstmt'.fetched
    BY <2>1, <2>2, MssqlFetched
  <2>4. PICK status \in {"success", "missing", "error"},
             f \in Features \cup {NoShape} : Answer(r, status, f)
    BY <2>1, <2>2, MssqlFetched
  <2>5. /\ RowsTypeOK' /\ CacheDrawable' /\ FromQuery' /\ mode' = "retrieving"
        /\ rows' = rows /\ faults' = faults
    BY <2>1, <2>4, AnswerRows
  <2>6. MssqlType'
    BY <1>t, <2>1, <2>3 DEF MssqlType, Statements
  <2>7. n <= r.resultindex
    BY <1>t, <2>1, <2>2 DEF Mssql!Reissued
  <2>8. ASSUME faults \subseteq {"add"}
        PROVE  /\ hstmt'.rows = rows /\ hstmt'.fetched = row_num'
               /\ Contract!Next
    <3>1. s.rows = rows /\ s.fetched = n
      BY <2>1, <2>2, <2>8 DEF MssqlInv
    <3>2. \A i \in DOMAIN rows : rows[i] \notin Undrawable
      BY <2>1, <2>8 DEF MssqlInv, HasNulls
    <3>3. Answer(r, "success", r.shapeindex)
      BY <2>1, <2>2, <2>7, <3>1, <3>2, MssqlRightRow
    <3>4. Contract!Next
      BY <3>3, AnswerRows, CachedResult
    <3> QED
      BY <2>3, <3>1, <3>4
  <2>9. MssqlInv'
    BY <2>1, <2>5, <2>8 DEF MssqlInv, ReadingAt, HasNulls
  <2> QED
    BY <2>5, <2>6, <2>8, <2>9
<1>6. ASSUME NEW k \in DOMAIN resultcache, Mssql!ReissueFails(resultcache[k])
      PROVE  /\ RowsTypeOK' /\ CacheDrawable' /\ MssqlType' /\ MssqlInv'
             /\ faults' = faults /\ Contract!Next
  <2>1. /\ Answer(resultcache[k], "error", NoShape) /\ hstmt' = Mssql!ClosedCursor
        /\ sql /\ sql' = sql /\ row_num' = row_num /\ "reissue" \in faults
    BY <1>6 DEF Mssql!ReissueFails, Mssql!ReissueMayFail, Mssql!Answer, Answer
  <2>2. /\ RowsTypeOK' /\ CacheDrawable' /\ mode' = "retrieving"
        /\ rows' = rows /\ faults' = faults /\ (FromQuery <=> FromQuery')
        /\ Contract!Next
    BY <2>1, AnswerRows
  <2>3. hstmt' \in Statements /\ hstmt'.fetched <= Len(hstmt'.rows)
    BY <2>1 DEF Mssql!ClosedCursor, Statements
  <2>4. MssqlType'
    BY <1>t, <2>1, <2>3 DEF MssqlType, Statements
  <2>5. MssqlInv'
    BY <2>1, <2>2 DEF MssqlInv, ReadingAt, HasNulls
  <2> QED
    BY <2>2, <2>4, <2>5
<1>7. ASSUME NEW k \in DOMAIN resultcache, Mssql!GetShapeById(resultcache[k])
      PROVE  /\ RowsTypeOK' /\ CacheDrawable' /\ MssqlType' /\ MssqlInv'
             /\ faults' = faults /\ Contract!Next
  <2> PICK r : r = resultcache[k]
    OBVIOUS
  <2>1. /\ AnswerWith(r, r.shapeindex) /\ hstmt' = Mssql!SingleRow(r.shapeindex)
        /\ row_num' = 1 /\ sql' = sql /\ (r.resultindex = -1 \/ ~sql)
    BY <1>7 DEF Mssql!GetShapeById, Mssql!AnswerWith, AnswerWith, Mssql!Answer, Answer
  <2>2. r.shapeindex \in Features
    BY CachedResult
  <2>3. /\ RowsTypeOK' /\ CacheDrawable' /\ mode' = "retrieving"
        /\ rows' = rows /\ faults' = faults /\ Contract!Next
    BY <2>1, <2>2, AnswerWithRows
  <2>4. ~sql
    BY <2>1 DEF MssqlInv, FromQuery
  <2>5. hstmt' \in Statements /\ hstmt'.fetched <= Len(hstmt'.rows)
    BY <2>1, <2>2 DEF Mssql!SingleRow, Statements
  <2>6. MssqlType'
    BY <1>t, <2>1, <2>5 DEF MssqlType, Statements
  <2>7. MssqlInv'
    BY <2>1, <2>3, <2>4 DEF MssqlInv, ReadingAt
  <2> QED
    BY <2>3, <2>6, <2>7
<1>8. ASSUME NEW f \in Features, Mssql!QueryByIndex(f)
      PROVE  /\ RowsTypeOK' /\ CacheDrawable' /\ MssqlType' /\ MssqlInv'
             /\ faults' = faults /\ Contract!Next
  <2>1. /\ QueryByIndexResult(f) /\ hstmt' = Mssql!SingleRow(f) /\ row_num' = 1
        /\ sql' = FALSE
    BY <1>8 DEF Mssql!QueryByIndex, Mssql!QueryByIndexResult, QueryByIndexResult,
                Mssql!Adds, Adds, Mssql!NoAnswer, NoAnswer
  <2>2. /\ RowsTypeOK' /\ CacheDrawable' /\ mode' = "retrieving"
        /\ faults' = faults /\ Contract!Next
    BY <2>1, QueryByIndexRows
  <2>3. hstmt' \in Statements /\ hstmt'.fetched <= Len(hstmt'.rows)
    BY <2>1 DEF Mssql!SingleRow, Statements
  <2>4. MssqlType'
    BY <2>1, <2>3 DEF MssqlType, Statements
  <2>5. MssqlInv'
    BY <2>1, <2>2 DEF MssqlInv, ReadingAt
  <2> QED
    BY <2>2, <2>4, <2>5
<1> QED
  BY <1>1, <1>2, <1>3, <1>4, <1>5, <1>6, <1>7, <1>8, Zenon DEF Mssql!Next, Mssql!Range

\* A result that has been passed is read from the query issued again.
LEMMA MssqlReissue ==
    ASSUME RowsTypeOK, CacheDrawable, MssqlType, MssqlInv, Mssql!Next,
           NEW r \in Range(resultcache), answer' # answer, answer'.asked = r,
           sql, ~HasNulls, r.resultindex \in 0 .. row_num - 1
    PROVE  \/ answer'.status = "error"
           \/ answer'.status = "success" /\ answer'.index = r.shapeindex
<1>1. PICK k \in DOMAIN resultcache : r = resultcache[k]
  BY DEF Range
<1>2. r \in resultObj /\ FromQuery /\ row_num \in Nat
  BY <1>1, CachedResult DEF MssqlInv, MssqlType
<1>3. answer' # NoAnswer
  <2>1. DOMAIN r = {"shapeindex", "resultindex"} /\ DOMAIN <<>> = {}
    BY <1>2 DEF resultObj
  <2>2. NoAnswer.asked = <<>>
    BY DEF NoAnswer
  <2> QED
    BY <2>1, <2>2
<1>4. ASSUME NEW q \in Queries, Mssql!WhichShapes(q) PROVE FALSE
  BY <1>3, <1>4 DEF Mssql!WhichShapes, Mssql!NewQuery, Mssql!NoAnswer, NoAnswer
<1>5. ASSUME NEW q \in Queries, Mssql!OtherLayer(q) PROVE FALSE
  BY <1>5 DEF Mssql!OtherLayer, Mssql!rowVars
<1>6. ASSUME Mssql!NextShape PROVE FALSE
  BY <1>6 DEF Mssql!NextShape, Mssql!AddResult
<1>7. ASSUME Mssql!NextDone PROVE FALSE
  BY <1>7 DEF Mssql!NextDone, Mssql!NoMoreShapes
<1>8. ASSUME NEW j \in DOMAIN resultcache, Mssql!GetShape(resultcache[j])
      PROVE  answer'.status = "success" /\ answer'.index = r.shapeindex
  <2> PICK u : u = resultcache[j]
    OBVIOUS
  <2> PICK s, n : s = Statement(u) /\ n = RowNum(u)
    OBVIOUS
  <2>0. /\ u.resultindex >= 0
        /\ GetShapeFetches(u, s, n) \/ GetShapeRunsOut(u, s, n)
    BY <1>8, MssqlGetShape
  <2>1. /\ u.resultindex \in Nat
        /\ GetShapeFetches(u, s, n) \/ GetShapeRunsOut(u, s, n)
    BY <2>0, CachedResult
  <2>2. answer'.asked = u
    BY <2>1 DEF GetShapeFetches, GetShapeRunsOut, Answer
  <2>3. Mssql!Reissued(u)
    BY <1>2, <2>2 DEF Mssql!Reissued
  <2>4. s \in Statements /\ s.rows = rows /\ s.fetched = 0 /\ n = 0
    BY <2>3, StatementType
  <2>5. \A i \in DOMAIN rows : rows[i] \notin Undrawable
    BY DEF MssqlInv
  <2>6. Answer(u, "success", u.shapeindex)
    BY <1>2, <2>1, <2>4, <2>5, MssqlRightRow
  <2> QED
    BY <2>2, <2>6 DEF Answer
<1>9. ASSUME NEW j \in DOMAIN resultcache, Mssql!ReissueFails(resultcache[j])
      PROVE  answer'.status = "error"
  BY <1>9 DEF Mssql!ReissueFails, Mssql!Answer
<1>10. ASSUME NEW j \in DOMAIN resultcache, Mssql!GetShapeById(resultcache[j])
       PROVE  FALSE
  BY <1>2, <1>10 DEF Mssql!GetShapeById, FromQuery
<1>11. ASSUME NEW f \in Features, Mssql!QueryByIndex(f) PROVE FALSE
  BY <1>3, <1>11 DEF Mssql!QueryByIndex, Mssql!QueryByIndexResult, Mssql!NoAnswer,
                     NoAnswer
<1> QED
  BY <1>4, <1>5, <1>6, <1>7, <1>8, <1>9, <1>10, <1>11, Zenon DEF Mssql!Next, Mssql!Range

-----------------------------------------------------------------------------
(* Oracle.                                                                 *)

\* The fetch that brings in a row: where it starts, and that it holds the row.
LEMMA BlockBounds ==
    ASSUME OracleType, first + rows_fetched <= Len(result), rows_fetched > 0,
           NEW n \in first .. Len(result) - 1
    PROVE  /\ Oracle!BlockOf(n) \in 0 .. n
           /\ n < Oracle!BlockOf(n) + ARRAY_SIZE
           /\ Oracle!BlockOf(n) = first => n < first + rows_fetched
<1> DEFINE next == first + rows_fetched
           d == n - next
<1>1. /\ first \in Nat /\ rows_fetched \in Nat /\ Len(result) \in Nat /\ n \in Nat
      /\ ARRAY_SIZE \in Nat /\ ARRAY_SIZE > 0 /\ next \in Nat
      /\ rows_fetched <= ARRAY_SIZE
  BY LayerCursorAssumption DEF OracleType
<1>2. CASE n < next
  BY <1>1, <1>2 DEF Oracle!BlockOf
<1>3. CASE ~(n < next)
  <2>1. d \in Nat /\ n = next + d
    BY <1>1, <1>3
  <2>2. PICK m : m = d \div ARRAY_SIZE
    OBVIOUS
  <2>3. Oracle!BlockOf(n) = next + ARRAY_SIZE * m
    BY <1>3, <2>2 DEF Oracle!BlockOf
  <2> HIDE DEF next, d
  <2>4. m \in Nat /\ ARRAY_SIZE * m <= d /\ d < ARRAY_SIZE * m + ARRAY_SIZE
    BY <1>1, <2>1, <2>2
  <2>5. PICK b : b = ARRAY_SIZE * m
    OBVIOUS
  <2>6. b \in Nat /\ b <= d /\ d < b + ARRAY_SIZE /\ Oracle!BlockOf(n) = next + b
    BY <1>1, <2>3, <2>4, <2>5
  <2>7. next > first
    BY <1>1 DEF next
  <2> QED
    BY <1>1, <2>1, <2>6, <2>7
<1> QED
  BY <1>2, <1>3

\* Without an answer from the buffer there is nothing to be read inside of it.
LEMMA NothingRead ==
    ASSUME answer' = NoAnswer \/ answer'.index = NoShape \/ answer'.status = "error"
    PROVE  Oracle!ReadsInsideBuffer'
BY DEF Oracle!ReadsInsideBuffer, NoAnswer

\* The rows are delivered in order whatever the size of the buffer.  What is
\* retrieved is in the buffer where row says, because row_num and row say
\* where the buffer is unless a fetch has failed.
LEMMA OracleStep ==
    ASSUME RowsTypeOK, CacheDrawable, OracleType, OracleInv,
           Oracle!ReadsInsideBuffer, Oracle!Next
    PROVE  /\ RowsTypeOK' /\ CacheDrawable' /\ OracleType' /\ OracleInv'
           /\ Oracle!ReadsInsideBuffer' /\ faults' = faults
           /\ faults = {} => Contract!Next
<1>t. /\ result \in Seq(Features) /\ Len(result) \in Nat
      /\ DOMAIN result = 1 .. Len(result)
      /\ first \in 0 .. Len(result) /\ rows_fetched \in 0 .. ARRAY_SIZE
      /\ rows_count \in 0 .. Len(result) /\ row_num \in 0 .. Len(result)
      /\ row \in 0 .. ARRAY_SIZE
      /\ ARRAY_SIZE \in Nat /\ ARRAY_SIZE > 0 /\ first + rows_fetched <= Len(result)
  BY LayerCursorAssumption DEF OracleType, OracleInv
<1>1. ASSUME NEW q \in Queries, Oracle!WhichShapes(q)
      PROVE  /\ RowsTypeOK' /\ CacheDrawable' /\ OracleType' /\ OracleInv'
             /\ Oracle!ReadsInsideBuffer' /\ faults' = faults /\ Contract!Next
  <2>1. /\ NewQuery(q) /\ result' = q /\ first' = 0 /\ row_num' = 0 /\ row' = 0
        /\ rows_fetched' = Oracle!Lesser(ARRAY_SIZE, Len(q) - 0)
        /\ rows_count' = Oracle!Lesser(ARRAY_SIZE, Len(q))
    BY <1>1 DEF Oracle!WhichShapes, Oracle!NewQuery, NewQuery, Oracle!NoAnswer,
                NoAnswer, Oracle!Fetch
  <2>2. /\ RowsTypeOK' /\ CacheDrawable' /\ FromQuery' /\ q \in Seq(Features)
        /\ mode' = "reading" /\ rows' = q /\ answer' = NoAnswer /\ faults' = faults
        /\ Contract!Delivered' = 0 /\ Contract!Next /\ resultcache' = <<>>
    BY <2>1, NewQueryRows DEF NewQuery
  <2>3. /\ rows_fetched' \in 0 .. ARRAY_SIZE /\ rows_fetched' <= Len(q)
        /\ rows_count' \in 0 .. Len(q) /\ (rows_fetched' = 0 => Len(q) = 0)
        /\ Len(q) \in Nat
    BY <1>t, <2>1, <2>2 DEF Oracle!Lesser
  <2>4. OracleType'
    BY <1>t, <2>1, <2>2, <2>3 DEF OracleType
  <2>5. OracleInv'
    BY <2>1, <2>2, <2>3 DEF OracleInv, ReadingAt
  <2> QED
    BY <2>2, <2>4, <2>5, NothingRead
<1>2. ASSUME Oracle!NextShape
      PROVE  /\ RowsTypeOK' /\ CacheDrawable' /\ OracleType' /\ OracleInv'
             /\ Oracle!ReadsInsideBuffer' /\ faults' = faults /\ Contract!Next
  <2>1. PICK i \in DOMAIN result :
           /\ IsFirst(i, DrawableAfter(result, row_num))
           /\ AddResult(result[i], i - 1)
           /\ IF Oracle!BlockOf(i - 1) = first
              THEN first' = first /\ rows_fetched' = rows_fetched
              ELSE Oracle!Fetch(result, Oracle!BlockOf(i - 1))
           /\ rows_count' = Oracle!Greater(rows_count,
                                           Oracle!BlockOf(i - 1) + rows_fetched')
           /\ row' = i - Oracle!BlockOf(i - 1)
           /\ row_num' = i
           /\ mode = "reading" /\ result' = result
    BY <1>2 DEF Oracle!NextShape, Oracle!IsFirst, IsFirst, Oracle!DrawableAfter,
                DrawableAfter, Oracle!AddResult, AddResult
  <2>2. /\ result = rows /\ row_num = Contract!Delivered /\ FromQuery
        /\ answer = NoAnswer /\ first = row_num - row
        /\ rows_fetched = 0 => first = Len(result)
    BY <2>1 DEF OracleInv, ReadingAt
  <2>3. i \in 1 .. Len(result) /\ i > row_num /\ rows[i] \notin Undrawable
    BY <1>t, <2>1, <2>2 DEF IsFirst, DrawableAfter
  <2>4. i - 1 \in first .. Len(result) - 1 /\ rows_fetched > 0
    BY <1>t, <2>2, <2>3
  <2>5. PICK b : b = Oracle!BlockOf(i - 1)
    OBVIOUS
  <2>6. /\ b \in 0 .. i - 1 /\ i - 1 < b + ARRAY_SIZE
        /\ b = first => i - 1 < first + rows_fetched
    BY <1>t, <2>4, <2>5, BlockBounds
  <2>7. /\ first' = b /\ rows_fetched' \in 1 .. ARRAY_SIZE
        /\ b + rows_fetched' <= Len(result) /\ i - 1 < b + rows_fetched'
    <3>1. CASE b = first
      <4>1. first' = first /\ rows_fetched' = rows_fetched
        BY <2>1, <2>5, <3>1
      <4> QED
        BY <1>t, <2>4, <2>6, <3>1, <4>1
    <3>2. CASE b # first
      <4>1. first' = b /\ rows_fetched' = Oracle!Lesser(ARRAY_SIZE, Len(result) - b)
        BY <2>1, <2>5, <3>2 DEF Oracle!Fetch
      <4> QED
        BY <1>t, <2>3, <2>6, <4>1 DEF Oracle!Lesser
    <3> QED
      BY <3>1, <3>2
  <2>8. /\ rows_count' \in 0 .. Len(result) /\ rows_count' > i - 1
        /\ rows_count' >= rows_count /\ row' = i - b
    <3>1. PICK last, size : size = rows_fetched' /\ last = b + size
      OBVIOUS
    <3>2. rows_count' = Oracle!Greater(rows_count, last) /\ row' = i - b
      BY <2>1, <2>5, <3>1
    <3>3. last \in Nat /\ last <= Len(result) /\ i - 1 < last
      <4>1. /\ b \in 0 .. i - 1 /\ size \in 1 .. ARRAY_SIZE
            /\ b + size <= Len(result) /\ i - 1 < b + size
        BY <2>6, <2>7, <3>1
      <4>2. b \in Nat /\ size \in Nat
        BY <4>1
      <4>3. last = b + size
        BY <3>1
      <4>4. last \in Nat
        BY <4>2, <4>3
      <4>5. last <= Len(result)
        BY <4>1, <4>3
      <4>6. i - 1 < last
        BY <4>1, <4>3
      <4> QED
        BY <4>4, <4>5, <4>6
    <3>4. rows_count \in Nat /\ rows_count <= Len(result) /\ i \in Nat
      BY <1>t, <2>3
    <3> QED
      BY <1>t, <3>2, <3>3, <3>4 DEF Oracle!Greater
  <2>9. /\ RowsTypeOK' /\ CacheDrawable' /\ FromQuery'
        /\ mode' = mode /\ rows' = rows /\ answer' = answer /\ faults' = faults
        /\ Contract!Delivered' = i
        /\ Len(resultcache') = Len(resultcache) + 1
        /\ \A k \in 1 .. Len(resultcache) : resultcache'[k] = resultcache[k]
        /\ resultcache'[Len(resultcache) + 1].resultindex = i - 1
    BY <2>1, <2>2, <2>3, AddResultRows
  <2>10. Contract!Next
    BY <2>1, <2>2, ContractNextShape
  <2>11. OracleType'
    <3>1. result' = result /\ row_num' = i /\ b \in 0 .. Len(result)
      BY <1>t, <2>1, <2>3, <2>6
    <3>2. row' \in 0 .. ARRAY_SIZE
      BY <1>t, <2>3, <2>6, <2>8
    <3> QED
      BY <1>t, <2>3, <2>7, <2>8, <3>1, <3>2 DEF OracleType
  <2>12. ASSUME faults = {}, NEW k \in DOMAIN resultcache'
         PROVE  resultcache'[k].resultindex < rows_count'
    <3>1. /\ k \in 1 .. Len(resultcache) + 1 /\ Len(resultcache) \in Nat
          /\ DOMAIN resultcache = 1 .. Len(resultcache)
      BY <2>9, <2>12 DEF RowsTypeOK
    <3>2. CASE k \in 1 .. Len(resultcache)
      <4>1. /\ resultcache'[k] = resultcache[k]
            /\ resultcache[k].resultindex < rows_count
            /\ resultcache[k].resultindex \in Nat
        BY <2>2, <2>9, <2>12, <3>1, <3>2 DEF OracleInv, FromQuery
      <4> QED
        BY <1>t, <2>8, <4>1
    <3>3. CASE k = Len(resultcache) + 1
      BY <2>8, <2>9, <3>3
    <3> QED
      BY <3>1, <3>2, <3>3
  <2>13. OracleInv'
    <3>1. first' = b /\ row_num' = i /\ row' = i - b
      BY <2>1, <2>7, <2>8
    <3>2. b \in Nat /\ i \in Nat
      BY <1>t, <2>3, <2>6
    <3>3. first' = row_num' - row'
      BY <3>1, <3>2
    <3>4. rows_fetched' # 0
      BY <2>7
    <3> QED
      BY <2>1, <2>2, <2>7, <2>9, <2>12, <3>3, <3>4 DEF OracleInv, ReadingAt
  <2> QED
    BY <2>2, <2>9, <2>10, <2>11, <2>13, NothingRead
<1>3. ASSUME Oracle!NextDone
      PROVE  /\ RowsTypeOK' /\ CacheDrawable' /\ OracleType' /\ OracleInv'
             /\ Oracle!ReadsInsideBuffer' /\ faults' = faults /\ Contract!Next
  <2>1. /\ mode = "reading" /\ NoMoreShapes /\ result' = result
        /\ DrawableAfter(result, row_num) = {}
        /\ first' = Len(result) /\ rows_fetched' = 0 /\ rows_count' = Len(result)
        /\ row_num' = Len(result)
        /\ row' = IF result = <<>> THEN row
                  ELSE Len(result) - Oracle!BlockOf(Len(result) - 1)
    BY <1>3 DEF Oracle!NextDone, Oracle!DrawableAfter, DrawableAfter,
                Oracle!NoMoreShapes, NoMoreShapes
  <2>2. /\ result = rows /\ row_num = Contract!Delivered /\ FromQuery
        /\ answer = NoAnswer /\ (rows_fetched = 0 => first = Len(result))
    BY <2>1 DEF OracleInv, ReadingAt
  <2>3. /\ RowsTypeOK' /\ CacheDrawable' /\ FromQuery' /\ mode' = "retrieving"
        /\ rows' = rows /\ faults' = faults /\ Contract!Next
        /\ resultcache' = resultcache /\ answer' = answer
    BY <2>1, <2>2, NoMoreShapesRows
  <2>4. row' \in 0 .. ARRAY_SIZE
    <3>1. CASE result = <<>>
      BY <1>t, <2>1, <3>1
    <3>2. CASE result # <<>> /\ rows_fetched > 0
      <4>1. Len(result) - 1 \in first .. Len(result) - 1
        BY <1>t, <3>2
      <4>2. /\ Oracle!BlockOf(Len(result) - 1) \in 0 .. Len(result) - 1
            /\ Len(result) - 1 < Oracle!BlockOf(Len(result) - 1) + ARRAY_SIZE
        BY <1>t, <3>2, <4>1, BlockBounds
      <4> QED
        BY <1>t, <2>1, <3>2, <4>2
    <3>3. CASE result # <<>> /\ rows_fetched = 0
      <4>1. Oracle!BlockOf(Len(result) - 1) = Len(result)
        <5>1. first = Len(result) /\ rows_fetched = 0 /\ Len(result) \in Nat
          BY <1>t, <2>2, <3>3
        <5>2. Len(result) - 1 < first + rows_fetched
          BY <5>1
        <5>3. Oracle!BlockOf(Len(result) - 1) = first
          BY <5>2, Zenon DEF Oracle!BlockOf
        <5> QED
          BY <5>1, <5>3
      <4>2. row' = Len(result) - Len(result)
        BY <2>1, <3>3, <4>1
      <4> QED
        BY <1>t, <4>2
    <3> QED
      BY <1>t, <3>1, <3>2, <3>3
  <2>5. OracleType'
    BY <1>t, <2>1, <2>4 DEF OracleType
  <2>6. \A k \in DOMAIN resultcache' : resultcache'[k].resultindex < rows_count'
    <3>1. \A k \in DOMAIN resultcache :
             resultcache[k].resultindex \in 0 .. Len(result) - 1
      BY <2>2 DEF FromQuery
    <3>2. rows_count' = Len(result) /\ resultcache' = resultcache
      BY <2>1, <2>3
    <3> QED
      BY <1>t, <3>1, <3>2
  <2>7. OracleInv'
    <3>1. first' + rows_fetched' <= Len(result') /\ ~(rows_fetched' > 0)
      BY <1>t, <2>1
    <3>2. result' = rows' /\ mode' # "reading"
      BY <2>1, <2>2, <2>3
    <3> QED
      BY <2>3, <2>6, <3>1, <3>2 DEF OracleInv, ReadingAt
  <2> QED
    BY <2>2, <2>3, <2>5, <2>7, NothingRead
<1>4. ASSUME Oracle!NextFetchFails
      PROVE  /\ RowsTypeOK' /\ CacheDrawable' /\ OracleType' /\ OracleInv'
             /\ Oracle!ReadsInsideBuffer' /\ faults' = faults /\ faults # {}
  <2>1. /\ mode = "reading" /\ rows_fetched > 0 /\ NoMoreShapes /\ result' = result
        /\ faults # {}
    BY <1>4 DEF Oracle!NextFetchFails, Oracle!FetchMayFail, Oracle!NoMoreShapes,
                NoMoreShapes
  <2>2. PICK n \in row_num - 1 .. Len(result) - 1 :
           /\ IF Oracle!BlockOf(n) = first
              THEN first' = first /\ rows_fetched' = rows_fetched
              ELSE Oracle!Fetch(result, Oracle!BlockOf(n))
           /\ rows_count' = Oracle!Greater(rows_count,
                               Oracle!BlockOf(n) + Oracle!BlockSize(Oracle!BlockOf(n)))
           /\ row' = rows_fetched'
           /\ row_num' = Oracle!BlockOf(n) + Oracle!BlockSize(Oracle!BlockOf(n))
    BY <1>4 DEF Oracle!NextFetchFails
  <2>3. PICK b : b = Oracle!BlockOf(n)
    OBVIOUS
  <2>4. b \in 0 .. Len(result)
    <3>1. CASE n < first
      <4>1. b = first
        BY <1>t, <2>1, <2>3, <3>1 DEF Oracle!BlockOf
      <4> QED
        BY <1>t, <4>1
    <3>2. CASE ~(n < first)
      <4>1. n \in first .. Len(result) - 1
        BY <1>t, <3>2
      <4>2. Oracle!BlockOf(n) \in 0 .. n
        BY <1>t, <2>1, <4>1, BlockBounds
      <4> QED
        BY <1>t, <2>3, <4>2
    <3> QED
      BY <3>1, <3>2
  <2>5. /\ first' = b /\ rows_fetched' \in 0 .. ARRAY_SIZE
        /\ rows_fetched' = Oracle!BlockSize(b) /\ b + rows_fetched' <= Len(result)
    <3>1. CASE b = first
      BY <1>t, <2>2, <2>3, <3>1 DEF Oracle!BlockSize
    <3>2. CASE b # first
      BY <1>t, <2>2, <2>3, <2>4, <3>2 DEF Oracle!BlockSize, Oracle!Fetch, Oracle!Lesser
    <3> QED
      BY <3>1, <3>2
  <2>6. OracleType'
    <3>1. PICK e : e = b + rows_fetched'
      OBVIOUS
    <3>2. /\ rows_count' = Oracle!Greater(rows_count, e) /\ row_num' = e
          /\ row' = rows_fetched' /\ result' = result
      BY <2>1, <2>2, <2>3, <2>5, <3>1
    <3>3. e \in 0 .. Len(result)
      BY <1>t, <2>4, <2>5, <3>1
    <3>4. rows_count' \in 0 .. Len(result)
      BY <1>t, <3>2, <3>3 DEF Oracle!Greater
    <3> QED
      BY <1>t, <2>4, <2>5, <3>2, <3>3, <3>4 DEF OracleType
  <2>7. /\ RowsTypeOK' /\ CacheDrawable' /\ mode' = "retrieving"
        /\ faults' = faults /\ answer' = answer
    BY <2>1, NoMoreShapesRows
  <2>8. OracleInv'
    BY <2>1, <2>5, <2>7 DEF OracleInv, ReadingAt
  <2>9. answer = NoAnswer
    BY <2>1 DEF OracleInv, ReadingAt
  <2> QED
    BY <2>1, <2>6, <2>7, <2>8, <2>9, NothingRead

<1>5. ASSUME NEW k \in DOMAIN resultcache, Oracle!GetShape(resultcache[k])
      PROVE  /\ RowsTypeOK' /\ CacheDrawable' /\ OracleType' /\ OracleInv'
             /\ Oracle!ReadsInsideBuffer' /\ faults' = faults /\ (faults = {} => Contract!Next)
  <2> DEFINE r == resultcache[k]
             x == r.resultindex
  <2>1. /\ r.shapeindex \in Features \ Undrawable /\ x \in Nat \cup {-1}
        /\ FromQuery => x \in 0 .. Len(rows) - 1 /\ rows[x + 1] = r.shapeindex
        /\ ById => x = -1
        /\ faults = {} => x < rows_count
        /\ faults = {} => (FromQuery /\ result = rows) \/ ById
    BY CachedResult DEF FromQuery, ById, OracleInv
  <2> HIDE DEF r, x
  <2>2. CASE Oracle!GetOutOfRange(r)
    <3>1. /\ x >= rows_count /\ Answer(r, "missing", NoShape)
          /\ UNCHANGED <<result, first, rows_fetched, rows_count, row_num, row>>
      BY <2>2 DEF Oracle!GetOutOfRange, Oracle!Answer, Answer, x
    <3>2. /\ RowsTypeOK' /\ CacheDrawable' /\ mode' = "retrieving"
          /\ faults' = faults /\ rows' = rows /\ answer'.index = NoShape
      BY <3>1, AnswerRows DEF r
    <3>3. faults # {}
      BY <1>t, <2>1, <3>1
    <3>4. OracleType'
      BY <3>1 DEF OracleType
    <3>5. OracleInv'
      BY <3>1, <3>2, <3>3 DEF OracleInv, ReadingAt
    <3> QED
      BY <3>2, <3>3, <3>4, <3>5, NothingRead
  <2>3. CASE Oracle!GetBuffered(r)
    <3>1. /\ x >= 0 /\ x < rows_count
          /\ x >= row_num - row /\ x <= row_num - row + rows_fetched - 1
          /\ row' = row + (x - row_num) /\ row_num' = x
          /\ AnswerWith(r, Oracle!BufferRow(row'))
          /\ UNCHANGED <<result, first, rows_fetched, rows_count>>
      BY <2>3 DEF Oracle!GetBuffered, Oracle!InBuffer, Oracle!AnswerWith, AnswerWith,
                  Oracle!Answer, Answer, x
    <3>2. PICK found : found = Oracle!BufferRow(row')
      OBVIOUS
    <3>3. x \in Nat /\ row' \in 0 .. rows_fetched - 1
      <4>1. /\ x >= row_num - row /\ x <= row_num - row + rows_fetched - 1
            /\ row' = row + (x - row_num)
        BY <3>1
      <4>2. x \in Nat /\ row_num \in Nat /\ row \in Nat /\ rows_fetched \in Nat
        BY <1>t, <2>1, <3>1
      <4>3. row' \in Int /\ row' >= 0 /\ row' <= rows_fetched - 1
        BY <4>1, <4>2
      <4> QED
        BY <4>2, <4>3
    <3>4. found \in Features \cup {NoShape}
      <4>1. PICK j : j = first + row' + 1
        OBVIOUS
      <4>2. found = IF j \in DOMAIN result THEN result[j] ELSE NoShape
        BY <3>2, <4>1 DEF Oracle!BufferRow
      <4> QED
        BY <1>t, <4>2
    <3>5. faults = {} => first = row_num - row /\ FromQuery /\ result = rows
      <4>1. rows_fetched > 0 /\ x # -1
        BY <1>t, <3>3
      <4> QED
        BY <2>1, <4>1 DEF OracleInv
    <3>6. ASSUME faults = {} PROVE found = r.shapeindex
      <4>0. row' = row + (x - row_num) /\ first = row_num - row /\ x < rows_count
        BY <3>1, <3>5, <3>6
      <4>1. first + row' + 1 = x + 1 /\ x + 1 \in DOMAIN result
        BY <1>t, <3>3, <4>0
      <4> QED
        BY <2>1, <3>2, <3>5, <3>6, <4>1 DEF Oracle!BufferRow
    <3>7. /\ RowsTypeOK' /\ CacheDrawable' /\ mode' = "retrieving"
          /\ faults' = faults /\ rows' = rows /\ resultcache' = resultcache
          /\ (FromQuery <=> FromQuery')
          /\ found = r.shapeindex => Contract!Next
      BY <3>1, <3>2, <3>4, AnswerWithRows DEF r
    <3>8. OracleType'
      BY <1>t, <3>1, <3>3 DEF OracleType
    <3>9. faults = {} => first' = row_num' - row'
      BY <1>t, <3>1, <3>3, <3>5
    <3>10. OracleInv'
      BY <3>1, <3>5, <3>7, <3>9 DEF OracleInv, ReadingAt
    <3>11. Oracle!ReadsInsideBuffer'
      BY <1>t, <3>1, <3>3 DEF Oracle!ReadsInsideBuffer
    <3> QED
      BY <3>6, <3>7, <3>8, <3>10, <3>11
  <2>4. CASE Oracle!GetFetched(r)
    <3>1. /\ x >= 0 /\ x < rows_count
          /\ first' = x /\ rows_fetched' = Oracle!Lesser(ARRAY_SIZE, Len(result) - x)
          /\ row_num' = x /\ row' = 0
          /\ AnswerWith(r, result[x + 1])
          /\ UNCHANGED <<result, rows_count>>
      BY <2>4 DEF Oracle!GetFetched, Oracle!Fetch, Oracle!AnswerWith, AnswerWith,
                  Oracle!Answer, Answer, x
    <3>2. /\ x \in 0 .. Len(result) - 1 /\ result[x + 1] \in Features
          /\ rows_fetched' \in 1 .. ARRAY_SIZE /\ x + rows_fetched' <= Len(result)
      <4>1. x \in 0 .. Len(result) - 1
        BY <1>t, <2>1, <3>1
      <4>2. PICK d : d = Len(result) - x
        OBVIOUS
      <4>3. rows_fetched' = Oracle!Lesser(ARRAY_SIZE, d) /\ d \in Nat /\ d > 0
        BY <1>t, <3>1, <4>1, <4>2
      <4>4. rows_fetched' \in 1 .. ARRAY_SIZE /\ rows_fetched' <= d
        BY <1>t, <4>3 DEF Oracle!Lesser
      <4> QED
        BY <1>t, <4>1, <4>2, <4>4
    <3>3. faults = {} => FromQuery /\ result = rows /\ result[x + 1] = r.shapeindex
      BY <2>1, <3>2
    <3>4. /\ RowsTypeOK' /\ CacheDrawable' /\ mode' = "retrieving"
          /\ faults' = faults /\ rows' = rows /\ resultcache' = resultcache
          /\ (FromQuery <=> FromQuery')
          /\ result[x + 1] = r.shapeindex => Contract!Next
      BY <3>1, <3>2, AnswerWithRows DEF r
    <3>5. OracleType'
      BY <1>t, <3>1, <3>2 DEF OracleType
    <3>6. OracleInv'
      <4>1. first' = row_num' - row' /\ first' + rows_fetched' <= Len(result')
        BY <1>t, <3>1, <3>2
      <4>2. faults = {} => \A j \in DOMAIN resultcache :
                              resultcache[j].resultindex < rows_count
        BY DEF OracleInv
      <4> QED
        BY <3>1, <3>3, <3>4, <4>1, <4>2 DEF OracleInv, ReadingAt
    <3>7. Oracle!ReadsInsideBuffer'
      BY <3>1, <3>2 DEF Oracle!ReadsInsideBuffer
    <3> QED
      BY <3>3, <3>4, <3>5, <3>6, <3>7
  <2>5. CASE Oracle!GetFetchFails(r)
    <3>1. /\ faults # {} /\ x >= 0 /\ x < rows_count /\ row_num' = x /\ row' = 0
          /\ Answer(r, "error", NoShape)
          /\ UNCHANGED <<result, first, rows_fetched, rows_count>>
      BY <2>5 DEF Oracle!GetFetchFails, Oracle!FetchMayFail, Oracle!Answer, Answer, x
    <3>2. /\ RowsTypeOK' /\ CacheDrawable' /\ mode' = "retrieving"
          /\ faults' = faults /\ answer'.index = NoShape
      BY <3>1, AnswerRows DEF r
    <3>3. OracleType'
      BY <1>t, <2>1, <3>1 DEF OracleType
    <3>4. OracleInv'
      BY <3>1, <3>2 DEF OracleInv, ReadingAt
    <3> QED
      BY <3>1, <3>2, <3>3, <3>4, NothingRead
  <2>6. CASE Oracle!GetShapeById(r)
    <3>1. /\ x = -1 /\ AnswerWith(r, r.shapeindex)
          /\ UNCHANGED <<result, first, rows_fetched, rows_count, row_num, row>>
      BY <2>6 DEF Oracle!GetShapeById, Oracle!AnswerWith, AnswerWith, Oracle!Answer,
                  Answer, x
    <3>2. /\ RowsTypeOK' /\ CacheDrawable' /\ mode' = "retrieving"
          /\ faults' = faults /\ rows' = rows /\ resultcache' = resultcache
          /\ (FromQuery <=> FromQuery') /\ (ById <=> ById')
          /\ Contract!Next /\ answer'.asked = r
      BY <2>1, <3>1, AnswerWithRows DEF r
    <3>3. OracleType'
      BY <3>1 DEF OracleType
    <3>4. OracleInv'
      BY <3>1, <3>2 DEF OracleInv, ReadingAt
    <3>5. Oracle!ReadsInsideBuffer'
      BY <3>1, <3>2 DEF Oracle!ReadsInsideBuffer, x
    <3> QED
      BY <3>2, <3>3, <3>4, <3>5
  <2> QED
    BY <1>5, <2>2, <2>3, <2>4, <2>5, <2>6 DEF r, Oracle!GetShape
<1>6. ASSUME NEW f \in Features, Oracle!QueryByIndex(f)
      PROVE  /\ RowsTypeOK' /\ CacheDrawable' /\ OracleType' /\ OracleInv'
             /\ Oracle!ReadsInsideBuffer' /\ faults' = faults /\ Contract!Next
  <2>1. /\ QueryByIndexResult(f) /\ result' = <<>> /\ first' = 0 /\ rows_fetched' = 0
        /\ rows_count' = 0 /\ row_num' = 0 /\ row' = 0
    BY <1>6 DEF Oracle!QueryByIndex, Oracle!QueryByIndexResult, QueryByIndexResult,
                Oracle!Adds, Adds, Oracle!NoAnswer, NoAnswer
  <2>2. /\ RowsTypeOK' /\ CacheDrawable' /\ mode' = "retrieving" /\ answer' = NoAnswer
        /\ faults' = faults /\ (faults = {} => ById') /\ Contract!Next
    BY <2>1, QueryByIndexRows
  <2>3. OracleType'
    BY <1>t, <2>1 DEF OracleType
  <2>4. faults = {} => \A k \in DOMAIN resultcache' : resultcache'[k].resultindex < rows_count'
    BY <2>1, <2>2 DEF ById
  <2>5. OracleInv'
    BY <2>1, <2>2, <2>4 DEF OracleInv, ReadingAt
  <2> QED
    BY <2>2, <2>3, <2>5, NothingRead
<1> QED
  BY <1>1, <1>2, <1>3, <1>4, <1>5, <1>6, Zenon DEF Oracle!Next, Oracle!Range

-----------------------------------------------------------------------------
(* The composition: the driver of the layer makes the step, the others keep *)
(* what they have.                                                         *)

\* The types of the instances are those of the parts of TypeInv.
LEMMA TypeParts ==
    ASSUME TypeInv PROVE TypeOK
BY DEF TypeInv, TypeOK, RowsTypeOK, resultObj, NoAnswer,
       PostGISType, PostGIS!TypeOK, PostGIS!RowsTypeOK, PostGIS!resultObj, PostGIS!NoAnswer,
       OgrType, Ogr!TypeOK, Ogr!RowsTypeOK, Ogr!resultObj, Ogr!NoAnswer,
       MssqlType, Mssql!TypeOK, Mssql!RowsTypeOK, Mssql!resultObj, Mssql!NoAnswer,
       OracleType, Oracle!TypeOK, Oracle!RowsTypeOK, Oracle!resultObj, Oracle!NoAnswer

\* msInitializeVirtualTable: nothing is read yet.
LEMMA CursorInit ==
    ASSUME Init PROVE CursorInv
<1>1. /\ driver \in Drivers /\ mode = "new" /\ rows = <<>> /\ resultcache = <<>>
      /\ answer = NoAnswer /\ faults \subseteq FaultKinds
  BY DEF Init, PostGIS!Init, PostGIS!RowsInit, PostGIS!NoAnswer, NoAnswer
<1>2. /\ pgresult = <<>> /\ rownum = 0
      /\ hLayer = <<>> /\ position = 0 /\ last_record_index_read = -1
      /\ hLastFeature = NoShape /\ shape = Ogr!NoResult
      /\ hstmt = Mssql!ClosedCursor /\ row_num = 0 /\ sql = FALSE
      /\ result = <<>> /\ first = 0 /\ rows_fetched = 0 /\ rows_count = 0 /\ row = 0
  BY DEF Init, PostGIS!Init, Ogr!Init, Mssql!Init, Oracle!Init
<1>3. RowsTypeOK /\ CacheDrawable /\ FromQuery
  BY <1>1 DEF RowsTypeOK, CacheDrawable, FromQuery
<1>4. PostGISType /\ OgrType /\ StyleInv
  BY <1>2 DEF PostGISType, OgrType, StyleInv, Ogr!NoResult
<1>5. MssqlType
  <2>1. /\ Mssql!ClosedCursor \in Statements
        /\ Mssql!ClosedCursor.fetched <= Len(Mssql!ClosedCursor.rows)
    BY DEF Mssql!ClosedCursor, Statements
  <2> QED
    BY <1>2, <2>1 DEF MssqlType, Statements
<1>6. OracleType
  BY <1>2, LayerCursorAssumption DEF OracleType
<1>7. PostGISInv
  BY <1>1, <1>2, <1>3 DEF PostGISInv, ReadingAt
<1>8. OgrInv
  BY <1>1, <1>2, <1>3 DEF OgrInv, ReadingAt
<1>9. MssqlInv
  BY <1>1, <1>2 DEF MssqlInv, ReadingAt
<1>10. OracleInv
  <2>1. first + rows_fetched <= Len(result) /\ ~(rows_fetched > 0) /\ mode # "reading"
    BY <1>1, <1>2
  <2>2. resultcache = <<>> /\ result = rows
    BY <1>1, <1>2
  <2> QED
    BY <1>3, <2>1, <2>2 DEF OracleInv, ReadingAt
<1>11. Oracle!ReadsInsideBuffer
  BY <1>1 DEF Oracle!ReadsInsideBuffer, NoAnswer
<1> QED
  BY <1>1, <1>2, <1>3, <1>4, <1>5, <1>6, <1>7, <1>8, <1>9, <1>10, <1>11
     DEF CursorInv, TypeInv

\* The steps of a driver keep the invariant and, under the conditions that the
\* driver tolerates, the promise of ResultSet.
LEMMA CursorStep ==
    ASSUME CursorInv, Next
    PROVE  /\ CursorInv'
           /\ faults \subseteq Tolerates(driver) => Contract!Next
<1>1. /\ driver \in Drivers /\ driver' = driver /\ RowsTypeOK /\ CacheDrawable
      /\ StyleInv /\ PostGISType /\ OgrType
  BY DEF CursorInv, TypeInv, Next
<1>2. CASE driver = "postgis"
  <2>1. /\ PostGIS!Next /\ PostGISInv /\ ~sql
        /\ UNCHANGED <<hLayer, position, last_record_index_read, hLastFeature, shape, sql>>
    BY <1>2 DEF Next, CursorInv, ogrVars, mssqlVars
  <2>2. /\ RowsTypeOK' /\ CacheDrawable' /\ PostGISType' /\ PostGISInv'
        /\ faults = {} => Contract!Next
    BY <1>1, <2>1, PostGISStep
  <2>3. OgrType' /\ StyleInv' /\ ~sql'
    BY <1>1, <2>1 DEF OgrType, StyleInv
  <2>4. CursorInv'
    BY <1>1, <1>2, <2>2, <2>3 DEF CursorInv, TypeInv
  <2> QED
    BY <1>2, <2>2, <2>4 DEF Tolerates
<1>3. CASE driver = "ogr"
  <2>1. /\ Ogr!Next /\ OgrInv /\ ~sql /\ UNCHANGED <<pgresult, rownum, sql>>
    BY <1>3 DEF Next, CursorInv, postgisVars, mssqlVars
  <2>2. /\ RowsTypeOK' /\ CacheDrawable' /\ OgrType' /\ OgrInv' /\ StyleInv'
        /\ faults = {} => Contract!Next
    BY <1>1, <2>1, OgrStep
  <2>3. PostGISType' /\ ~sql'
    BY <1>1, <2>1 DEF PostGISType
  <2>4. CursorInv'
    BY <1>1, <1>3, <2>2, <2>3 DEF CursorInv, TypeInv
  <2> QED
    BY <1>3, <2>2, <2>4 DEF Tolerates
<1>4. CASE driver = "mssql"
  <2>1. /\ Mssql!Next /\ MssqlType /\ MssqlInv
        /\ UNCHANGED <<pgresult, rownum, hLayer, position, last_record_index_read,
                       hLastFeature, shape>>
    BY <1>4 DEF Next, CursorInv, TypeInv, postgisVars, ogrVars
  <2>2. /\ RowsTypeOK' /\ CacheDrawable' /\ MssqlType' /\ MssqlInv'
        /\ faults \subseteq {"add"} => Contract!Next
    BY <1>1, <2>1, MssqlStep
  <2>3. PostGISType' /\ OgrType' /\ StyleInv'
    BY <1>1, <2>1 DEF PostGISType, OgrType, StyleInv
  <2>4. CursorInv'
    BY <1>1, <1>4, <2>2, <2>3 DEF CursorInv, TypeInv
  <2> QED
    BY <1>4, <2>2, <2>4 DEF Tolerates
<1>5. CASE driver = "oracle"
  <2>1. /\ Oracle!Next /\ OracleType /\ OracleInv /\ Oracle!ReadsInsideBuffer /\ ~sql
        /\ UNCHANGED <<pgresult, rownum, hLayer, position, last_record_index_read,
                       hLastFeature, shape, sql>>
    BY <1>5 DEF Next, CursorInv, TypeInv, postgisVars, ogrVars, mssqlVars
  <2>2. /\ RowsTypeOK' /\ CacheDrawable' /\ OracleType' /\ OracleInv'
        /\ Oracle!ReadsInsideBuffer'
        /\ faults = {} => Contract!Next
    BY <1>1, <2>1, OracleStep
  <2>3. PostGISType' /\ OgrType' /\ StyleInv' /\ ~sql'
    BY <1>1, <2>1 DEF PostGISType, OgrType, StyleInv
  <2>4. CursorInv'
    BY <1>1, <1>5, <2>2, <2>3 DEF CursorInv, TypeInv
  <2> QED
    BY <1>5, <2>2, <2>4 DEF Tolerates
<1> QED
  BY <1>2, <1>3, <1>4, <1>5 DEF Next

\* A step that changes nothing keeps the invariant.
LEMMA CursorStutter ==
    ASSUME CursorInv, UNCHANGED vars PROVE CursorInv'
<1>1. /\ UNCHANGED <<faults, mode, rows, resultcache, answer, driver>>
      /\ UNCHANGED <<pgresult, rownum>>
      /\ UNCHANGED <<hLayer, position, last_record_index_read, hLastFeature, shape>>
      /\ UNCHANGED <<hstmt, sql, row_num>>
      /\ UNCHANGED <<result, first, rows_fetched, rows_count, row>>
  BY DEF vars, rowVars, postgisVars, ogrVars, mssqlVars, oracleVars
<1>2. /\ RowsTypeOK' = RowsTypeOK /\ PostGISType' = PostGISType /\ OgrType' = OgrType
      /\ MssqlType' = MssqlType /\ OracleType' = OracleType
  BY <1>1 DEF RowsTypeOK, PostGISType, OgrType, MssqlType, OracleType
<1>3. /\ CacheDrawable' = CacheDrawable /\ StyleInv' = StyleInv /\ FromQuery' = FromQuery
      /\ ById' = ById /\ HasNulls' = HasNulls
      /\ Contract!Delivered' = Contract!Delivered
      /\ Oracle!ReadsInsideBuffer' = Oracle!ReadsInsideBuffer
  BY <1>1 DEF CacheDrawable, StyleInv, FromQuery, ById, HasNulls, Contract!Delivered,
              Oracle!ReadsInsideBuffer
<1>4. PostGISInv' = PostGISInv /\ OgrInv' = OgrInv
  BY <1>1, <1>3 DEF PostGISInv, OgrInv, ReadingAt
<1>5. MssqlInv' = MssqlInv
  BY <1>1, <1>3 DEF MssqlInv, ReadingAt
<1>6. OracleInv' = OracleInv
  BY <1>1, <1>3 DEF OracleInv, ReadingAt
<1> QED
  BY <1>1, <1>2, <1>3, <1>4, <1>5, <1>6 DEF CursorInv, TypeInv

\* The invariant holds throughout.
THEOREM CursorInvariant == Spec => []CursorInv
<1>1. CursorInv /\ [Next]_vars => CursorInv'
  BY CursorStep, CursorStutter
<1> QED
  BY CursorInit, <1>1, PTL DEF Spec

\* msOGRLayerGetAutoStyle: the last feature is the one of the shape whose
\* index it compares, for any features and queries.
THEOREM StyleIsOfShape == Spec => []StyleOfShape
<1>1. CursorInv => StyleOfShape
  BY DEF CursorInv, StyleInv, StyleOfShape, Ogr!StyleOfShape
<1> QED
  BY CursorInvariant, <1>1, PTL

\* msOracleSpatialLayerGetShape reads obj[row] and ind[row] inside of the last
\* fetch, for any size of the buffer and whatever fetches fail; the variables
\* of every driver are of their types.
THEOREM OracleReadsInside == Spec => []ReadsInsideBuffer
<1>1. CursorInv => ReadsInsideBuffer
  BY TypeParts DEF CursorInv, ReadsInsideBuffer
<1> QED
  BY CursorInvariant, <1>1, PTL

\* Every driver implements ResultSet under the conditions it tolerates: rows
\* are delivered in order, once, under their positions, and what is retrieved
\* is what was cached (msLayerNextShape, msLayerGetShape).
THEOREM DriversKeepContract == Spec => ContractSpec
<1>1. Init => Contract!Init
  BY DEF Init, PostGIS!Init, PostGIS!RowsInit, PostGIS!NoAnswer,
         Contract!Init, Contract!RowsInit, Contract!NoAnswer
<1>2. CursorInv /\ [Next]_vars
         => [faults \subseteq Tolerates(driver) => Contract!Next]_rowVars
  BY CursorStep DEF vars
<1> QED
  BY CursorInvariant, <1>1, <1>2, PTL DEF Spec, ContractSpec

\* mapmssql2008.c:2603: a result that has been passed is read from the query
\* issued again, whatever other layers have done to the statement.
THEOREM ReissueReadsRight == Spec => ReissueIsRight
<1> DEFINE Right ==
        \A r \in Mssql!Range(resultcache) :
           /\ answer' # answer
           /\ answer'.asked = r
           /\ sql
           /\ ~Mssql!HasNulls
           /\ r.resultindex \in 0 .. row_num - 1
           => \/ answer'.status = "error"
              \/ answer'.status = "success" /\ answer'.index = r.shapeindex
<1>1. ASSUME CursorInv, Next PROVE Right
  <2>1. CASE sql
    <3>1. driver = "mssql" /\ Mssql!Next
      BY <1>1, <2>1 DEF CursorInv, Next
    <3>2. RowsTypeOK /\ CacheDrawable /\ MssqlType /\ MssqlInv
      BY <1>1, <3>1 DEF CursorInv, TypeInv
    <3> QED
      BY <2>1, <3>1, <3>2, MssqlReissue DEF Range, Mssql!Range, HasNulls, Mssql!HasNulls
  <2>2. CASE ~sql
    BY <2>2
  <2> QED
    BY <2>1, <2>2
<1>2. CursorInv /\ [Next]_vars => [Right]_Mssql!vars
  BY <1>1 DEF vars, rowVars, mssqlVars, Mssql!vars
<1> QED
  BY CursorInvariant, <1>2, PTL DEF Spec, ReissueIsRight, Mssql!ReissueIsRight
=============================================================================
