----------------------------- MODULE MssqlCursor -----------------------------
(***************************************************************************)
(* Reading and retrieving rows with the MSSQL driver (mapmssql2008.c).     *)
(* The statement handle belongs to the pooled connection, is read forward  *)
(* only, and is used by every layer that shares the connection.            *)
(***************************************************************************)
EXTENDS ResultRows

VARIABLES
    hstmt,              \* conn->hstmt: its rows and how many were fetched
    row_num,            \* layerinfo->row_num
    sql                 \* layerinfo->sql is set

vars == <<faults, mode, rows, resultcache, answer, hstmt, row_num, sql>>

Executed(s) == [rows |-> s, fetched |-> 0, open |-> TRUE]
ClosedCursor == [rows |-> <<>>, fetched |-> 0, open |-> FALSE]
SingleRow(f) == [rows |-> <<f>>, fetched |-> 1, open |-> TRUE]

TypeOK ==
    /\ RowsTypeOK
    /\ hstmt \in [rows : Seq(Features), fetched : Nat, open : BOOLEAN]
    /\ hstmt.fetched <= Len(hstmt.rows)
    /\ row_num \in Nat
    /\ sql \in BOOLEAN

Init ==
    /\ RowsInit
    /\ hstmt = ClosedCursor
    /\ row_num = 0
    /\ sql = FALSE

\* msMSSQL2008LayerWhichShapes
WhichShapes(q) ==
    /\ HasNulls \/ Range(q) \cap Undrawable = {}
    /\ NewQuery(q)
    /\ hstmt' = Executed(q)
    /\ row_num' = 0
    /\ sql' = TRUE

\* msMSSQL2008LayerGetShapeRandom fetches on to a row that can be drawn.  It
\* counts the rows it fetches, from row number n, in row_num.
Fetched(s, i, n) ==
    /\ hstmt' = [s EXCEPT !.fetched = i]
    /\ row_num' = n + (i - s.fetched)

NextShape ==
    /\ mode = "reading"
    /\ \E i \in DOMAIN hstmt.rows :
          /\ IsFirst(i, DrawableAfter(hstmt.rows, hstmt.fetched))
          /\ Fetched(hstmt, i, row_num)
          /\ AddResult(hstmt.rows[i], row_num' - 1)
    /\ UNCHANGED sql

NextDone ==
    /\ mode = "reading"
    /\ DrawableAfter(hstmt.rows, hstmt.fetched) = {}
    /\ NoMoreShapes
    /\ Fetched(hstmt, Len(hstmt.rows), row_num)
    /\ UNCHANGED sql

\* Slip: a result that has just been passed is looked for further on.
ReissuedLate(r) == r.resultindex + 1 < row_num

\* The result has been passed: the query is issued again.
Reissued(r) == r.resultindex < row_num

\* msMSSQL2008LayerGetShape moves forward, from fetch to fetch, until row_num
\* is not below the index, and then fetches the shape.  To run out of rows on
\* the way is a failure, to find none there is MS_DONE.
GetShape(r) ==
    LET again == Reissued(r)
        s == IF again THEN Executed(rows) ELSE hstmt
        n == IF again THEN 0 ELSE row_num
        \* the number of fetched rows that puts row_num at the index
        target == s.fetched + (r.resultindex - n)
        reached == IF s.fetched >= target THEN {s.fetched}
                   ELSE {i \in DrawableAfter(s.rows, s.fetched) : i >= target}
        end == Len(s.rows)
    IN  /\ r.resultindex >= 0
        /\ sql
        /\ \/ \E p \in 0 .. end, i \in 1 .. end :
                 /\ IsFirst(p, reached)
                 /\ IsFirst(i, DrawableAfter(s.rows, p))
                 /\ Fetched(s, i, n)
                 /\ Answer(r, "success", s.rows[i])
           \/ /\ \A p \in reached : DrawableAfter(s.rows, p) = {}
              /\ Fetched(s, end, n)
              /\ Answer(r, IF reached = {} THEN "error" ELSE "missing", NoShape)
        /\ UNCHANGED sql

\* The query cannot be issued again; the cursor has been closed.
ReissueFails(r) ==
    /\ ReissueMayFail
    /\ r.resultindex >= 0
    /\ sql
    /\ Reissued(r)
    /\ hstmt' = ClosedCursor
    /\ Answer(r, "error", NoShape)
    /\ UNCHANGED <<row_num, sql>>

\* Without a query of its own, or without an index, by identifier.
GetShapeById(r) ==
    /\ r.resultindex = -1 \/ ~sql
    /\ AnswerWith(r, r.shapeindex)
    /\ hstmt' = SingleRow(r.shapeindex)
    /\ row_num' = 1
    /\ UNCHANGED sql

\* msQueryByIndex closes and opens the layer and fetches by identifier.
QueryByIndex(f) ==
    /\ QueryByIndexResult(f)
    /\ hstmt' = SingleRow(f)
    /\ row_num' = 1
    /\ sql' = FALSE

\* Another layer executes its query on the statement.  The query code reads the
\* rows of a layer to the end before it turns to the next layer, but retrieves
\* the results of one while it queries another (msQueryByFeatures).
OtherLayer(q) ==
    /\ Shares
    /\ mode = "retrieving"
    /\ hstmt' = Executed(q)
    /\ UNCHANGED <<rowVars, row_num, sql>>

Next ==
    \/ \E q \in Queries : WhichShapes(q) \/ OtherLayer(q)
    \/ NextShape
    \/ NextDone
    \/ \E r \in Range(resultcache) :
          GetShape(r) \/ ReissueFails(r) \/ GetShapeById(r)
    \/ \E f \in Features : QueryByIndex(f)

Spec == Init /\ [][Next]_vars

\* A result that has been passed is read from the query issued again
\* (mapmssql2008.c:2603), so that it is the right one even if another layer has
\* used the statement, as long as all rows can be drawn.
ReissueIsRight ==
    [][\A r \in Range(resultcache) :
          /\ answer' # answer
          /\ answer'.asked = r
          /\ sql
          /\ ~HasNulls
          /\ r.resultindex \in 0 .. row_num - 1
          => \/ answer'.status = "error"
             \/ answer'.status = "success" /\ answer'.index = r.shapeindex]_vars
=============================================================================
