---------------------------- MODULE OracleCursor ----------------------------
(***************************************************************************)
(* Reading and retrieving rows with the Oracle driver (maporaclespatial.c) *)
(* A scrollable cursor fills a buffer of ARRAY_SIZE rows; row is an index  *)
(* into the buffer and row_num the number of that row in the result.       *)
(***************************************************************************)
EXTENDS ResultRows

CONSTANT ARRAY_SIZE     \* rows in the buffer, 1024 in the code

VARIABLES
    result,             \* the rows of the statement orastmt2
    first,              \* number of the first row that is in the buffer
    rows_fetched,       \* rows of the last fetch
    rows_count,         \* rows fetched so far, OCI_ATTR_ROW_COUNT
    row_num, row        \* the row to be read next

vars == <<faults, mode, rows, resultcache, answer,
          result, first, rows_fetched, rows_count, row_num, row>>

TypeOK ==
    /\ RowsTypeOK
    /\ result \in Seq(Features)
    /\ first \in 0 .. Len(result)
    /\ rows_fetched \in 0 .. ARRAY_SIZE
    /\ rows_count \in 0 .. Len(result)
    /\ row_num \in 0 .. Len(result)
    /\ row \in 0 .. ARRAY_SIZE

Lesser(a, b) == IF a < b THEN a ELSE b
Greater(a, b) == IF a > b THEN a ELSE b

\* A fetch of up to ARRAY_SIZE rows of s from row number n.
Fetch(s, n) ==
    /\ first' = n
    /\ rows_fetched' = Lesser(ARRAY_SIZE, Len(s) - n)

Init ==
    /\ RowsInit
    /\ result = <<>>
    /\ first = 0
    /\ rows_fetched = 0
    /\ rows_count = 0
    /\ row_num = 0
    /\ row = 0

\* msOracleSpatialLayerWhichShapes executes and fetches the first rows.
WhichShapes(q) ==
    /\ NewQuery(q)
    /\ result' = q
    /\ Fetch(q, 0)
    /\ rows_count' = Lesser(ARRAY_SIZE, Len(q))
    /\ row_num' = 0
    /\ row' = 0

\* The number of the first row of the fetch, one of those that follow the
\* buffer, that brings in row number n.
BlockOf(n) ==
    LET next == first + rows_fetched IN
    IF n < next THEN first ELSE next + ARRAY_SIZE * ((n - next) \div ARRAY_SIZE)

\* msOracleSpatialLayerNextShape fetches on, as often as the buffer is used
\* up, to a row that can be drawn.
NextShape ==
    /\ mode = "reading"
    /\ \E i \in DOMAIN result :
          /\ IsFirst(i, DrawableAfter(result, row_num))
          /\ AddResult(result[i], i - 1)
          /\ LET block == BlockOf(i - 1) IN
                /\ IF block = first THEN UNCHANGED <<first, rows_fetched>>
                                    ELSE Fetch(result, block)
                /\ rows_count' = Greater(rows_count, block + rows_fetched')
                /\ row' = i - block
          /\ row_num' = i
    /\ UNCHANGED result

\* The last fetch returns no row.
NextDone ==
    /\ mode = "reading"
    /\ DrawableAfter(result, row_num) = {}
    /\ NoMoreShapes
    /\ first' = Len(result)
    /\ rows_fetched' = 0
    /\ rows_count' = Len(result)
    /\ row_num' = Len(result)
    /\ row' = IF result = <<>> THEN row ELSE Len(result) - BlockOf(Len(result) - 1)
    /\ UNCHANGED result

\* The rows that a fetch from row number n brings in, or has brought in.
BlockSize(n) == IF n = first THEN rows_fetched ELSE Lesser(ARRAY_SIZE, Len(result) - n)

\* A fetch fails when the buffer is used up: this too is reported as MS_DONE.
NextFetchFails ==
    /\ FetchMayFail
    /\ mode = "reading"
    /\ rows_fetched > 0
    /\ \E n \in row_num - 1 .. Len(result) - 1 :
          LET block == BlockOf(n)
              end == block + BlockSize(block)
          IN  /\ \A i \in DrawableAfter(result, row_num) : i > end
              /\ IF block = first THEN UNCHANGED <<first, rows_fetched>>
                                  ELSE Fetch(result, block)
              /\ rows_count' = Greater(rows_count, end)
              /\ row' = rows_fetched'
              /\ row_num' = end
    /\ NoMoreShapes
    /\ UNCHANGED result

\* Slip: the last row of the buffer is taken to be one further on.
InBufferTooFar(r) ==
    LET start == row_num - row IN
    r.resultindex >= start /\ r.resultindex <= start + rows_fetched

\* msOracleSpatialLayerGetShape: the row is in the buffer, as far as row_num
\* and row tell.
InBuffer(r) ==
    LET start == row_num - row IN
    r.resultindex >= start /\ r.resultindex <= start + rows_fetched - 1

\* What the buffer holds at index k.
BufferRow(k) == IF first + k + 1 \in DOMAIN result THEN result[first + k + 1]
                                                   ELSE NoShape

GetOutOfRange(r) ==
    /\ r.resultindex >= rows_count
    /\ Answer(r, "missing", NoShape)
    /\ UNCHANGED <<result, first, rows_fetched, rows_count, row_num, row>>

GetBuffered(r) ==
    /\ r.resultindex >= 0
    /\ r.resultindex < rows_count
    /\ InBuffer(r)
    /\ row' = row + (r.resultindex - row_num)
    /\ row_num' = r.resultindex
    /\ AnswerWith(r, BufferRow(row'))
    /\ UNCHANGED <<result, first, rows_fetched, rows_count>>

GetFetched(r) ==
    /\ r.resultindex >= 0
    /\ r.resultindex < rows_count
    /\ ~InBuffer(r)
    /\ Fetch(result, r.resultindex)
    /\ row_num' = r.resultindex
    /\ row' = 0
    /\ AnswerWith(r, result[r.resultindex + 1])
    /\ UNCHANGED <<result, rows_count>>

\* OCIStmtFetch2 fails: the row numbers are changed, the buffer is not.
GetFetchFails(r) ==
    /\ FetchMayFail
    /\ r.resultindex >= 0
    /\ r.resultindex < rows_count
    /\ ~InBuffer(r)
    /\ row_num' = r.resultindex
    /\ row' = 0
    /\ Answer(r, "error", NoShape)
    /\ UNCHANGED <<result, first, rows_fetched, rows_count>>

\* By identifier, with a statement of its own.
GetShapeById(r) ==
    /\ r.resultindex = -1
    /\ AnswerWith(r, r.shapeindex)
    /\ UNCHANGED <<result, first, rows_fetched, rows_count, row_num, row>>

\* msQueryByIndex closes and opens the layer and fetches by identifier.
QueryByIndex(f) ==
    /\ QueryByIndexResult(f)
    /\ result' = <<>>
    /\ first' = 0
    /\ rows_fetched' = 0
    /\ rows_count' = 0
    /\ row_num' = 0
    /\ row' = 0

GetShape(r) ==
    \/ GetOutOfRange(r) \/ GetBuffered(r) \/ GetFetched(r) \/ GetFetchFails(r)
    \/ GetShapeById(r)

Next ==
    \/ \E q \in Queries : WhichShapes(q)
    \/ NextShape
    \/ NextDone
    \/ NextFetchFails
    \/ \E r \in Range(resultcache) : GetShape(r)
    \/ \E f \in Features : QueryByIndex(f)

Spec == Init /\ [][Next]_vars

\* Whatever fetches fail, a retrieved shape is read from a row of the last
\* fetch and not from beyond it (obj[row], ind[row] and items[][row]).
ReadsInsideBuffer ==
    answer.status # "error" /\ answer.index # NoShape /\ answer.asked.resultindex >= 0
        => row < rows_fetched
=============================================================================
