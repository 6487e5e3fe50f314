----------------------------- MODULE ResultRows -----------------------------
(***************************************************************************)
(* What the drivers' cursors have in common: a query yields rows, reading  *)
(* them fills the layer's result cache (mapquery.cpp, addResult), and the  *)
(* cached results are later retrieved one by one with msLayerGetShape.     *)
(*                                                                         *)
(* A feature is its shapeindex.  A row whose geometry is NULL or does not  *)
(* suit the layer's type is skipped by every driver.                       *)
(***************************************************************************)
EXTENDS Integers, Sequences, SequencesExt

CONSTANTS
    Features,           \* identifiers of the features of a layer
    Undrawable,         \* those whose geometry cannot be drawn
    Queries,            \* the row sets that queries can yield
    NoShape,            \* no shape was returned
    FaultKinds,         \* the adverse conditions that are looked at
    MaxResults          \* bound on the results added by queryByIndex

ASSUME RowsAssumption ==
    /\ Undrawable \subseteq Features
    /\ Queries \subseteq Seq(Features)
    /\ NoShape \notin Features
    /\ FaultKinds \subseteq {"add", "share", "null", "fail", "reissue"}
    /\ MaxResults \in Nat

VARIABLES
    faults,             \* the adverse conditions of this execution, see Adds ff.
    mode,               \* no query yet, reading its rows, given up while reading,
                        \* or retrieving results
    rows,               \* the rows of the query
    resultcache,        \* layer->resultcache
    answer              \* what the last retrieval asked for and got

rowVars == <<faults, mode, rows, resultcache, answer>>

\* queryByIndex is called with bAddToQuery.
Adds == "add" \in faults
\* Another open layer uses the same connection.
Shares == "share" \in faults
\* MSSQL queries yield rows that cannot be drawn.
HasNulls == "null" \in faults
\* The server may fail to fetch rows.
FetchMayFail == "fail" \in faults
\* The server may fail to run a query again.
ReissueMayFail == "reissue" \in faults

\* resultindex -1 stands for: fetch the shape by its identifier.
resultObj == [shapeindex : Features, resultindex : Nat \cup {-1}]

NoAnswer == [asked |-> <<>>, status |-> "none", index |-> NoShape]

RowsTypeOK ==
    /\ faults \subseteq FaultKinds
    /\ mode \in {"new", "reading", "failed", "retrieving"}
    /\ rows \in Seq(Features)
    /\ resultcache \in Seq(resultObj)
    /\ \/ answer = NoAnswer
       \/ answer \in [asked : resultObj, status : {"success", "missing", "error"},
                      index : Features \cup {NoShape}]

RowsInit ==
    /\ faults \in SUBSET FaultKinds
    /\ mode = "new"
    /\ rows = <<>>
    /\ resultcache = <<>>
    /\ answer = NoAnswer

\* The positions, after the first p, of the rows of s that can be drawn.
DrawableAfter(s, p) == {i \in DOMAIN s : i > p /\ s[i] \notin Undrawable}

IsFirst(i, S) == i \in S /\ \A j \in S : i <= j

\* A new query: the results of the previous one are dropped.
NewQuery(q) ==
    /\ mode' = "reading"
    /\ rows' = q
    /\ resultcache' = <<>>
    /\ answer' = NoAnswer
    /\ UNCHANGED faults

\* addResult: the shape that NextShape returned goes into the cache.
AddResult(f, resultindex) ==
    /\ resultcache' = Append(resultcache,
                             [shapeindex |-> f, resultindex |-> resultindex])
    /\ UNCHANGED <<faults, mode, rows, answer>>

\* NextShape returned MS_DONE.
NoMoreShapes ==
    /\ mode' = "retrieving"
    /\ UNCHANGED <<faults, rows, resultcache, answer>>

\* NextShape returned MS_FAILURE: the query is given up, with the results so far.
ShapesFail ==
    /\ mode' = "failed"
    /\ UNCHANGED <<faults, rows, resultcache, answer>>

\* GetShape was asked for the cached result r.
Answer(r, status, f) ==
    /\ mode' = "retrieving"
    /\ answer' = [asked |-> r, status |-> status, index |-> f]
    /\ UNCHANGED <<faults, rows, resultcache>>

\* GetShape found feature f, which may turn out not to be drawable.
AnswerWith(r, f) ==
    IF f \in Undrawable THEN Answer(r, "missing", NoShape)
                        ELSE Answer(r, "success", f)

\* msQueryByIndex: a single feature becomes the cache, or is added to it.
QueryByIndexResult(f) ==
    LET r == [shapeindex |-> f, resultindex |-> -1] IN
    /\ f \notin Undrawable
    /\ \/ resultcache' = <<r>>
       \/ /\ Adds
          /\ Len(resultcache) < MaxResults
          /\ resultcache' = Append(resultcache, r)
    /\ mode' = "retrieving"
    /\ answer' = NoAnswer
    /\ UNCHANGED <<faults, rows>>

\* The resultindex is used to retrieve a specific item from the result cache
\* (mapquery.cpp:705): what was asked for is what was cached.
RetrievesCached ==
    answer.status \in {"success", "missing"} => answer.index = answer.asked.shapeindex
=============================================================================
