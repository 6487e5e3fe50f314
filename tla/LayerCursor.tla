---------------------------- MODULE LayerCursor -----------------------------
(***************************************************************************)
(* A layer whose rows are read and retrieved through the driver of its     *)
(* connection type (maplayer.c): msInitializeVirtualTable chooses the      *)
(* driver once, msLayerWhichShapes, msLayerNextShape and msLayerGetShape   *)
(* call it.  The private variables of the other drivers stay as they were  *)
(* initialised.                                                            *)
(***************************************************************************)
EXTENDS ResultRows

CONSTANTS
    Drivers,                    \* the connection types that are looked at
    ARRAY_SIZE                  \* rows in the buffer of the Oracle driver

\* The adverse conditions a driver can meet.
Exposed ==
    [postgis |-> {"add"}, ogr |-> {"add"},
     mssql |-> {"add", "share", "null", "reissue"}, oracle |-> {"add", "fail"}]

ASSUME LayerCursorAssumption ==
    /\ Drivers \subseteq DOMAIN Exposed
    /\ ARRAY_SIZE \in Nat \ {0}

VARIABLES
    driver,                     \* layer->connectiontype
    pgresult, rownum,           \* PostGIS
    hLayer, position, last_record_index_read, hLastFeature, shape,    \* OGR
    hstmt, sql,                 \* MSSQL
    result, first, rows_fetched, rows_count, row,                     \* Oracle
    row_num                     \* MSSQL and Oracle

postgisVars == <<pgresult, rownum>>
ogrVars == <<hLayer, position, last_record_index_read, hLastFeature, shape>>
mssqlVars == <<hstmt, sql>>
oracleVars == <<result, first, rows_fetched, rows_count, row>>
vars == <<rowVars, driver, postgisVars, ogrVars, mssqlVars, oracleVars, row_num>>

PostGIS == INSTANCE PostGISCursor
Ogr == INSTANCE OgrCursor
Mssql == INSTANCE MssqlCursor
Oracle == INSTANCE OracleCursor

TypeOK ==
    /\ driver \in Drivers
    /\ PostGIS!TypeOK
    /\ Ogr!TypeOK
    /\ driver = "mssql" => Mssql!TypeOK
    /\ driver = "oracle" => Oracle!TypeOK

\* msInitializeVirtualTable
Init ==
    /\ driver \in Drivers
    /\ PostGIS!Init
    /\ Ogr!Init
    /\ Mssql!Init
    /\ Oracle!Init
    /\ faults \subseteq Exposed[driver]

\* The calls of maplayer.c go to the driver of the layer.
Next ==
    /\ \/ /\ driver = "postgis"
          /\ PostGIS!Next
          /\ UNCHANGED <<ogrVars, mssqlVars, oracleVars, row_num>>
       \/ /\ driver = "ogr"
          /\ Ogr!Next
          /\ UNCHANGED <<postgisVars, mssqlVars, oracleVars, row_num>>
       \/ /\ driver = "mssql"
          /\ Mssql!Next
          /\ UNCHANGED <<postgisVars, ogrVars, oracleVars>>
       \/ /\ driver = "oracle"
          /\ Oracle!Next
          /\ UNCHANGED <<postgisVars, ogrVars, mssqlVars>>
    /\ UNCHANGED driver

Spec == Init /\ [][Next]_vars

-----------------------------------------------------------------------------
Contract == INSTANCE ResultSet

\* Adverse conditions under which the MSSQL driver still keeps its promise.
Tolerates(d) == IF d = "mssql" THEN {"add"} ELSE {}

\* Every driver keeps the promise of ResultSet, with a result set it holds, a
\* library or a statement that only goes forward, or a buffer smaller than the
\* result: rows are delivered in order, with their row numbers, and retrieving
\* them gives them back (msLayerNextShape, msLayerGetShape), unless it meets a
\* condition it does not tolerate.
ContractSpec ==
    /\ Contract!Init
    /\ [][faults \subseteq Tolerates(driver) => Contract!Next]_rowVars

\* msOGRLayerGetAutoStyle takes the style from hLastFeature after comparing
\* indexes only: the feature is the one of the shape the caller holds, also
\* when queryByIndex has reopened the layer.
StyleOfShape == Ogr!StyleOfShape

\* On a shared MSSQL connection a result that has been passed is read
\* correctly, because the query is issued again (mapmssql2008.c:2603).
ReissueIsRight == Mssql!ReissueIsRight

\* Whatever Oracle fetches fail and whatever is reopened, a retrieved shape is
\* read from a row of the last fetch, not from beyond it (obj[row], ind[row]);
\* and the types of all drivers.
ReadsInsideBuffer == TypeOK /\ (driver = "oracle" => Oracle!ReadsInsideBuffer)
=============================================================================
