------------------------------ MODULE ConnPool ------------------------------
(***************************************************************************)
(* The table of pooled data source connections (mappool.c).                *)
(*                                                                         *)
(* The table is a sequence of connectionObj records, the C array           *)
(* connections[0 .. connectionCount-1]; connectionMax is its capacity.     *)
(* Connection type and connection string together identify a data source   *)
(* and are one value here (two strings that strcasecmp equates are the     *)
(* same value).  The operators below say what each pool call does to the   *)
(* table while TLOCK_POOL is held; the drivers that call them are in       *)
(* PostGISLayer and OgrLayer.                                              *)
(***************************************************************************)
EXTENDS Integers, Sequences, FiniteSets

CONSTANTS
    Threads,            \* the threads that draw maps
    NoThread,           \* thread_id 0
    Handles,            \* addresses of connection handles
    NoHandle,           \* NULL
    Connections,        \* (connectiontype, connection) pairs
    NoConnection,       \* layer->connection == NULL
    PoolIncrement       \* slots added when the table is full, 10 in the code

ASSUME PoolAssumption ==
    /\ NoThread \notin Threads
    /\ NoHandle \notin Handles
    /\ NoConnection \notin Connections
    /\ PoolIncrement \in Nat \ {0}

CloseModes == {"NORMAL", "DEFER", "ALWAYS", "unrecognised"}
Lifespans == {"ZEROREF", "FOREVER", "SINGLE"}

\* The CLOSE_CONNECTION processing key decides how long a connection lives;
\* a value that is not recognised is treated as NORMAL.
Lifespan(mode) ==
    CASE mode = "DEFER"  -> "FOREVER"
      [] mode = "ALWAYS" -> "SINGLE"
      [] OTHER           -> "ZEROREF"

connectionObj ==
    [connection : Connections, lifespan : Lifespans, ref_count : Nat,
     thread_id : Threads \cup {NoThread}, conn_handle : Handles]

-----------------------------------------------------------------------------
\* msConnPoolRegister: the table is full and must grow first.
Full(conns, max) == Len(conns) >= max

Grown(conns, max) == IF Full(conns, max) THEN max + PoolIncrement ELSE max

\* msConnPoolRegister: a new entry, referenced once by the calling thread.
Registered(conns, c, mode, t, h) ==
    Append(conns, [connection |-> c, lifespan |-> Lifespan(mode),
                   ref_count |-> 1, thread_id |-> t, conn_handle |-> h])

\* Slip: the owner of a referenced connection is not looked at.
RequestableByAny(conns, c, t) ==
    {i \in DOMAIN conns :
        conns[i].connection = c /\ conns[i].lifespan # "SINGLE"}

\* Slip: a connection that must not be reused is offered.
RequestableSingle(conns, c, t) ==
    {i \in DOMAIN conns :
        /\ conns[i].connection = c
        /\ conns[i].ref_count = 0 \/ conns[i].thread_id = t}

\* msConnPoolRequest: the entries a thread may be given for a data source.
Requestable(conns, c, t) ==
    {i \in DOMAIN conns :
        /\ conns[i].connection = c
        /\ conns[i].ref_count = 0 \/ conns[i].thread_id = t
        /\ conns[i].lifespan # "SINGLE"}

\* msConnPoolRequest counts the reference and notes the thread.
Referenced(conn, t) == [conn EXCEPT !.ref_count = @ + 1, !.thread_id = t]

Taken(conns, i, t) == [conns EXCEPT ![i] = Referenced(conns[i], t)]

\* msConnPoolRelease: the entries that a handle passed in may stand for.
Releasable(conns, c, h) ==
    {i \in DOMAIN conns : conns[i].connection = c /\ conns[i].conn_handle = h}

\* msConnPoolRelease drops the reference and forgets the thread on the last.
Dereferenced(conn) ==
    [conn EXCEPT !.ref_count = @ - 1,
                 !.thread_id = IF conn.ref_count = 1 THEN NoThread ELSE @]

Dropped(conns, i) == [conns EXCEPT ![i] = Dereferenced(conns[i])]

\* Slip: the remaining references are not looked at.
ClosedOnAnyRelease(conns, i) == conns[i].lifespan \in {"ZEROREF", "SINGLE"}

\* msConnPoolRelease closes a connection it has just dropped the last
\* reference to, unless it is to be kept until the process ends.
ClosedOnRelease(conns, i) ==
    /\ conns[i].ref_count = 1
    /\ conns[i].lifespan \in {"ZEROREF", "SINGLE"}

\* Slip: the table is shortened but the last entry is not moved.
ClosedTruncated(conns, i) == SubSeq(conns, 1, Len(conns) - 1)

\* msConnPoolClose: the last entry moves into the place of the closed one.
Closed(conns, i) ==
    [k \in 1 .. Len(conns) - 1 |-> IF k = i THEN conns[Len(conns)]
                                            ELSE conns[k]]

\* msConnPoolClose frees the table with its last entry.
ClosedMax(conns, max) == IF Len(conns) = 1 THEN 0 ELSE max
=============================================================================
