---------------------------- MODULE PostGISLayer ----------------------------
(***************************************************************************)
(* Threads that open and close PostGIS layers over the connection pool     *)
(* (mappostgis.cpp, mappool.c).                                            *)
(*                                                                         *)
(* Opening a layer is not atomic: between msConnPoolRequest, PQconnectdb,  *)
(* msConnPoolRegister, the test of a pooled connection and the version     *)
(* query, other threads run and the server may drop connections.  Every    *)
(* call into the pool runs under TLOCK_POOL and is one step, except the    *)
(* two sweeps that close several connections, which hold the lock and      *)
(* close one connection per step.                                          *)
(***************************************************************************)
EXTENDS ConnPool

CONSTANTS
    Layers,             \* the layers of the maps being drawn
    ThreadOf,           \* the thread that draws the map of a layer
    ConnectionOf,       \* layer->connectiontype and layer->connection
    CloseConnectionOf,  \* the layer's CLOSE_CONNECTION processing key
    MaxRefs             \* bound on the references to one connection

ASSUME PostGISAssumption ==
    /\ ThreadOf \in [Layers -> Threads]
    /\ ConnectionOf \in [Layers -> Connections \cup {NoConnection}]
    /\ CloseConnectionOf \in [Layers -> CloseModes]
    /\ MaxRefs \in Nat \ {0}
    /\ IsFiniteSet(Layers)

VARIABLES
    connections,        \* the pool's table
    connectionMax,      \* its capacity
    sweep,              \* who holds TLOCK_POOL across steps, and why
    phase,              \* how far each layer's open has come
    pgconn,             \* layerinfo->pgconn
    backend,            \* state of each libpq connection
    abandoned           \* references that were taken and are never released

poolVars == <<connections, connectionMax, sweep>>
vars == <<connections, connectionMax, sweep, phase, pgconn, backend, abandoned>>

Phases == {"closed", "connect", "register", "test", "version", "open"}
NoSweep == [by |-> NoThread, op |-> "none", i |-> 0]

TypeOK ==
    /\ connections \in Seq(connectionObj)
    /\ connectionMax \in Nat
    /\ Len(connections) <= connectionMax
    /\ sweep \in [by : Threads \cup {NoThread},
                  op : {"none", "unreferenced", "final"}, i : Nat]
    /\ phase \in [Layers -> Phases]
    /\ pgconn \in [Layers -> Handles \cup {NoHandle}]
    /\ backend \in [Handles -> {"free", "ok", "bad"}]
    /\ abandoned \in [Handles -> Nat]

Init ==
    /\ connections = <<>>
    /\ connectionMax = 0
    /\ sweep = NoSweep
    /\ phase = [l \in Layers |-> "closed"]
    /\ pgconn = [l \in Layers |-> NoHandle]
    /\ backend = [h \in Handles |-> "free"]
    /\ abandoned = [h \in Handles |-> 0]

PoolUnlocked == sweep.by = NoThread

\* A thread starts a call only when it is not inside another one.
Idle(t) ==
    /\ sweep.by # t
    /\ \A l \in Layers : ThreadOf[l] = t => phase[l] \in {"closed", "open"}

Goto(l, p) == phase' = [phase EXCEPT ![l] = p]

-----------------------------------------------------------------------------
\* msConnPoolRequest returns NULL: no connection string, CLOSE_CONNECTION
\* ALWAYS, or no entry this thread may use.
RequestMiss(l) ==
    \/ ConnectionOf[l] = NoConnection
    \/ CloseConnectionOf[l] = "ALWAYS"
    \/ /\ PoolUnlocked
       /\ Requestable(connections, ConnectionOf[l], ThreadOf[l]) = {}

\* msPostGISLayerOpen up to msConnPoolRequest, which returned NULL.
OpenMiss(l) ==
    /\ Idle(ThreadOf[l])
    /\ phase[l] = "closed"
    /\ RequestMiss(l)
    /\ Goto(l, "connect")
    /\ UNCHANGED <<poolVars, pgconn, backend, abandoned>>

\* The requestable entry with the smallest index, the one the loop finds.
FirstRequestable(l, i) ==
    LET R == Requestable(connections, ConnectionOf[l], ThreadOf[l]) IN
    i \in R /\ \A j \in R : i <= j

\* msPostGISLayerOpen up to msConnPoolRequest, which returned a handle.
OpenHit(l) ==
    /\ Idle(ThreadOf[l])
    /\ PoolUnlocked
    /\ phase[l] = "closed"
    /\ ConnectionOf[l] # NoConnection
    /\ CloseConnectionOf[l] # "ALWAYS"
    /\ \E i \in DOMAIN connections :
          /\ FirstRequestable(l, i)
          /\ connections[i].ref_count < MaxRefs
          /\ connections' = Taken(connections, i, ThreadOf[l])
          /\ pgconn' = [pgconn EXCEPT ![l] = connections[i].conn_handle]
    /\ Goto(l, "test")
    /\ UNCHANGED <<connectionMax, sweep, backend, abandoned>>

\* PQconnectdb succeeds and yields a handle that is not in use.
Connect(l) ==
    /\ phase[l] = "connect"
    /\ ConnectionOf[l] # NoConnection
    /\ \E h \in Handles :
          /\ backend[h] = "free"
          /\ backend' = [backend EXCEPT ![h] = "ok"]
          /\ pgconn' = [pgconn EXCEPT ![l] = h]
    /\ Goto(l, "register")
    /\ UNCHANGED <<poolVars, abandoned>>

\* The CONNECTION is missing, its tokens cannot be decrypted or the server
\* refuses: the half-open handle is finished and the open fails.
ConnectFail(l) ==
    /\ phase[l] = "connect"
    /\ Goto(l, "closed")
    /\ UNCHANGED <<poolVars, pgconn, backend, abandoned>>

\* msConnPoolRegister
Register(l) ==
    /\ PoolUnlocked
    /\ phase[l] = "register"
    /\ connections' = Registered(connections, ConnectionOf[l],
                                 CloseConnectionOf[l], ThreadOf[l], pgconn[l])
    /\ connectionMax' = Grown(connections, connectionMax)
    /\ Goto(l, "version")
    /\ UNCHANGED <<sweep, pgconn, backend, abandoned>>

\* msConnPoolRegister when realloc fails: the layer keeps a connection that
\* the pool does not know.
RegisterFail(l) ==
    /\ PoolUnlocked
    /\ phase[l] = "register"
    /\ Full(connections, connectionMax)
    /\ Goto(l, "version")
    /\ UNCHANGED <<poolVars, pgconn, backend, abandoned>>

\* A pooled connection is still good, or PQreset makes it good again.
TestPooled(l) ==
    /\ phase[l] = "test"
    /\ backend' = [backend EXCEPT ![pgconn[l]] = "ok"]
    /\ Goto(l, "version")
    /\ UNCHANGED <<poolVars, pgconn, abandoned>>

\* Slip: the handle is dropped but the layer is taken for open.
AbandonUncounted(l) ==
    /\ phase[l] = "test"
    /\ backend[pgconn[l]] = "bad"
    /\ abandoned' = [abandoned EXCEPT ![pgconn[l]] = @ + 1]
    /\ pgconn' = [pgconn EXCEPT ![l] = NoHandle]
    /\ Goto(l, "version")
    /\ UNCHANGED <<poolVars, backend>>

\* PQreset does not help: the open fails and the reference taken by
\* msConnPoolRequest is never given back.
AbandonPooled(l) ==
    /\ phase[l] = "test"
    /\ backend[pgconn[l]] = "bad"
    /\ abandoned' = [abandoned EXCEPT ![pgconn[l]] = @ + 1]
    /\ pgconn' = [pgconn EXCEPT ![l] = NoHandle]
    /\ Goto(l, "closed")
    /\ UNCHANGED <<poolVars, backend>>

\* msPostGISRetrieveVersion succeeds; the layerinfo is saved in the layer.
Opened(l) ==
    /\ phase[l] = "version"
    /\ backend[pgconn[l]] = "ok"
    /\ Goto(l, "open")
    /\ UNCHANGED <<poolVars, pgconn, backend, abandoned>>

\* msConnPoolRelease of a handle the pool knows.
ReleaseFound(l) ==
    \E i \in Releasable(connections, ConnectionOf[l], pgconn[l]) :
        /\ \A j \in Releasable(connections, ConnectionOf[l], pgconn[l]) : i <= j
        /\ IF ClosedOnRelease(connections, i)
           THEN /\ connections' = Closed(Dropped(connections, i), i)
                /\ connectionMax' = ClosedMax(connections, connectionMax)
                /\ backend' = [backend EXCEPT ![pgconn[l]] = "free"]
           ELSE /\ connections' = Dropped(connections, i)
                /\ UNCHANGED <<connectionMax, backend>>

\* msConnPoolRelease of a handle the pool does not know only reports it.
ReleaseUnknown(l) ==
    /\ Releasable(connections, ConnectionOf[l], pgconn[l]) = {}
    /\ UNCHANGED <<connections, connectionMax, backend>>

\* msPostGISFreeLayerInfo on close, or the release when the version query
\* of an opening layer fails.
LayerClose(l) ==
    /\ PoolUnlocked
    /\ \/ phase[l] = "version"
       \/ phase[l] = "open" /\ Idle(ThreadOf[l])
    /\ ReleaseFound(l) \/ ReleaseUnknown(l)
    /\ pgconn' = [pgconn EXCEPT ![l] = NoHandle]
    /\ Goto(l, "closed")
    /\ UNCHANGED <<sweep, abandoned>>

-----------------------------------------------------------------------------
\* msConnPoolCloseUnreferenced and msConnPoolFinalCleanup take TLOCK_POOL.
\* The latter is called by msCleanup, once every map has been freed.
BeginSweep(t) ==
    /\ PoolUnlocked
    /\ Idle(t)
    /\ \/ sweep' = [by |-> t, op |-> "unreferenced", i |-> Len(connections)]
       \/ /\ \A l \in Layers : phase[l] = "closed"
          /\ sweep' = [by |-> t, op |-> "final", i |-> 1]
    /\ UNCHANGED <<connections, connectionMax, phase, pgconn, backend, abandoned>>

\* msConnPoolClose called from a sweep: the handle is finished whatever its
\* reference count.
SweepClose(i) ==
    LET h == connections[i].conn_handle IN
    /\ connections' = Closed(connections, i)
    /\ connectionMax' = ClosedMax(connections, connectionMax)
    /\ backend' = [backend EXCEPT ![h] = "free"]
    /\ abandoned' = [abandoned EXCEPT ![h] = 0]

\* Slip: the sweep does not look at the reference count.
CloseReferenced(t) ==
    /\ sweep.by = t
    /\ sweep.op = "unreferenced"
    /\ sweep.i > 0
    /\ SweepClose(sweep.i)
    /\ sweep' = [sweep EXCEPT !.i = @ - 1]
    /\ UNCHANGED <<phase, pgconn>>

\* One turn of the downward loop of msConnPoolCloseUnreferenced.
CloseUnreferenced(t) ==
    /\ sweep.by = t
    /\ sweep.op = "unreferenced"
    /\ sweep.i > 0
    /\ IF connections[sweep.i].ref_count = 0
       THEN SweepClose(sweep.i)
       ELSE UNCHANGED <<connections, connectionMax, backend, abandoned>>
    /\ sweep' = [sweep EXCEPT !.i = @ - 1]
    /\ UNCHANGED <<phase, pgconn>>

\* One turn of the loop of msConnPoolFinalCleanup.
FinalCleanup(t) ==
    /\ sweep.by = t
    /\ sweep.op = "final"
    /\ connections # <<>>
    /\ SweepClose(1)
    /\ UNCHANGED <<sweep, phase, pgconn>>

\* Either loop is over and TLOCK_POOL is released.
EndSweep(t) ==
    /\ sweep.by = t
    /\ \/ sweep.op = "unreferenced" /\ sweep.i = 0
       \/ sweep.op = "final" /\ connections = <<>>
    /\ sweep' = NoSweep
    /\ UNCHANGED <<connections, connectionMax, phase, pgconn, backend, abandoned>>

\* The database server drops a connection.
ServerDrops(h) ==
    /\ backend[h] = "ok"
    /\ backend' = [backend EXCEPT ![h] = "bad"]
    /\ UNCHANGED <<poolVars, phase, pgconn, abandoned>>

-----------------------------------------------------------------------------
LayerStep(l) ==
    \/ OpenMiss(l) \/ OpenHit(l) \/ Connect(l) \/ ConnectFail(l)
    \/ Register(l) \/ RegisterFail(l) \/ TestPooled(l) \/ AbandonPooled(l)
    \/ Opened(l) \/ LayerClose(l)

SweepStep(t) ==
    BeginSweep(t) \/ CloseUnreferenced(t) \/ FinalCleanup(t) \/ EndSweep(t)

Next ==
    \/ \E l \in Layers : LayerStep(l)
    \/ \E t \in Threads : SweepStep(t)
    \/ \E h \in Handles : ServerDrops(h)

Spec == Init /\ [][Next]_vars

-----------------------------------------------------------------------------
Holders(h) == {l \in Layers : pgconn[l] = h}

\* A connection is never shared between different threads concurrently
\* (mappool.c:128): two layers that hold one handle are drawn by one thread.
ExclusiveToThread ==
    \A l, m \in Layers :
        pgconn[l] = pgconn[m] /\ pgconn[l] # NoHandle => ThreadOf[l] = ThreadOf[m]

\* No layer holds a connection that has been closed, by another layer's
\* release or by a sweep (msConnPoolClose).
NoUseAfterClose ==
    \A l \in Layers : pgconn[l] # NoHandle => backend[pgconn[l]] # "free"

\* The reference count of a pooled connection is the number of layers that
\* hold it and of the opens that gave up on it (mappostgis.cpp:2473).
RefCountExact ==
    \A i \in DOMAIN connections :
        LET h == connections[i].conn_handle IN
        connections[i].ref_count = Cardinality(Holders(h)) + abandoned[h]

\* A connection lives as CLOSE_CONNECTION says (mappool.c:57-67): only DEFER
\* keeps one open without a reference, the others are closed with their last
\* reference; one registered with ALWAYS is not reused, it never has two
\* holders, whatever the other layers ask.
LifespanKept ==
    \A i \in DOMAIN connections :
        /\ connections[i].ref_count = 0 => connections[i].lifespan = "FOREVER"
        /\ connections[i].lifespan = "SINGLE" =>
              Cardinality(Holders(connections[i].conn_handle)) <= 1

\* A connection that failed its test and was not released "can never be used
\* again" (comment at mappostgis.cpp:2474): no later open is handed it.  A
\* thread opens one layer at a time, so a layer that tests a connection was
\* handed it after every abandonment.
AbandonedNeverUsed ==
    \A l \in Layers : phase[l] = "test" => abandoned[pgconn[l]] = 0

\* The pool implements the promise of its notes (ConnLease).
Lease == INSTANCE ConnLease WITH
    live <- {h \in Handles : backend[h] # "free"},
    uses <- pgconn
LeaseSpec == Lease!Spec

-----------------------------------------------------------------------------
\* Whoever holds TLOCK_POOL across steps is inside one of the two sweeps, and
\* the downward sweep has not looked at an entry that is still to come.
SweepOK ==
    /\ sweep.by = NoThread <=> sweep.op = "none"
    /\ sweep.op = "unreferenced" => sweep.i <= Len(connections)

\* A layer holds a handle exactly between connecting and closing, and only if
\* it names a data source.
HandleOK ==
    \A l \in Layers :
        /\ pgconn[l] = NoHandle <=> phase[l] \in {"closed", "connect"}
        /\ pgconn[l] # NoHandle => ConnectionOf[l] # NoConnection

\* Pooled connections are open and pairwise different.
PoolOK ==
    /\ \A i \in DOMAIN connections : backend[connections[i].conn_handle] # "free"
    /\ \A i, j \in DOMAIN connections :
          connections[i].conn_handle = connections[j].conn_handle => i = j

Pooled(h) == \E i \in DOMAIN connections : connections[i].conn_handle = h

\* A layer that holds a pooled connection is past registering it and is drawn
\* by the thread, and reads the data source, that the entry names.
HolderOK ==
    \A l \in Layers, i \in DOMAIN connections :
        pgconn[l] = connections[i].conn_handle =>
            /\ phase[l] # "register"
            /\ connections[i].thread_id = ThreadOf[l]
            /\ connections[i].connection = ConnectionOf[l]

\* A connection the pool does not know, not yet registered or never, has one
\* holder, which is not testing it.
UnpooledOK ==
    \A l, m \in Layers :
        pgconn[l] # NoHandle /\ ~Pooled(pgconn[l]) =>
            /\ phase[l] # "test"
            /\ pgconn[m] = pgconn[l] => m = l

\* Only pooled connections have been given up on.
AbandonedOK == \A h \in Handles : ~Pooled(h) => abandoned[h] = 0

\* The final sweep runs when no layer holds a pooled connection.
FinalOK ==
    sweep.op = "final" => \A l \in Layers : ~Pooled(pgconn[l])

\* The inductive strengthening of the safety invariants above.
PoolInv ==
    /\ TypeOK
    /\ SweepOK
    /\ HandleOK
    /\ PoolOK
    /\ HolderOK
    /\ UnpooledOK
    /\ AbandonedOK
    /\ FinalOK
    /\ NoUseAfterClose
    /\ RefCountExact
=============================================================================
