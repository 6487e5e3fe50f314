------------------------------ MODULE OgrLayer ------------------------------
(***************************************************************************)
(* Threads that read OGR layers (mapogr.cpp) under two mutexes: TLOCK_POOL *)
(* guards the table of connections, TLOCK_OGR most of the calls into the   *)
(* OGR library; the others are made without it, on data sets of the        *)
(* thread's own.  Closing a pooled data set calls back into the driver     *)
(* while TLOCK_POOL is held and takes TLOCK_OGR, so the order is POOL, OGR. *)
(*                                                                         *)
(* A tiled layer has no CONNECTION: it opens a tile index and, one after   *)
(* the other, the data sets the index names.                               *)
(*                                                                         *)
(* Taking a mutex, the section under it and giving it back are separate    *)
(* steps where the thread can block in between.  What a section reads      *)
(* from a data set is left out; every outcome it can have is kept.         *)
(***************************************************************************)
EXTENDS ConnPool

CONSTANTS
    Layers,             \* the OGR layers of the maps being drawn
    ThreadOf,           \* the thread that draws the map of a layer
    ConnectionOf,       \* layer->connection
    CloseConnectionOf,  \* the layer's CLOSE_CONNECTION processing key
    Tiled,              \* the layers with a TILEINDEX
    Builds,             \* with (TRUE) or without -DIGNORE_MISSING_DATA
    MaxCalls            \* bound on the calls each thread makes

ASSUME OgrAssumption ==
    /\ ThreadOf \in [Layers -> Threads]
    /\ ConnectionOf \in [Layers -> Connections \cup {NoConnection}]
    /\ CloseConnectionOf \in [Layers -> CloseModes]
    /\ Tiled \subseteq Layers
    /\ \A l \in Layers : l \in Tiled <=> ConnectionOf[l] = NoConnection
    /\ Builds \subseteq BOOLEAN
    /\ MaxCalls \in [Threads -> Nat]
    /\ IsFiniteSet(Layers)

VARIABLES
    IgnoreMissingData,  \* the build that runs
    lock,               \* who holds TLOCK_POOL and TLOCK_OGR
    connections,        \* the pool's table
    dataset,            \* state of each OGR data set
    registered,         \* bOGRDriversRegistered
    call,               \* the driver call a layer is in
    pc,                 \* where in that call it is
    hDS,                \* the data set that call is opening or closing
    file,               \* layerinfo->hDS
    tile,               \* layerinfo->poCurTile->hDS
    calls               \* how many calls a thread has made

vars == <<IgnoreMissingData, lock, connections, dataset, registered, call, pc,
          hDS, file, tile, calls>>
poolVars == <<connections, dataset>>
driverVars == <<IgnoreMissingData, registered>>
layerVars == <<hDS, file, tile>>

Locks == {"POOL", "OGR"}
Calls == {"none", "open", "read", "tile", "change", "close"}

\* Places inside a section that has taken TLOCK_OGR.
OgrSections ==
    {"initing", "gdalopening", "executing", "projecting", "reading", "advancing",
     "filtering", "freeing", "destroying"}

\* Places inside the library without TLOCK_OGR: the search for the layer, the
\* questions about a data set just opened, the reading of the tile index after
\* the jump to NextFile, and the questions that compose a statement or fill in
\* the items of an open layer.
OgrUnlocked == {"looking", "describing", "nextfile", "asking"}

\* Places where TLOCK_POOL is wanted next, and where it is held.
WantPool == {"request", "register", "release"}
InPool == {"destroy", "destroying"}

\* Places where TLOCK_OGR is wanted next.
WantOgr ==
    {"init", "gdalopen", "find", "project", "read", "next", "filter", "free", "destroy"}

Places ==
    {"closed", "open"} \cup OgrSections \cup OgrUnlocked \cup WantPool \cup WantOgr

TypeOK ==
    /\ IgnoreMissingData \in BOOLEAN
    /\ lock \in [Locks -> Threads \cup {NoThread}]
    /\ connections \in Seq(connectionObj)
    /\ dataset \in [Handles -> {"free", "open"}]
    /\ registered \in BOOLEAN
    /\ call \in [Layers -> Calls]
    /\ pc \in [Layers -> Places]
    /\ hDS \in [Layers -> Handles \cup {NoHandle}]
    /\ file \in [Layers -> Handles \cup {NoHandle}]
    /\ tile \in [Layers -> Handles \cup {NoHandle}]
    /\ calls \in [Threads -> Nat]
    /\ \A t \in Threads : calls[t] <= MaxCalls[t]

Init ==
    /\ IgnoreMissingData \in Builds
    /\ lock = [k \in Locks |-> NoThread]
    /\ connections = <<>>
    /\ dataset = [h \in Handles |-> "free"]
    /\ registered = FALSE
    /\ call = [l \in Layers |-> "none"]
    /\ pc = [l \in Layers |-> "closed"]
    /\ hDS = [l \in Layers |-> NoHandle]
    /\ file = [l \in Layers |-> NoHandle]
    /\ tile = [l \in Layers |-> NoHandle]
    /\ calls = [t \in Threads |-> 0]

Idle(t) == \A l \in Layers : ThreadOf[l] = t => call[l] = "none"
Free(k) == lock[k] = NoThread
Acquire(k, l) == Free(k) /\ lock' = [lock EXCEPT ![k] = ThreadOf[l]]
Release(k) == lock' = [lock EXCEPT ![k] = NoThread]
Goto(l, p) == pc' = [pc EXCEPT ![l] = p]
Set(f, l, h) == [f EXCEPT ![l] = h]

\* A thread that is in no other call starts one.
Start(l, c) ==
    /\ Idle(ThreadOf[l])
    /\ calls[ThreadOf[l]] < MaxCalls[ThreadOf[l]]
    /\ calls' = [calls EXCEPT ![ThreadOf[l]] = @ + 1]
    /\ call' = [call EXCEPT ![l] = c]

Return(l, p) ==
    /\ call' = [call EXCEPT ![l] = "none"]
    /\ Goto(l, p)

\* The thread takes TLOCK_OGR and enters the section.
Enter(l, from, to) ==
    /\ pc[l] = from
    /\ Acquire("OGR", l)
    /\ Goto(l, to)
    /\ UNCHANGED <<poolVars, driverVars, layerVars, call, calls>>

-----------------------------------------------------------------------------
\* msOGRLayerOpen calls msOGRFileOpen, which calls msOGRInitialize: the flag
\* is read without the lock.
LayerOpen(l) ==
    /\ pc[l] = "closed"
    /\ Start(l, "open")
    /\ Goto(l, IF registered THEN "request" ELSE "init")
    /\ UNCHANGED <<lock, poolVars, driverVars, layerVars>>

InitializeEnter(l) == Enter(l, "init", "initing")

\* msOGRInitialize registers the drivers without looking at the flag again.
Initialize(l) ==
    /\ pc[l] = "initing"
    /\ registered' = TRUE
    /\ Release("OGR")
    /\ Goto(l, "request")
    /\ UNCHANGED <<IgnoreMissingData, poolVars, layerVars, call, calls>>

\* msOGRFileOpen asks the pool; a tiled layer has no connection to ask for.
RequestMiss(l) ==
    /\ pc[l] = "request"
    /\ \/ ConnectionOf[l] = NoConnection
       \/ CloseConnectionOf[l] = "ALWAYS"
       \/ Free("POOL") /\ Requestable(connections, ConnectionOf[l], ThreadOf[l]) = {}
    /\ Goto(l, "gdalopen")
    /\ UNCHANGED <<lock, poolVars, driverVars, layerVars, call, calls>>

RequestHit(l) ==
    LET R == Requestable(connections, ConnectionOf[l], ThreadOf[l]) IN
    /\ pc[l] = "request"
    /\ ConnectionOf[l] # NoConnection
    /\ CloseConnectionOf[l] # "ALWAYS"
    /\ Free("POOL")
    /\ \E i \in R :
          /\ \A j \in R : i <= j
          /\ connections' = Taken(connections, i, ThreadOf[l])
          /\ hDS' = Set(hDS, l, connections[i].conn_handle)
    /\ Goto(l, "find")
    /\ UNCHANGED <<lock, dataset, driverVars, file, tile, call, calls>>

GdalOpenEnter(l) == Enter(l, "gdalopen", "gdalopening")

\* msOGRFileOpen returns NULL.  Opening a layer fails.  Reading the next tile
\* fails too, or, in the default build and if no particular tile was wanted,
\* jumps back to the label NextFile.
OpenFails(l) ==
    \/ call[l] = "open" /\ Return(l, "closed")
    \/ call[l] = "tile" /\ Return(l, "open")
    \/ /\ call[l] = "tile"
       /\ ~IgnoreMissingData
       /\ Goto(l, "nextfile")
       /\ UNCHANGED call

\* GDALOpenEx opens the data set or fails.
GdalOpen(l) ==
    /\ pc[l] = "gdalopening"
    /\ \/ /\ \E h \in Handles :
                /\ dataset[h] = "free"
                /\ dataset' = [dataset EXCEPT ![h] = "open"]
                /\ hDS' = Set(hDS, l, h)
          /\ Goto(l, "register")
          /\ UNCHANGED call
       \/ OpenFails(l) /\ UNCHANGED <<dataset, hDS>>
    /\ Release("OGR")
    /\ UNCHANGED <<connections, driverVars, file, tile, calls>>

\* msConnPoolRegister, which returns at once for a tiled layer.
Register(l) ==
    /\ pc[l] = "register"
    /\ IF ConnectionOf[l] = NoConnection
       THEN UNCHANGED connections
       ELSE /\ Free("POOL")
            /\ connections' = Registered(connections, ConnectionOf[l],
                                  CloseConnectionOf[l], ThreadOf[l], hDS[l])
    /\ Goto(l, "find")
    /\ UNCHANGED <<lock, dataset, driverVars, layerVars, call, calls>>

\* The layer definition is a SELECT and is executed under the lock.
ExecuteEnter(l) == Enter(l, "find", "executing")

Execute(l) ==
    /\ pc[l] = "executing"
    /\ Release("OGR")
    /\ \E p \in {"describing", "release"} : Goto(l, p)
    /\ UNCHANGED <<poolVars, driverVars, layerVars, call, calls>>

\* Otherwise the layer is looked up by name or index, without the lock.
LookUp(l) ==
    /\ pc[l] = "find"
    /\ Goto(l, "looking")
    /\ UNCHANGED <<lock, poolVars, driverVars, layerVars, call, calls>>

LookedUp(l) ==
    /\ pc[l] = "looking"
    /\ \E p \in {"describing", "release"} : Goto(l, p)
    /\ UNCHANGED <<lock, poolVars, driverVars, layerVars, call, calls>>

\* msOGRLayerOpen keeps the file it has opened.
Keep(l) ==
    /\ file' = Set(file, l, hDS[l])
    /\ hDS' = Set(hDS, l, NoHandle)
    /\ Return(l, "open")

\* The data set has told its driver and what SQL it knows, and a tile index
\* its fields: it is closed again when the TILEITEM or the TILESRS cannot be
\* used.  A PROJECTION AUTO is read from it next.
LayerOpened(l) ==
    /\ pc[l] = "describing"
    /\ call[l] = "open"
    /\ \/ Keep(l)
       \/ Goto(l, "project") /\ UNCHANGED <<call, file, hDS>>
       \/ l \in Tiled /\ Goto(l, "free") /\ UNCHANGED <<call, file, hDS>>
    /\ UNCHANGED <<lock, poolVars, driverVars, tile, calls>>

ProjectEnter(l) == Enter(l, "project", "projecting")

\* The projection of the data set is taken over, or cannot be used.
Project(l) ==
    /\ pc[l] = "projecting"
    /\ Release("OGR")
    /\ Keep(l) \/ (Goto(l, "free") /\ UNCHANGED <<call, file, hDS>>)
    /\ UNCHANGED <<poolVars, driverVars, tile, calls>>

-----------------------------------------------------------------------------
\* msOGRFileClose frees the last feature and the result set.
FreeEnter(l) == Enter(l, "free", "freeing")

\* Slip: the lock is kept while the connection is released.
FreeKeepsLock(l) ==
    /\ pc[l] = "freeing"
    /\ Goto(l, "release")
    /\ UNCHANGED <<lock, poolVars, driverVars, layerVars, call, calls>>

FreeResults(l) ==
    /\ pc[l] = "freeing"
    /\ Release("OGR")
    /\ Goto(l, "release")
    /\ UNCHANGED <<poolVars, driverVars, layerVars, call, calls>>

\* What follows the msConnPoolRelease of a data set: closing a layer goes on
\* with its current tile, changing the tile with the tile index, and a failed
\* open has failed.
Released(l) ==
    LET nothing == Set(hDS, l, NoHandle) IN
    CASE call[l] = "close" /\ tile[l] # NoHandle ->
            /\ hDS' = Set(hDS, l, tile[l])
            /\ tile' = Set(tile, l, NoHandle)
            /\ Goto(l, "free")
            /\ UNCHANGED call
      [] call[l] = "close" /\ tile[l] = NoHandle ->
            hDS' = nothing /\ Return(l, "closed") /\ UNCHANGED tile
      [] call[l] = "change" ->
            /\ hDS' = nothing
            /\ call' = [call EXCEPT ![l] = "tile"]
            /\ Goto(l, "next")
            /\ UNCHANGED tile
      [] OTHER -> hDS' = nothing /\ OpenFails(l) /\ UNCHANGED tile

\* Slip: a failed open does not give its connection back.
ReleaseForgotten(l) ==
    /\ pc[l] = "release"
    /\ call[l] = "open" \/ ConnectionOf[l] = NoConnection
    /\ Released(l)
    /\ UNCHANGED <<lock, poolVars, driverVars, file, calls>>

\* msConnPoolRelease of a layer without connection does nothing.
ReleaseNothing(l) ==
    /\ pc[l] = "release"
    /\ ConnectionOf[l] = NoConnection
    /\ Released(l)
    /\ UNCHANGED <<lock, poolVars, driverVars, file, calls>>

\* msConnPoolRelease drops a reference (the handle is always found: that the
\* table could not grow is left to PostGISLayer); on the last one it goes on, with the
\* lock held, to close the data set.
ReleaseConnection(l) ==
    /\ pc[l] = "release"
    /\ ConnectionOf[l] # NoConnection
    /\ \E i \in Releasable(connections, ConnectionOf[l], hDS[l]) :
          /\ connections' = Dropped(connections, i)
          /\ IF ClosedOnRelease(connections, i)
             THEN /\ Acquire("POOL", l)
                  /\ Goto(l, "destroy")
                  /\ UNCHANGED <<call, hDS, tile>>
             ELSE /\ Free("POOL")
                  /\ Released(l)
                  /\ UNCHANGED lock
    /\ UNCHANGED <<dataset, driverVars, file, calls>>

\* msConnPoolClose calls msOGRCloseConnection.
DestroyEnter(l) == Enter(l, "destroy", "destroying")

\* The data set is destroyed, its entry leaves the table, both locks are free.
Destroy(l) ==
    /\ pc[l] = "destroying"
    /\ dataset' = [dataset EXCEPT ![hDS[l]] = "free"]
    /\ \E i \in Releasable(connections, ConnectionOf[l], hDS[l]) :
          connections' = Closed(connections, i)
    /\ lock' = [k \in Locks |-> NoThread]
    /\ Released(l)
    /\ UNCHANGED <<driverVars, file, calls>>

\* msOGRLayerClose
LayerClose(l) ==
    /\ pc[l] = "open"
    /\ Start(l, "close")
    /\ hDS' = Set(hDS, l, file[l])
    /\ file' = Set(file, l, NoHandle)
    /\ Goto(l, "free")
    /\ UNCHANGED <<lock, poolVars, driverVars, tile>>

-----------------------------------------------------------------------------
\* msOGRFileWhichShapes, msOGRFileNextShape, msOGRFileGetShape and the calls
\* for extent, feature count and style read the layer under the lock.  What
\* msOGRFileWhichShapes asks to compose its statement, and all that
\* msOGRFileGetItems and msOGRLayerInitItemInfo ask, is asked without it.
StartRead(l) ==
    /\ pc[l] = "open"
    /\ Start(l, "read")
    /\ \E p \in {"read", "asking"} : Goto(l, p)
    /\ UNCHANGED <<lock, poolVars, driverVars, layerVars>>

Asked(l) ==
    /\ pc[l] = "asking"
    /\ \/ call[l] = "read" /\ Goto(l, "read") /\ UNCHANGED call
       \/ Return(l, "open")
    /\ UNCHANGED <<lock, poolVars, driverVars, layerVars, calls>>

\* Slip: the layer is read without taking the lock.
ReadUnlocked(l) ==
    /\ pc[l] = "read"
    /\ Goto(l, "reading")
    /\ UNCHANGED <<lock, poolVars, driverVars, layerVars, call, calls>>

ReadEnter(l) == Enter(l, "read", "reading")

\* Slip: an error path returns without releasing the lock.
ReadKeepsLock(l) ==
    /\ pc[l] = "reading"
    /\ Return(l, "open")
    /\ UNCHANGED <<lock, poolVars, driverVars, layerVars, calls>>

ReadDone(l) ==
    /\ pc[l] = "reading"
    /\ Release("OGR")
    /\ Return(l, "open")
    /\ UNCHANGED <<poolVars, driverVars, layerVars, calls>>

\* msOGRFileReadTile closes the current tile, then reads the tile index.
ReadTile(l) ==
    /\ pc[l] = "open"
    /\ l \in Tiled
    /\ Start(l, IF tile[l] = NoHandle THEN "tile" ELSE "change")
    /\ IF tile[l] = NoHandle
       THEN Goto(l, "next") /\ UNCHANGED <<hDS, tile>>
       ELSE /\ Goto(l, "free")
            /\ hDS' = Set(hDS, l, tile[l])
            /\ tile' = Set(tile, l, NoHandle)
    /\ UNCHANGED <<lock, poolVars, driverVars, file>>

NextFileEnter(l) == Enter(l, "next", "advancing")

\* The next feature of the index names a tile, or there is none.
NextTile(l) ==
    \/ Goto(l, "request") /\ UNCHANGED call
    \/ Return(l, "open")

NextFile(l) ==
    /\ pc[l] = "advancing"
    /\ Release("OGR")
    /\ NextTile(l)
    /\ UNCHANGED <<poolVars, driverVars, layerVars, calls>>

\* goto NextFile: the index is read, and the lock is released, by a thread
\* that does not hold it.  What the release does is undefined: it has no
\* effect or opens the mutex for whoever holds it.
NextFileUnlocked(l) ==
    /\ pc[l] = "nextfile"
    /\ UNCHANGED lock \/ Release("OGR")
    /\ NextTile(l)
    /\ UNCHANGED <<poolVars, driverVars, layerVars, calls>>

\* The tile's projection cannot be set: msOGRFileReadTile returns and forgets
\* the tile.  Otherwise the tile is filtered with the current rectangle, if
\* there is one (what composes the filter's statement is still asked without
\* the lock), becomes the current tile, and msOGRLayerInitItemInfo asks it for
\* its fields.
Forget(l) == Return(l, "open") /\ UNCHANGED tile

Current(l) == tile' = Set(tile, l, hDS[l]) /\ Goto(l, "asking") /\ UNCHANGED call

TileOpened(l) ==
    /\ pc[l] = "describing"
    /\ call[l] = "tile"
    /\ \/ Goto(l, "filter") /\ UNCHANGED <<call, hDS, tile>>
       \/ (Forget(l) \/ Current(l)) /\ hDS' = Set(hDS, l, NoHandle)
    /\ UNCHANGED <<lock, poolVars, driverVars, file, calls>>

FilterEnter(l) == Enter(l, "filter", "filtering")

\* msOGRFileWhichShapes of the tile: it becomes the current tile, or the
\* filter fails and it is forgotten.
FilterTile(l) ==
    /\ pc[l] = "filtering"
    /\ Release("OGR")
    /\ Forget(l) \/ Current(l)
    /\ hDS' = Set(hDS, l, NoHandle)
    /\ UNCHANGED <<poolVars, driverVars, file, calls>>

\* msOGRCleanup, called by msCleanup once every map has been freed.
Cleanup ==
    /\ Free("OGR")
    /\ registered
    /\ \A l \in Layers : pc[l] = "closed"
    /\ registered' = FALSE
    /\ UNCHANGED <<IgnoreMissingData, lock, poolVars, layerVars, call, pc, calls>>

-----------------------------------------------------------------------------
\* The calls that maplayer.c makes.
CallStep(l) == LayerOpen(l) \/ LayerClose(l) \/ StartRead(l) \/ ReadTile(l)

\* The steps of a thread inside a call.
InnerStep(l) ==
    \/ InitializeEnter(l) \/ Initialize(l)
    \/ RequestMiss(l) \/ RequestHit(l) \/ GdalOpenEnter(l) \/ GdalOpen(l)
    \/ Register(l) \/ ExecuteEnter(l) \/ Execute(l) \/ LookUp(l) \/ LookedUp(l)
    \/ LayerOpened(l) \/ ProjectEnter(l) \/ Project(l) \/ FreeEnter(l) \/ FreeResults(l)
    \/ ReleaseNothing(l) \/ ReleaseConnection(l) \/ DestroyEnter(l) \/ Destroy(l)
    \/ Asked(l) \/ ReadEnter(l) \/ ReadDone(l)
    \/ NextFileEnter(l) \/ NextFile(l) \/ NextFileUnlocked(l)
    \/ TileOpened(l) \/ FilterEnter(l) \/ FilterTile(l)

Next == Cleanup \/ \E l \in Layers : CallStep(l) \/ InnerStep(l)

Spec == Init /\ [][Next]_vars

\* A thread that is inside a call and can move does move.
Fairness ==
    \A t \in Threads :
        WF_vars(\E l \in Layers : ThreadOf[l] = t /\ call[l] # "none" /\ InnerStep(l))

FairSpec == Spec /\ Fairness

-----------------------------------------------------------------------------
\* A section that has taken TLOCK_OGR has it to its end: no other thread gives
\* the mutex back under it and enters a section of its own (mapthread.c:58).
\* Calls into the library outside of the sections are not meant.
SectionLocked ==
    \A l \in Layers : pc[l] \in OgrSections => lock["OGR"] = ThreadOf[l]

\* The same of the build that fails when a tile is missing instead of jumping
\* back behind the lock (mapogr.cpp:3080).
SectionLockedIgnoring == IgnoreMissingData => SectionLocked

\* The locks are taken in the order POOL, OGR and never twice: a thread that
\* is about to take TLOCK_POOL holds neither lock and one that is about to
\* take TLOCK_OGR does not hold it (mapogr.cpp:1686; and the types).
LockOrder ==
    TypeOK /\ \A l \in Layers :
        /\ pc[l] \in WantPool =>
              lock["POOL"] # ThreadOf[l] /\ lock["OGR"] # ThreadOf[l]
        /\ pc[l] \in WantOgr => lock["OGR"] # ThreadOf[l]

\* Two threads never have the same data set, as file, as tile or in a call.
\* The library is called without TLOCK_OGR (mapogr.cpp:1239, 1270, 2145, 3899,
\* 4110), also while another thread is in a section; this is what keeps the
\* two from working on one data set.
DatasetsApart ==
    \A l, m \in Layers :
        ThreadOf[l] # ThreadOf[m] =>
            {hDS[l], file[l], tile[l]} \cap {hDS[m], file[m], tile[m]} \subseteq {NoHandle}

Held(h) == \E l \in Layers : h \in {hDS[l], file[l], tile[l]}

\* No layer holds, as its file, its tile or in a call, a data set that has
\* been destroyed by the release of another layer (msOGRCloseConnection).
NoUseAfterClose ==
    \A l \in Layers :
        \A h \in {hDS[l], file[l], tile[l]} \ {NoHandle} : dataset[h] = "open"

\* A pooled data set is closed as soon as nobody refers to it, unless it was
\* deferred (mappool.c:58), whatever fails while it is opened.
ClosedWhenUnused ==
    \A i \in DOMAIN connections :
        ~Held(connections[i].conn_handle) => connections[i].lifespan = "FOREVER"

\* Every lock that a thread takes is released again on every path of control
\* (mapthread.c:112): a thread that is in a call into the driver gets out of it
\* and can make the next one.  Without
\* IGNORE_MISSING_DATA a call skips all missing tiles, and the tile index of
\* the model has no end.
CallsReturn ==
    \A t \in Threads : IgnoreMissingData /\ ~Idle(t) ~> Idle(t)
=============================================================================
