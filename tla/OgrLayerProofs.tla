--------------------------- MODULE OgrLayerProofs ---------------------------
(***************************************************************************)
(* Proofs about OgrLayer, for every number of threads, layers, data        *)
(* sources and handles.                                                    *)
(*                                                                         *)
(* The inductive invariant has three parts.  ShapeInv says what a layer    *)
(* holds at each place of each call; LocksInv that whoever holds a mutex   *)
(* is at a place that holds it; PoolInv counts, for every entry of the     *)
(* pool, the layers that use its data set, all of one thread.  A layer     *)
(* that is registering a data set does not use it yet, one that is closing *)
(* it no longer does, and the data sets of a tiled layer are never in the  *)
(* pool.                                                                   *)
(***************************************************************************)
EXTENDS OgrLayer, FiniteSetTheorems, TLAPS

-----------------------------------------------------------------------------
(* What the pool operators do to the table.                                *)

\* msConnPoolRegister appends one entry and leaves the others alone.
LEMMA RegisteredLemma ==
    ASSUME NEW conns \in Seq(connectionObj), NEW c \in Connections,
           NEW mode \in CloseModes, NEW t \in Threads, NEW h \in Handles
    PROVE  LET new == Registered(conns, c, mode, t, h) IN
           /\ new \in Seq(connectionObj)
           /\ Len(new) = Len(conns) + 1
           /\ \A k \in DOMAIN conns : new[k] = conns[k]
           /\ new[Len(conns) + 1].connection = c
           /\ new[Len(conns) + 1].lifespan = Lifespan(mode)
           /\ new[Len(conns) + 1].ref_count = 1
           /\ new[Len(conns) + 1].thread_id = t
           /\ new[Len(conns) + 1].conn_handle = h
<1> DEFINE e == [connection |-> c, lifespan |-> Lifespan(mode),
                 ref_count |-> 1, thread_id |-> t, conn_handle |-> h]
<1>1. Lifespan(mode) \in Lifespans
  BY DEF Lifespan, Lifespans
<1>2. e \in connectionObj
  BY <1>1 DEF connectionObj
<1> HIDE DEF e
<1>3. Append(conns, e) \in Seq(connectionObj)
  BY <1>2
<1>4. /\ Len(Append(conns, e)) = Len(conns) + 1
      /\ \A k \in DOMAIN conns : Append(conns, e)[k] = conns[k]
      /\ Append(conns, e)[Len(conns) + 1] = e
  BY <1>2
<1> QED
  BY <1>3, <1>4 DEF Registered, e

\* msConnPoolClose removes one entry and keeps each of the others, the last
\* one in the place of the removed one.
LEMMA ClosedLemma ==
    ASSUME NEW conns \in Seq(connectionObj), NEW i \in DOMAIN conns
    PROVE  /\ Closed(conns, i) \in Seq(connectionObj)
           /\ Len(Closed(conns, i)) = Len(conns) - 1
           /\ DOMAIN Closed(conns, i) = 1 .. Len(conns) - 1
           /\ \A k \in DOMAIN Closed(conns, i) :
                 Closed(conns, i)[k] = IF k = i THEN conns[Len(conns)]
                                                ELSE conns[k]
<1>1. Len(conns) - 1 \in Nat /\ Len(conns) \in DOMAIN conns
  OBVIOUS
<1>2. \A k \in 1 .. Len(conns) - 1 :
         (IF k = i THEN conns[Len(conns)] ELSE conns[k]) \in connectionObj
  BY <1>1
<1> QED
  BY <1>1, <1>2 DEF Closed

\* Where the entries of the table are from that msConnPoolClose leaves: each
\* is one of the old table, and no two are the same one.
IsOrigin(conns, i, org) ==
    /\ org \in [1 .. Len(conns) - 1 -> DOMAIN conns \ {i}]
    /\ \A k \in DOMAIN Closed(conns, i) : Closed(conns, i)[k] = conns[org[k]]
    /\ \A j, k \in 1 .. Len(conns) - 1 : org[j] = org[k] => j = k
    /\ \A j \in DOMAIN conns \ {i} : \E k \in 1 .. Len(conns) - 1 : org[k] = j

\* msConnPoolClose keeps exactly the other entries.
LEMMA ClosedOrigin ==
    ASSUME NEW conns \in Seq(connectionObj), NEW i \in DOMAIN conns
    PROVE  \E org : IsOrigin(conns, i, org)
<1> DEFINE org == [k \in 1 .. Len(conns) - 1 |-> IF k = i THEN Len(conns) ELSE k]
<1>1. org \in [1 .. Len(conns) - 1 -> DOMAIN conns \ {i}]
  <2>1. Len(conns) \in Nat /\ DOMAIN conns = 1 .. Len(conns)
    OBVIOUS
  <2>2. \A k \in 1 .. Len(conns) - 1 :
           (IF k = i THEN Len(conns) ELSE k) \in DOMAIN conns \ {i}
    BY <2>1
  <2> QED
    BY <2>2
<1>2. ASSUME NEW k \in DOMAIN Closed(conns, i)
      PROVE  Closed(conns, i)[k] = conns[org[k]]
  <2>1. /\ k \in 1 .. Len(conns) - 1
        /\ Closed(conns, i)[k] = IF k = i THEN conns[Len(conns)] ELSE conns[k]
    BY ClosedLemma
  <2>2. org[k] = IF k = i THEN Len(conns) ELSE k
    BY <2>1
  <2> HIDE DEF org
  <2> QED
    BY <2>1, <2>2
<1>3. \A j, k \in 1 .. Len(conns) - 1 : org[j] = org[k] => j = k
  OBVIOUS
<1>4. ASSUME NEW j \in DOMAIN conns \ {i}
      PROVE  \E k \in 1 .. Len(conns) - 1 : org[k] = j
  <2>1. CASE j = Len(conns)
    <3>1. i \in 1 .. Len(conns) - 1 /\ org[i] = j
      BY <2>1
    <3> QED BY <3>1
  <2>2. CASE j # Len(conns)
    <3>1. j \in 1 .. Len(conns) - 1 /\ org[j] = j
      BY <2>2
    <3> QED BY <3>1
  <2> QED BY <2>1, <2>2
<1>5. IsOrigin(conns, i, org)
  <2> HIDE DEF org
  <2> QED
    BY <1>1, <1>2, <1>3, <1>4 DEF IsOrigin
<1> QED
  BY <1>5

\* msConnPoolRequest changes the count and the owner of one entry.
LEMMA TakenLemma ==
    ASSUME NEW conns \in Seq(connectionObj), NEW i \in DOMAIN conns,
           NEW t \in Threads
    PROVE  LET new == Taken(conns, i, t) IN
           /\ new \in Seq(connectionObj)
           /\ DOMAIN new = DOMAIN conns /\ Len(new) = Len(conns)
           /\ \A k \in DOMAIN conns :
                 /\ new[k].conn_handle = conns[k].conn_handle
                 /\ new[k].connection = conns[k].connection
                 /\ new[k].lifespan = conns[k].lifespan
                 /\ k # i => new[k] = conns[k]
           /\ new[i].ref_count = conns[i].ref_count + 1
           /\ new[i].thread_id = t
<1> DEFINE r == conns[i]
           e1 == [r EXCEPT !.ref_count = r.ref_count + 1]
           e == [e1 EXCEPT !.thread_id = t]
<1>1. r \in connectionObj
  OBVIOUS
<1>2. /\ e1 \in connectionObj
      /\ e1.conn_handle = r.conn_handle /\ e1.connection = r.connection
      /\ e1.lifespan = r.lifespan
      /\ e1.thread_id = r.thread_id /\ e1.ref_count = r.ref_count + 1
  BY <1>1 DEF connectionObj
<1>3. [r EXCEPT !.ref_count = r.ref_count + 1, !.thread_id = t] = e
  BY <1>1 DEF connectionObj
<1> HIDE DEF e1
<1>4. /\ e \in connectionObj
      /\ e.conn_handle = e1.conn_handle /\ e.connection = e1.connection
      /\ e.ref_count = e1.ref_count /\ e.lifespan = e1.lifespan
      /\ e.thread_id = t
  BY <1>1, <1>2 DEF connectionObj
<1>5. Referenced(conns[i], t) = e
  BY <1>3 DEF Referenced
<1> HIDE DEF e
<1>6. /\ [conns EXCEPT ![i] = e] \in Seq(connectionObj)
      /\ DOMAIN [conns EXCEPT ![i] = e] = DOMAIN conns
      /\ Len([conns EXCEPT ![i] = e]) = Len(conns)
      /\ [conns EXCEPT ![i] = e][i] = e
      /\ \A k \in DOMAIN conns : k # i => [conns EXCEPT ![i] = e][k] = conns[k]
  BY <1>4
<1> QED
  BY <1>2, <1>4, <1>5, <1>6 DEF Taken

\* msConnPoolRelease drops one reference; the owner stays unless it was the
\* last one.
LEMMA DroppedLemma ==
    ASSUME NEW conns \in Seq(connectionObj), NEW i \in DOMAIN conns,
           conns[i].ref_count > 0
    PROVE  LET new == Dropped(conns, i) IN
           /\ new \in Seq(connectionObj)
           /\ DOMAIN new = DOMAIN conns /\ Len(new) = Len(conns)
           /\ \A k \in DOMAIN conns :
                 /\ new[k].conn_handle = conns[k].conn_handle
                 /\ new[k].connection = conns[k].connection
                 /\ new[k].lifespan = conns[k].lifespan
                 /\ k # i => new[k] = conns[k]
           /\ new[i].ref_count = conns[i].ref_count - 1
           /\ conns[i].ref_count # 1 => new[i].thread_id = conns[i].thread_id
<1> DEFINE r == conns[i]
           e1 == [r EXCEPT !.ref_count = r.ref_count - 1]
           e == [e1 EXCEPT !.thread_id = IF r.ref_count = 1 THEN NoThread ELSE r.thread_id]
<1>1. r \in connectionObj
  OBVIOUS
<1>2. /\ e1 \in connectionObj
      /\ e1.conn_handle = r.conn_handle /\ e1.connection = r.connection
      /\ e1.lifespan = r.lifespan
      /\ e1.thread_id = r.thread_id /\ e1.ref_count = r.ref_count - 1
  BY <1>1 DEF connectionObj
<1>3. [r EXCEPT !.ref_count = r.ref_count - 1, !.thread_id = IF r.ref_count = 1 THEN NoThread ELSE r.thread_id] = e
  BY <1>1 DEF connectionObj
<1> HIDE DEF e1
<1>4. /\ e \in connectionObj
      /\ e.conn_handle = e1.conn_handle /\ e.connection = e1.connection
      /\ e.ref_count = e1.ref_count /\ e.lifespan = e1.lifespan
      /\ r.ref_count # 1 => e.thread_id = r.thread_id
  BY <1>1, <1>2 DEF connectionObj
<1>5. Dereferenced(conns[i]) = e
  BY <1>3 DEF Dereferenced
<1> HIDE DEF e
<1>6. /\ [conns EXCEPT ![i] = e] \in Seq(connectionObj)
      /\ DOMAIN [conns EXCEPT ![i] = e] = DOMAIN conns
      /\ Len([conns EXCEPT ![i] = e]) = Len(conns)
      /\ [conns EXCEPT ![i] = e][i] = e
      /\ \A k \in DOMAIN conns : k # i => [conns EXCEPT ![i] = e][k] = conns[k]
  BY <1>4
<1> QED
  BY <1>2, <1>4, <1>5, <1>6 DEF Dropped

-----------------------------------------------------------------------------
(* How the set of layers that hold a handle changes.                       *)

HoldersIn(S, f, h) == {l \in S : f[l] = h}

\* There are finitely many layers to count.
LEMMA HoldersFinite ==
    ASSUME NEW S, IsFiniteSet(S), NEW f, NEW h
    PROVE  /\ IsFiniteSet(HoldersIn(S, f, h))
           /\ Cardinality(HoldersIn(S, f, h)) \in Nat
<1>1. IsFiniteSet(HoldersIn(S, f, h))
  BY FS_Subset DEF HoldersIn
<1> QED
  BY <1>1, FS_CardinalityType

\* A layer that takes a handle adds one to its holders and, if it held
\* nothing before, changes nothing for the other handles.
LEMMA HoldersTake ==
    ASSUME NEW S, IsFiniteSet(S),
           NEW f \in [S -> Handles \cup {NoHandle}], NEW l \in S,
           f[l] = NoHandle, NEW h \in Handles
    PROVE  LET g == [f EXCEPT ![l] = h] IN
           /\ Cardinality(HoldersIn(S, g, h)) = Cardinality(HoldersIn(S, f, h)) + 1
           /\ \A k \in Handles : k # h => HoldersIn(S, g, k) = HoldersIn(S, f, k)
<1> DEFINE g == [f EXCEPT ![l] = h]
<1>1. HoldersIn(S, g, h) = HoldersIn(S, f, h) \cup {l} /\ l \notin HoldersIn(S, f, h)
  BY PoolAssumption DEF HoldersIn
<1>2. \A k \in Handles : k # h => HoldersIn(S, g, k) = HoldersIn(S, f, k)
  BY PoolAssumption DEF HoldersIn
<1> HIDE DEF g
<1>3. Cardinality(HoldersIn(S, g, h)) = Cardinality(HoldersIn(S, f, h)) + 1
  BY <1>1, HoldersFinite, FS_AddElement
<1> QED
  BY <1>2, <1>3 DEF g

\* A layer that gives its handle up takes one from its holders.
LEMMA HoldersGive ==
    ASSUME NEW S, IsFiniteSet(S),
           NEW f \in [S -> Handles \cup {NoHandle}], NEW l \in S,
           f[l] \in Handles
    PROVE  LET g == [f EXCEPT ![l] = NoHandle] IN
           /\ Cardinality(HoldersIn(S, f, f[l])) > 0
           /\ Cardinality(HoldersIn(S, g, f[l])) = Cardinality(HoldersIn(S, f, f[l])) - 1
           /\ \A k \in Handles : k # f[l] => HoldersIn(S, g, k) = HoldersIn(S, f, k)
<1> DEFINE g == [f EXCEPT ![l] = NoHandle]
           h == f[l]
<1>1. HoldersIn(S, g, h) = HoldersIn(S, f, h) \ {l} /\ l \in HoldersIn(S, f, h)
  BY PoolAssumption DEF HoldersIn
<1>2. \A k \in Handles : k # h => HoldersIn(S, g, k) = HoldersIn(S, f, k)
  BY PoolAssumption DEF HoldersIn
<1>3. HoldersIn(S, g, h) \cup {l} = HoldersIn(S, f, h) /\ l \notin HoldersIn(S, g, h)
  BY <1>1
<1> HIDE DEF g, h
<1>4. Cardinality(HoldersIn(S, f, h)) = Cardinality(HoldersIn(S, g, h)) + 1
  BY <1>3, HoldersFinite, FS_AddElement
<1>5. /\ Cardinality(HoldersIn(S, f, h)) \in Nat
      /\ Cardinality(HoldersIn(S, g, h)) \in Nat
  BY HoldersFinite
<1>6. /\ Cardinality(HoldersIn(S, f, h)) > 0
      /\ Cardinality(HoldersIn(S, g, h)) = Cardinality(HoldersIn(S, f, h)) - 1
  BY <1>4, <1>5
<1> QED
  BY <1>2, <1>6 DEF g, h

\* A handle nobody holds has no holders to count.
LEMMA HoldersNone ==
    ASSUME NEW S, NEW f, NEW h, \A l \in S : f[l] # h
    PROVE  Cardinality(HoldersIn(S, f, h)) = 0
<1>1. HoldersIn(S, f, h) = {}
  BY DEF HoldersIn
<1> QED
  BY <1>1, FS_EmptySet

-----------------------------------------------------------------------------
\* Places of a call at which it has no data set at hand.
Empty ==
    {"closed", "open", "init", "initing", "request", "gdalopen", "gdalopening",
     "asking", "read", "reading", "next", "advancing", "nextfile"}

\* Where a layer may be in which call, and what it holds there.
ShapeOf(l) ==
    /\ call[l] = "none" <=> pc[l] \in {"closed", "open"}
    /\ pc[l] \in {"init", "initing"} => call[l] = "open"
    /\ pc[l] \in {"request", "gdalopen", "gdalopening", "register", "find",
                  "executing", "looking", "describing"} => call[l] \in {"open", "tile"}
    /\ pc[l] \in {"project", "projecting"} => call[l] = "open"
    /\ pc[l] = "asking" => call[l] \in {"read", "tile"}
    /\ pc[l] \in {"next", "advancing", "nextfile", "filter", "filtering"} =>
          call[l] = "tile"
    /\ pc[l] \in {"read", "reading"} => call[l] = "read"
    /\ pc[l] \in {"free", "freeing"} => call[l] \in {"open", "change", "close"}
    /\ pc[l] = "release" => call[l] # "read"
    /\ pc[l] \in InPool => call[l] \in {"open", "close"} /\ l \notin Tiled
    /\ call[l] \in {"tile", "change"} => l \in Tiled
    /\ hDS[l] = NoHandle <=> pc[l] \in Empty
    /\ file[l] = NoHandle <=> pc[l] = "closed" \/ call[l] \in {"open", "close"}
    /\ tile[l] # NoHandle =>
          /\ l \in Tiled /\ pc[l] # "closed"
          /\ call[l] \in {"none", "read", "close"} \/ pc[l] = "asking"

ShapeInv == \A l \in Layers : ShapeOf(l)

\* A thread is in one call at a time.  A mutex is held by a thread that is at
\* a place where it holds it; the converse is true of TLOCK_POOL, and of
\* TLOCK_OGR in the build without the jump behind the lock.
LocksInv ==
    /\ \A l, m \in Layers :
          ThreadOf[l] = ThreadOf[m] /\ call[l] # "none" /\ call[m] # "none" => l = m
    /\ lock["OGR"] # NoThread =>
          \E l \in Layers : ThreadOf[l] = lock["OGR"] /\ pc[l] \in OgrSections
    /\ lock["POOL"] # NoThread =>
          \E l \in Layers : ThreadOf[l] = lock["POOL"] /\ pc[l] \in InPool
    /\ \A l \in Layers : pc[l] \in InPool => lock["POOL"] = ThreadOf[l]
    /\ IgnoreMissingData =>
          \A l \in Layers : /\ pc[l] # "nextfile"
                            /\ pc[l] \in OgrSections => lock["OGR"] = ThreadOf[l]

\* The pooled data set that a layer uses.
User(l) ==
    IF ConnectionOf[l] = NoConnection \/ pc[l] \in InPool \cup {"register"} THEN NoHandle
    ELSE IF hDS[l] # NoHandle THEN hDS[l] ELSE file[l]

UserOf == [l \in Layers |-> User(l)]

\* The data sets that a layer has for itself: those of a tiled layer and one
\* that is to be registered.
Private(l) ==
    IF ConnectionOf[l] = NoConnection THEN {hDS[l], file[l], tile[l]} \ {NoHandle}
    ELSE IF pc[l] = "register" THEN {hDS[l]} ELSE {}

\* Entries of the pool have different data sets, which are open.
EntriesOK ==
    /\ \A i \in DOMAIN connections : dataset[connections[i].conn_handle] = "open"
    /\ \A i, j \in DOMAIN connections :
          connections[i].conn_handle = connections[j].conn_handle => i = j

\* The reference count of an entry is the number of layers that use it.
CountsOK ==
    \A i \in DOMAIN connections :
        connections[i].ref_count =
            Cardinality(HoldersIn(Layers, UserOf, connections[i].conn_handle))

\* A layer uses a data set of its own data source.
UsersOK ==
    \A l \in Layers : User(l) # NoHandle =>
        \E i \in DOMAIN connections : /\ connections[i].conn_handle = User(l)
                                      /\ connections[i].connection = ConnectionOf[l]

\* The entry notes the thread whose layers use its data set.
OwnersOK ==
    \A l \in Layers : \A i \in DOMAIN connections :
        User(l) = connections[i].conn_handle => connections[i].thread_id = ThreadOf[l]

\* A data set that is being closed is in the table and has no reference.
ClosingOK ==
    \A l \in Layers : pc[l] \in InPool =>
        \E i \in DOMAIN connections : /\ connections[i].conn_handle = hDS[l]
                                      /\ connections[i].connection = ConnectionOf[l]
                                      /\ connections[i].ref_count = 0

\* An entry without reference is kept for good or is being closed.
UnusedOK ==
    \A i \in DOMAIN connections : connections[i].ref_count = 0 =>
        \/ connections[i].lifespan = "FOREVER"
        \/ \E l \in Layers : pc[l] \in InPool /\ hDS[l] = connections[i].conn_handle

\* A data set outside of the pool is open and of one layer only.
PrivateOK ==
    \A l \in Layers : \A h \in Private(l) :
        /\ dataset[h] = "open"
        /\ \A i \in DOMAIN connections : connections[i].conn_handle # h
        /\ \A m \in Layers : h \in Private(m) => l = m

PoolInv ==
    EntriesOK /\ CountsOK /\ UsersOK /\ OwnersOK /\ ClosingOK /\ UnusedOK /\ PrivateOK

OgrInv == TypeOK /\ ShapeInv /\ LocksInv /\ PoolInv

-----------------------------------------------------------------------------
(* A step of a layer's thread changes that layer only.                     *)

\* What the step leaves of another layer.
Still(m) ==
    /\ call'[m] = call[m] /\ pc'[m] = pc[m]
    /\ hDS'[m] = hDS[m] /\ file'[m] = file[m] /\ tile'[m] = tile[m]

Local(l) ==
    /\ call' \in [Layers -> Calls]
    /\ pc' \in [Layers -> Places]
    /\ hDS' \in [Layers -> Handles \cup {NoHandle}]
    /\ file' \in [Layers -> Handles \cup {NoHandle}]
    /\ tile' \in [Layers -> Handles \cup {NoHandle}]
    /\ \A m \in Layers : m # l => Still(m)

\* Waiting for TLOCK_OGR and taking it moves the layer into the section.
LEMMA EnterLocal ==
    ASSUME TypeOK, NEW l \in Layers, NEW from, NEW to \in Places, Enter(l, from, to)
    PROVE  /\ Local(l)
           /\ call'[l] = call[l] /\ pc'[l] = to /\ hDS'[l] = hDS[l]
           /\ file'[l] = file[l] /\ tile'[l] = tile[l]
BY DEF TypeOK, Enter, Goto, Local, Still, layerVars

\* An open that fails leaves the layer closed, or the tiled layer open or on
\* its way to the next tile.
LEMMA FailsLocal ==
    ASSUME TypeOK, ShapeInv, NEW l \in Layers, OpenFails(l), pc[l] # "asking",
           hDS' = [hDS EXCEPT ![l] = NoHandle], UNCHANGED <<file, tile>>
    PROVE  /\ Local(l) /\ ShapeOf(l)' /\ hDS'[l] = NoHandle
           /\ l \notin Tiled => pc'[l] = "closed"
<1> USE DEF Empty, InPool, Places, OgrSections, OgrUnlocked, WantPool, WantOgr, Calls
<1>1. ShapeOf(l)
  BY DEF ShapeInv
<1>2. /\ call \in [Layers -> Calls] /\ pc \in [Layers -> Places]
      /\ hDS \in [Layers -> Handles \cup {NoHandle}]
      /\ file \in [Layers -> Handles \cup {NoHandle}]
      /\ tile \in [Layers -> Handles \cup {NoHandle}]
      /\ NoHandle \notin Handles
  BY PoolAssumption DEF TypeOK
<1>3. CASE call[l] = "open" /\ Return(l, "closed")
  BY <1>1, <1>2, <1>3 DEF Return, Goto, Local, Still, ShapeOf
<1>4. CASE call[l] = "tile" /\ Return(l, "open")
  BY <1>1, <1>2, <1>4 DEF Return, Goto, Local, Still, ShapeOf
<1>5. CASE call[l] = "tile" /\ Goto(l, "nextfile") /\ UNCHANGED call
  BY <1>1, <1>2, <1>5 DEF Goto, Local, Still, ShapeOf
<1> QED
  BY <1>3, <1>4, <1>5 DEF OpenFails

\* After a release the layer is closed, at its tile or at the tile index.
LEMMA ReleasedLocal ==
    ASSUME TypeOK, ShapeInv, NEW l \in Layers, pc[l] \in {"release", "destroying"},
           Released(l), UNCHANGED file
    PROVE  /\ Local(l) /\ ShapeOf(l)'
           /\ l \notin Tiled => pc'[l] = "closed" /\ hDS'[l] = NoHandle
<1> USE DEF Empty, InPool, Places, OgrSections, OgrUnlocked, WantPool, WantOgr, Calls
<1>1. ShapeOf(l)
  BY DEF ShapeInv
<1>2. /\ call \in [Layers -> Calls] /\ pc \in [Layers -> Places]
      /\ hDS \in [Layers -> Handles \cup {NoHandle}]
      /\ file \in [Layers -> Handles \cup {NoHandle}]
      /\ tile \in [Layers -> Handles \cup {NoHandle}]
      /\ NoHandle \notin Handles
  BY PoolAssumption DEF TypeOK
<1>3. CASE call[l] = "close" /\ tile[l] # NoHandle
  BY <1>1, <1>2, <1>3 DEF Released, Goto, Set, Local, Still, ShapeOf
<1>4. CASE call[l] = "close" /\ tile[l] = NoHandle
  BY <1>1, <1>2, <1>4 DEF Released, Return, Goto, Set, Local, Still, ShapeOf
<1>5. CASE call[l] = "change"
  BY <1>1, <1>2, <1>5 DEF Released, Goto, Set, Local, Still, ShapeOf
<1>6. CASE call[l] \notin {"close", "change"}
  <2>1. hDS' = [hDS EXCEPT ![l] = NoHandle] /\ OpenFails(l) /\ UNCHANGED tile
    BY <1>6 DEF Released, Set
  <2> QED
    BY <2>1, FailsLocal
<1> QED
  BY <1>3, <1>4, <1>5, <1>6

\* The whole shape of a layer after a step follows from the values it has.
LEMMA ShapeStep ==
    ASSUME TypeOK, ShapeInv, NEW l \in Layers, CallStep(l) \/ InnerStep(l)
    PROVE  Local(l) /\ ShapeOf(l)'
<1> USE DEF Empty, InPool, Places, OgrSections, OgrUnlocked, WantPool, WantOgr, Calls
<1>1. ShapeOf(l)
  BY DEF ShapeInv
<1>2. /\ call \in [Layers -> Calls] /\ pc \in [Layers -> Places]
      /\ hDS \in [Layers -> Handles \cup {NoHandle}]
      /\ file \in [Layers -> Handles \cup {NoHandle}]
      /\ tile \in [Layers -> Handles \cup {NoHandle}]
      /\ connections \in Seq(connectionObj) /\ NoHandle \notin Handles
  BY PoolAssumption DEF TypeOK
<1>3. CASE InitializeEnter(l)
  <2>1. Enter(l, "init", "initing") /\ pc[l] = "init"
    BY <1>3 DEF InitializeEnter, Enter
  <2> QED
    BY <1>1, <2>1, EnterLocal DEF ShapeOf
<1>4. CASE GdalOpenEnter(l)
  <2>1. Enter(l, "gdalopen", "gdalopening") /\ pc[l] = "gdalopen"
    BY <1>4 DEF GdalOpenEnter, Enter
  <2> QED
    BY <1>1, <2>1, EnterLocal DEF ShapeOf
<1>5. CASE ExecuteEnter(l)
  <2>1. Enter(l, "find", "executing") /\ pc[l] = "find"
    BY <1>5 DEF ExecuteEnter, Enter
  <2> QED
    BY <1>1, <2>1, EnterLocal DEF ShapeOf
<1>6. CASE FreeEnter(l)
  <2>1. Enter(l, "free", "freeing") /\ pc[l] = "free"
    BY <1>6 DEF FreeEnter, Enter
  <2> QED
    BY <1>1, <2>1, EnterLocal DEF ShapeOf
<1>7. CASE DestroyEnter(l)
  <2>1. Enter(l, "destroy", "destroying") /\ pc[l] = "destroy"
    BY <1>7 DEF DestroyEnter, Enter
  <2> QED
    BY <1>1, <2>1, EnterLocal DEF ShapeOf
<1>8. CASE ReadEnter(l)
  <2>1. Enter(l, "read", "reading") /\ pc[l] = "read"
    BY <1>8 DEF ReadEnter, Enter
  <2> QED
    BY <1>1, <2>1, EnterLocal DEF ShapeOf
<1>9. CASE NextFileEnter(l)
  <2>1. Enter(l, "next", "advancing") /\ pc[l] = "next"
    BY <1>9 DEF NextFileEnter, Enter
  <2> QED
    BY <1>1, <2>1, EnterLocal DEF ShapeOf
<1>10. CASE FilterEnter(l)
  <2>1. Enter(l, "filter", "filtering") /\ pc[l] = "filter"
    BY <1>10 DEF FilterEnter, Enter
  <2> QED
    BY <1>1, <2>1, EnterLocal DEF ShapeOf
<1>32. CASE ProjectEnter(l)
  <2>1. Enter(l, "project", "projecting") /\ pc[l] = "project"
    BY <1>32 DEF ProjectEnter, Enter
  <2> QED
    BY <1>1, <2>1, EnterLocal DEF ShapeOf
<1>33. CASE LookedUp(l)
  BY <1>1, <1>2, <1>33 DEF LookedUp, Goto, Local, Still, ShapeOf, layerVars
<1>34. CASE Project(l)
  <2>1. CASE Keep(l)
    BY <1>1, <1>2, <1>34, <2>1 DEF Project, Keep, Goto, Return, Set, Local, Still, ShapeOf
  <2>2. CASE Goto(l, "free") /\ UNCHANGED <<call, file, hDS>>
    BY <1>1, <1>2, <1>34, <2>2 DEF Project, Goto, Local, Still, ShapeOf
  <2> QED
    BY <1>34, <2>1, <2>2 DEF Project
<1>35. CASE Asked(l)
  BY <1>1, <1>2, <1>35 DEF Asked, Goto, Return, Local, Still, ShapeOf, layerVars
<1>11. CASE LayerOpen(l)
  BY <1>1, <1>2, <1>11 DEF LayerOpen, Start, Goto, Local, Still, ShapeOf, layerVars
<1>12. CASE Initialize(l)
  BY <1>1, <1>2, <1>12 DEF Initialize, Goto, Local, Still, ShapeOf, layerVars
<1>13. CASE RequestMiss(l)
  BY <1>1, <1>2, <1>13 DEF RequestMiss, Goto, Local, Still, ShapeOf, layerVars
<1>14. CASE RequestHit(l)
  <2>1. PICK i \in DOMAIN connections : hDS' = [hDS EXCEPT ![l] = connections[i].conn_handle]
    <3>1. PICK i \in Requestable(connections, ConnectionOf[l], ThreadOf[l]) :
             hDS' = Set(hDS, l, connections[i].conn_handle)
      BY <1>14 DEF RequestHit
    <3>2. i \in DOMAIN connections
      BY DEF Requestable
    <3> QED
      BY <3>1, <3>2 DEF Set
  <2>2. connections[i].conn_handle \in Handles
    <3>1. connections[i] \in connectionObj
      BY <1>2
    <3> QED
      BY <3>1 DEF connectionObj
  <2> QED
    BY <1>1, <1>2, <1>14, <2>1, <2>2 DEF RequestHit, Goto, Local, Still, ShapeOf
<1>15. CASE Register(l)
  BY <1>1, <1>2, <1>15 DEF Register, Goto, Local, Still, ShapeOf, layerVars
<1>16. CASE Execute(l)
  BY <1>1, <1>2, <1>16 DEF Execute, Goto, Local, Still, ShapeOf, layerVars
<1>17. CASE LookUp(l)
  BY <1>1, <1>2, <1>17 DEF LookUp, Goto, Local, Still, ShapeOf, layerVars
<1>18. CASE LayerOpened(l)
  <2>1. CASE Keep(l)
    BY <1>1, <1>2, <1>18, <2>1 DEF LayerOpened, Keep, Goto, Return, Set, Local, Still, ShapeOf
  <2>2. CASE Goto(l, "project") /\ UNCHANGED <<call, file, hDS>>
    BY <1>1, <1>2, <1>18, <2>2 DEF LayerOpened, Goto, Local, Still, ShapeOf
  <2>3. CASE Goto(l, "free") /\ UNCHANGED <<call, file, hDS>>
    BY <1>1, <1>2, <1>18, <2>3 DEF LayerOpened, Goto, Local, Still, ShapeOf
  <2> QED
    BY <1>18, <2>1, <2>2, <2>3 DEF LayerOpened
<1>19. CASE FreeResults(l)
  BY <1>1, <1>2, <1>19 DEF FreeResults, Goto, Local, Still, ShapeOf, layerVars
<1>20. CASE LayerClose(l)
  BY <1>1, <1>2, <1>20 DEF LayerClose, Start, Goto, Set, Local, Still, ShapeOf, layerVars
<1>21. CASE StartRead(l)
  BY <1>1, <1>2, <1>21 DEF StartRead, Start, Goto, Local, Still, ShapeOf, layerVars
<1>22. CASE ReadDone(l)
  BY <1>1, <1>2, <1>22 DEF ReadDone, Return, Goto, Local, Still, ShapeOf, layerVars
<1>23. CASE ReadTile(l)
  <2>1. CASE tile[l] = NoHandle
    BY <1>1, <1>2, <1>23, <2>1 DEF ReadTile, Start, Goto, Set, Local, Still, ShapeOf, layerVars
  <2>2. CASE tile[l] # NoHandle
    BY <1>1, <1>2, <1>23, <2>2 DEF ReadTile, Start, Goto, Set, Local, Still, ShapeOf, layerVars
  <2> QED
    BY <2>1, <2>2
<1>24. CASE NextFile(l)
  BY <1>1, <1>2, <1>24 DEF NextFile, NextTile, Return, Goto, Local, Still, ShapeOf, layerVars
<1>25. CASE NextFileUnlocked(l)
  BY <1>1, <1>2, <1>25 DEF NextFileUnlocked, NextTile, Return, Goto, Local, Still, ShapeOf, layerVars
<1>26. CASE TileOpened(l)
  <2>1. CASE Goto(l, "filter") /\ UNCHANGED <<call, hDS, tile>>
    BY <1>1, <1>2, <1>26, <2>1 DEF TileOpened, Goto, Local, Still, ShapeOf
  <2>2. CASE Forget(l) /\ hDS' = Set(hDS, l, NoHandle)
    BY <1>1, <1>2, <1>26, <2>2 DEF TileOpened, Forget, Return, Goto, Set, Local, Still, ShapeOf
  <2>3. CASE Current(l) /\ hDS' = Set(hDS, l, NoHandle)
    BY <1>1, <1>2, <1>26, <2>3 DEF TileOpened, Current, Goto, Set, Local, Still, ShapeOf
  <2> QED
    BY <1>26, <2>1, <2>2, <2>3 DEF TileOpened
<1>27. CASE FilterTile(l)
  BY <1>1, <1>2, <1>27 DEF FilterTile, Forget, Current, Return, Goto, Set, Local, Still, ShapeOf, layerVars
<1>28. CASE GdalOpen(l)
  <2>1. CASE OpenFails(l) /\ UNCHANGED hDS
    <3>1. hDS' = [hDS EXCEPT ![l] = NoHandle]
      BY <1>1, <1>2, <1>28, <2>1 DEF GdalOpen, ShapeOf
    <3> QED
      BY <1>28, <2>1, <3>1, FailsLocal DEF GdalOpen
  <2>2. CASE ~(OpenFails(l) /\ UNCHANGED hDS)
    <3>1. PICK h \in Handles : hDS' = [hDS EXCEPT ![l] = h]
      BY <1>28, <2>2 DEF GdalOpen, Set
    <3>2. pc' = [pc EXCEPT ![l] = "register"] /\ UNCHANGED <<call, file, tile>>
          /\ pc[l] = "gdalopening"
      BY <1>28, <2>2 DEF GdalOpen, Goto
    <3> QED
      BY <1>1, <1>2, <3>1, <3>2 DEF Local, Still, ShapeOf
  <2> QED
    BY <2>1, <2>2
<1>29. CASE ReleaseNothing(l)
  BY <1>29, ReleasedLocal DEF ReleaseNothing
<1>30. CASE ReleaseConnection(l)
  <2>1. pc[l] = "release" /\ UNCHANGED file
    BY <1>30 DEF ReleaseConnection
  <2>2. CASE Released(l)
    BY <2>1, <2>2, ReleasedLocal
  <2>3. CASE ~Released(l)
    <3>1. pc' = [pc EXCEPT ![l] = "destroy"] /\ UNCHANGED <<call, hDS, tile>>
          /\ ConnectionOf[l] # NoConnection
      BY <1>30, <2>3 DEF ReleaseConnection, Goto
    <3>2. l \notin Tiled
      BY <3>1, OgrAssumption
    <3> QED
      BY <1>1, <1>2, <2>1, <3>1, <3>2 DEF Local, Still, ShapeOf
  <2> QED
    BY <2>2, <2>3
<1>31. CASE Destroy(l)
  BY <1>31, ReleasedLocal DEF Destroy
<1> QED
  BY <1>3, <1>4, <1>5, <1>6, <1>7, <1>8, <1>9, <1>10, <1>11, <1>12, <1>13, <1>14, <1>15, <1>16, <1>17, <1>18, <1>19, <1>20, <1>21, <1>22, <1>23, <1>24, <1>25, <1>26, <1>27, <1>28, <1>29, <1>30, <1>31, <1>32, <1>33, <1>34, <1>35
  DEF CallStep, InnerStep

\* The shapes are preserved, whoever moves.
LEMMA ShapeKept ==
    ASSUME TypeOK, ShapeInv, NEW l \in Layers, Local(l), ShapeOf(l)'
    PROVE  ShapeInv'
<1>1. ASSUME NEW m \in Layers, m # l PROVE ShapeOf(m)'
  <2>1. ShapeOf(m)
    BY DEF ShapeInv
  <2>2. Still(m)
    BY <1>1 DEF Local
  <2> QED
    BY <2>1, <2>2 DEF ShapeOf, Still
<1> QED
  BY <1>1 DEF ShapeInv

-----------------------------------------------------------------------------
(* Who holds a mutex is where it is held.                                  *)

\* How a step treats TLOCK_OGR: it leaves it alone outside of the sections,
\* enters one, or leaves one.
OgrTurn(l) ==
    \/ lock'["OGR"] = lock["OGR"] /\ pc[l] \notin OgrSections /\ pc'[l] \notin OgrSections
    \/ /\ lock["OGR"] = NoThread /\ lock'["OGR"] = ThreadOf[l]
       /\ pc'[l] \in OgrSections
    \/ /\ lock'["OGR"] = NoThread
       /\ pc[l] \in OgrSections \cup {"nextfile"} /\ pc'[l] \notin OgrSections

\* The same of TLOCK_POOL.
PoolTurn(l) ==
    \/ lock'["POOL"] = lock["POOL"] /\ (pc[l] \in InPool <=> pc'[l] \in InPool)
    \/ lock["POOL"] = NoThread /\ lock'["POOL"] = ThreadOf[l] /\ pc'[l] \in InPool
    \/ lock'["POOL"] = NoThread /\ pc[l] \in InPool /\ pc'[l] \notin InPool

\* A call starts when the thread is in no other, and the build stays what it is.
CallTurn(l) ==
    /\ call'[l] = "none" \/ call[l] # "none" \/ Idle(ThreadOf[l])
    /\ UNCHANGED IgnoreMissingData
    /\ IgnoreMissingData => pc'[l] # "nextfile"

\* A thread that is inside of a section is in a call.
LEMMA Busy ==
    ASSUME ShapeInv, NEW m \in Layers, pc[m] \in OgrSections \cup InPool
    PROVE  call[m] # "none"
BY DEF ShapeInv, ShapeOf, OgrSections, InPool

\* Such a step preserves what is known about the mutexes.
LEMMA LocksStep ==
    ASSUME TypeOK, ShapeInv, LocksInv, NEW l \in Layers, Local(l),
           OgrTurn(l), PoolTurn(l), CallTurn(l)
    PROVE  LocksInv'
<1>1. \A m \in Layers : m # l => call'[m] = call[m] /\ pc'[m] = pc[m]
  BY DEF Local, Still
<1>2. \A m, k \in Layers :
         ThreadOf[m] = ThreadOf[k] /\ call[m] # "none" /\ call[k] # "none" => m = k
  BY DEF LocksInv
<1>3. /\ \A m \in Layers : ThreadOf[m] \in Threads
      /\ NoThread \notin Threads
  BY PoolAssumption, OgrAssumption
<1>4. \A m \in Layers : pc[m] \in OgrSections \cup InPool => call[m] # "none"
  BY Busy
<1>5. ASSUME NEW m \in Layers, NEW k \in Layers, ThreadOf[m] = ThreadOf[k],
             call'[m] # "none", call'[k] # "none"
      PROVE  m = k
  <2>1. CASE m # l /\ k # l
    BY <1>1, <1>2, <1>5, <2>1
  <2>2. CASE m = l
    BY <1>1, <1>2, <1>5, <2>2 DEF CallTurn, Idle
  <2>3. CASE k = l
    BY <1>1, <1>2, <1>5, <2>3 DEF CallTurn, Idle
  <2> QED
    BY <2>1, <2>2, <2>3
<1>6. ASSUME lock'["OGR"] # NoThread
      PROVE  \E m \in Layers : ThreadOf[m] = lock'["OGR"] /\ pc'[m] \in OgrSections
  <2>1. CASE lock'["OGR"] = lock["OGR"] /\ pc[l] \notin OgrSections
    <3>1. PICK m \in Layers : ThreadOf[m] = lock["OGR"] /\ pc[m] \in OgrSections
      BY <1>6, <2>1 DEF LocksInv
    <3> QED
      BY <1>1, <2>1, <3>1
  <2>2. CASE lock'["OGR"] = ThreadOf[l] /\ pc'[l] \in OgrSections
    BY <2>2
  <2> QED
    BY <1>6, <2>1, <2>2 DEF OgrTurn
<1>7. ASSUME lock'["POOL"] # NoThread
      PROVE  \E m \in Layers : ThreadOf[m] = lock'["POOL"] /\ pc'[m] \in InPool
  <2>1. CASE lock'["POOL"] = lock["POOL"] /\ (pc[l] \in InPool <=> pc'[l] \in InPool)
    <3>1. PICK m \in Layers : ThreadOf[m] = lock["POOL"] /\ pc[m] \in InPool
      BY <1>7, <2>1 DEF LocksInv
    <3>2. pc'[m] \in InPool
      BY <1>1, <2>1, <3>1
    <3> QED
      BY <2>1, <3>1, <3>2
  <2>2. CASE lock'["POOL"] = ThreadOf[l] /\ pc'[l] \in InPool
    BY <2>2
  <2> QED
    BY <1>7, <2>1, <2>2 DEF PoolTurn
<1>8. ASSUME NEW m \in Layers, pc'[m] \in InPool
      PROVE  lock'["POOL"] = ThreadOf[m]
  <2>1. \A k \in Layers : pc[k] \in InPool => lock["POOL"] = ThreadOf[k]
    BY DEF LocksInv
  <2>2. CASE m = l
    BY <1>8, <2>1, <2>2 DEF PoolTurn
  <2>3. CASE m # l
    <3>1. pc[m] \in InPool /\ lock["POOL"] = ThreadOf[m] /\ lock["POOL"] # NoThread
      BY <1>1, <1>3, <1>8, <2>1, <2>3
    <3>2. pc[l] \notin InPool
      BY <1>2, <1>4, <2>1, <2>3, <3>1
    <3> QED
      BY <3>1, <3>2 DEF PoolTurn
  <2> QED
    BY <2>2, <2>3
<1>9. ASSUME IgnoreMissingData', NEW m \in Layers
      PROVE  /\ pc'[m] # "nextfile"
             /\ pc'[m] \in OgrSections => lock'["OGR"] = ThreadOf[m]
  <2>1. /\ IgnoreMissingData
        /\ \A k \in Layers : /\ pc[k] # "nextfile"
                             /\ pc[k] \in OgrSections => lock["OGR"] = ThreadOf[k]
    BY <1>9 DEF CallTurn, LocksInv
  <2>2. CASE m = l
    BY <2>1, <2>2 DEF OgrTurn, CallTurn
  <2>3. CASE m # l
    <3> SUFFICES ASSUME pc[m] \in OgrSections PROVE lock'["OGR"] = ThreadOf[m]
      BY <1>1, <2>1, <2>3
    <3>1. lock["OGR"] = ThreadOf[m] /\ lock["OGR"] # NoThread
      BY <1>3, <2>1
    <3>2. pc[l] \notin OgrSections
      <4> SUFFICES ASSUME pc[l] \in OgrSections PROVE FALSE
        OBVIOUS
      <4>1. ThreadOf[m] = ThreadOf[l]
        BY <2>1, <3>1
      <4>2. call[m] # "none" /\ call[l] # "none"
        BY <1>4, Zenon
      <4> QED
        BY <1>2, <2>3, <4>1, <4>2
    <3> QED
      BY <2>1, <3>1, <3>2 DEF OgrTurn
  <2> QED
    BY <2>2, <2>3
<1> QED
  BY <1>5, <1>6, <1>7, <1>8, <1>9 DEF LocksInv

\* Every step of a layer's thread treats the mutexes so.
LEMMA TurnsStep ==
    ASSUME TypeOK, ShapeInv, NEW l \in Layers, CallStep(l) \/ InnerStep(l)
    PROVE  OgrTurn(l) /\ PoolTurn(l) /\ CallTurn(l)
<1> USE DEF InPool, OgrSections, OgrTurn, PoolTurn, CallTurn
<1>1. ShapeOf(l)
  BY DEF ShapeInv
<1>2. /\ call \in [Layers -> Calls] /\ pc \in [Layers -> Places]
      /\ lock \in [{"POOL", "OGR"} -> Threads \cup {NoThread}]
  BY DEF TypeOK, Locks
<1>3. CASE InitializeEnter(l)
  BY <1>1, <1>2, <1>3 DEF InitializeEnter, Enter, Acquire, Free, Goto, driverVars, ShapeOf
<1>4. CASE GdalOpenEnter(l)
  BY <1>1, <1>2, <1>4 DEF GdalOpenEnter, Enter, Acquire, Free, Goto, driverVars, ShapeOf
<1>5. CASE ExecuteEnter(l)
  BY <1>1, <1>2, <1>5 DEF ExecuteEnter, Enter, Acquire, Free, Goto, driverVars, ShapeOf
<1>6. CASE FreeEnter(l)
  BY <1>1, <1>2, <1>6 DEF FreeEnter, Enter, Acquire, Free, Goto, driverVars, ShapeOf
<1>7. CASE DestroyEnter(l)
  BY <1>1, <1>2, <1>7 DEF DestroyEnter, Enter, Acquire, Free, Goto, driverVars, ShapeOf
<1>8. CASE ReadEnter(l)
  BY <1>1, <1>2, <1>8 DEF ReadEnter, Enter, Acquire, Free, Goto, driverVars, ShapeOf
<1>9. CASE NextFileEnter(l)
  BY <1>1, <1>2, <1>9 DEF NextFileEnter, Enter, Acquire, Free, Goto, driverVars, ShapeOf
<1>10. CASE FilterEnter(l)
  BY <1>1, <1>2, <1>10 DEF FilterEnter, Enter, Acquire, Free, Goto, driverVars, ShapeOf
<1>33. CASE ProjectEnter(l)
  BY <1>1, <1>2, <1>33 DEF ProjectEnter, Enter, Acquire, Free, Goto, driverVars, ShapeOf
<1>34. CASE LookedUp(l)
  BY <1>1, <1>2, <1>34 DEF LookedUp, Goto, driverVars, ShapeOf
<1>35. CASE Project(l)
  BY <1>1, <1>2, <1>35 DEF Project, Keep, Release, Return, Goto, driverVars, ShapeOf
<1>36. CASE Asked(l)
  BY <1>1, <1>2, <1>36 DEF Asked, Goto, Return, driverVars, ShapeOf
<1>11. CASE Initialize(l)
  BY <1>1, <1>2, <1>11 DEF Initialize, Release, Goto, driverVars, ShapeOf
<1>12. CASE Execute(l)
  BY <1>1, <1>2, <1>12 DEF Execute, Release, Goto, driverVars, ShapeOf
<1>13. CASE FreeResults(l)
  BY <1>1, <1>2, <1>13 DEF FreeResults, Release, Goto, driverVars, ShapeOf
<1>14. CASE ReadDone(l)
  BY <1>1, <1>2, <1>14 DEF ReadDone, Release, Return, Goto, driverVars, ShapeOf
<1>15. CASE NextFile(l)
  BY <1>1, <1>2, <1>15 DEF NextFile, Release, NextTile, Return, Goto, driverVars, ShapeOf
<1>16. CASE NextFileUnlocked(l)
  BY <1>1, <1>2, <1>16 DEF NextFileUnlocked, Release, NextTile, Return, Goto, driverVars, ShapeOf
<1>17. CASE FilterTile(l)
  BY <1>1, <1>2, <1>17 DEF FilterTile, Forget, Current, Release, Return, Goto, driverVars, ShapeOf
<1>18. CASE GdalOpen(l)
  BY <1>1, <1>2, <1>18 DEF GdalOpen, Release, OpenFails, Return, Goto, driverVars, ShapeOf
<1>19. CASE LayerOpen(l)
  BY <1>1, <1>2, <1>19 DEF LayerOpen, Start, Goto, driverVars, ShapeOf
<1>20. CASE RequestMiss(l)
  BY <1>1, <1>2, <1>20 DEF RequestMiss, Goto, driverVars, ShapeOf
<1>21. CASE RequestHit(l)
  BY <1>1, <1>2, <1>21 DEF RequestHit, Goto, driverVars, ShapeOf
<1>22. CASE Register(l)
  BY <1>1, <1>2, <1>22 DEF Register, Goto, driverVars, ShapeOf
<1>23. CASE LookUp(l)
  BY <1>1, <1>2, <1>23 DEF LookUp, Goto, driverVars, ShapeOf
<1>24. CASE LayerOpened(l)
  BY <1>1, <1>2, <1>24 DEF LayerOpened, Keep, Goto, Return, driverVars, ShapeOf
<1>25. CASE LayerClose(l)
  BY <1>1, <1>2, <1>25 DEF LayerClose, Start, Goto, driverVars, ShapeOf
<1>26. CASE StartRead(l)
  BY <1>1, <1>2, <1>26 DEF StartRead, Start, Goto, driverVars, ShapeOf
<1>27. CASE ReadTile(l)
  BY <1>1, <1>2, <1>27 DEF ReadTile, Start, Goto, driverVars, ShapeOf
<1>28. CASE TileOpened(l)
  BY <1>1, <1>2, <1>28 DEF TileOpened, Forget, Current, Return, Goto, driverVars, ShapeOf
<1>29. ASSUME pc[l] \in {"release", "destroying"}, Released(l)
      PROVE  /\ pc'[l] \notin OgrSections \cup InPool
             /\ call'[l] = "none" \/ call[l] # "none"
             /\ IgnoreMissingData => pc'[l] # "nextfile"
  <2>1. CASE call[l] = "close" /\ tile[l] # NoHandle
    BY <1>1, <1>2, <1>29, <2>1 DEF Released, Goto
  <2>2. CASE call[l] = "close" /\ tile[l] = NoHandle
    BY <1>1, <1>2, <1>29, <2>2 DEF Released, Return, Goto
  <2>3. CASE call[l] = "change"
    BY <1>1, <1>2, <1>29, <2>3 DEF Released, Goto
  <2>4. CASE call[l] \notin {"close", "change"}
    <3>1. OpenFails(l)
      BY <1>29, <2>4 DEF Released
    <3> QED
      BY <1>1, <1>2, <3>1 DEF OpenFails, Return, Goto
  <2> QED
    BY <2>1, <2>2, <2>3, <2>4
<1>30. CASE ReleaseNothing(l)
  BY <1>29, <1>30 DEF ReleaseNothing, driverVars
<1>31. CASE ReleaseConnection(l)
  <2>1. pc[l] = "release" /\ UNCHANGED IgnoreMissingData
    BY <1>31 DEF ReleaseConnection, driverVars
  <2>2. CASE Released(l) /\ UNCHANGED lock
    BY <1>29, <2>1, <2>2
  <2>3. CASE ~(Released(l) /\ UNCHANGED lock)
    <3>1. Acquire("POOL", l) /\ Goto(l, "destroy") /\ UNCHANGED call
      BY <1>31, <2>3 DEF ReleaseConnection
    <3> QED
      BY <1>1, <1>2, <2>1, <3>1 DEF Acquire, Free, Goto, ShapeOf
  <2> QED
    BY <2>2, <2>3
<1>32. CASE Destroy(l)
  <2>1. /\ pc[l] = "destroying" /\ Released(l) /\ UNCHANGED IgnoreMissingData
        /\ lock'["OGR"] = NoThread /\ lock'["POOL"] = NoThread
    BY <1>32 DEF Destroy, driverVars, Locks
  <2> QED
    BY <1>29, <2>1
<1> QED
  BY <1>3, <1>4, <1>5, <1>6, <1>7, <1>8, <1>9, <1>10, <1>11, <1>12, <1>13, <1>14, <1>15, <1>16, <1>17, <1>18, <1>19, <1>20, <1>21, <1>22, <1>23, <1>24, <1>25, <1>26, <1>27, <1>28, <1>30, <1>31, <1>32, <1>33, <1>34, <1>35, <1>36
  DEF CallStep, InnerStep

-----------------------------------------------------------------------------
(* The pool: steps that leave it and its users alone.                      *)

\* What is used is a data set or nothing.
LEMMA UserType ==
    ASSUME TypeOK
    PROVE  /\ UserOf \in [Layers -> Handles \cup {NoHandle}]
           /\ \A l \in Layers : UserOf[l] = User(l) /\ User(l) \in Handles \cup {NoHandle}
<1>1. \A l \in Layers : User(l) \in Handles \cup {NoHandle}
  BY DEF TypeOK, User
<1> QED
  BY <1>1 DEF UserOf

\* Only the layer that moves can change what it uses or has for itself.
LEMMA OthersKeep ==
    ASSUME NEW l \in Layers, Local(l), NEW m \in Layers, m # l
    PROVE  /\ User(m)' = User(m) /\ Private(m)' = Private(m)
           /\ pc'[m] = pc[m] /\ hDS'[m] = hDS[m]
<1>1. Still(m)
  BY DEF Local
<1>2. User(m)' = User(m)
  BY <1>1 DEF Still, User
<1>3. Private(m)' = Private(m)
  BY <1>1 DEF Still, Private
<1> QED
  BY <1>1, <1>2, <1>3 DEF Still

\* What a layer holds of the pool stays as it is.
Quiet(l) ==
    /\ User(l)' = User(l)
    /\ Private(l)' \subseteq Private(l)
    /\ pc[l] \in InPool <=> pc'[l] \in InPool
    /\ pc[l] \in InPool => hDS'[l] = hDS[l]

\* The pool agrees with its users after such a step, too.
LEMMA QuietPool ==
    ASSUME PoolInv, NEW l \in Layers, Local(l), Quiet(l), UNCHANGED <<connections, dataset>>
    PROVE  PoolInv'
<1>1. \A m \in Layers : Quiet(m)
  <2> SUFFICES ASSUME NEW m \in Layers, m # l PROVE Quiet(m)
    OBVIOUS
  <2>1. /\ User(m)' = User(m) /\ Private(m)' = Private(m)
        /\ pc'[m] = pc[m] /\ hDS'[m] = hDS[m]
    BY OthersKeep
  <2> QED
    BY <2>1 DEF Quiet
<1>2. UserOf' = UserOf
  BY <1>1 DEF UserOf, Quiet
<1>3. EntriesOK'
  BY DEF PoolInv, EntriesOK
<1>4. CountsOK'
  BY <1>2 DEF PoolInv, CountsOK, HoldersIn
<1>5. UsersOK'
  BY <1>1 DEF PoolInv, UsersOK, Quiet
<1>8. OwnersOK'
  BY <1>1 DEF PoolInv, OwnersOK, Quiet
<1>6. ClosingOK' /\ UnusedOK'
  BY <1>1 DEF PoolInv, ClosingOK, UnusedOK, Quiet
<1>7. PrivateOK'
  BY <1>1 DEF PoolInv, PrivateOK, Quiet
<1> QED
  BY <1>3, <1>4, <1>5, <1>6, <1>7, <1>8 DEF PoolInv

\* The steps that leave the pool alone.
QuietAction(l) ==
    \/ LayerOpen(l) \/ LayerClose(l) \/ StartRead(l) \/ ReadTile(l)
    \/ InitializeEnter(l) \/ Initialize(l) \/ RequestMiss(l) \/ GdalOpenEnter(l)
    \/ ExecuteEnter(l) \/ Execute(l) \/ LookUp(l) \/ LookedUp(l) \/ LayerOpened(l)
    \/ ProjectEnter(l) \/ Project(l) \/ Asked(l) \/ FreeEnter(l) \/ FreeResults(l) \/ ReleaseNothing(l) \/ DestroyEnter(l)
    \/ ReadEnter(l) \/ ReadDone(l) \/ NextFileEnter(l) \/ NextFile(l)
    \/ NextFileUnlocked(l) \/ TileOpened(l) \/ FilterEnter(l) \/ FilterTile(l)

\* They only move a data set from one place of the layer to another, or, of a
\* tiled layer, forget it.
LEMMA QuietStep ==
    ASSUME TypeOK, ShapeInv, NEW l \in Layers, QuietAction(l)
    PROVE  Quiet(l) /\ UNCHANGED <<connections, dataset>>
<1> USE DEF Empty, InPool, Quiet, poolVars
<1>1. ShapeOf(l)
  BY DEF ShapeInv
<1>2. /\ call \in [Layers -> Calls] /\ pc \in [Layers -> Places]
      /\ hDS \in [Layers -> Handles \cup {NoHandle}]
      /\ file \in [Layers -> Handles \cup {NoHandle}]
      /\ tile \in [Layers -> Handles \cup {NoHandle}]
      /\ NoHandle \notin Handles
      /\ l \in Tiled <=> ConnectionOf[l] = NoConnection
  BY PoolAssumption, OgrAssumption DEF TypeOK
<1> USE DEF User, Private
<1>3. CASE InitializeEnter(l)
  BY <1>1, <1>2, <1>3 DEF InitializeEnter, Enter, Goto, layerVars, ShapeOf
<1>4. CASE GdalOpenEnter(l)
  BY <1>1, <1>2, <1>4 DEF GdalOpenEnter, Enter, Goto, layerVars, ShapeOf
<1>5. CASE ExecuteEnter(l)
  BY <1>1, <1>2, <1>5 DEF ExecuteEnter, Enter, Goto, layerVars, ShapeOf
<1>6. CASE FreeEnter(l)
  BY <1>1, <1>2, <1>6 DEF FreeEnter, Enter, Goto, layerVars, ShapeOf
<1>7. CASE DestroyEnter(l)
  BY <1>1, <1>2, <1>7 DEF DestroyEnter, Enter, Goto, layerVars, ShapeOf
<1>8. CASE ReadEnter(l)
  BY <1>1, <1>2, <1>8 DEF ReadEnter, Enter, Goto, layerVars, ShapeOf
<1>9. CASE NextFileEnter(l)
  BY <1>1, <1>2, <1>9 DEF NextFileEnter, Enter, Goto, layerVars, ShapeOf
<1>10. CASE FilterEnter(l)
  BY <1>1, <1>2, <1>10 DEF FilterEnter, Enter, Goto, layerVars, ShapeOf
<1>27. CASE ProjectEnter(l)
  BY <1>1, <1>2, <1>27 DEF ProjectEnter, Enter, Goto, layerVars, ShapeOf
<1>28. CASE LookedUp(l)
  BY <1>1, <1>2, <1>28 DEF LookedUp, Goto, layerVars, ShapeOf
<1>29. CASE Project(l)
  BY <1>1, <1>2, <1>29 DEF Project, Keep, Goto, Return, Set, layerVars, ShapeOf
<1>30. CASE Asked(l)
  BY <1>1, <1>2, <1>30 DEF Asked, Goto, Return, layerVars, ShapeOf
<1>11. CASE Initialize(l)
  BY <1>1, <1>2, <1>11 DEF Initialize, Goto, layerVars, ShapeOf
<1>12. CASE Execute(l)
  BY <1>1, <1>2, <1>12 DEF Execute, Goto, layerVars, ShapeOf
<1>13. CASE FreeResults(l)
  BY <1>1, <1>2, <1>13 DEF FreeResults, Goto, layerVars, ShapeOf
<1>14. CASE ReadDone(l)
  BY <1>1, <1>2, <1>14 DEF ReadDone, Return, Goto, layerVars, ShapeOf
<1>15. CASE NextFile(l)
  BY <1>1, <1>2, <1>15 DEF NextFile, NextTile, Return, Goto, layerVars, ShapeOf
<1>16. CASE NextFileUnlocked(l)
  BY <1>1, <1>2, <1>16 DEF NextFileUnlocked, NextTile, Return, Goto, layerVars, ShapeOf
<1>17. CASE FilterTile(l)
  BY <1>1, <1>2, <1>17 DEF FilterTile, Forget, Current, Return, Goto, Set, layerVars, ShapeOf
<1>18. CASE LayerOpen(l)
  BY <1>1, <1>2, <1>18 DEF LayerOpen, Start, Goto, layerVars, ShapeOf
<1>19. CASE RequestMiss(l)
  BY <1>1, <1>2, <1>19 DEF RequestMiss, Goto, layerVars, ShapeOf
<1>20. CASE LookUp(l)
  BY <1>1, <1>2, <1>20 DEF LookUp, Goto, layerVars, ShapeOf
<1>21. CASE LayerOpened(l)
  BY <1>1, <1>2, <1>21 DEF LayerOpened, Keep, Goto, Return, Set, layerVars, ShapeOf
<1>22. CASE LayerClose(l)
  BY <1>1, <1>2, <1>22 DEF LayerClose, Start, Goto, Set, layerVars, ShapeOf
<1>23. CASE StartRead(l)
  BY <1>1, <1>2, <1>23 DEF StartRead, Start, Goto, layerVars, ShapeOf
<1>24. CASE ReadTile(l)
  BY <1>1, <1>2, <1>24 DEF ReadTile, Start, Goto, Set, layerVars, ShapeOf
<1>25. CASE TileOpened(l)
  BY <1>1, <1>2, <1>25 DEF TileOpened, Forget, Current, Return, Goto, Set, layerVars, ShapeOf
<1>26. CASE ReleaseNothing(l)
  <2>1. /\ pc[l] = "release" /\ l \in Tiled /\ Released(l)
        /\ UNCHANGED <<connections, dataset, file>>
    BY <1>2, <1>26 DEF ReleaseNothing
  <2>2. ShapeOf(l)'
    BY <2>1, ReleasedLocal
  <2>3. pc'[l] \notin InPool
    BY <2>1, <2>2 DEF ShapeOf
  <2>4. {hDS'[l], file'[l], tile'[l]} \ {NoHandle} \subseteq
           {hDS[l], file[l], tile[l]} \ {NoHandle}
    <3>1. CASE call[l] = "close" /\ tile[l] # NoHandle
      BY <1>2, <2>1, <3>1 DEF Released, Set
    <3>2. CASE ~(call[l] = "close" /\ tile[l] # NoHandle)
      <4>1. hDS' = [hDS EXCEPT ![l] = NoHandle] /\ UNCHANGED tile
        BY <1>2, <2>1, <3>2 DEF Released, Set
      <4> QED
        BY <1>2, <2>1, <4>1
    <3> QED
      BY <3>1, <3>2
  <2> QED
    BY <1>2, <2>1, <2>3, <2>4
<1> QED
  BY <1>3, <1>4, <1>5, <1>6, <1>7, <1>8, <1>9, <1>10, <1>11, <1>12, <1>13, <1>14, <1>15, <1>16, <1>17, <1>18, <1>19, <1>20, <1>21, <1>22, <1>23, <1>24, <1>25, <1>26, <1>27, <1>28, <1>29, <1>30
  DEF QuietAction

-----------------------------------------------------------------------------
(* The pool: steps that change it.                                         *)

\* The fields of an entry have their types.
LEMMA EntryTypes ==
    ASSUME TypeOK, NEW i \in DOMAIN connections
    PROVE  /\ connections \in Seq(connectionObj) /\ connections[i] \in connectionObj
           /\ connections[i].conn_handle \in Handles
           /\ connections[i].conn_handle # NoHandle
           /\ connections[i].ref_count \in Nat
           /\ connections[i].lifespan \in Lifespans
<1>1. connections \in Seq(connectionObj) /\ connections[i] \in connectionObj
  BY DEF TypeOK
<1> QED
  BY <1>1, PoolAssumption DEF connectionObj

\* The layers whose uses are counted are finitely many.
LEMMA OgrLayersFinite == IsFiniteSet(Layers)
BY OgrAssumption

\* A layer that begins to use a data set is one user more of it.
LEMMA UserTakes ==
    ASSUME UserOf \in [Layers -> Handles \cup {NoHandle}],
           NEW l \in Layers, UserOf[l] = NoHandle, NEW h \in Handles,
           UserOf' = [UserOf EXCEPT ![l] = h]
    PROVE  /\ Cardinality(HoldersIn(Layers, UserOf', h))
                = Cardinality(HoldersIn(Layers, UserOf, h)) + 1
           /\ \A k \in Handles : k # h =>
                 HoldersIn(Layers, UserOf', k) = HoldersIn(Layers, UserOf, k)
<1>1. LET g == [UserOf EXCEPT ![l] = h] IN
      /\ Cardinality(HoldersIn(Layers, g, h)) = Cardinality(HoldersIn(Layers, UserOf, h)) + 1
      /\ \A k \in Handles : k # h => HoldersIn(Layers, g, k) = HoldersIn(Layers, UserOf, k)
  BY HoldersTake, OgrLayersFinite, Zenon
<1> QED
  BY <1>1

\* A layer that has done with a data set is one user less of it.
LEMMA UserGives ==
    ASSUME UserOf \in [Layers -> Handles \cup {NoHandle}],
           NEW l \in Layers, NEW h \in Handles, UserOf[l] = h,
           UserOf' = [UserOf EXCEPT ![l] = NoHandle]
    PROVE  /\ Cardinality(HoldersIn(Layers, UserOf, h)) > 0
           /\ Cardinality(HoldersIn(Layers, UserOf', h))
                = Cardinality(HoldersIn(Layers, UserOf, h)) - 1
           /\ \A k \in Handles : k # h =>
                 HoldersIn(Layers, UserOf', k) = HoldersIn(Layers, UserOf, k)
<1>1. UserOf[l] \in Handles
  OBVIOUS
<1>2. LET g == [UserOf EXCEPT ![l] = NoHandle] IN
      /\ Cardinality(HoldersIn(Layers, UserOf, UserOf[l])) > 0
      /\ Cardinality(HoldersIn(Layers, g, UserOf[l]))
           = Cardinality(HoldersIn(Layers, UserOf, UserOf[l])) - 1
      /\ \A k \in Handles : k # UserOf[l] =>
            HoldersIn(Layers, g, k) = HoldersIn(Layers, UserOf, k)
  BY <1>1, HoldersGive, OgrLayersFinite, Zenon
<1> QED
  BY <1>2

\* An entry that a layer uses is referenced, and the layers that use it are
\* those that are counted.
LEMMA UsedIsCounted ==
    ASSUME TypeOK, PoolInv, NEW m \in Layers, NEW i \in DOMAIN connections,
           User(m) = connections[i].conn_handle
    PROVE  connections[i].ref_count > 0
<1> DEFINE h == connections[i].conn_handle
<1>1. UserOf \in [Layers -> Handles \cup {NoHandle}] /\ UserOf[m] = h /\ h \in Handles
  BY UserType, EntryTypes
<1>2. Cardinality(HoldersIn(Layers, UserOf, UserOf[m])) > 0
  BY <1>1, HoldersGive, OgrLayersFinite
<1> QED
  BY <1>1, <1>2 DEF PoolInv, CountsOK

\* While TLOCK_POOL is free nothing is being closed.
LEMMA NothingClosing ==
    ASSUME LocksInv, Free("POOL"), NEW m \in Layers
    PROVE  pc[m] \notin InPool
<1>1. ThreadOf[m] # NoThread
  BY PoolAssumption, OgrAssumption
<1> QED
  BY <1>1 DEF LocksInv, Free

\* GDALOpenEx gives a data set that no layer and no entry of the pool has.
LEMMA GdalOpenStep ==
    ASSUME OgrInv, NEW l \in Layers, GdalOpen(l), Local(l), ShapeOf(l)'
    PROVE  PoolInv'
<1>1. /\ pc[l] = "gdalopening" /\ ShapeOf(l)
      /\ UNCHANGED <<connections, file, tile>>
      /\ l \in Tiled <=> ConnectionOf[l] = NoConnection
      /\ TypeOK /\ ShapeInv /\ PoolInv
  BY OgrAssumption DEF GdalOpen, OgrInv, ShapeInv
<1>2. /\ hDS[l] = NoHandle /\ User(l) = NoHandle
      /\ l \notin Tiled => file[l] = NoHandle
  BY <1>1 DEF ShapeOf, Empty, User, InPool
<1>3. CASE OpenFails(l) /\ UNCHANGED <<dataset, hDS>>
  <2>1. hDS' = [hDS EXCEPT ![l] = NoHandle]
    BY <1>1, <1>2, <1>3 DEF TypeOK
  <2>2. /\ pc'[l] \notin {"register"} \cup InPool /\ hDS'[l] = NoHandle
        /\ l \notin Tiled => pc'[l] = "closed"
    BY <1>1, <1>3, <2>1, FailsLocal DEF ShapeOf, Empty, InPool
  <2>3. Quiet(l)
    BY <1>1, <1>2, <1>3, <2>2 DEF Quiet, User, Private, InPool
  <2> QED
    BY <1>1, <1>3, <2>3, QuietPool
<1>4. CASE ~(OpenFails(l) /\ UNCHANGED <<dataset, hDS>>)
  <2>1. PICK h \in Handles :
           /\ dataset[h] = "free"
           /\ dataset' = [dataset EXCEPT ![h] = "open"]
           /\ hDS' = [hDS EXCEPT ![l] = h]
    BY <1>4 DEF GdalOpen, Set
  <2>2. pc' = [pc EXCEPT ![l] = "register"]
    BY <1>4 DEF GdalOpen, Goto
  <2>3. /\ pc'[l] = "register" /\ hDS'[l] = h
        /\ dataset \in [Handles -> {"free", "open"}] /\ dataset'[h] = "open"
        /\ \A k \in Handles : dataset[k] = "open" => dataset'[k] = "open"
    BY <1>1, <2>1, <2>2 DEF TypeOK
  <2>4. User(l)' = NoHandle
    BY <2>3 DEF User
  <2>5. \A m \in Layers : User(m)' = User(m)
    BY <1>2, <2>4, OthersKeep
  <2>6. UserOf' = UserOf
    BY <2>5 DEF UserOf
  <2>7. \A m \in Layers : m # l => pc'[m] = pc[m] /\ hDS'[m] = hDS[m] /\ Private(m)' = Private(m)
    BY OthersKeep
  <2>8. Private(l)' \subseteq Private(l) \cup {h}
    BY <1>1, <2>3 DEF Private
  <2>9. /\ \A i \in DOMAIN connections : connections[i].conn_handle # h
        /\ \A m \in Layers : h \notin Private(m)
    BY <1>1, <2>1 DEF PoolInv, EntriesOK, PrivateOK
  <2>10. \A m \in Layers : Private(m) \subseteq Handles
    <3> SUFFICES ASSUME NEW m \in Layers PROVE Private(m) \subseteq Handles
      OBVIOUS
    <3>1. {hDS[m], file[m], tile[m]} \subseteq Handles \cup {NoHandle}
      BY <1>1 DEF TypeOK
    <3>2. pc[m] = "register" => hDS[m] # NoHandle
      BY <1>1 DEF ShapeInv, ShapeOf, Empty
    <3> QED
      BY <3>1, <3>2 DEF Private
  <2>11. EntriesOK'
    BY <1>1, <2>3, EntryTypes DEF PoolInv, EntriesOK
  <2>12. CountsOK'
    BY <1>1, <2>6 DEF PoolInv, CountsOK, HoldersIn
  <2>13. UsersOK'
    BY <1>1, <2>5 DEF PoolInv, UsersOK
  <2>16. OwnersOK'
    BY <1>1, <2>5 DEF PoolInv, OwnersOK
  <2>14. ClosingOK' /\ UnusedOK'
    <3>1. \A m \in Layers : /\ pc'[m] \in InPool <=> pc[m] \in InPool
                            /\ pc[m] \in InPool => hDS'[m] = hDS[m]
      BY <1>1, <2>3, <2>7 DEF InPool
    <3> QED
      BY <1>1, <3>1 DEF PoolInv, ClosingOK, UnusedOK
  <2>15. PrivateOK'
    <3> SUFFICES ASSUME NEW m \in Layers, NEW k \in Private(m)'
                 PROVE  /\ dataset'[k] = "open"
                        /\ \A i \in DOMAIN connections : connections[i].conn_handle # k
                        /\ \A n \in Layers : k \in Private(n)' => m = n
      BY <1>1 DEF PrivateOK
    <3>1. CASE k = h
      BY <2>3, <2>7, <2>9, <3>1
    <3>2. CASE k # h
      <4>1. k \in Private(m) /\ \A n \in Layers : k \in Private(n)' => k \in Private(n)
        BY <2>7, <2>8, <3>2
      <4> QED
        BY <1>1, <2>3, <2>10, <4>1 DEF PoolInv, PrivateOK
    <3> QED
      BY <3>1, <3>2
  <2> QED
    BY <2>11, <2>12, <2>13, <2>14, <2>15, <2>16 DEF PoolInv
<1> QED
  BY <1>3, <1>4

\* One layer begins or ceases to use a data set.
LEMMA UserSet ==
    ASSUME NEW l \in Layers, Local(l), NEW h, User(l)' = h
    PROVE  UserOf' = [UserOf EXCEPT ![l] = h]
<1>1. \A m \in Layers : m # l => User(m)' = User(m)
  BY OthersKeep
<1> QED
  BY <1>1 DEF UserOf

\* msConnPoolRegister: the data set that the layer had for itself becomes an
\* entry with one reference.
LEMMA RegisterStep ==
    ASSUME OgrInv, NEW l \in Layers, Register(l), Local(l)
    PROVE  PoolInv' /\ connections' \in Seq(connectionObj)
<1>1. /\ TypeOK /\ ShapeInv /\ PoolInv /\ ShapeOf(l)
      /\ l \in Tiled <=> ConnectionOf[l] = NoConnection
      /\ pc[l] = "register" /\ pc' = [pc EXCEPT ![l] = "find"]
      /\ UNCHANGED <<dataset, hDS, file, tile>>
  BY OgrAssumption DEF Register, Goto, OgrInv, ShapeInv, layerVars
<1>2. pc'[l] = "find" /\ hDS[l] \in Handles /\ hDS[l] # NoHandle /\ User(l) = NoHandle
  BY <1>1, PoolAssumption DEF TypeOK, ShapeOf, Empty, User
<1>3. CASE ConnectionOf[l] = NoConnection
  <2>1. UNCHANGED connections
    BY <1>3 DEF Register
  <2>2. Quiet(l)
    BY <1>1, <1>2, <1>3 DEF Quiet, User, Private, InPool
  <2> QED
    BY <1>1, <2>1, <2>2, QuietPool DEF TypeOK
<1>4. CASE ConnectionOf[l] # NoConnection
  <2>1. PICK h \in Handles : h = hDS[l]
    BY <1>2
  <2> DEFINE n == Len(connections) + 1
  <2>2. /\ connections \in Seq(connectionObj)
        /\ ConnectionOf[l] \in Connections /\ CloseConnectionOf[l] \in CloseModes
        /\ ThreadOf[l] \in Threads
        /\ connections' = Registered(connections, ConnectionOf[l],
                                     CloseConnectionOf[l], ThreadOf[l], h)
    BY <1>1, <1>4, <2>1, OgrAssumption DEF Register, TypeOK
  <2>3. /\ connections' \in Seq(connectionObj)
        /\ Len(connections') = Len(connections) + 1
        /\ \A k \in DOMAIN connections : connections'[k] = connections[k]
        /\ connections'[n].connection = ConnectionOf[l]
        /\ connections'[n].ref_count = 1
        /\ connections'[n].thread_id = ThreadOf[l]
        /\ connections'[n].conn_handle = h
    BY <2>2, RegisteredLemma
  <2>4. DOMAIN connections' = DOMAIN connections \cup {n} /\ n \notin DOMAIN connections
    <3>1. /\ DOMAIN connections = 1 .. Len(connections) /\ Len(connections) \in Nat
          /\ DOMAIN connections' = 1 .. Len(connections) + 1
      BY <2>2, <2>3
    <3>2. \A k \in Nat : 1 .. k + 1 = 1 .. k \cup {k + 1} /\ k + 1 \notin 1 .. k
      OBVIOUS
    <3> QED
      BY <3>1, <3>2
  <2> HIDE DEF n
  <2>5. /\ User(l)' = h /\ Private(l) = {h} /\ Private(l)' = {}
    BY <1>1, <1>2, <1>4, <2>1 DEF User, Private, InPool
  <2>6. UserOf' = [UserOf EXCEPT ![l] = h]
    BY <2>5, UserSet
  <2>7. /\ dataset[h] = "open"
        /\ \A k \in DOMAIN connections : connections[k].conn_handle # h
        /\ \A m \in Layers : h \in Private(m) => m = l
    BY <1>1, <2>5 DEF PoolInv, PrivateOK
  <2>8. /\ UserOf \in [Layers -> Handles \cup {NoHandle}] /\ UserOf[l] = NoHandle
        /\ \A m \in Layers : UserOf[m] = User(m)
    BY <1>1, <1>2, UserType
  <2>9. /\ Cardinality(HoldersIn(Layers, UserOf', h)) =
             Cardinality(HoldersIn(Layers, UserOf, h)) + 1
        /\ \A k \in Handles : k # h => HoldersIn(Layers, UserOf', k) = HoldersIn(Layers, UserOf, k)
    BY <2>6, <2>8, UserTakes
  <2>10. Cardinality(HoldersIn(Layers, UserOf, h)) = 0
    <3>1. \A m \in Layers : UserOf[m] # h
      BY <1>1, <2>7, <2>8, PoolAssumption DEF PoolInv, UsersOK
    <3> QED
      BY <3>1, HoldersNone
  <2>11. \A m \in Layers : m # l =>
            User(m)' = User(m) /\ Private(m)' = Private(m) /\ pc'[m] = pc[m] /\ hDS'[m] = hDS[m]
    BY OthersKeep
  <2>12. EntriesOK'
    <3>1. \A i \in DOMAIN connections' :
             \/ i = n /\ connections'[i].conn_handle = h
             \/ i \in DOMAIN connections /\ connections'[i] = connections[i]
      BY <2>3, <2>4
    <3> QED
      BY <1>1, <2>7, <3>1 DEF PoolInv, EntriesOK
  <2>13. CountsOK'
    <3> SUFFICES ASSUME NEW i \in DOMAIN connections'
                 PROVE  connections'[i].ref_count =
                          Cardinality(HoldersIn(Layers, UserOf', connections'[i].conn_handle))
      BY DEF CountsOK, HoldersIn
    <3>1. CASE i = n
      BY <2>3, <2>9, <2>10, <3>1
    <3>2. CASE i # n
      <4>1. i \in DOMAIN connections /\ connections'[i] = connections[i]
        BY <2>3, <2>4, <3>2
      <4>2. connections[i].conn_handle \in Handles \ {h}
        BY <1>1, <2>7, <4>1, EntryTypes
      <4> QED
        BY <1>1, <2>9, <4>1, <4>2 DEF PoolInv, CountsOK
    <3> QED
      BY <3>1, <3>2
  <2>14. UsersOK'
    <3> SUFFICES ASSUME NEW m \in Layers, User(m)' # NoHandle
                 PROVE  \E i \in DOMAIN connections' :
                           /\ connections'[i].conn_handle = User(m)'
                           /\ connections'[i].connection = ConnectionOf[m]
      BY DEF UsersOK
    <3>1. CASE m = l
      BY <2>3, <2>4, <2>5, <3>1
    <3>2. CASE m # l
      BY <1>1, <2>3, <2>4, <2>11, <3>2 DEF PoolInv, UsersOK
    <3> QED
      BY <3>1, <3>2
  <2>18. OwnersOK'
    <3> SUFFICES ASSUME NEW m \in Layers, NEW i \in DOMAIN connections',
                        User(m)' = connections'[i].conn_handle
                 PROVE  connections'[i].thread_id = ThreadOf[m]
      BY DEF OwnersOK
    <3>1. CASE i = n
      <4>1. m = l
        BY <1>1, <2>3, <2>7, <2>11, <3>1, PoolAssumption DEF PoolInv, UsersOK
      <4> QED
        BY <2>3, <3>1, <4>1
    <3>2. CASE i # n
      <4>1. i \in DOMAIN connections /\ connections'[i] = connections[i]
        BY <2>3, <2>4, <3>2
      <4>2. m # l
        BY <2>5, <2>7, <4>1
      <4> QED
        BY <1>1, <2>11, <4>1, <4>2 DEF PoolInv, OwnersOK
    <3> QED
      BY <3>1, <3>2
  <2>15. ClosingOK'
    <3> SUFFICES ASSUME NEW m \in Layers, pc'[m] \in InPool
                 PROVE  \E i \in DOMAIN connections' :
                           /\ connections'[i].conn_handle = hDS'[m]
                           /\ connections'[i].connection = ConnectionOf[m]
                           /\ connections'[i].ref_count = 0
      BY DEF ClosingOK
    <3>1. m # l /\ pc[m] \in InPool
      BY <1>2, <2>11 DEF InPool
    <3> QED
      BY <1>1, <2>3, <2>4, <2>11, <3>1 DEF PoolInv, ClosingOK
  <2>16. UnusedOK'
    <3> SUFFICES ASSUME NEW i \in DOMAIN connections', connections'[i].ref_count = 0
                 PROVE  \/ connections'[i].lifespan = "FOREVER"
                        \/ \E m \in Layers : /\ pc'[m] \in InPool
                                             /\ hDS'[m] = connections'[i].conn_handle
      BY DEF UnusedOK
    <3>1. i \in DOMAIN connections /\ connections'[i] = connections[i]
      BY <2>3, <2>4
    <3>2. \A m \in Layers : pc[m] \in InPool => m # l
      BY <1>1 DEF InPool
    <3> QED
      BY <1>1, <2>11, <3>1, <3>2 DEF PoolInv, UnusedOK
  <2>17. PrivateOK'
    <3> SUFFICES ASSUME NEW m \in Layers, NEW k \in Private(m)'
                 PROVE  /\ dataset[k] = "open"
                        /\ \A i \in DOMAIN connections' : connections'[i].conn_handle # k
                        /\ \A q \in Layers : k \in Private(q)' => m = q
      BY <1>1 DEF PrivateOK
    <3>1. m # l /\ k \in Private(m) /\ k # h
      BY <2>5, <2>7, <2>11
    <3>2. \A q \in Layers : k \in Private(q)' => k \in Private(q)
      BY <2>5, <2>11
    <3> QED
      BY <1>1, <2>3, <2>4, <3>1, <3>2 DEF PoolInv, PrivateOK
  <2> QED
    BY <2>3, <2>12, <2>13, <2>14, <2>15, <2>16, <2>17, <2>18 DEF PoolInv
<1> QED
  BY <1>3, <1>4

\* A request or a release changes the count of one entry, and what one layer
\* uses, while nothing is being closed.
LEMMA RecountStep ==
    ASSUME TypeOK, PoolInv, NEW l \in Layers, Local(l), UNCHANGED dataset,
           NEW i \in DOMAIN connections,
           connections[i].connection = ConnectionOf[l],
           DOMAIN connections' = DOMAIN connections,
           \A k \in DOMAIN connections :
              /\ connections'[k].conn_handle = connections[k].conn_handle
              /\ connections'[k].connection = connections[k].connection
              /\ connections'[k].lifespan = connections[k].lifespan
              /\ k # i => connections'[k] = connections[k],
           CountsOK', OwnersOK',
           \A m \in Layers : pc[m] \notin InPool,
           Private(l)' \subseteq Private(l),
           User(l)' \in {NoHandle, connections[i].conn_handle},
           pc'[l] \in InPool => /\ hDS'[l] = connections[i].conn_handle
                                /\ connections'[i].ref_count = 0,
           connections'[i].ref_count = 0 =>
              connections[i].lifespan = "FOREVER" \/ pc'[l] \in InPool
    PROVE  PoolInv'
<1>1. \A m \in Layers : m # l =>
         /\ User(m)' = User(m) /\ Private(m)' = Private(m)
         /\ pc'[m] = pc[m] /\ hDS'[m] = hDS[m]
  BY OthersKeep
<1>2. EntriesOK'
  BY DEF PoolInv, EntriesOK
<1>3. UsersOK'
  <2> SUFFICES ASSUME NEW m \in Layers, User(m)' # NoHandle
               PROVE  \E k \in DOMAIN connections :
                         /\ connections[k].conn_handle = User(m)'
                         /\ connections[k].connection = ConnectionOf[m]
    BY DEF UsersOK
  <2> QED
    BY <1>1 DEF PoolInv, UsersOK
<1>4. ClosingOK'
  <2> SUFFICES ASSUME NEW m \in Layers, pc'[m] \in InPool
               PROVE  \E k \in DOMAIN connections :
                         /\ connections'[k].conn_handle = hDS'[m]
                         /\ connections'[k].connection = ConnectionOf[m]
                         /\ connections'[k].ref_count = 0
    BY DEF ClosingOK
  <2>1. m = l
    BY <1>1
  <2> QED
    BY <2>1
<1>5. UnusedOK'
  <2> SUFFICES ASSUME NEW k \in DOMAIN connections, connections'[k].ref_count = 0
               PROVE  \/ connections'[k].lifespan = "FOREVER"
                      \/ \E m \in Layers : /\ pc'[m] \in InPool
                                           /\ hDS'[m] = connections'[k].conn_handle
    BY DEF UnusedOK
  <2>1. CASE k = i
    BY <2>1
  <2>2. CASE k # i
    BY <2>2 DEF PoolInv, UnusedOK
  <2> QED
    BY <2>1, <2>2
<1>6. PrivateOK'
  BY <1>1 DEF PoolInv, PrivateOK
<1> QED
  BY <1>2, <1>3, <1>4, <1>5, <1>6 DEF PoolInv

\* msConnPoolRequest: the layer becomes a user of the entry it is given.
LEMMA RequestHitStep ==
    ASSUME OgrInv, NEW l \in Layers, RequestHit(l), Local(l)
    PROVE  PoolInv' /\ connections' \in Seq(connectionObj)
<1>1. /\ TypeOK /\ ShapeInv /\ LocksInv /\ PoolInv /\ ShapeOf(l)
      /\ l \in Tiled <=> ConnectionOf[l] = NoConnection
      /\ pc[l] = "request" /\ pc' = [pc EXCEPT ![l] = "find"]
      /\ ConnectionOf[l] # NoConnection /\ Free("POOL")
      /\ ThreadOf[l] \in Threads
      /\ UNCHANGED <<dataset, file, tile>>
  BY OgrAssumption DEF RequestHit, Goto, OgrInv, ShapeInv
<1>2. PICK i \in Requestable(connections, ConnectionOf[l], ThreadOf[l]) :
         /\ connections' = Taken(connections, i, ThreadOf[l])
         /\ hDS' = Set(hDS, l, connections[i].conn_handle)
  BY DEF RequestHit
<1>3. i \in DOMAIN connections /\ connections[i].connection = ConnectionOf[l]
  BY DEF Requestable
<1>4. PICK h \in Handles : h = connections[i].conn_handle
  BY <1>1, <1>3, EntryTypes
<1>5. /\ pc'[l] = "find" /\ hDS'[l] = h /\ h # NoHandle
      /\ hDS[l] = NoHandle /\ file[l] = NoHandle
  BY <1>1, <1>2, <1>4, PoolAssumption DEF Set, TypeOK, ShapeOf, Empty
<1>6. User(l) = NoHandle /\ User(l)' = h /\ Private(l)' = {}
  BY <1>1, <1>5 DEF User, Private, InPool
<1>7. UserOf' = [UserOf EXCEPT ![l] = h]
  BY <1>6, UserSet
<1>8. UserOf \in [Layers -> Handles \cup {NoHandle}] /\ UserOf[l] = NoHandle
  BY <1>1, <1>6, UserType
<1>9. /\ Cardinality(HoldersIn(Layers, UserOf', h)) =
           Cardinality(HoldersIn(Layers, UserOf, h)) + 1
      /\ \A k \in Handles : k # h => HoldersIn(Layers, UserOf', k) = HoldersIn(Layers, UserOf, k)
  BY <1>7, <1>8, UserTakes
<1>10. /\ connections' \in Seq(connectionObj)
       /\ DOMAIN connections' = DOMAIN connections
       /\ \A k \in DOMAIN connections :
             /\ connections'[k].conn_handle = connections[k].conn_handle
             /\ connections'[k].connection = connections[k].connection
             /\ connections'[k].lifespan = connections[k].lifespan
             /\ k # i => connections'[k] = connections[k]
       /\ connections'[i].ref_count = connections[i].ref_count + 1
       /\ connections'[i].thread_id = ThreadOf[l]
  BY <1>1, <1>2, <1>3, TakenLemma DEF TypeOK
<1>11. CountsOK'
  <2> SUFFICES ASSUME NEW k \in DOMAIN connections
               PROVE  connections'[k].ref_count =
                        Cardinality(HoldersIn(Layers, UserOf', connections[k].conn_handle))
    BY <1>10 DEF CountsOK, HoldersIn
  <2>1. connections[k].ref_count =
           Cardinality(HoldersIn(Layers, UserOf, connections[k].conn_handle))
    BY <1>1 DEF PoolInv, CountsOK
  <2>2. CASE k = i
    BY <1>4, <1>9, <1>10, <2>1, <2>2
  <2>3. CASE k # i
    <3>1. connections[k].conn_handle \in Handles \ {h}
      BY <1>1, <1>3, <1>4, <2>3, EntryTypes DEF PoolInv, EntriesOK
    <3> QED
      BY <1>9, <1>10, <2>1, <2>3, <3>1
  <2> QED
    BY <2>2, <2>3
<1>16. OwnersOK'
  <2> SUFFICES ASSUME NEW m \in Layers, NEW k \in DOMAIN connections,
                      User(m)' = connections[k].conn_handle
               PROVE  connections'[k].thread_id = ThreadOf[m]
    BY <1>10 DEF OwnersOK
  <2>1. CASE m = l
    <3>1. k = i
      BY <1>1, <1>3, <1>4, <1>6, <2>1 DEF PoolInv, EntriesOK
    <3> QED
      BY <1>10, <2>1, <3>1
  <2>2. CASE m # l
    <3>1. User(m) = connections[k].conn_handle /\ connections[k].thread_id = ThreadOf[m]
      BY <1>1, <2>2, OthersKeep DEF PoolInv, OwnersOK
    <3>2. connections[k].ref_count # 0
      BY <1>1, <3>1, UsedIsCounted
    <3>3. k = i => ThreadOf[m] = ThreadOf[l]
      BY <3>1, <3>2 DEF Requestable
    <3> QED
      BY <1>10, <3>1, <3>3
  <2> QED
    BY <2>1, <2>2
<1>12. connections'[i].ref_count # 0
  BY <1>1, <1>3, <1>10, EntryTypes
<1>13. \A m \in Layers : pc[m] \notin InPool
  BY <1>1, NothingClosing
<1>14. pc'[l] \notin InPool
  BY <1>5 DEF InPool
<1>15. PoolInv'
  BY <1>1, <1>3, <1>4, <1>6, <1>10, <1>11, <1>12, <1>13, <1>14, <1>16, RecountStep
<1> QED
  BY <1>10, <1>15

\* msConnPoolRelease: the layer ceases to use its entry; on the last use it
\* goes on to close the data set, unless it is deferred.
LEMMA ReleaseStep ==
    ASSUME OgrInv, NEW l \in Layers, ReleaseConnection(l), Local(l)
    PROVE  PoolInv' /\ connections' \in Seq(connectionObj)
<1>1. /\ TypeOK /\ ShapeInv /\ LocksInv /\ PoolInv /\ ShapeOf(l)
      /\ l \notin Tiled /\ ConnectionOf[l] # NoConnection
      /\ pc[l] = "release"
      /\ UNCHANGED <<dataset, file>>
  BY OgrAssumption DEF ReleaseConnection, OgrInv, ShapeInv
<1>2. PICK i \in Releasable(connections, ConnectionOf[l], hDS[l]) :
         /\ connections' = Dropped(connections, i)
         /\ IF ClosedOnRelease(connections, i)
            THEN /\ Acquire("POOL", l)
                 /\ Goto(l, "destroy")
                 /\ UNCHANGED <<call, hDS, tile>>
            ELSE /\ Free("POOL")
                 /\ Released(l)
                 /\ UNCHANGED lock
  BY DEF ReleaseConnection
<1>3. /\ i \in DOMAIN connections /\ connections[i].connection = ConnectionOf[l]
      /\ connections[i].conn_handle = hDS[l]
  BY DEF Releasable
<1>4. PICK h \in Handles : h = connections[i].conn_handle /\ h = hDS[l]
  BY <1>1, <1>3, EntryTypes
<1>5. h # NoHandle /\ file[l] = NoHandle /\ User(l) = h
  BY <1>1, <1>4, PoolAssumption DEF ShapeOf, User, InPool, TypeOK, Calls
<1>6. /\ ClosedOnRelease(connections, i) => pc'[l] = "destroy" /\ hDS'[l] = h
      /\ ~ClosedOnRelease(connections, i) => pc'[l] = "closed" /\ hDS'[l] = NoHandle
  <2>1. CASE ClosedOnRelease(connections, i)
    BY <1>1, <1>2, <1>4, <2>1 DEF Goto, TypeOK
  <2>2. CASE ~ClosedOnRelease(connections, i)
    BY <1>1, <1>2, <2>2, ReleasedLocal
  <2> QED
    BY <2>1, <2>2
<1>7. User(l)' = NoHandle /\ Private(l)' = {}
  BY <1>1, <1>5, <1>6 DEF User, Private, InPool
<1>8. UserOf' = [UserOf EXCEPT ![l] = NoHandle]
  BY <1>7, UserSet
<1>9. UserOf \in [Layers -> Handles \cup {NoHandle}] /\ UserOf[l] = h
  BY <1>1, <1>5, UserType
<1>10. /\ Cardinality(HoldersIn(Layers, UserOf, h)) > 0
       /\ Cardinality(HoldersIn(Layers, UserOf', h)) =
            Cardinality(HoldersIn(Layers, UserOf, h)) - 1
       /\ \A k \in Handles : k # h => HoldersIn(Layers, UserOf', k) = HoldersIn(Layers, UserOf, k)
  BY <1>8, <1>9, UserGives
<1>11. connections[i].ref_count > 0
  BY <1>1, <1>3, <1>4, <1>5, UsedIsCounted
<1>12. /\ connections' \in Seq(connectionObj)
       /\ DOMAIN connections' = DOMAIN connections
       /\ \A k \in DOMAIN connections :
             /\ connections'[k].conn_handle = connections[k].conn_handle
             /\ connections'[k].connection = connections[k].connection
             /\ connections'[k].lifespan = connections[k].lifespan
             /\ k # i => connections'[k] = connections[k]
       /\ connections'[i].ref_count = connections[i].ref_count - 1
       /\ connections[i].ref_count # 1 => connections'[i].thread_id = connections[i].thread_id
  BY <1>1, <1>2, <1>3, <1>11, DroppedLemma DEF TypeOK
<1>13. CountsOK'
  <2> SUFFICES ASSUME NEW k \in DOMAIN connections
               PROVE  connections'[k].ref_count =
                        Cardinality(HoldersIn(Layers, UserOf', connections[k].conn_handle))
    BY <1>12 DEF CountsOK, HoldersIn
  <2>1. connections[k].ref_count =
           Cardinality(HoldersIn(Layers, UserOf, connections[k].conn_handle))
    BY <1>1 DEF PoolInv, CountsOK
  <2>2. CASE k = i
    BY <1>4, <1>10, <1>12, <2>1, <2>2
  <2>3. CASE k # i
    <3>1. connections[k].conn_handle \in Handles \ {h}
      BY <1>1, <1>3, <1>4, <2>3, EntryTypes DEF PoolInv, EntriesOK
    <3> QED
      BY <1>10, <1>12, <2>1, <2>3, <3>1
  <2> QED
    BY <2>2, <2>3
<1>19. OwnersOK'
  <2> SUFFICES ASSUME NEW m \in Layers, NEW k \in DOMAIN connections,
                      User(m)' = connections[k].conn_handle
               PROVE  connections'[k].thread_id = ThreadOf[m]
    BY <1>12 DEF OwnersOK
  <2>1. m # l
    BY <1>1, <1>7, EntryTypes
  <2>2. User(m) = connections[k].conn_handle /\ connections[k].thread_id = ThreadOf[m]
    BY <1>1, <2>1, OthersKeep DEF PoolInv, OwnersOK
  <2>3. CASE k = i
    <3>1. UserOf'[m] = h /\ UserOf' \in [Layers -> Handles \cup {NoHandle}]
      BY <1>4, <1>8, <1>9, <2>1, <2>2, <2>3 DEF UserOf
    <3>2. Cardinality(HoldersIn(Layers, UserOf', h)) > 0
      BY <3>1, HoldersGive, OgrLayersFinite
    <3>3. connections[i].ref_count = Cardinality(HoldersIn(Layers, UserOf, h))
      BY <1>1, <1>3, <1>4 DEF PoolInv, CountsOK
    <3>4. connections[i].ref_count # 1
      BY <1>10, <3>2, <3>3
    <3> QED
      BY <1>12, <2>2, <2>3, <3>4
  <2>4. CASE k # i
    BY <1>12, <2>2, <2>4
  <2> QED
    BY <2>3, <2>4
<1>14. \A m \in Layers : pc[m] \notin InPool
  <2>1. Free("POOL")
    BY <1>2 DEF Acquire
  <2> QED
    BY <1>1, <2>1, NothingClosing
<1>15. /\ connections[i].ref_count \in Nat
       /\ connections[i].lifespan \in {"ZEROREF", "FOREVER", "SINGLE"}
  BY <1>1, <1>3, EntryTypes DEF Lifespans
<1>16. pc'[l] \in InPool => hDS'[l] = h /\ connections'[i].ref_count = 0
  BY <1>6, <1>12, <1>15 DEF InPool, ClosedOnRelease
<1>17. connections'[i].ref_count = 0 =>
          connections[i].lifespan = "FOREVER" \/ pc'[l] \in InPool
  BY <1>6, <1>12, <1>15 DEF InPool, ClosedOnRelease
<1>18. PoolInv'
  <2>1. /\ UNCHANGED dataset
        /\ Private(l)' \subseteq Private(l)
        /\ User(l)' \in {NoHandle, connections[i].conn_handle}
    BY <1>1, <1>7
  <2>2. pc'[l] \in InPool => /\ hDS'[l] = connections[i].conn_handle
                             /\ connections'[i].ref_count = 0
    BY <1>4, <1>16
  <2> QED
    BY <1>1, <1>3, <1>12, <1>13, <1>14, <1>17, <1>19, <2>1, <2>2, RecountStep, Zenon
<1> QED
  BY <1>12, <1>18

\* What a layer has outside of the pool are data sets.
LEMMA PrivateType ==
    ASSUME TypeOK, NEW m \in Layers, ShapeOf(m), NEW k \in Private(m)
    PROVE  k \in Handles
<1>1. /\ hDS[m] \in Handles \cup {NoHandle}
      /\ file[m] \in Handles \cup {NoHandle}
      /\ tile[m] \in Handles \cup {NoHandle}
  BY DEF TypeOK
<1>2. pc[m] = "register" => hDS[m] # NoHandle
  BY DEF ShapeOf, Empty
<1> QED
  BY <1>1, <1>2 DEF Private

\* msOGRCloseConnection and the end of msConnPoolClose: the data set goes with
\* its entry, and nobody has it.
LEMMA DestroyStep ==
    ASSUME OgrInv, NEW l \in Layers, Destroy(l), Local(l)
    PROVE  /\ PoolInv' /\ connections' \in Seq(connectionObj)
           /\ dataset' \in [Handles -> {"free", "open"}]
<1>1. /\ TypeOK /\ ShapeInv /\ LocksInv /\ PoolInv /\ ShapeOf(l)
      /\ pc[l] = "destroying" /\ pc[l] \in InPool
      /\ dataset' = [dataset EXCEPT ![hDS[l]] = "free"]
      /\ UNCHANGED file /\ Released(l)
  BY DEF Destroy, OgrInv, ShapeInv, InPool
<1>2. l \notin Tiled /\ ConnectionOf[l] # NoConnection /\ file[l] = NoHandle
  BY <1>1, OgrAssumption DEF ShapeOf
<1>3. PICK i \in Releasable(connections, ConnectionOf[l], hDS[l]) :
         connections' = Closed(connections, i)
  BY DEF Destroy
<1>4. i \in DOMAIN connections /\ connections[i].conn_handle = hDS[l]
  BY DEF Releasable
<1>5. PICK h \in Handles : h = connections[i].conn_handle /\ h = hDS[l]
  BY <1>1, <1>4, EntryTypes
<1>6. connections[i].ref_count = 0
  BY <1>1, <1>4 DEF PoolInv, ClosingOK, EntriesOK
<1>7. pc'[l] = "closed" /\ hDS'[l] = NoHandle
  BY <1>1, <1>2, ReleasedLocal
<1>8. User(l) = NoHandle /\ User(l)' = NoHandle /\ Private(l)' = {}
  BY <1>1, <1>2, <1>7 DEF User, Private, InPool
<1>9. \A m \in Layers : User(m)' = User(m)
  BY <1>8, OthersKeep
<1>10. UserOf' = UserOf
  BY <1>9 DEF UserOf
<1>11. \A m \in Layers : Private(m)' \subseteq Private(m)
  BY <1>8, OthersKeep
<1>12. \A m \in Layers : User(m) # h
  <2> SUFFICES ASSUME NEW m \in Layers, User(m) = h
               PROVE  FALSE
    OBVIOUS
  <2>1. connections[i].ref_count > 0
    BY <1>1, <1>4, <1>5, UsedIsCounted
  <2> QED
    BY <1>6, <2>1
<1>13. \A m \in Layers : pc[m] \in InPool => m = l
  BY <1>1, Busy DEF LocksInv
<1>14. \A m \in Layers : pc'[m] \notin InPool
  BY <1>7, <1>13, OthersKeep DEF InPool
<1>15. connections \in Seq(connectionObj) /\ dataset \in [Handles -> {"free", "open"}]
  BY <1>1 DEF TypeOK
<1>16. \E org : IsOrigin(connections, i, org)
  BY <1>4, <1>15, ClosedOrigin
<1>o. PICK org : IsOrigin(connections, i, org)
  BY <1>16
<1>17. connections' \in Seq(connectionObj) /\ DOMAIN connections' = 1 .. Len(connections) - 1
  BY <1>3, <1>4, <1>15, ClosedLemma
<1>18. \A k \in DOMAIN connections' :
          org[k] \in DOMAIN connections \ {i} /\ connections'[k] = connections[org[k]]
  BY <1>3, <1>o, <1>17 DEF IsOrigin
<1>19. \A j \in DOMAIN connections : j # i =>
          connections[j].conn_handle \in Handles \ {h}
  BY <1>1, <1>4, <1>5, EntryTypes DEF PoolInv, EntriesOK
<1>20. /\ dataset' \in [Handles -> {"free", "open"}]
       /\ \A k \in Handles : k # h => dataset'[k] = dataset[k]
  BY <1>1, <1>5, <1>15
<1>21. EntriesOK'
  <2>1. \A k \in DOMAIN connections' : dataset'[connections'[k].conn_handle] = "open"
    BY <1>1, <1>18, <1>19, <1>20 DEF PoolInv, EntriesOK
  <2>2. ASSUME NEW j \in DOMAIN connections', NEW k \in DOMAIN connections',
               connections'[j].conn_handle = connections'[k].conn_handle
        PROVE  j = k
    <3>1. org[j] = org[k]
      BY <1>1, <1>18, <2>2 DEF PoolInv, EntriesOK
    <3> QED
      BY <1>o, <1>17, <3>1 DEF IsOrigin
  <2> QED
    BY <2>1, <2>2 DEF EntriesOK
<1>22. CountsOK'
  <2>1. \A k \in DOMAIN connections' :
           connections'[k].ref_count =
              Cardinality(HoldersIn(Layers, UserOf, connections'[k].conn_handle))
    BY <1>1, <1>18 DEF PoolInv, CountsOK
  <2> QED
    BY <1>10, <2>1 DEF CountsOK, HoldersIn
<1>23. UsersOK'
  <2> SUFFICES ASSUME NEW m \in Layers, User(m) # NoHandle
               PROVE  \E k \in DOMAIN connections' :
                         /\ connections'[k].conn_handle = User(m)
                         /\ connections'[k].connection = ConnectionOf[m]
    BY <1>9 DEF UsersOK
  <2>1. PICK j \in DOMAIN connections : /\ connections[j].conn_handle = User(m)
                                        /\ connections[j].connection = ConnectionOf[m]
    BY <1>1 DEF PoolInv, UsersOK
  <2>2. j # i
    BY <1>5, <1>12, <2>1
  <2>3. PICK k \in DOMAIN connections' : org[k] = j
    BY <1>o, <1>17, <2>2 DEF IsOrigin
  <2> QED
    BY <1>18, <2>1, <2>3
<1>27. OwnersOK'
  BY <1>1, <1>9, <1>18 DEF PoolInv, OwnersOK
<1>24. ClosingOK'
  BY <1>14 DEF ClosingOK
<1>25. UnusedOK'
  <2> SUFFICES ASSUME NEW k \in DOMAIN connections', connections'[k].ref_count = 0
               PROVE  connections'[k].lifespan = "FOREVER"
    BY DEF UnusedOK
  <2>1. org[k] \in DOMAIN connections \ {i} /\ connections'[k] = connections[org[k]]
    BY <1>18
  <2>2. connections[org[k]].conn_handle # h
    BY <1>19, <2>1
  <2> QED
    BY <1>1, <1>5, <1>13, <2>1, <2>2 DEF PoolInv, UnusedOK
<1>26. PrivateOK'
  <2> SUFFICES ASSUME NEW m \in Layers, NEW k \in Private(m)'
               PROVE  /\ dataset'[k] = "open"
                      /\ \A j \in DOMAIN connections' : connections'[j].conn_handle # k
                      /\ \A n \in Layers : k \in Private(n)' => m = n
    BY DEF PrivateOK
  <2>1. k \in Private(m)
    BY <1>11
  <2>2. k \in Handles
    BY <1>1, <2>1, PrivateType DEF ShapeInv
  <2>3. k # h
    BY <1>1, <1>4, <1>5, <2>1 DEF PoolInv, PrivateOK
  <2> QED
    BY <1>1, <1>11, <1>18, <1>20, <2>1, <2>2, <2>3 DEF PoolInv, PrivateOK
<1> QED
  BY <1>17, <1>20, <1>21, <1>22, <1>23, <1>24, <1>25, <1>26, <1>27 DEF PoolInv

-----------------------------------------------------------------------------
(* The invariant and what follows from it.                                 *)

\* Every step of a layer's thread keeps the pool in agreement with its users,
\* and the table and the data sets typed.
LEMMA PoolStep ==
    ASSUME OgrInv, NEW l \in Layers, CallStep(l) \/ InnerStep(l), Local(l), ShapeOf(l)'
    PROVE  /\ PoolInv' /\ connections' \in Seq(connectionObj)
           /\ dataset' \in [Handles -> {"free", "open"}]
<1>1. /\ TypeOK /\ ShapeInv /\ PoolInv
      /\ connections \in Seq(connectionObj) /\ dataset \in [Handles -> {"free", "open"}]
  BY DEF OgrInv, TypeOK
<1>2. CASE QuietAction(l)
  BY <1>1, <1>2, QuietStep, QuietPool
<1>3. CASE GdalOpen(l)
  <2>1. UNCHANGED connections /\ dataset' \in [Handles -> {"free", "open"}]
    BY <1>1, <1>3 DEF GdalOpen
  <2> QED
    BY <1>1, <1>3, <2>1, GdalOpenStep
<1>4. CASE Register(l)
  BY <1>1, <1>4, RegisterStep DEF Register
<1>5. CASE RequestHit(l)
  BY <1>1, <1>5, RequestHitStep DEF RequestHit
<1>6. CASE ReleaseConnection(l)
  BY <1>1, <1>6, ReleaseStep DEF ReleaseConnection
<1>7. CASE Destroy(l)
  BY <1>7, DestroyStep
<1> QED
  BY <1>2, <1>3, <1>4, <1>5, <1>6, <1>7 DEF CallStep, InnerStep, QuietAction

\* The mutexes, the flags and the bound on the calls keep their types.
LEMMA RestTyped ==
    ASSUME TypeOK, NEW l \in Layers, CallStep(l) \/ InnerStep(l)
    PROVE  /\ lock' \in [Locks -> Threads \cup {NoThread}]
           /\ registered' \in BOOLEAN /\ IgnoreMissingData' \in BOOLEAN
           /\ calls' \in [Threads -> Nat] /\ \A t \in Threads : calls'[t] <= MaxCalls[t]
<1>1. /\ lock \in [Locks -> Threads \cup {NoThread}]
      /\ registered \in BOOLEAN /\ IgnoreMissingData \in BOOLEAN
      /\ calls \in [Threads -> Nat] /\ \A t \in Threads : calls[t] <= MaxCalls[t]
      /\ ThreadOf[l] \in Threads /\ MaxCalls \in [Threads -> Nat]
  BY OgrAssumption DEF TypeOK
<1>2. lock' \in [Locks -> Threads \cup {NoThread}]
  BY <1>1 DEF CallStep, InnerStep, LayerOpen, LayerClose, StartRead, ReadTile,
     InitializeEnter, Initialize, RequestMiss, RequestHit, GdalOpenEnter, GdalOpen,
     Register, ExecuteEnter, Execute, LookUp, LookedUp, LayerOpened,
     ProjectEnter, Project, Asked, FreeEnter, FreeResults,
     ReleaseNothing, ReleaseConnection, DestroyEnter, Destroy, ReadEnter, ReadDone,
     NextFileEnter, NextFile, NextFileUnlocked, TileOpened, FilterEnter, FilterTile,
     Enter, Acquire, Release, Locks
<1>3. registered' \in BOOLEAN /\ IgnoreMissingData' \in BOOLEAN
  BY <1>1 DEF CallStep, InnerStep, LayerOpen, LayerClose, StartRead, ReadTile,
     InitializeEnter, Initialize, RequestMiss, RequestHit, GdalOpenEnter, GdalOpen,
     Register, ExecuteEnter, Execute, LookUp, LookedUp, LayerOpened,
     ProjectEnter, Project, Asked, FreeEnter, FreeResults,
     ReleaseNothing, ReleaseConnection, DestroyEnter, Destroy, ReadEnter, ReadDone,
     NextFileEnter, NextFile, NextFileUnlocked, TileOpened, FilterEnter, FilterTile,
     Enter, driverVars
<1>4. CASE UNCHANGED calls
  BY <1>1, <1>2, <1>3, <1>4
<1>5. CASE \E c \in Calls : Start(l, c)
  <2>1. /\ calls[ThreadOf[l]] < MaxCalls[ThreadOf[l]]
        /\ calls' = [calls EXCEPT ![ThreadOf[l]] = calls[ThreadOf[l]] + 1]
    BY <1>5 DEF Start
  <2>2. calls[ThreadOf[l]] + 1 \in Nat /\ calls[ThreadOf[l]] + 1 <= MaxCalls[ThreadOf[l]]
    BY <1>1, <2>1
  <2> QED
    BY <1>1, <1>2, <1>3, <2>1, <2>2
<1>6. UNCHANGED calls \/ \E c \in Calls : Start(l, c)
  <2>1. CASE CallStep(l)
    BY <2>1 DEF CallStep, LayerOpen, LayerClose, StartRead, ReadTile, Calls
  <2>2. CASE InnerStep(l)
    BY <2>2 DEF InnerStep, InitializeEnter, Initialize, RequestMiss, RequestHit,
       GdalOpenEnter, GdalOpen, Register, ExecuteEnter, Execute, LookUp, LookedUp, LayerOpened,
     ProjectEnter, Project, Asked,
       FreeEnter, FreeResults, ReleaseNothing, ReleaseConnection, DestroyEnter, Destroy,
       ReadEnter, ReadDone, NextFileEnter, NextFile, NextFileUnlocked, TileOpened,
       FilterEnter, FilterTile, Enter
  <2> QED
    BY <2>1, <2>2
<1> QED
  BY <1>4, <1>5, <1>6

\* At the start nothing is open and no mutex is held.
LEMMA OgrInit == Init => OgrInv
<1> SUFFICES ASSUME Init PROVE OgrInv
  OBVIOUS
<1>1. TypeOK
  <2>1. IgnoreMissingData \in BOOLEAN /\ connections \in Seq(connectionObj)
    BY OgrAssumption DEF Init
  <2>2. calls \in [Threads -> Nat] /\ \A t \in Threads : calls[t] <= MaxCalls[t]
    BY OgrAssumption DEF Init
  <2>3. call \in [Layers -> Calls] /\ pc \in [Layers -> Places]
    BY DEF Init, Calls, Places
  <2> QED
    BY <2>1, <2>2, <2>3 DEF Init, TypeOK
<1>2. ShapeInv
  BY DEF Init, ShapeInv, ShapeOf, Empty, InPool
<1>3. LocksInv
  BY DEF Init, LocksInv, Locks, InPool, OgrSections
<1>4. PoolInv
  BY DEF Init, PoolInv, EntriesOK, CountsOK, UsersOK, OwnersOK, ClosingOK, UnusedOK,
     PrivateOK, User, Private, InPool
<1> QED
  BY <1>1, <1>2, <1>3, <1>4 DEF OgrInv

\* What concerns neither layers, mutexes nor the pool preserves the invariant.
LEMMA OgrIdle ==
    ASSUME OgrInv, TypeOK',
           UNCHANGED <<IgnoreMissingData, lock, connections, dataset, call, pc, hDS, file, tile>>
    PROVE  OgrInv'
<1>1. ShapeInv'
  BY DEF OgrInv, ShapeInv, ShapeOf
<1>2. LocksInv'
  BY DEF OgrInv, LocksInv
<1>3. \A m \in Layers : User(m)' = User(m) /\ Private(m)' = Private(m)
  BY DEF User, Private
<1>4. UserOf' = UserOf
  BY <1>3 DEF UserOf
<1>5. EntriesOK' /\ CountsOK' /\ UsersOK' /\ OwnersOK'
  BY <1>3, <1>4 DEF OgrInv, PoolInv, EntriesOK, CountsOK, UsersOK, OwnersOK, HoldersIn
<1>6. ClosingOK' /\ UnusedOK' /\ PrivateOK'
  BY <1>3 DEF OgrInv, PoolInv, ClosingOK, UnusedOK, PrivateOK
<1> QED
  BY <1>1, <1>2, <1>5, <1>6 DEF OgrInv, PoolInv

\* Every step of every thread preserves the invariant.
LEMMA OgrNext == OgrInv /\ [Next]_vars => OgrInv'
<1> SUFFICES ASSUME OgrInv, [Next]_vars PROVE OgrInv'
  OBVIOUS
<1>1. ASSUME NEW l \in Layers, CallStep(l) \/ InnerStep(l) PROVE OgrInv'
  <2>1. TypeOK /\ ShapeInv /\ LocksInv
    BY DEF OgrInv
  <2>2. Local(l) /\ ShapeOf(l)'
    BY <1>1, <2>1, ShapeStep
  <2>3. ShapeInv'
    BY <2>1, <2>2, ShapeKept
  <2>4. LocksInv'
    BY <1>1, <2>1, <2>2, TurnsStep, LocksStep
  <2>5. /\ PoolInv' /\ connections' \in Seq(connectionObj)
        /\ dataset' \in [Handles -> {"free", "open"}]
    BY <1>1, <2>2, PoolStep
  <2>6. TypeOK'
    BY <1>1, <2>1, <2>2, <2>5, RestTyped DEF TypeOK, Local
  <2> QED
    BY <2>3, <2>4, <2>5, <2>6 DEF OgrInv
<1>2. CASE Cleanup
  BY <1>2, OgrIdle DEF Cleanup, OgrInv, TypeOK, poolVars, layerVars
<1>3. CASE UNCHANGED vars
  BY <1>3, OgrIdle DEF vars, OgrInv, TypeOK
<1> QED
  BY <1>1, <1>2, <1>3 DEF Next

\* Layers, mutexes and pool agree in every reachable state, in both builds and
\* however the threads interleave.
THEOREM OgrInvariance == Spec => []OgrInv
<1> QED
  BY OgrInit, OgrNext, PTL DEF Spec

\* In the build with IGNORE_MISSING_DATA a section that has taken TLOCK_OGR has
\* it to its end: nobody else gives it back.
THEOREM SectionsLocked == Spec => []SectionLockedIgnoring
<1>1. OgrInv => SectionLockedIgnoring
  BY DEF OgrInv, LocksInv, SectionLockedIgnoring, SectionLocked
<1> QED
  BY <1>1, OgrInvariance, PTL

\* The mutexes are taken in the order POOL, OGR and never twice by a thread,
\* so they cannot deadlock on each other (and every variable has its type).
THEOREM LocksOrdered == Spec => []LockOrder
<1>1. OgrInv => LockOrder
  <2> SUFFICES ASSUME OgrInv, NEW l \in Layers
               PROVE  /\ pc[l] \in WantPool =>
                            lock["POOL"] # ThreadOf[l] /\ lock["OGR"] # ThreadOf[l]
                      /\ pc[l] \in WantOgr => lock["OGR"] # ThreadOf[l]
    BY DEF LockOrder, OgrInv
  <2>1. pc[l] \in WantPool \cup WantOgr => call[l] # "none"
    BY DEF OgrInv, ShapeInv, ShapeOf, WantPool, WantOgr
  <2>2. ASSUME pc[l] \in WantPool \cup WantOgr, lock["OGR"] = ThreadOf[l] PROVE FALSE
    <3>1. PICK m \in Layers : ThreadOf[m] = lock["OGR"] /\ pc[m] \in OgrSections
      BY <2>2, PoolAssumption, OgrAssumption DEF OgrInv, LocksInv
    <3>2. call[m] # "none"
      BY <3>1, Busy DEF OgrInv
    <3>3. m = l
      BY <2>1, <2>2, <3>1, <3>2 DEF OgrInv, LocksInv
    <3> QED
      BY <2>2, <3>1, <3>3 DEF WantPool, WantOgr, OgrSections
  <2>3. ASSUME pc[l] \in WantPool, lock["POOL"] = ThreadOf[l] PROVE FALSE
    <3>1. PICK m \in Layers : ThreadOf[m] = lock["POOL"] /\ pc[m] \in InPool
      BY <2>3, PoolAssumption, OgrAssumption DEF OgrInv, LocksInv
    <3>2. call[m] # "none"
      BY <3>1, Busy DEF OgrInv
    <3>3. m = l
      BY <2>1, <2>3, <3>1, <3>2 DEF OgrInv, LocksInv
    <3> QED
      BY <2>3, <3>1, <3>3 DEF WantPool, InPool
  <2> QED
    BY <2>2, <2>3
<1> QED
  BY <1>1, OgrInvariance, PTL

\* What a layer holds it has for itself, is using from the pool, or is closing.
LEMMA Holding ==
    ASSUME OgrInv, NEW l \in Layers, NEW h \in {hDS[l], file[l], tile[l]} \ {NoHandle}
    PROVE  \/ h \in Private(l)
           \/ pc[l] \in InPool /\ h = hDS[l]
           \/ h = User(l)
<1>1. ShapeOf(l) /\ (l \in Tiled <=> ConnectionOf[l] = NoConnection)
  BY OgrAssumption DEF OgrInv, ShapeInv
<1>2. CASE pc[l] \in InPool
  BY <1>1, <1>2 DEF ShapeOf, InPool
<1>3. CASE h \notin Private(l) /\ pc[l] \notin InPool
  <2>1. l \notin Tiled /\ ConnectionOf[l] # NoConnection /\ tile[l] = NoHandle
    BY <1>1, <1>3 DEF Private, ShapeOf
  <2>2. hDS[l] # NoHandle => file[l] = NoHandle
    BY <1>1, <2>1 DEF ShapeOf, Empty, OgrInv, TypeOK, Places, OgrSections, OgrUnlocked,
                      WantPool, WantOgr, InPool, Calls
  <2> QED
    BY <1>1, <1>3, <2>1, <2>2 DEF User, Private, ShapeOf, Empty
<1> QED
  BY <1>2, <1>3

\* No layer holds a data set that the release of another layer has destroyed.
THEOREM NeverDestroyedInUse == Spec => []NoUseAfterClose
<1>1. OgrInv => NoUseAfterClose
  <2> SUFFICES ASSUME OgrInv, NEW l \in Layers,
                      NEW h \in {hDS[l], file[l], tile[l]} \ {NoHandle}
               PROVE  dataset[h] = "open"
    BY DEF NoUseAfterClose
  <2>1. CASE h \in Private(l)
    BY <2>1 DEF OgrInv, PoolInv, PrivateOK
  <2>2. CASE pc[l] \in InPool /\ h = hDS[l]
    BY <2>2 DEF OgrInv, PoolInv, ClosingOK, EntriesOK
  <2>3. CASE h = User(l)
    BY <2>3 DEF OgrInv, PoolInv, UsersOK, EntriesOK
  <2> QED
    BY <2>1, <2>2, <2>3, Holding
<1> QED
  BY <1>1, OgrInvariance, PTL

\* Two threads never have the same data set, whether or not the calls they are
\* in are made under TLOCK_OGR: the pool gives a data set that is used only to
\* the thread that uses it, and one that is being closed to nobody.
THEOREM DatasetsStayApart == Spec => []DatasetsApart
<1>1. OgrInv => DatasetsApart
  <2> SUFFICES ASSUME OgrInv, NEW l \in Layers, NEW m \in Layers,
                      ThreadOf[l] # ThreadOf[m], NEW h,
                      h \in {hDS[l], file[l], tile[l]} \ {NoHandle},
                      h \in {hDS[m], file[m], tile[m]} \ {NoHandle}
               PROVE  FALSE
    BY DEF DatasetsApart
  <2>1. TypeOK /\ LocksInv /\ PoolInv /\ h # NoHandle
    BY DEF OgrInv
  <2> DEFINE InTable(k) == \E i \in DOMAIN connections :
                              /\ connections[i].conn_handle = h
                              /\ IF pc[k] \in InPool
                                 THEN connections[i].ref_count = 0
                                 ELSE /\ connections[i].ref_count > 0
                                      /\ connections[i].thread_id = ThreadOf[k]
  <2>2. ASSUME NEW k \in Layers, h \in {hDS[k], file[k], tile[k]} \ {NoHandle},
               h \notin Private(k)
        PROVE  InTable(k)
    <3>1. CASE pc[k] \in InPool /\ h = hDS[k]
      BY <2>1, <3>1 DEF PoolInv, ClosingOK
    <3>2. CASE h = User(k)
      <4>1. pc[k] \notin InPool
        BY <2>1, <3>2 DEF User
      <4>2. PICK i \in DOMAIN connections : connections[i].conn_handle = h
        BY <2>1, <3>2 DEF PoolInv, UsersOK
      <4>3. connections[i].ref_count > 0
        BY <2>1, <3>2, <4>2, UsedIsCounted
      <4> QED
        BY <2>1, <3>2, <4>1, <4>2, <4>3 DEF PoolInv, OwnersOK
    <3> QED
      BY <2>2, <3>1, <3>2, Holding
  <2>3. CASE h \in Private(l) \/ h \in Private(m)
    <3>1. \A k \in Layers : h \in Private(k) => ~InTable(l) /\ ~InTable(m)
      BY <2>1 DEF PoolInv, PrivateOK
    <3>2. h \in Private(l) /\ h \in Private(m)
      BY <2>2, <2>3, <3>1
    <3> QED
      BY <2>1, <3>2 DEF PoolInv, PrivateOK
  <2>4. CASE h \notin Private(l) /\ h \notin Private(m)
    <3>1. InTable(l) /\ InTable(m)
      BY <2>2, <2>4
    <3>2. PICK i \in DOMAIN connections :
             /\ connections[i].conn_handle = h
             /\ IF pc[l] \in InPool
                THEN connections[i].ref_count = 0
                ELSE connections[i].ref_count > 0 /\ connections[i].thread_id = ThreadOf[l]
             /\ IF pc[m] \in InPool
                THEN connections[i].ref_count = 0
                ELSE connections[i].ref_count > 0 /\ connections[i].thread_id = ThreadOf[m]
      BY <2>1, <3>1 DEF PoolInv, EntriesOK
    <3>3. pc[l] \in InPool /\ pc[m] \in InPool
      BY <3>2
    <3> QED
      BY <2>1, <3>3 DEF LocksInv
  <2> QED
    BY <2>3, <2>4
<1> QED
  BY <1>1, OgrInvariance, PTL

\* A pooled data set that no layer refers to is one that was deferred: no
\* failure between opening and closing leaks a reference.
THEOREM UnusedAreClosed == Spec => []ClosedWhenUnused
<1>1. OgrInv => ClosedWhenUnused
  <2> SUFFICES ASSUME OgrInv, NEW i \in DOMAIN connections,
                      ~Held(connections[i].conn_handle)
               PROVE  connections[i].lifespan = "FOREVER"
    BY DEF ClosedWhenUnused
  <2> DEFINE h == connections[i].conn_handle
  <2>1. h # NoHandle /\ TypeOK
    BY EntryTypes DEF OgrInv
  <2>2. \A l \in Layers : UserOf[l] # h
    <3>1. \A l \in Layers : UserOf[l] = User(l)
      BY DEF UserOf
    <3> QED
      BY <2>1, <3>1 DEF User, Held
  <2>3. Cardinality(HoldersIn(Layers, UserOf, h)) = 0
    BY <2>2, HoldersNone
  <2>4. connections[i].ref_count = 0
    BY <2>3 DEF OgrInv, PoolInv, CountsOK
  <2> QED
    BY <2>4 DEF OgrInv, PoolInv, UnusedOK, Held
<1> QED
  BY <1>1, OgrInvariance, PTL
=============================================================================
