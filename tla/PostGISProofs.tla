---------------------------- MODULE PostGISProofs ----------------------------
(***************************************************************************)
(* Proofs about PostGISLayer, for every number of threads, layers,         *)
(* connections and every assignment of them.                               *)
(***************************************************************************)
EXTENDS PostGISLayer, FiniteSetTheorems, TLAPS

-----------------------------------------------------------------------------
(* What the pool operators do to the table.                                *)

\* msConnPoolRegister appends one entry and leaves the others alone.
LEMMA RegisteredLemma ==
    ASSUME NEW conns \in Seq(connectionObj), NEW c \in Connections,
           NEW mode \in CloseModes, NEW t \in Threads, NEW h \in Handles
    PROVE  LET new == Registered(conns, c, mode, t, h) IN
           /\ new \in Seq(connectionObj)
           /\ Len(new) = Len(conns) + 1
           /\ \A k \in DOMAIN conns : new[k] = conns[k]
           /\ new[Len(conns) + 1].connection = c
           /\ new[Len(conns) + 1].lifespan = Lifespan(mode)
           /\ new[Len(conns) + 1].ref_count = 1
           /\ new[Len(conns) + 1].thread_id = t
           /\ new[Len(conns) + 1].conn_handle = h
<1> DEFINE e == [connection |-> c, lifespan |-> Lifespan(mode),
                 ref_count |-> 1, thread_id |-> t, conn_handle |-> h]
<1>1. Lifespan(mode) \in Lifespans
  BY DEF Lifespan, Lifespans
<1>2. e \in connectionObj
  BY <1>1 DEF connectionObj
<1> HIDE DEF e
<1>3. Append(conns, e) \in Seq(connectionObj)
  BY <1>2
<1>4. /\ Len(Append(conns, e)) = Len(conns) + 1
      /\ \A k \in DOMAIN conns : Append(conns, e)[k] = conns[k]
      /\ Append(conns, e)[Len(conns) + 1] = e
  BY <1>2
<1> QED
  BY <1>3, <1>4 DEF Registered, e

\* msConnPoolClose removes one entry and keeps each of the others, the last
\* one in the place of the removed one.
LEMMA ClosedLemma ==
    ASSUME NEW conns \in Seq(connectionObj), NEW i \in DOMAIN conns
    PROVE  /\ Closed(conns, i) \in Seq(connectionObj)
           /\ Len(Closed(conns, i)) = Len(conns) - 1
           /\ DOMAIN Closed(conns, i) = 1 .. Len(conns) - 1
           /\ \A k \in DOMAIN Closed(conns, i) :
                 Closed(conns, i)[k] = IF k = i THEN conns[Len(conns)]
                                                ELSE conns[k]
<1>1. Len(conns) - 1 \in Nat /\ Len(conns) \in DOMAIN conns
  OBVIOUS
<1>2. \A k \in 1 .. Len(conns) - 1 :
         (IF k = i THEN conns[Len(conns)] ELSE conns[k]) \in connectionObj
  BY <1>1
<1> QED
  BY <1>1, <1>2 DEF Closed

\* Where the entries of the table are from that msConnPoolClose leaves: each
\* is one of the old table, and no two are the same one.
IsOrigin(conns, i, org) ==
    /\ org \in [1 .. Len(conns) - 1 -> DOMAIN conns \ {i}]
    /\ \A k \in DOMAIN Closed(conns, i) : Closed(conns, i)[k] = conns[org[k]]
    /\ \A j, k \in 1 .. Len(conns) - 1 : org[j] = org[k] => j = k
    /\ \A j \in DOMAIN conns \ {i} : \E k \in 1 .. Len(conns) - 1 : org[k] = j

\* msConnPoolClose keeps exactly the other entries.
LEMMA ClosedOrigin ==
    ASSUME NEW conns \in Seq(connectionObj), NEW i \in DOMAIN conns
    PROVE  \E org : IsOrigin(conns, i, org)
<1> DEFINE org == [k \in 1 .. Len(conns) - 1 |-> IF k = i THEN Len(conns) ELSE k]
<1>1. org \in [1 .. Len(conns) - 1 -> DOMAIN conns \ {i}]
  <2>1. Len(conns) \in Nat /\ DOMAIN conns = 1 .. Len(conns)
    OBVIOUS
  <2>2. \A k \in 1 .. Len(conns) - 1 :
           (IF k = i THEN Len(conns) ELSE k) \in DOMAIN conns \ {i}
    BY <2>1
  <2> QED
    BY <2>2
<1>2. ASSUME NEW k \in DOMAIN Closed(conns, i)
      PROVE  Closed(conns, i)[k] = conns[org[k]]
  <2>1. /\ k \in 1 .. Len(conns) - 1
        /\ Closed(conns, i)[k] = IF k = i THEN conns[Len(conns)] ELSE conns[k]
    BY ClosedLemma
  <2>2. org[k] = IF k = i THEN Len(conns) ELSE k
    BY <2>1
  <2> HIDE DEF org
  <2> QED
    BY <2>1, <2>2
<1>3. \A j, k \in 1 .. Len(conns) - 1 : org[j] = org[k] => j = k
  OBVIOUS
<1>4. ASSUME NEW j \in DOMAIN conns \ {i}
      PROVE  \E k \in 1 .. Len(conns) - 1 : org[k] = j
  <2>1. CASE j = Len(conns)
    <3>1. i \in 1 .. Len(conns) - 1 /\ org[i] = j
      BY <2>1
    <3> QED BY <3>1
  <2>2. CASE j # Len(conns)
    <3>1. j \in 1 .. Len(conns) - 1 /\ org[j] = j
      BY <2>2
    <3> QED BY <3>1
  <2> QED BY <2>1, <2>2
<1>5. IsOrigin(conns, i, org)
  <2> HIDE DEF org
  <2> QED
    BY <1>1, <1>2, <1>3, <1>4 DEF IsOrigin
<1> QED
  BY <1>5

\* What the closed entry held does not matter to the table that is left.
LEMMA ClosedSame ==
    ASSUME NEW conns \in Seq(connectionObj), NEW i \in DOMAIN conns,
           NEW new \in Seq(connectionObj), Len(new) = Len(conns),
           \A k \in DOMAIN conns : k # i => new[k] = conns[k]
    PROVE  Closed(new, i) = Closed(conns, i)
BY DEF Closed

\* msConnPoolRequest changes the count and the owner of one entry.
LEMMA TakenLemma ==
    ASSUME NEW conns \in Seq(connectionObj), NEW i \in DOMAIN conns,
           NEW t \in Threads
    PROVE  LET new == Taken(conns, i, t) IN
           /\ new \in Seq(connectionObj)
           /\ DOMAIN new = DOMAIN conns /\ Len(new) = Len(conns)
           /\ \A k \in DOMAIN conns :
                 /\ new[k].conn_handle = conns[k].conn_handle
                 /\ new[k].connection = conns[k].connection
                 /\ new[k].lifespan = conns[k].lifespan
                 /\ k # i => new[k] = conns[k]
           /\ new[i].ref_count = conns[i].ref_count + 1
           /\ new[i].thread_id = t
<1> DEFINE r == conns[i]
           e1 == [r EXCEPT !.ref_count = r.ref_count + 1]
           e == [e1 EXCEPT !.thread_id = t]
<1>1. r \in connectionObj
  OBVIOUS
<1>2. /\ e1 \in connectionObj
      /\ e1.conn_handle = r.conn_handle /\ e1.connection = r.connection
      /\ e1.lifespan = r.lifespan
      /\ e1.thread_id = r.thread_id /\ e1.ref_count = r.ref_count + 1
  BY <1>1 DEF connectionObj
<1>3. [r EXCEPT !.ref_count = r.ref_count + 1, !.thread_id = t] = e
  BY <1>1 DEF connectionObj
<1> HIDE DEF e1
<1>4. /\ e \in connectionObj
      /\ e.conn_handle = e1.conn_handle /\ e.connection = e1.connection
      /\ e.ref_count = e1.ref_count /\ e.lifespan = e1.lifespan
      /\ e.thread_id = t
  BY <1>1, <1>2 DEF connectionObj
<1>5. Referenced(conns[i], t) = e
  BY <1>3 DEF Referenced
<1> HIDE DEF e
<1>6. /\ [conns EXCEPT ![i] = e] \in Seq(connectionObj)
      /\ DOMAIN [conns EXCEPT ![i] = e] = DOMAIN conns
      /\ Len([conns EXCEPT ![i] = e]) = Len(conns)
      /\ [conns EXCEPT ![i] = e][i] = e
      /\ \A k \in DOMAIN conns : k # i => [conns EXCEPT ![i] = e][k] = conns[k]
  BY <1>4
<1> QED
  BY <1>2, <1>4, <1>5, <1>6 DEF Taken

\* msConnPoolRelease drops one reference; the owner stays unless it was the
\* last one.
LEMMA DroppedLemma ==
    ASSUME NEW conns \in Seq(connectionObj), NEW i \in DOMAIN conns,
           conns[i].ref_count > 0
    PROVE  LET new == Dropped(conns, i) IN
           /\ new \in Seq(connectionObj)
           /\ DOMAIN new = DOMAIN conns /\ Len(new) = Len(conns)
           /\ \A k \in DOMAIN conns :
                 /\ new[k].conn_handle = conns[k].conn_handle
                 /\ new[k].connection = conns[k].connection
                 /\ new[k].lifespan = conns[k].lifespan
                 /\ k # i => new[k] = conns[k]
           /\ new[i].ref_count = conns[i].ref_count - 1
           /\ conns[i].ref_count # 1 => new[i].thread_id = conns[i].thread_id
<1> DEFINE r == conns[i]
           e1 == [r EXCEPT !.ref_count = r.ref_count - 1]
           e == [e1 EXCEPT !.thread_id = IF r.ref_count = 1 THEN NoThread ELSE r.thread_id]
<1>1. r \in connectionObj
  OBVIOUS
<1>2. /\ e1 \in connectionObj
      /\ e1.conn_handle = r.conn_handle /\ e1.connection = r.connection
      /\ e1.lifespan = r.lifespan
      /\ e1.thread_id = r.thread_id /\ e1.ref_count = r.ref_count - 1
  BY <1>1 DEF connectionObj
<1>3. [r EXCEPT !.ref_count = r.ref_count - 1, !.thread_id = IF r.ref_count = 1 THEN NoThread ELSE r.thread_id] = e
  BY <1>1 DEF connectionObj
<1> HIDE DEF e1
<1>4. /\ e \in connectionObj
      /\ e.conn_handle = e1.conn_handle /\ e.connection = e1.connection
      /\ e.ref_count = e1.ref_count /\ e.lifespan = e1.lifespan
      /\ r.ref_count # 1 => e.thread_id = r.thread_id
  BY <1>1, <1>2 DEF connectionObj
<1>5. Dereferenced(conns[i]) = e
  BY <1>3 DEF Dereferenced
<1> HIDE DEF e
<1>6. /\ [conns EXCEPT ![i] = e] \in Seq(connectionObj)
      /\ DOMAIN [conns EXCEPT ![i] = e] = DOMAIN conns
      /\ Len([conns EXCEPT ![i] = e]) = Len(conns)
      /\ [conns EXCEPT ![i] = e][i] = e
      /\ \A k \in DOMAIN conns : k # i => [conns EXCEPT ![i] = e][k] = conns[k]
  BY <1>4
<1> QED
  BY <1>2, <1>4, <1>5, <1>6 DEF Dropped

-----------------------------------------------------------------------------
(* How the set of layers that hold a handle changes.                       *)

HoldersIn(S, f, h) == {l \in S : f[l] = h}

\* There are finitely many layers to count.
LEMMA HoldersFinite ==
    ASSUME NEW S, IsFiniteSet(S), NEW f, NEW h
    PROVE  /\ IsFiniteSet(HoldersIn(S, f, h))
           /\ Cardinality(HoldersIn(S, f, h)) \in Nat
<1>1. IsFiniteSet(HoldersIn(S, f, h))
  BY FS_Subset DEF HoldersIn
<1> QED
  BY <1>1, FS_CardinalityType

\* A layer that takes a handle adds one to its holders and, if it held
\* nothing before, changes nothing for the other handles.
LEMMA HoldersTake ==
    ASSUME NEW S, IsFiniteSet(S),
           NEW f \in [S -> Handles \cup {NoHandle}], NEW l \in S,
           f[l] = NoHandle, NEW h \in Handles
    PROVE  LET g == [f EXCEPT ![l] = h] IN
           /\ Cardinality(HoldersIn(S, g, h)) = Cardinality(HoldersIn(S, f, h)) + 1
           /\ \A k \in Handles : k # h => HoldersIn(S, g, k) = HoldersIn(S, f, k)
<1> DEFINE g == [f EXCEPT ![l] = h]
<1>1. HoldersIn(S, g, h) = HoldersIn(S, f, h) \cup {l} /\ l \notin HoldersIn(S, f, h)
  BY PoolAssumption DEF HoldersIn
<1>2. \A k \in Handles : k # h => HoldersIn(S, g, k) = HoldersIn(S, f, k)
  BY PoolAssumption DEF HoldersIn
<1> HIDE DEF g
<1>3. Cardinality(HoldersIn(S, g, h)) = Cardinality(HoldersIn(S, f, h)) + 1
  BY <1>1, HoldersFinite, FS_AddElement
<1> QED
  BY <1>2, <1>3 DEF g

\* A layer that gives its handle up takes one from its holders.
LEMMA HoldersGive ==
    ASSUME NEW S, IsFiniteSet(S),
           NEW f \in [S -> Handles \cup {NoHandle}], NEW l \in S,
           f[l] \in Handles
    PROVE  LET g == [f EXCEPT ![l] = NoHandle] IN
           /\ Cardinality(HoldersIn(S, f, f[l])) > 0
           /\ Cardinality(HoldersIn(S, g, f[l])) = Cardinality(HoldersIn(S, f, f[l])) - 1
           /\ \A k \in Handles : k # f[l] => HoldersIn(S, g, k) = HoldersIn(S, f, k)
<1> DEFINE g == [f EXCEPT ![l] = NoHandle]
           h == f[l]
<1>1. HoldersIn(S, g, h) = HoldersIn(S, f, h) \ {l} /\ l \in HoldersIn(S, f, h)
  BY PoolAssumption DEF HoldersIn
<1>2. \A k \in Handles : k # h => HoldersIn(S, g, k) = HoldersIn(S, f, k)
  BY PoolAssumption DEF HoldersIn
<1>3. HoldersIn(S, g, h) \cup {l} = HoldersIn(S, f, h) /\ l \notin HoldersIn(S, g, h)
  BY <1>1
<1> HIDE DEF g, h
<1>4. Cardinality(HoldersIn(S, f, h)) = Cardinality(HoldersIn(S, g, h)) + 1
  BY <1>3, HoldersFinite, FS_AddElement
<1>5. /\ Cardinality(HoldersIn(S, f, h)) \in Nat
      /\ Cardinality(HoldersIn(S, g, h)) \in Nat
  BY HoldersFinite
<1>6. /\ Cardinality(HoldersIn(S, f, h)) > 0
      /\ Cardinality(HoldersIn(S, g, h)) = Cardinality(HoldersIn(S, f, h)) - 1
  BY <1>4, <1>5
<1> QED
  BY <1>2, <1>6 DEF g, h

-----------------------------------------------------------------------------
(* PoolInv is inductive.                                                   *)

\* The layers whose holdings are counted are finitely many.
LEMMA LayersFinite == IsFiniteSet(Layers)
BY PostGISAssumption

\* A layer that takes a connection is one holder more.
LEMMA HandleTaken ==
    ASSUME pgconn \in [Layers -> Handles \cup {NoHandle}],
           NEW l \in Layers, pgconn[l] = NoHandle, NEW h \in Handles,
           pgconn' = [pgconn EXCEPT ![l] = h]
    PROVE  /\ Cardinality(HoldersIn(Layers, pgconn', h))
                = Cardinality(HoldersIn(Layers, pgconn, h)) + 1
           /\ \A k \in Handles : k # h =>
                 HoldersIn(Layers, pgconn', k) = HoldersIn(Layers, pgconn, k)
<1>1. LET g == [pgconn EXCEPT ![l] = h] IN
      /\ Cardinality(HoldersIn(Layers, g, h)) = Cardinality(HoldersIn(Layers, pgconn, h)) + 1
      /\ \A k \in Handles : k # h => HoldersIn(Layers, g, k) = HoldersIn(Layers, pgconn, k)
  BY HoldersTake, LayersFinite, Zenon
<1> QED
  BY <1>1

\* A layer that gives its connection up is one holder less.
LEMMA HandleGiven ==
    ASSUME pgconn \in [Layers -> Handles \cup {NoHandle}],
           NEW l \in Layers, pgconn[l] \in Handles,
           pgconn' = [pgconn EXCEPT ![l] = NoHandle]
    PROVE  /\ Cardinality(HoldersIn(Layers, pgconn', pgconn[l]))
                = Cardinality(HoldersIn(Layers, pgconn, pgconn[l])) - 1
           /\ \A k \in Handles : k # pgconn[l] =>
                 HoldersIn(Layers, pgconn', k) = HoldersIn(Layers, pgconn, k)
<1>1. LET g == [pgconn EXCEPT ![l] = NoHandle] IN
      /\ Cardinality(HoldersIn(Layers, g, pgconn[l]))
           = Cardinality(HoldersIn(Layers, pgconn, pgconn[l])) - 1
      /\ \A k \in Handles : k # pgconn[l] =>
            HoldersIn(Layers, g, k) = HoldersIn(Layers, pgconn, k)
  BY HoldersGive, LayersFinite, Zenon
<1> QED
  BY <1>1

\* The empty pool satisfies the inductive invariant.
LEMMA PoolInvInit == Init => PoolInv
<1> SUFFICES ASSUME Init PROVE PoolInv
  OBVIOUS
<1> USE DEF Init
<1>1. TypeOK
  BY PoolAssumption DEF TypeOK, Phases, NoSweep
<1>2. SweepOK /\ HandleOK /\ FinalOK
  BY PoolAssumption DEF SweepOK, HandleOK, FinalOK, NoSweep
<1>3. PoolOK /\ HolderOK /\ UnpooledOK /\ AbandonedOK
  BY DEF PoolOK, HolderOK, UnpooledOK, AbandonedOK
<1>4. NoUseAfterClose /\ RefCountExact
  BY DEF NoUseAfterClose, RefCountExact
<1> QED
  BY <1>1, <1>2, <1>3, <1>4 DEF PoolInv

\* The fields of a pooled connection have their types.
LEMMA EntryType ==
    ASSUME TypeOK, NEW i \in DOMAIN connections
    PROVE  /\ connections[i] \in connectionObj
           /\ connections[i].conn_handle \in Handles
           /\ connections[i].conn_handle # NoHandle
           /\ connections[i].ref_count \in Nat
<1>1. connections[i] \in connectionObj
  BY DEF TypeOK
<1> QED
  BY <1>1, PoolAssumption DEF connectionObj

\* Steps that touch neither the table nor a handle: requests that find
\* nothing, failed connects, registrations and tests, the version query, the
\* ends of a sweep and the loss of a connection.
LEMMA PoolInvQuiet ==
    ASSUME PoolInv,
           UNCHANGED <<connections, connectionMax, pgconn, abandoned>>,
           phase' \in [Layers -> Phases],
           backend' \in [Handles -> {"free", "ok", "bad"}],
           \A h \in Handles : backend'[h] = "free" <=> backend[h] = "free",
           HandleOK', SweepOK', sweep' \in [by : Threads \cup {NoThread},
               op : {"none", "unreferenced", "final"}, i : Nat],
           \A l \in Layers : phase'[l] = "register" => phase[l] = "register",
           \A l \in Layers : phase'[l] = "test" => phase[l] = "test",
           FinalOK'
    PROVE  PoolInv'
<1> USE DEF PoolInv
<1>1. TypeOK'
  BY DEF TypeOK
<1>2. PoolOK'
  BY EntryType DEF PoolOK
<1>3. HolderOK'
  BY DEF HolderOK
<1>4. UnpooledOK' /\ AbandonedOK'
  BY DEF UnpooledOK, AbandonedOK, Pooled
<1>5. NoUseAfterClose'
  BY DEF NoUseAfterClose, TypeOK
<1>6. RefCountExact'
  BY DEF RefCountExact, Holders
<1> QED
  BY <1>1, <1>2, <1>3, <1>4, <1>5, <1>6

\* The steps of an opening layer that leave the table and the handles alone.
LEMMA QuietLayer ==
    ASSUME PoolInv, NEW l \in Layers,
           \/ OpenMiss(l) \/ ConnectFail(l) \/ RegisterFail(l) \/ TestPooled(l)
           \/ Opened(l)
    PROVE  PoolInv'
<1> USE DEF PoolInv, poolVars, Goto
<1>t. /\ phase \in [Layers -> Phases]
      /\ pgconn \in [Layers -> Handles \cup {NoHandle}]
      /\ backend \in [Handles -> {"free", "ok", "bad"}]
      /\ connections \in Seq(connectionObj)
      /\ sweep \in [by : Threads \cup {NoThread},
                    op : {"none", "unreferenced", "final"}, i : Nat]
  BY DEF TypeOK
<1>1. CASE OpenMiss(l)
  BY <1>1, <1>t, PoolInvQuiet DEF OpenMiss, HandleOK, SweepOK, FinalOK, Pooled, Phases
<1>2. CASE ConnectFail(l)
  BY <1>2, <1>t, PoolInvQuiet DEF ConnectFail, HandleOK, SweepOK, FinalOK, Pooled, Phases
<1>3. CASE RegisterFail(l)
  BY <1>3, <1>t, PoolInvQuiet DEF RegisterFail, HandleOK, SweepOK, FinalOK, Pooled, Phases
<1>4. CASE TestPooled(l)
  <2>1. pgconn[l] \in Handles /\ backend[pgconn[l]] # "free"
    BY <1>4, <1>t DEF TestPooled, HandleOK, NoUseAfterClose
  <2>2. /\ phase' \in [Layers -> Phases]
        /\ backend' \in [Handles -> {"free", "ok", "bad"}]
        /\ \A k \in Handles : backend'[k] = "free" <=> backend[k] = "free"
    BY <1>4, <2>1, <1>t DEF TestPooled, Phases
  <2>3. HandleOK'
    BY <1>4, <1>t DEF TestPooled, HandleOK, Phases
  <2>4. SweepOK' /\ FinalOK'
    BY <1>4 DEF TestPooled, SweepOK, FinalOK, Pooled
  <2> QED
    BY <1>4, <1>t, <2>2, <2>3, <2>4, PoolInvQuiet DEF TestPooled
<1>5. CASE Opened(l)
  BY <1>5, <1>t, PoolInvQuiet DEF Opened, HandleOK, SweepOK, FinalOK, Pooled, Phases
<1> QED
  BY <1>1, <1>2, <1>3, <1>4, <1>5

\* A sweep begins or ends: TLOCK_POOL changes hands.
LEMMA QuietSweep ==
    ASSUME PoolInv, NEW t \in Threads, BeginSweep(t) \/ EndSweep(t)
    PROVE  PoolInv'
<1> USE DEF PoolInv, poolVars, Goto
<1>t. /\ phase \in [Layers -> Phases]
      /\ pgconn \in [Layers -> Handles \cup {NoHandle}]
      /\ backend \in [Handles -> {"free", "ok", "bad"}]
      /\ connections \in Seq(connectionObj)
      /\ sweep \in [by : Threads \cup {NoThread},
                    op : {"none", "unreferenced", "final"}, i : Nat]
  BY DEF TypeOK
<1>6. CASE BeginSweep(t)
  <2>1. /\ sweep' \in [by : Threads \cup {NoThread},
                       op : {"none", "unreferenced", "final"}, i : Nat]
        /\ SweepOK'
    BY <1>6, <1>t, PoolAssumption DEF BeginSweep, SweepOK
  <2>2. FinalOK'
    <3> SUFFICES ASSUME sweep'.op = "final", NEW m \in Layers
                 PROVE  ~Pooled(pgconn[m])
      BY <1>6 DEF BeginSweep, FinalOK, Pooled
    <3>1. pgconn[m] = NoHandle
      BY <1>6 DEF BeginSweep, HandleOK
    <3> QED
      BY <3>1, EntryType DEF Pooled
  <2> QED
    BY <1>6, <1>t, <2>1, <2>2, PoolInvQuiet DEF BeginSweep, HandleOK
<1>7. CASE EndSweep(t)
  <2>1. /\ sweep' \in [by : Threads \cup {NoThread},
                       op : {"none", "unreferenced", "final"}, i : Nat]
        /\ SweepOK' /\ FinalOK'
    BY <1>7, PoolAssumption DEF EndSweep, SweepOK, FinalOK, NoSweep
  <2> QED
    BY <1>7, <1>t, <2>1, PoolInvQuiet DEF EndSweep, HandleOK
<1> QED
  BY <1>6, <1>7

\* The server drops a connection.
LEMMA QuietServer ==
    ASSUME PoolInv, NEW h \in Handles, ServerDrops(h)
    PROVE  PoolInv'
<1> USE DEF PoolInv, poolVars, Goto
<1>t. /\ phase \in [Layers -> Phases]
      /\ pgconn \in [Layers -> Handles \cup {NoHandle}]
      /\ backend \in [Handles -> {"free", "ok", "bad"}]
      /\ connections \in Seq(connectionObj)
      /\ sweep \in [by : Threads \cup {NoThread},
                    op : {"none", "unreferenced", "final"}, i : Nat]
  BY DEF TypeOK
<1>8. CASE ServerDrops(h)
  <2>1. SweepOK' /\ FinalOK' /\ HandleOK'
    BY <1>8 DEF ServerDrops, SweepOK, FinalOK, HandleOK, Pooled
  <2> QED
    BY <1>8, <1>t, <2>1, PoolInvQuiet DEF ServerDrops
<1> QED
  BY <1>8

\* PQconnectdb yields a handle that is neither pooled nor held.
LEMMA ConnectStep ==
    ASSUME PoolInv, NEW l \in Layers, Connect(l)
    PROVE  PoolInv'
<1> USE DEF PoolInv
<1>1. PICK h \in Handles :
         /\ backend[h] = "free"
         /\ backend' = [backend EXCEPT ![h] = "ok"]
         /\ pgconn' = [pgconn EXCEPT ![l] = h]
  BY DEF Connect
<1>2. /\ phase[l] = "connect" /\ phase' = [phase EXCEPT ![l] = "register"]
      /\ UNCHANGED <<connections, connectionMax, sweep, abandoned>>
      /\ pgconn[l] = NoHandle /\ ConnectionOf[l] # NoConnection
  BY DEF Connect, Goto, poolVars, HandleOK
<1>3. ~Pooled(h)
  BY <1>1 DEF Pooled, PoolOK
<1>4. \A m \in Layers : pgconn[m] # h
  BY <1>1, PoolAssumption DEF NoUseAfterClose
<1>5. h # NoHandle
  BY PoolAssumption
<1>6. TypeOK'
  BY <1>1, <1>2 DEF TypeOK, Phases
<1>7. SweepOK'
  BY <1>2 DEF SweepOK
<1>8. HandleOK'
  BY <1>1, <1>2, <1>5 DEF HandleOK, TypeOK
<1>9. PoolOK'
  BY <1>1, <1>2, EntryType DEF PoolOK, TypeOK
<1>10. HolderOK'
  BY <1>1, <1>2, <1>3 DEF HolderOK, TypeOK, Pooled
<1>11. \A k \in Handles : Pooled(k)' <=> Pooled(k)
  BY <1>2 DEF Pooled
<1>12. UnpooledOK'
  <2> SUFFICES ASSUME NEW a \in Layers, NEW m \in Layers,
                      pgconn'[a] # NoHandle, ~Pooled(pgconn'[a])
               PROVE  phase'[a] # "test" /\ (pgconn'[m] = pgconn'[a] => m = a)
    BY <1>2 DEF UnpooledOK, Pooled
  <2>1. /\ phase \in [Layers -> Phases]
        /\ pgconn \in [Layers -> Handles \cup {NoHandle}]
    BY DEF TypeOK
  <2>2. CASE a = l
    BY <1>1, <1>2, <1>4, <2>1, <2>2
  <2>3. CASE a # l
    <3>1. pgconn'[a] = pgconn[a] /\ phase'[a] = phase[a]
      BY <1>1, <1>2, <2>1, <2>3
    <3>2. phase[a] # "test" /\ (pgconn[m] = pgconn[a] => m = a)
      BY <3>1 DEF UnpooledOK
    <3> QED
      BY <1>1, <1>4, <2>1, <3>1, <3>2
  <2> QED
    BY <2>2, <2>3
<1>13. FinalOK' /\ AbandonedOK'
  BY <1>1, <1>2, <1>3, <1>11 DEF AbandonedOK, FinalOK, Pooled, TypeOK
<1>14. NoUseAfterClose'
  BY <1>1, <1>4 DEF NoUseAfterClose, TypeOK
<1>15. RefCountExact'
  <2> SUFFICES ASSUME NEW i \in DOMAIN connections
               PROVE  Holders(connections[i].conn_handle)'
                         = Holders(connections[i].conn_handle)
    BY <1>2 DEF RefCountExact
  <2>1. connections[i].conn_handle # h
    BY <1>3 DEF Pooled
  <2> QED
    BY <1>1, <1>2, <2>1, EntryType DEF Holders, TypeOK
<1> QED
  BY <1>6, <1>7, <1>8, <1>9, <1>10, <1>12, <1>13, <1>14, <1>15

\* A layer gives up on a pooled connection and keeps its reference forever.
LEMMA AbandonStep ==
    ASSUME PoolInv, NEW l \in Layers, AbandonPooled(l)
    PROVE  PoolInv'
<1> USE DEF PoolInv
<1> DEFINE h == pgconn[l]
<1>1. /\ phase[l] = "test" /\ phase' = [phase EXCEPT ![l] = "closed"]
      /\ UNCHANGED <<connections, connectionMax, sweep, backend>>
      /\ abandoned' = [abandoned EXCEPT ![h] = @ + 1]
      /\ pgconn' = [pgconn EXCEPT ![l] = NoHandle]
  BY DEF AbandonPooled, Goto, poolVars
<1>2. h \in Handles
  BY <1>1 DEF HandleOK, TypeOK
<1>3. TypeOK'
  BY <1>1, <1>2 DEF TypeOK, Phases
<1>4. SweepOK'
  BY <1>1 DEF SweepOK
<1>5. HandleOK'
  BY <1>1 DEF HandleOK, TypeOK
<1>6. PoolOK'
  BY <1>1 DEF PoolOK
<1>7. HolderOK'
  BY <1>1, EntryType DEF HolderOK, TypeOK
<1>8. UnpooledOK' /\ AbandonedOK'
  <2>1. UnpooledOK'
    <3> SUFFICES ASSUME NEW a \in Layers, NEW m \in Layers, pgconn'[a] # NoHandle,
                        \A q \in DOMAIN connections :
                           connections[q].conn_handle # pgconn'[a]
                 PROVE  phase'[a] # "test" /\ (pgconn'[m] = pgconn'[a] => m = a)
      BY <1>1 DEF UnpooledOK, Pooled
    <3>1. pgconn \in [Layers -> Handles \cup {NoHandle}] /\ phase \in [Layers -> Phases]
      BY DEF TypeOK
    <3>2. pgconn'[a] = pgconn[a] /\ phase'[a] = phase[a]
      BY <1>1, <3>1
    <3>3. phase[a] # "test" /\ (pgconn[m] = pgconn[a] => m = a)
      BY <3>2 DEF UnpooledOK, Pooled
    <3>4. pgconn'[m] = pgconn[m] \/ pgconn'[m] = NoHandle
      BY <1>1, <3>1
    <3> QED
      BY <3>2, <3>3, <3>4
  <2>2. Pooled(h)
    BY <1>1, <1>2, PoolAssumption DEF UnpooledOK
  <2>3. AbandonedOK'
    BY <1>1, <1>2, <2>2 DEF AbandonedOK, TypeOK, Pooled
  <2> QED
    BY <2>1, <2>3
<1>9. FinalOK'
  BY <1>1, EntryType DEF FinalOK, Pooled, TypeOK
<1>10. NoUseAfterClose'
  BY <1>1 DEF NoUseAfterClose, TypeOK
<1>11. RefCountExact'
  <2> SUFFICES ASSUME NEW i \in DOMAIN connections
               PROVE  connections[i].ref_count =
                        Cardinality(HoldersIn(Layers, pgconn', connections[i].conn_handle))
                          + abandoned'[connections[i].conn_handle]
    BY <1>1 DEF RefCountExact, Holders, HoldersIn
  <2> DEFINE k == connections[i].conn_handle
  <2>1. connections[i].ref_count = Cardinality(HoldersIn(Layers, pgconn, k)) + abandoned[k]
    BY DEF RefCountExact, Holders, HoldersIn
  <2>2. k \in Handles
    BY EntryType
  <2>3. pgconn \in [Layers -> Handles \cup {NoHandle}] /\ abandoned \in [Handles -> Nat]
    BY DEF TypeOK
  <2>4. Cardinality(HoldersIn(Layers, pgconn, k)) \in Nat
    BY HoldersFinite, LayersFinite
  <2>5. CASE k = h
    <3>1. Cardinality(HoldersIn(Layers, pgconn', k)) = Cardinality(HoldersIn(Layers, pgconn, k)) - 1
      <4>1. Cardinality(HoldersIn(Layers, pgconn', pgconn[l]))
              = Cardinality(HoldersIn(Layers, pgconn, pgconn[l])) - 1
        BY <1>1, <1>2, <2>3, HandleGiven
      <4> QED
        BY <2>5, <4>1
    <3>2. abandoned'[k] = abandoned[k] + 1
      BY <1>1, <2>2, <2>3, <2>5
    <3> QED
      BY <2>1, <2>2, <2>3, <2>4, <3>1, <3>2
  <2>6. CASE k # h
    <3>1. HoldersIn(Layers, pgconn', k) = HoldersIn(Layers, pgconn, k)
      BY <1>1, <1>2, <2>2, <2>3, <2>6, HandleGiven
    <3> QED
      BY <1>1, <2>1, <2>2, <2>3, <2>6, <3>1
  <2> QED
    BY <2>5, <2>6
<1> QED
  BY <1>3, <1>4, <1>5, <1>6, <1>7, <1>8, <1>9, <1>10, <1>11

\* A pooled connection that some layer holds is referenced.
LEMMA HeldIsCounted ==
    ASSUME PoolInv, NEW m \in Layers, NEW i \in DOMAIN connections,
           pgconn[m] = connections[i].conn_handle
    PROVE  connections[i].ref_count > 0
<1>1. /\ pgconn \in [Layers -> Handles \cup {NoHandle}]
      /\ abandoned \in [Handles -> Nat]
      /\ connections[i].conn_handle \in Handles
  BY EntryType DEF PoolInv, TypeOK
<1>2. connections[i].ref_count
         = Cardinality(HoldersIn(Layers, pgconn, pgconn[m])) + abandoned[pgconn[m]]
  BY DEF PoolInv, RefCountExact, Holders, HoldersIn
<1>3. Cardinality(HoldersIn(Layers, pgconn, pgconn[m])) > 0
  BY <1>1, HoldersGive, LayersFinite
<1>4. /\ Cardinality(HoldersIn(Layers, pgconn, pgconn[m])) \in Nat
      /\ abandoned[pgconn[m]] \in Nat
  BY <1>1, HoldersFinite, LayersFinite
<1> QED
  BY <1>2, <1>3, <1>4

\* msConnPoolRequest: an entry is handed out only if nobody references it or
\* its thread asks, so every other holder is drawn by the asking thread.
LEMMA OpenHitStep ==
    ASSUME PoolInv, NEW l \in Layers, OpenHit(l)
    PROVE  PoolInv'
<1> USE DEF PoolInv
<1>1. PICK i \in DOMAIN connections :
         /\ FirstRequestable(l, i)
         /\ connections' = Taken(connections, i, ThreadOf[l])
         /\ pgconn' = [pgconn EXCEPT ![l] = connections[i].conn_handle]
  BY DEF OpenHit
<1> DEFINE h == connections[i].conn_handle
<1>2. /\ phase[l] = "closed" /\ phase' = [phase EXCEPT ![l] = "test"]
      /\ UNCHANGED <<connectionMax, sweep, backend, abandoned>>
      /\ pgconn[l] = NoHandle /\ ConnectionOf[l] # NoConnection
      /\ sweep.op = "none"
  BY DEF OpenHit, Goto, HandleOK, PoolUnlocked, SweepOK
<1>3. /\ connections[i].connection = ConnectionOf[l]
      /\ connections[i].ref_count = 0 \/ connections[i].thread_id = ThreadOf[l]
  BY <1>1 DEF FirstRequestable, Requestable
<1>4. h \in Handles /\ h # NoHandle
  BY EntryType
<1>5. ThreadOf[l] \in Threads
  BY PostGISAssumption
<1>6. /\ phase \in [Layers -> Phases]
      /\ pgconn \in [Layers -> Handles \cup {NoHandle}]
      /\ connections \in Seq(connectionObj)
      /\ abandoned \in [Handles -> Nat]
  BY DEF TypeOK
<1>7. /\ connections' \in Seq(connectionObj)
      /\ DOMAIN connections' = DOMAIN connections
      /\ Len(connections') = Len(connections)
      /\ \A k \in DOMAIN connections :
            /\ connections'[k].conn_handle = connections[k].conn_handle
            /\ connections'[k].connection = connections[k].connection
            /\ k # i => connections'[k] = connections[k]
      /\ connections'[i].ref_count = connections[i].ref_count + 1
      /\ connections'[i].thread_id = ThreadOf[l]
  BY <1>1, <1>5, <1>6, TakenLemma
<1>8. \A k \in Handles \cup {NoHandle} : Pooled(k)' <=> Pooled(k)
  BY <1>7 DEF Pooled
<1>9. TypeOK'
  BY <1>1, <1>2, <1>4, <1>7 DEF TypeOK, Phases
<1>10. SweepOK' /\ FinalOK'
  BY <1>2 DEF SweepOK, FinalOK
<1>11. HandleOK'
  BY <1>1, <1>2, <1>4, <1>6 DEF HandleOK
<1>12. PoolOK'
  BY <1>2, <1>7 DEF PoolOK
<1>13. HolderOK'
  <2> SUFFICES ASSUME NEW m \in Layers, NEW k \in DOMAIN connections,
                      pgconn'[m] = connections[k].conn_handle
               PROVE  /\ phase'[m] # "register"
                      /\ connections'[k].thread_id = ThreadOf[m]
                      /\ connections[k].connection = ConnectionOf[m]
    BY <1>7 DEF HolderOK
  <2>1. CASE m = l
    <3>1. k = i
      BY <1>1, <1>6, <2>1 DEF PoolOK
    <3> QED
      BY <1>2, <1>3, <1>6, <1>7, <2>1, <3>1
  <2>2. CASE m # l
    <3>1. pgconn[m] = connections[k].conn_handle /\ phase'[m] = phase[m]
      BY <1>1, <1>2, <1>6, <2>2
    <3>2. /\ phase[m] # "register"
          /\ connections[k].thread_id = ThreadOf[m]
          /\ connections[k].connection = ConnectionOf[m]
      BY <3>1 DEF HolderOK
    <3>3. CASE k = i
      <4>1. connections[i].ref_count > 0
        BY <3>1, <3>3, HeldIsCounted
      <4>2. connections[i].ref_count \in Nat
        BY EntryType
      <4>3. connections[i].thread_id = ThreadOf[l]
        BY <1>3, <4>1, <4>2
      <4> QED
        BY <1>7, <3>1, <3>2, <3>3, <4>3
    <3>4. CASE k # i
      BY <1>7, <3>1, <3>2, <3>4
    <3> QED
      BY <3>3, <3>4
  <2> QED
    BY <2>1, <2>2
<1>14. UnpooledOK'
  <2> SUFFICES ASSUME NEW a \in Layers, NEW m \in Layers,
                      pgconn'[a] # NoHandle, ~Pooled(pgconn'[a])
               PROVE  phase'[a] # "test" /\ (pgconn'[m] = pgconn'[a] => m = a)
    BY <1>1, <1>4, <1>6, <1>8 DEF UnpooledOK
  <2>1. a # l /\ pgconn'[a] # h
    BY <1>1, <1>6 DEF Pooled
  <2>2. pgconn'[a] = pgconn[a] /\ phase'[a] = phase[a]
    BY <1>1, <1>2, <1>6, <2>1
  <2>3. phase[a] # "test" /\ (pgconn[m] = pgconn[a] => m = a)
    BY <2>2 DEF UnpooledOK
  <2> QED
    BY <1>1, <1>6, <2>1, <2>2, <2>3
<1>15. AbandonedOK'
  BY <1>2, <1>8 DEF AbandonedOK
<1>16. NoUseAfterClose'
  BY <1>1, <1>2, <1>6 DEF NoUseAfterClose, PoolOK
<1>17. RefCountExact'
  <2> SUFFICES ASSUME NEW k \in DOMAIN connections
               PROVE  connections'[k].ref_count =
                        Cardinality(HoldersIn(Layers, pgconn', connections[k].conn_handle))
                          + abandoned[connections[k].conn_handle]
    BY <1>2, <1>7 DEF RefCountExact, Holders, HoldersIn
  <2>1. connections[k].ref_count =
           Cardinality(HoldersIn(Layers, pgconn, connections[k].conn_handle))
             + abandoned[connections[k].conn_handle]
    BY DEF RefCountExact, Holders, HoldersIn
  <2>2. connections[k].conn_handle \in Handles
    BY EntryType
  <2>3. /\ Cardinality(HoldersIn(Layers, pgconn', h)) = Cardinality(HoldersIn(Layers, pgconn, h)) + 1
        /\ \A j \in Handles : j # h => HoldersIn(Layers, pgconn', j) = HoldersIn(Layers, pgconn, j)
    BY <1>1, <1>2, <1>4, <1>6, HandleTaken
  <2>4. /\ Cardinality(HoldersIn(Layers, pgconn, h)) \in Nat
        /\ abandoned[h] \in Nat
    BY <1>4, <1>6, HoldersFinite, LayersFinite
  <2>5. CASE k = i
    <3>1. connections[i].ref_count = Cardinality(HoldersIn(Layers, pgconn, h)) + abandoned[h]
      BY <2>1, <2>5
    <3>2. connections'[i].ref_count = connections[i].ref_count + 1
      BY <1>7
    <3>3. connections[k].conn_handle = h
      BY <2>5
    <3> HIDE DEF h
    <3>4. connections'[i].ref_count = Cardinality(HoldersIn(Layers, pgconn', h)) + abandoned[h]
      BY <2>3, <2>4, <3>1, <3>2
    <3> QED
      BY <2>5, <3>3, <3>4
  <2>6. CASE k # i
    <3>1. connections[k].conn_handle # h
      BY <2>6 DEF PoolOK
    <3> QED
      BY <1>7, <2>1, <2>2, <2>3, <2>6, <3>1
  <2> QED
    BY <2>5, <2>6
<1> QED
  BY <1>9, <1>10, <1>11, <1>12, <1>13, <1>14, <1>15, <1>16, <1>17

\* msConnPoolRegister: the handle was not pooled and has one holder, the
\* layer that made it.
LEMMA RegisterStep ==
    ASSUME PoolInv, NEW l \in Layers, Register(l)
    PROVE  PoolInv'
<1> USE DEF PoolInv
<1> DEFINE h == pgconn[l]
           n == Len(connections) + 1
<1>1. /\ phase[l] = "register" /\ phase' = [phase EXCEPT ![l] = "version"]
      /\ UNCHANGED <<sweep, pgconn, backend, abandoned>>
      /\ connections' = Registered(connections, ConnectionOf[l],
                                   CloseConnectionOf[l], ThreadOf[l], h)
      /\ connectionMax' = Grown(connections, connectionMax)
      /\ sweep.op = "none"
  BY DEF Register, Goto, PoolUnlocked, SweepOK
<1>2. /\ phase \in [Layers -> Phases]
      /\ pgconn \in [Layers -> Handles \cup {NoHandle}]
      /\ connections \in Seq(connectionObj)
      /\ backend \in [Handles -> {"free", "ok", "bad"}]
      /\ abandoned \in [Handles -> Nat]
      /\ connectionMax \in Nat /\ Len(connections) <= connectionMax
  BY DEF TypeOK
<1>3. h \in Handles /\ h # NoHandle /\ ConnectionOf[l] # NoConnection
  BY <1>1, <1>2 DEF HandleOK
<1>4. /\ ConnectionOf[l] \in Connections
      /\ CloseConnectionOf[l] \in CloseModes
      /\ ThreadOf[l] \in Threads
  BY <1>3, PostGISAssumption
<1>5. /\ connections' \in Seq(connectionObj)
      /\ Len(connections') = n
      /\ \A k \in DOMAIN connections : connections'[k] = connections[k]
      /\ connections'[n].connection = ConnectionOf[l]
      /\ connections'[n].ref_count = 1
      /\ connections'[n].thread_id = ThreadOf[l]
      /\ connections'[n].conn_handle = h
  BY <1>1, <1>2, <1>3, <1>4, RegisteredLemma
<1>6. /\ DOMAIN connections' = DOMAIN connections \cup {n}
      /\ n \notin DOMAIN connections
      /\ \A k \in DOMAIN connections' : k # n => k \in DOMAIN connections
  BY <1>2, <1>5
<1>7. ~Pooled(h)
  BY <1>1 DEF Pooled, HolderOK
<1>8. \A m \in Layers : pgconn[m] = h => m = l
  BY <1>3, <1>7 DEF UnpooledOK
<1>9. \A k : Pooled(k)' <=> Pooled(k) \/ k = h
  BY <1>5, <1>6 DEF Pooled
<1>10. TypeOK'
  <2>1. connectionMax' \in Nat /\ n <= connectionMax'
    BY <1>1, <1>2, PoolAssumption DEF Grown, Full
  <2> QED
    BY <1>1, <1>5, <2>1 DEF TypeOK, Phases
<1>11. SweepOK' /\ FinalOK'
  BY <1>1 DEF SweepOK, FinalOK
<1>12. HandleOK'
  BY <1>1, <1>2 DEF HandleOK
<1>13. PoolOK'
  <2>1. \A k \in DOMAIN connections' : backend'[connections'[k].conn_handle] # "free"
    BY <1>1, <1>3, <1>5, <1>6 DEF PoolOK, NoUseAfterClose
  <2>2. \A j, k \in DOMAIN connections' :
           connections'[j].conn_handle = connections'[k].conn_handle => j = k
    BY <1>5, <1>6, <1>7 DEF PoolOK, Pooled
  <2> QED
    BY <2>1, <2>2 DEF PoolOK
<1>14. HolderOK'
  <2> SUFFICES ASSUME NEW m \in Layers, NEW k \in DOMAIN connections',
                      pgconn[m] = connections'[k].conn_handle
               PROVE  /\ phase'[m] # "register"
                      /\ connections'[k].thread_id = ThreadOf[m]
                      /\ connections'[k].connection = ConnectionOf[m]
    BY <1>1 DEF HolderOK
  <2>1. CASE k = n
    BY <1>1, <1>2, <1>5, <1>8, <2>1
  <2>2. CASE k # n
    <3>1. k \in DOMAIN connections /\ pgconn[m] = connections[k].conn_handle
      BY <1>5, <1>6, <2>2
    <3>2. m # l
      BY <1>7, <3>1 DEF Pooled
    <3> QED
      BY <1>1, <1>2, <1>5, <3>1, <3>2 DEF HolderOK
  <2> QED
    BY <2>1, <2>2
<1>15. UnpooledOK'
  BY <1>1, <1>2, <1>9 DEF UnpooledOK
<1>16. AbandonedOK'
  BY <1>1, <1>9 DEF AbandonedOK
<1>17. NoUseAfterClose'
  BY <1>1 DEF NoUseAfterClose
<1>18. RefCountExact'
  <2> SUFFICES ASSUME NEW k \in DOMAIN connections'
               PROVE  connections'[k].ref_count =
                        Cardinality(Holders(connections'[k].conn_handle))
                          + abandoned[connections'[k].conn_handle]
    BY <1>1 DEF RefCountExact, Holders
  <2>1. CASE k = n
    <3>1. Holders(h) = {l}
      BY <1>8 DEF Holders
    <3>2. Cardinality(Holders(h)) = 1
      BY <3>1, FS_Singleton
    <3>3. abandoned[h] = 0
      BY <1>3, <1>7 DEF AbandonedOK
    <3> QED
      BY <1>5, <2>1, <3>2, <3>3
  <2>2. CASE k # n
    BY <1>5, <1>6, <2>2 DEF RefCountExact
  <2> QED
    BY <2>1, <2>2
<1> QED
  BY <1>10, <1>11, <1>12, <1>13, <1>14, <1>15, <1>16, <1>17, <1>18

\* The table after msConnPoolClose, entry by entry.
LEMMA ClosedTable ==
    ASSUME TypeOK, NEW i \in DOMAIN connections,
           connections' = Closed(connections, i)
    PROVE  /\ connections' \in Seq(connectionObj)
           /\ Len(connections') = Len(connections) - 1
           /\ \E org \in [DOMAIN connections' -> DOMAIN connections \ {i}] :
                 /\ \A k \in DOMAIN connections' : connections'[k] = connections[org[k]]
                 /\ \A j, k \in DOMAIN connections' : org[j] = org[k] => j = k
                 /\ \A j \in DOMAIN connections \ {i} :
                       \E k \in DOMAIN connections' : org[k] = j
<1>1. connections \in Seq(connectionObj)
  BY DEF TypeOK
<1>2. /\ connections' \in Seq(connectionObj)
      /\ Len(connections') = Len(connections) - 1
      /\ DOMAIN connections' = 1 .. Len(connections) - 1
  BY <1>1, ClosedLemma
<1>3. \E org : IsOrigin(connections, i, org)
  BY <1>1, ClosedOrigin
<1>4. PICK org : IsOrigin(connections, i, org)
  BY <1>3
<1>5. /\ org \in [DOMAIN connections' -> DOMAIN connections \ {i}]
      /\ \A k \in DOMAIN connections' : connections'[k] = connections[org[k]]
      /\ \A j, k \in DOMAIN connections' : org[j] = org[k] => j = k
      /\ \A j \in DOMAIN connections \ {i} : \E k \in DOMAIN connections' : org[k] = j
  BY <1>2, <1>4 DEF IsOrigin
<1> QED
  BY <1>2, <1>5

\* msConnPoolClose, from a release or a sweep: when no layer holds the closed
\* connection any more, the rest of the table keeps its holders.
LEMMA CloseEntry ==
    ASSUME PoolInv, NEW i \in DOMAIN connections,
           connections' = Closed(connections, i),
           connectionMax' = ClosedMax(connections, connectionMax),
           backend' = [backend EXCEPT ![connections[i].conn_handle] = "free"],
           phase' \in [Layers -> Phases],
           pgconn' \in [Layers -> Handles \cup {NoHandle}],
           \A m \in Layers : pgconn'[m] # connections[i].conn_handle,
           \A m \in Layers :
              \/ pgconn'[m] = pgconn[m] /\ phase'[m] = phase[m]
              \/ /\ pgconn'[m] = NoHandle /\ phase'[m] = "closed"
                 /\ pgconn[m] = connections[i].conn_handle,
           abandoned' \in [Handles -> Nat],
           abandoned'[connections[i].conn_handle] = 0,
           \A k \in Handles : k # connections[i].conn_handle =>
                                 abandoned'[k] = abandoned[k],
           sweep' \in [by : Threads \cup {NoThread},
                       op : {"none", "unreferenced", "final"}, i : Nat],
           sweep'.op = "final" => sweep.op = "final",
           SweepOK'
    PROVE  PoolInv'
<1> USE DEF PoolInv
<1> DEFINE h == connections[i].conn_handle
<1>1. h \in Handles /\ h # NoHandle
  BY EntryType
<1>2. TypeOK
  OBVIOUS
<1>3. /\ connections' \in Seq(connectionObj)
      /\ Len(connections') = Len(connections) - 1
  BY <1>2, ClosedTable
<1>o. PICK org \in [DOMAIN connections' -> DOMAIN connections \ {i}] :
         /\ \A k \in DOMAIN connections' : connections'[k] = connections[org[k]]
         /\ \A j, k \in DOMAIN connections' : org[j] = org[k] => j = k
         /\ \A j \in DOMAIN connections \ {i} :
               \E k \in DOMAIN connections' : org[k] = j
  BY <1>2, ClosedTable
<1>4. \A k \in DOMAIN connections' :
         /\ connections'[k] = connections[org[k]]
         /\ org[k] \in DOMAIN connections
         /\ connections[org[k]].conn_handle # h
  <2> SUFFICES ASSUME NEW k \in DOMAIN connections'
               PROVE  /\ connections'[k] = connections[org[k]]
                      /\ org[k] \in DOMAIN connections
                      /\ connections[org[k]].conn_handle # h
    OBVIOUS
  <2>1. org[k] \in DOMAIN connections /\ org[k] # i
    BY <1>o
  <2> QED
    BY <1>o, <2>1 DEF PoolOK
<1>5. \A k : Pooled(k)' <=> Pooled(k) /\ k # h
  <2> SUFFICES ASSUME NEW k PROVE Pooled(k)' <=> Pooled(k) /\ k # h
    OBVIOUS
  <2>1. ASSUME Pooled(k)' PROVE Pooled(k) /\ k # h
    BY <1>3, <1>4, <2>1 DEF Pooled
  <2>2. ASSUME Pooled(k), k # h PROVE Pooled(k)'
    <3>1. PICK j \in DOMAIN connections : connections[j].conn_handle = k
      BY <2>2 DEF Pooled
    <3>2. j # i
      BY <2>2, <3>1
    <3>3. PICK q \in DOMAIN connections' : org[q] = j
      BY <1>o, <3>2
    <3> QED
      BY <1>3, <1>4, <3>1, <3>3 DEF Pooled
  <2> QED
    BY <2>1, <2>2
<1>6. \A m \in Layers : pgconn'[m] # NoHandle =>
         pgconn'[m] = pgconn[m] /\ phase'[m] = phase[m]
  OBVIOUS
<1>7. TypeOK'
  <2>1. /\ connectionMax \in Nat /\ Len(connections) \in Nat
        /\ Len(connections) <= connectionMax /\ Len(connections') \in Nat
    BY <1>3 DEF TypeOK
  <2>2. connectionMax' = IF Len(connections) = 1 THEN 0 ELSE connectionMax
    BY DEF ClosedMax
  <2>3. connectionMax' \in Nat /\ Len(connections') <= connectionMax'
    BY <1>3, <2>1, <2>2
  <2>4. backend' \in [Handles -> {"free", "ok", "bad"}]
    BY <1>1 DEF TypeOK
  <2> QED
    BY <1>3, <2>3, <2>4 DEF TypeOK
<1>8. HandleOK'
  BY <1>6 DEF HandleOK
<1>9. PoolOK'
  <2>1. \A k \in DOMAIN connections' : backend'[connections'[k].conn_handle] # "free"
    <3> SUFFICES ASSUME NEW k \in DOMAIN connections'
                 PROVE  backend'[connections'[k].conn_handle] # "free"
      OBVIOUS
    <3>1. /\ connections'[k].conn_handle \in Handles
          /\ connections'[k].conn_handle # h
          /\ backend[connections'[k].conn_handle] # "free"
      BY <1>4, EntryType DEF PoolOK
    <3> QED
      BY <3>1 DEF TypeOK
  <2>2. \A j, k \in DOMAIN connections' :
           connections'[j].conn_handle = connections'[k].conn_handle => j = k
    BY <1>o, <1>4 DEF PoolOK
  <2> QED
    BY <1>3, <2>1, <2>2 DEF PoolOK
<1>10. HolderOK'
  <2> SUFFICES ASSUME NEW m \in Layers, NEW k \in DOMAIN connections',
                      pgconn'[m] = connections'[k].conn_handle
               PROVE  /\ phase'[m] # "register"
                      /\ connections'[k].thread_id = ThreadOf[m]
                      /\ connections'[k].connection = ConnectionOf[m]
    BY <1>3 DEF HolderOK
  <2>1. connections'[k] = connections[org[k]] /\ org[k] \in DOMAIN connections
    BY <1>4
  <2>2. pgconn'[m] # NoHandle
    BY <2>1, EntryType
  <2> QED
    <3>1. pgconn[m] = connections[org[k]].conn_handle /\ phase'[m] = phase[m]
      BY <1>6, <2>1, <2>2
    <3>2. /\ phase[m] # "register"
          /\ connections[org[k]].thread_id = ThreadOf[m]
          /\ connections[org[k]].connection = ConnectionOf[m]
      BY <2>1, <3>1 DEF HolderOK
    <3> QED
      BY <2>1, <3>1, <3>2
<1>11. UnpooledOK'
  <2> SUFFICES ASSUME NEW a \in Layers, NEW m \in Layers, pgconn'[a] # NoHandle,
                      \A q \in DOMAIN connections' : connections'[q].conn_handle # pgconn'[a]
               PROVE  phase'[a] # "test" /\ (pgconn'[m] = pgconn'[a] => m = a)
    BY DEF UnpooledOK, Pooled
  <2>1. pgconn'[a] = pgconn[a] /\ phase'[a] = phase[a] /\ pgconn[a] # h
    BY <1>6
  <2>2. ~Pooled(pgconn[a])
    <3> SUFFICES ASSUME NEW j \in DOMAIN connections,
                        connections[j].conn_handle = pgconn[a]
                 PROVE  FALSE
      BY DEF Pooled
    <3>1. PICK q \in DOMAIN connections' : org[q] = j
      BY <1>o, <2>1
    <3> QED
      BY <1>4, <2>1, <3>1
  <2> QED
    BY <1>6, <2>1, <2>2 DEF UnpooledOK
<1>12. AbandonedOK'
  BY <1>5 DEF AbandonedOK
<1>13. FinalOK'
  <2> SUFFICES ASSUME sweep'.op = "final", NEW m \in Layers
               PROVE  ~Pooled(pgconn'[m])
    BY <1>5 DEF FinalOK
  <2>1. CASE pgconn'[m] = NoHandle
    BY <2>1, EntryType DEF Pooled
  <2>2. CASE pgconn'[m] # NoHandle
    BY <1>6, <2>2 DEF FinalOK
  <2> QED
    BY <2>1, <2>2
<1>14. NoUseAfterClose'
  BY <1>6 DEF NoUseAfterClose, TypeOK
<1>15. RefCountExact'
  <2> SUFFICES ASSUME NEW k \in DOMAIN connections'
               PROVE  connections'[k].ref_count =
                        Cardinality(HoldersIn(Layers, pgconn', connections'[k].conn_handle))
                          + abandoned'[connections'[k].conn_handle]
    BY <1>3 DEF RefCountExact, Holders, HoldersIn
  <2> DEFINE c == connections[org[k]].conn_handle
  <2>1. connections[org[k]].ref_count
           = Cardinality(HoldersIn(Layers, pgconn, c)) + abandoned[c]
    BY <1>4 DEF RefCountExact, Holders, HoldersIn
  <2>2. c \in Handles /\ c # NoHandle /\ c # h
    BY <1>4, EntryType
  <2>3. HoldersIn(Layers, pgconn', c) = HoldersIn(Layers, pgconn, c)
    BY <1>6, <2>2 DEF HoldersIn
  <2>4. abandoned'[c] = abandoned[c]
    BY <2>2
  <2> QED
    BY <1>4, <2>1, <2>3, <2>4
<1> QED
  BY <1>7, <1>8, <1>9, <1>10, <1>11, <1>12, <1>13, <1>14, <1>15

\* msConnPoolRelease of a connection that stays open: the counts go down with
\* the holders, and the entry keeps its thread as long as it has a holder.
LEMMA DropStep ==
    ASSUME PoolInv, NEW l \in Layers, NEW i \in DOMAIN connections,
           pgconn[l] = connections[i].conn_handle,
           connections' = Dropped(connections, i),
           pgconn' = [pgconn EXCEPT ![l] = NoHandle],
           phase' = [phase EXCEPT ![l] = "closed"],
           UNCHANGED <<connectionMax, sweep, backend, abandoned>>
    PROVE  PoolInv'
<1> USE DEF PoolInv
<1> DEFINE h == connections[i].conn_handle
<1>1. /\ phase \in [Layers -> Phases]
      /\ pgconn \in [Layers -> Handles \cup {NoHandle}]
      /\ connections \in Seq(connectionObj)
      /\ abandoned \in [Handles -> Nat]
  BY DEF TypeOK
<1>2. h \in Handles /\ h # NoHandle
  BY EntryType
<1>3. connections[i].ref_count > 0
  BY HeldIsCounted
<1>4. /\ connections' \in Seq(connectionObj)
      /\ DOMAIN connections' = DOMAIN connections
      /\ Len(connections') = Len(connections)
      /\ \A k \in DOMAIN connections :
            /\ connections'[k].conn_handle = connections[k].conn_handle
            /\ connections'[k].connection = connections[k].connection
            /\ k # i => connections'[k] = connections[k]
      /\ connections'[i].ref_count = connections[i].ref_count - 1
      /\ connections[i].ref_count # 1 =>
            connections'[i].thread_id = connections[i].thread_id
  BY <1>1, <1>3, DroppedLemma
<1>5. /\ Cardinality(HoldersIn(Layers, pgconn', h)) = Cardinality(HoldersIn(Layers, pgconn, h)) - 1
      /\ \A k \in Handles : k # h => HoldersIn(Layers, pgconn', k) = HoldersIn(Layers, pgconn, k)
  <2>1. /\ Cardinality(HoldersIn(Layers, pgconn', pgconn[l]))
             = Cardinality(HoldersIn(Layers, pgconn, pgconn[l])) - 1
        /\ \A k \in Handles : k # pgconn[l] =>
              HoldersIn(Layers, pgconn', k) = HoldersIn(Layers, pgconn, k)
    BY <1>1, <1>2, HandleGiven
  <2> QED
    BY <2>1
<1>6. connections[i].ref_count = Cardinality(HoldersIn(Layers, pgconn, h)) + abandoned[h]
  BY DEF RefCountExact, Holders, HoldersIn
<1>7. connections'[i].ref_count = Cardinality(HoldersIn(Layers, pgconn', h)) + abandoned[h]
  <2>1. /\ Cardinality(HoldersIn(Layers, pgconn, h)) \in Nat
        /\ abandoned[h] \in Nat
    BY <1>1, <1>2, HoldersFinite, LayersFinite
  <2>2. connections'[i].ref_count = connections[i].ref_count - 1
    BY <1>4
  <2> HIDE DEF h
  <2> QED
    BY <1>5, <1>6, <2>1, <2>2
<1>8. \A m \in Layers : m # l => pgconn'[m] = pgconn[m] /\ phase'[m] = phase[m]
  BY <1>1
<1>9. pgconn'[l] = NoHandle /\ phase'[l] = "closed"
  BY <1>1
<1>10. TypeOK'
  BY <1>4 DEF TypeOK, Phases
<1>11. SweepOK'
  BY <1>4 DEF SweepOK
<1>12. HandleOK'
  BY <1>8, <1>9 DEF HandleOK
<1>13. PoolOK'
  BY <1>4 DEF PoolOK
<1>14. HolderOK'
  <2> SUFFICES ASSUME NEW m \in Layers, NEW k \in DOMAIN connections,
                      pgconn'[m] = connections[k].conn_handle
               PROVE  /\ phase'[m] # "register"
                      /\ connections'[k].thread_id = ThreadOf[m]
                      /\ connections[k].connection = ConnectionOf[m]
    BY <1>4 DEF HolderOK
  <2>1. m # l
    BY <1>9, EntryType
  <2>2. pgconn[m] = connections[k].conn_handle /\ phase'[m] = phase[m]
    BY <1>8, <2>1
  <2>3. /\ phase[m] # "register"
        /\ connections[k].thread_id = ThreadOf[m]
        /\ connections[k].connection = ConnectionOf[m]
    BY <2>2 DEF HolderOK
  <2>4. CASE k = i
    <3>1. pgconn' \in [Layers -> Handles \cup {NoHandle}] /\ pgconn'[m] \in Handles
      BY <1>1, <1>2, <2>4
    <3>2. Cardinality(HoldersIn(Layers, pgconn', pgconn'[m])) > 0
      BY <3>1, HoldersGive, LayersFinite
    <3>3. /\ Cardinality(HoldersIn(Layers, pgconn', h)) > 0
          /\ Cardinality(HoldersIn(Layers, pgconn', h)) \in Nat
          /\ abandoned[h] \in Nat
      BY <1>1, <1>2, <2>4, <3>2, HoldersFinite, LayersFinite
    <3>4. connections'[i].ref_count # 0
      BY <1>7, <3>3
    <3>5. connections[i].ref_count # 1
      BY <1>4, <3>4
    <3> QED
      BY <1>4, <2>2, <2>3, <2>4, <3>5
  <2>5. CASE k # i
    BY <1>4, <2>2, <2>3, <2>5
  <2> QED
    BY <2>4, <2>5
<1>15. \A k : Pooled(k)' <=> Pooled(k)
  BY <1>4 DEF Pooled
<1>16. UnpooledOK'
  <2> SUFFICES ASSUME NEW a \in Layers, NEW m \in Layers, pgconn'[a] # NoHandle,
                      \A q \in DOMAIN connections :
                          connections[q].conn_handle # pgconn'[a]
               PROVE  phase'[a] # "test" /\ (pgconn'[m] = pgconn'[a] => m = a)
    BY <1>4 DEF UnpooledOK, Pooled
  <2>1. pgconn'[a] = pgconn[a] /\ phase'[a] = phase[a]
    BY <1>8, <1>9
  <2>2. ~Pooled(pgconn[a])
    BY <2>1 DEF Pooled
  <2> QED
    BY <1>8, <1>9, <2>1, <2>2 DEF UnpooledOK
<1>17. AbandonedOK'
  BY <1>15 DEF AbandonedOK
<1>18. FinalOK'
  <2> SUFFICES ASSUME sweep.op = "final", NEW m \in Layers,
                      NEW q \in DOMAIN connections,
                      connections[q].conn_handle = pgconn'[m]
               PROVE  FALSE
    BY <1>4 DEF FinalOK, Pooled
  <2> QED
    BY <1>8, <1>9, EntryType DEF FinalOK, Pooled
<1>19. NoUseAfterClose'
  BY <1>8, <1>9 DEF NoUseAfterClose
<1>20. RefCountExact'
  <2> SUFFICES ASSUME NEW k \in DOMAIN connections
               PROVE  connections'[k].ref_count =
                        Cardinality(HoldersIn(Layers, pgconn', connections[k].conn_handle))
                          + abandoned[connections[k].conn_handle]
    BY <1>4 DEF RefCountExact, Holders, HoldersIn
  <2>1. CASE k = i
    BY <1>7, <2>1
  <2>2. CASE k # i
    <3>1. connections[k].conn_handle # h /\ connections[k].conn_handle \in Handles
      BY <2>2, EntryType DEF PoolOK
    <3>2. connections[k].ref_count =
             Cardinality(HoldersIn(Layers, pgconn, connections[k].conn_handle))
               + abandoned[connections[k].conn_handle]
      BY DEF RefCountExact, Holders, HoldersIn
    <3> QED
      BY <1>4, <1>5, <2>2, <3>1, <3>2
  <2> QED
    BY <2>1, <2>2
<1> QED
  BY <1>10, <1>11, <1>12, <1>13, <1>14, <1>16, <1>17, <1>18, <1>19, <1>20

\* msPostGISLayerClose, whether the pool knows the handle or not.
LEMMA LayerCloseStep ==
    ASSUME PoolInv, NEW l \in Layers, LayerClose(l)
    PROVE  PoolInv'
<1> USE DEF PoolInv
<1>1. /\ phase[l] \in {"version", "open"}
      /\ phase' = [phase EXCEPT ![l] = "closed"]
      /\ pgconn' = [pgconn EXCEPT ![l] = NoHandle]
      /\ UNCHANGED <<sweep, abandoned>>
      /\ sweep.op = "none"
  BY DEF LayerClose, Goto, PoolUnlocked, SweepOK
<1>2. /\ phase \in [Layers -> Phases]
      /\ pgconn \in [Layers -> Handles \cup {NoHandle}]
      /\ connections \in Seq(connectionObj)
      /\ abandoned \in [Handles -> Nat]
      /\ sweep \in [by : Threads \cup {NoThread},
                    op : {"none", "unreferenced", "final"}, i : Nat]
  BY DEF TypeOK
<1>3. pgconn[l] \in Handles
  BY <1>1, <1>2 DEF HandleOK
<1>4. /\ \A m \in Layers : m # l => pgconn'[m] = pgconn[m] /\ phase'[m] = phase[m]
      /\ pgconn'[l] = NoHandle /\ phase'[l] = "closed"
      /\ phase' \in [Layers -> Phases]
      /\ pgconn' \in [Layers -> Handles \cup {NoHandle}]
  BY <1>1, <1>2 DEF Phases
<1>5. CASE ReleaseUnknown(l)
  <2>1. UNCHANGED <<connections, connectionMax, backend>>
    BY <1>5 DEF ReleaseUnknown
  <2>2. ~Pooled(pgconn[l])
    BY <1>5 DEF ReleaseUnknown, Releasable, Pooled, HolderOK
  <2>3. TypeOK'
    BY <1>1, <1>4, <2>1 DEF TypeOK
  <2>4. SweepOK' /\ FinalOK'
    BY <1>1, <2>1 DEF SweepOK, FinalOK
  <2>5. HandleOK'
    BY <1>4 DEF HandleOK
  <2>6. PoolOK' /\ AbandonedOK'
    BY <1>1, <2>1 DEF PoolOK, AbandonedOK, Pooled
  <2>7. HolderOK'
    BY <1>4, <2>1, EntryType DEF HolderOK
  <2>8. UnpooledOK'
    BY <1>4, <2>1 DEF UnpooledOK, Pooled
  <2>9. NoUseAfterClose'
    BY <1>4, <2>1 DEF NoUseAfterClose
  <2>10. RefCountExact'
    <3> SUFFICES ASSUME NEW k \in DOMAIN connections
                 PROVE  Holders(connections[k].conn_handle)'
                           = Holders(connections[k].conn_handle)
      BY <1>1, <2>1 DEF RefCountExact
    <3>1. /\ connections[k].conn_handle # pgconn[l]
          /\ connections[k].conn_handle # NoHandle
      BY <2>2, EntryType DEF Pooled
    <3> QED
      BY <1>4, <2>1, <3>1 DEF Holders
  <2> QED
    BY <2>3, <2>4, <2>5, <2>6, <2>7, <2>8, <2>9, <2>10
<1>6. CASE ReleaseFound(l)
  <2>1. PICK i \in DOMAIN connections :
           /\ connections[i].conn_handle = pgconn[l]
           /\ IF ClosedOnRelease(connections, i)
              THEN /\ connections' = Closed(Dropped(connections, i), i)
                   /\ connectionMax' = ClosedMax(connections, connectionMax)
                   /\ backend' = [backend EXCEPT ![pgconn[l]] = "free"]
              ELSE /\ connections' = Dropped(connections, i)
                   /\ UNCHANGED <<connectionMax, backend>>
    BY <1>6 DEF ReleaseFound, Releasable
  <2>2. CASE ~ClosedOnRelease(connections, i)
    BY <1>1, <2>1, <2>2, DropStep
  <2>3. CASE ClosedOnRelease(connections, i)
    <3>1. connections[i].ref_count = 1 /\ connections[i].ref_count > 0
      BY <2>3 DEF ClosedOnRelease
    <3>2. connections' = Closed(connections, i)
      <4>1. /\ Dropped(connections, i) \in Seq(connectionObj)
            /\ Len(Dropped(connections, i)) = Len(connections)
            /\ \A k \in DOMAIN connections :
                  k # i => Dropped(connections, i)[k] = connections[k]
        BY <1>2, <3>1, DroppedLemma
      <4> QED
        BY <1>2, <2>1, <2>3, <4>1, ClosedSame
    <3>3. 1 = Cardinality(HoldersIn(Layers, pgconn, pgconn[l])) + abandoned[pgconn[l]]
      BY <2>1, <3>1 DEF RefCountExact, Holders, HoldersIn
    <3>4. /\ Cardinality(HoldersIn(Layers, pgconn, pgconn[l])) \in Nat
          /\ Cardinality(HoldersIn(Layers, pgconn, pgconn[l])) > 0
          /\ abandoned[pgconn[l]] \in Nat
      BY <1>2, <1>3, HoldersFinite, HoldersGive, LayersFinite
    <3>5. /\ abandoned[pgconn[l]] = 0
          /\ Cardinality(HoldersIn(Layers, pgconn, pgconn[l])) = 1
      BY <3>3, <3>4
    <3>6. \A m \in Layers : pgconn'[m] # pgconn[l]
      <4> SUFFICES ASSUME NEW m \in Layers, pgconn'[m] = pgconn[l]
                   PROVE  FALSE
        OBVIOUS
      <4>1. Cardinality(HoldersIn(Layers, pgconn', pgconn[l])) = 0
        <5>1. Cardinality(HoldersIn(Layers, pgconn', pgconn[l]))
                = Cardinality(HoldersIn(Layers, pgconn, pgconn[l])) - 1
          BY <1>1, <1>2, <1>3, HandleGiven
        <5> QED
          BY <3>5, <5>1
      <4>2. Cardinality(HoldersIn(Layers, pgconn', pgconn'[m])) > 0
        BY <1>3, <1>4, HoldersGive, LayersFinite
      <4> QED
        BY <4>1, <4>2
    <3>7. SweepOK'
      BY <1>1 DEF SweepOK
    <3>8. \A m \in Layers :
              \/ pgconn'[m] = pgconn[m] /\ phase'[m] = phase[m]
              \/ /\ pgconn'[m] = NoHandle /\ phase'[m] = "closed"
                 /\ pgconn[m] = connections[i].conn_handle
      <4>1. pgconn[l] = connections[i].conn_handle
        BY <2>1
      <4> QED
        BY <1>4, <4>1
    <3>9. /\ connectionMax' = ClosedMax(connections, connectionMax)
          /\ backend' = [backend EXCEPT ![connections[i].conn_handle] = "free"]
          /\ \A m \in Layers : pgconn'[m] # connections[i].conn_handle
      BY <2>1, <2>3, <3>6
    <3>10. /\ abandoned' \in [Handles -> Nat]
           /\ abandoned'[connections[i].conn_handle] = 0
           /\ \A k \in Handles : abandoned'[k] = abandoned[k]
           /\ sweep' = sweep
      BY <1>1, <1>2, <2>1, <3>5
    <3> QED
      BY <1>2, <1>4, <3>2, <3>7, <3>8, <3>9, <3>10, CloseEntry
  <2> QED
    BY <2>2, <2>3
<1> QED
  BY <1>5, <1>6 DEF LayerClose

\* A sweep closes an entry that no layer holds.
LEMMA SweepCloseStep ==
    ASSUME PoolInv, NEW i \in DOMAIN connections, SweepClose(i),
           \A m \in Layers : pgconn[m] # connections[i].conn_handle,
           UNCHANGED <<phase, pgconn>>,
           sweep' \in [by : Threads \cup {NoThread},
                       op : {"none", "unreferenced", "final"}, i : Nat],
           sweep'.op = sweep.op, SweepOK'
    PROVE  PoolInv'
<1> USE DEF PoolInv
<1>1. connections[i].conn_handle \in Handles
  BY EntryType
<1>2. /\ connections' = Closed(connections, i)
      /\ connectionMax' = ClosedMax(connections, connectionMax)
      /\ backend' = [backend EXCEPT ![connections[i].conn_handle] = "free"]
      /\ abandoned' = [abandoned EXCEPT ![connections[i].conn_handle] = 0]
  BY DEF SweepClose
<1>3. /\ abandoned' \in [Handles -> Nat]
      /\ abandoned'[connections[i].conn_handle] = 0
      /\ \A k \in Handles : k # connections[i].conn_handle =>
                               abandoned'[k] = abandoned[k]
  BY <1>1, <1>2 DEF TypeOK
<1>4. /\ phase' \in [Layers -> Phases]
      /\ pgconn' \in [Layers -> Handles \cup {NoHandle}]
  BY DEF TypeOK
<1> QED
  BY <1>2, <1>3, <1>4, CloseEntry

\* msConnPoolCloseUnreferenced closes only connections without a reference.
LEMMA CloseUnreferencedStep ==
    ASSUME PoolInv, NEW t \in Threads, CloseUnreferenced(t)
    PROVE  PoolInv'
<1> USE DEF PoolInv
<1>1. /\ sweep.op = "unreferenced" /\ sweep.i > 0 /\ sweep.i <= Len(connections)
      /\ sweep' = [sweep EXCEPT !.i = sweep.i - 1]
      /\ UNCHANGED <<phase, pgconn>>
  BY DEF CloseUnreferenced, SweepOK
<1>2. /\ sweep \in [by : Threads \cup {NoThread},
                    op : {"none", "unreferenced", "final"}, i : Nat]
      /\ connections \in Seq(connectionObj)
  BY DEF TypeOK
<1>3. /\ sweep' \in [by : Threads \cup {NoThread},
                     op : {"none", "unreferenced", "final"}, i : Nat]
      /\ sweep'.op = sweep.op /\ sweep'.by = sweep.by /\ sweep'.i = sweep.i - 1
      /\ sweep.i \in DOMAIN connections
  BY <1>1, <1>2
<1>4. CASE connections[sweep.i].ref_count = 0
  <2>1. SweepClose(sweep.i)
    BY <1>4 DEF CloseUnreferenced
  <2>2. \A m \in Layers : pgconn[m] # connections[sweep.i].conn_handle
    BY <1>3, <1>4, HeldIsCounted
  <2>3. Len(connections') = Len(connections) - 1
    BY <1>3, <2>1, ClosedTable DEF SweepClose
  <2>4. SweepOK'
    BY <1>1, <1>2, <1>3, <2>3 DEF SweepOK
  <2> QED
    BY <1>1, <1>3, <2>1, <2>2, <2>4, SweepCloseStep
<1>5. CASE connections[sweep.i].ref_count # 0
  <2>1. UNCHANGED <<connections, connectionMax, backend, abandoned>>
    BY <1>5 DEF CloseUnreferenced
  <2>2. SweepOK'
    BY <1>1, <1>2, <1>3, <2>1 DEF SweepOK
  <2>3. FinalOK' /\ HandleOK'
    BY <1>1, <1>3 DEF FinalOK, HandleOK
  <2>4. /\ phase' \in [Layers -> Phases]
        /\ backend' \in [Handles -> {"free", "ok", "bad"}]
    BY <1>1, <2>1 DEF TypeOK
  <2> QED
    BY <1>1, <1>3, <2>1, <2>2, <2>3, <2>4, PoolInvQuiet
<1> QED
  BY <1>4, <1>5

\* msConnPoolFinalCleanup runs when no layer holds a pooled connection.
LEMMA FinalCleanupStep ==
    ASSUME PoolInv, NEW t \in Threads, FinalCleanup(t)
    PROVE  PoolInv'
<1> USE DEF PoolInv
<1>1. /\ sweep.op = "final" /\ connections # <<>> /\ SweepClose(1)
      /\ UNCHANGED <<sweep, phase, pgconn>>
  BY DEF FinalCleanup
<1>2. 1 \in DOMAIN connections
  BY <1>1 DEF TypeOK
<1>3. \A m \in Layers : pgconn[m] # connections[1].conn_handle
  BY <1>1, <1>2 DEF FinalOK, Pooled
<1>4. SweepOK' /\ sweep' \in [by : Threads \cup {NoThread},
                     op : {"none", "unreferenced", "final"}, i : Nat]
  BY <1>1 DEF SweepOK, TypeOK
<1> QED
  BY <1>1, <1>2, <1>3, <1>4, SweepCloseStep

\* Every step of every thread preserves the inductive invariant.
LEMMA PoolInvNext == PoolInv /\ [Next]_vars => PoolInv'
<1> SUFFICES ASSUME PoolInv, [Next]_vars PROVE PoolInv'
  OBVIOUS
<1>1. ASSUME NEW l \in Layers, LayerStep(l) PROVE PoolInv'
  <2>1. CASE OpenMiss(l) \/ ConnectFail(l) \/ RegisterFail(l) \/ TestPooled(l)
             \/ Opened(l)
    BY <2>1, QuietLayer
  <2>2. CASE Connect(l)
    BY <2>2, ConnectStep
  <2>3. CASE OpenHit(l)
    BY <2>3, OpenHitStep
  <2>4. CASE Register(l)
    BY <2>4, RegisterStep
  <2>5. CASE AbandonPooled(l)
    BY <2>5, AbandonStep
  <2>6. CASE LayerClose(l)
    BY <2>6, LayerCloseStep
  <2> QED
    BY <1>1, <2>1, <2>2, <2>3, <2>4, <2>5, <2>6 DEF LayerStep
<1>2. ASSUME NEW t \in Threads, SweepStep(t) PROVE PoolInv'
  BY <1>2, QuietSweep, CloseUnreferencedStep, FinalCleanupStep DEF SweepStep
<1>3. ASSUME NEW h \in Handles, ServerDrops(h) PROVE PoolInv'
  BY <1>3, QuietServer
<1>4. CASE UNCHANGED vars
  <2>1. HandleOK' /\ SweepOK' /\ FinalOK'
    BY <1>4 DEF vars, PoolInv, HandleOK, SweepOK, FinalOK, Pooled
  <2> QED
    BY <1>4, <2>1, PoolInvQuiet DEF vars, PoolInv, TypeOK
<1> QED
  BY <1>1, <1>2, <1>3, <1>4 DEF Next

\* The table of connections, the layers' handles and the state of the
\* connections agree in every reachable state, however the threads interleave
\* (mappool.c, mappostgis.cpp).
THEOREM PoolInvariance == Spec => []PoolInv
<1>1. Init => PoolInv
  BY PoolInvInit
<1>2. PoolInv /\ [Next]_vars => PoolInv'
  BY PoolInvNext
<1> QED
  BY <1>1, <1>2, PTL DEF Spec

\* Every variable keeps its type; reference counts never drop below zero and
\* the table never outgrows its allocation.
THEOREM TypeCorrect == Spec => []TypeOK
<1>1. PoolInv => TypeOK
  BY DEF PoolInv
<1> QED
  BY <1>1, PoolInvariance, PTL

\* The pool's promise: no connection is used by two threads at the same time.
THEOREM Exclusive == Spec => []ExclusiveToThread
<1>1. PoolInv => ExclusiveToThread
  <2> SUFFICES ASSUME PoolInv, NEW l \in Layers, NEW m \in Layers,
                      pgconn[l] = pgconn[m], pgconn[l] # NoHandle
               PROVE  ThreadOf[l] = ThreadOf[m]
    BY DEF ExclusiveToThread
  <2>1. CASE Pooled(pgconn[l])
    BY <2>1 DEF Pooled, PoolInv, HolderOK
  <2>2. CASE ~Pooled(pgconn[l])
    BY <2>2 DEF PoolInv, UnpooledOK
  <2> QED
    BY <2>1, <2>2
<1> QED
  BY <1>1, PoolInvariance, PTL

\* No layer ever holds a connection that the pool has closed.
THEOREM NeverUsedAfterClose == Spec => []NoUseAfterClose
<1>1. PoolInv => NoUseAfterClose
  BY DEF PoolInv
<1> QED
  BY <1>1, PoolInvariance, PTL

\* The reference counts are exact.
THEOREM CountsExact == Spec => []RefCountExact
<1>1. PoolInv => RefCountExact
  BY DEF PoolInv
<1> QED
  BY <1>1, PoolInvariance, PTL

-----------------------------------------------------------------------------
(* Connections live as CLOSE_CONNECTION says.                              *)

\* An entry without references is kept for good, and one that must not be
\* reused has at most the reference it was registered with.
LifeOf(conn) ==
    /\ conn.ref_count = 0 => conn.lifespan = "FOREVER"
    /\ conn.lifespan = "SINGLE" => conn.ref_count <= 1

LifeInv == \A i \in DOMAIN connections : LifeOf(connections[i])

\* msConnPoolClose leaves entries of the old table only.
LEMMA LifeClosed ==
    ASSUME NEW conns \in Seq(connectionObj), NEW i \in DOMAIN conns,
           \A k \in DOMAIN conns : k # i => LifeOf(conns[k])
    PROVE  \A k \in DOMAIN Closed(conns, i) : LifeOf(Closed(conns, i)[k])
<1>1. PICK org : IsOrigin(conns, i, org)
  BY ClosedOrigin
<1>2. DOMAIN Closed(conns, i) = 1 .. Len(conns) - 1
  BY ClosedLemma
<1> QED
  BY <1>1, <1>2 DEF IsOrigin

\* msConnPoolRequest offers no entry that must not be reused.
LEMMA LifeOpenHit ==
    ASSUME PoolInv, LifeInv, NEW l \in Layers, OpenHit(l)
    PROVE  LifeInv'
<1>1. PICK i \in DOMAIN connections :
         /\ connections[i].lifespan # "SINGLE"
         /\ connections' = Taken(connections, i, ThreadOf[l])
  BY DEF OpenHit, FirstRequestable, Requestable
<1>2. /\ DOMAIN connections' = DOMAIN connections
      /\ \A k \in DOMAIN connections :
            /\ connections'[k].lifespan = connections[k].lifespan
            /\ k # i => connections'[k] = connections[k]
      /\ connections'[i].ref_count = connections[i].ref_count + 1
  <2>1. connections \in Seq(connectionObj) /\ ThreadOf[l] \in Threads
    BY PostGISAssumption DEF PoolInv, TypeOK
  <2> QED
    BY <1>1, <2>1, TakenLemma
<1>3. connections[i].ref_count \in Nat
  BY EntryType DEF PoolInv
<1> QED
  BY <1>1, <1>2, <1>3 DEF LifeInv, LifeOf

\* msConnPoolRegister counts one reference, whatever the lifespan.
LEMMA LifeRegister ==
    ASSUME PoolInv, LifeInv, NEW l \in Layers, Register(l)
    PROVE  LifeInv'
<1>1. /\ connections \in Seq(connectionObj)
      /\ ConnectionOf[l] \in Connections /\ CloseConnectionOf[l] \in CloseModes
      /\ ThreadOf[l] \in Threads /\ pgconn[l] \in Handles
      /\ connections' = Registered(connections, ConnectionOf[l],
                                   CloseConnectionOf[l], ThreadOf[l], pgconn[l])
  BY PostGISAssumption DEF Register, PoolInv, TypeOK, HandleOK
<1>2. /\ connections' \in Seq(connectionObj)
      /\ Len(connections') = Len(connections) + 1
      /\ \A k \in DOMAIN connections : connections'[k] = connections[k]
      /\ connections'[Len(connections) + 1].ref_count = 1
  BY <1>1, RegisteredLemma
<1>3. ASSUME NEW k \in DOMAIN connections' PROVE LifeOf(connections'[k])
  <2>1. k \in DOMAIN connections \/ k = Len(connections) + 1
    BY <1>1, <1>2
  <2> QED
    BY <1>2, <2>1 DEF LifeInv, LifeOf
<1> QED
  BY <1>3 DEF LifeInv

\* msConnPoolRelease closes what it drops the last reference to, unless it is
\* to be kept for good.
LEMMA LifeRelease ==
    ASSUME PoolInv, LifeInv, NEW l \in Layers, LayerClose(l)
    PROVE  LifeInv'
<1>1. CASE ReleaseUnknown(l)
  BY <1>1 DEF ReleaseUnknown, LifeInv
<1>2. CASE ReleaseFound(l)
  <2>1. PICK i \in Releasable(connections, ConnectionOf[l], pgconn[l]) :
           IF ClosedOnRelease(connections, i)
           THEN connections' = Closed(Dropped(connections, i), i)
           ELSE connections' = Dropped(connections, i)
    BY <1>2 DEF ReleaseFound
  <2>2. /\ i \in DOMAIN connections /\ connections \in Seq(connectionObj)
        /\ connections[i].conn_handle = pgconn[l]
    BY DEF Releasable, PoolInv, TypeOK
  <2>3. connections[i].ref_count > 0 /\ connections[i] \in connectionObj
    BY <2>2, HeldIsCounted
  <2> DEFINE new == Dropped(connections, i)
  <2>4. /\ new \in Seq(connectionObj)
        /\ DOMAIN new = DOMAIN connections
        /\ \A k \in DOMAIN connections :
              /\ new[k].lifespan = connections[k].lifespan
              /\ k # i => new[k] = connections[k]
        /\ new[i].ref_count = connections[i].ref_count - 1
    BY <2>2, <2>3, DroppedLemma
  <2>5. \A k \in DOMAIN new : k # i => LifeOf(new[k])
    BY <2>4 DEF LifeInv
  <2> HIDE DEF new
  <2>6. CASE ClosedOnRelease(connections, i)
    BY <2>1, <2>2, <2>4, <2>5, <2>6, LifeClosed DEF LifeInv, new
  <2>7. CASE ~ClosedOnRelease(connections, i)
    <3>1. connections' = new
      BY <2>1, <2>7 DEF new
    <3>2. /\ connections[i].ref_count \in Nat
          /\ connections[i].lifespan \in Lifespans
          /\ LifeOf(connections[i])
      BY <2>2, <2>3 DEF connectionObj, LifeInv
    <3>3. LifeOf(new[i])
      BY <2>2, <2>3, <2>4, <2>7, <3>2 DEF ClosedOnRelease, LifeOf, Lifespans
    <3> QED
      BY <2>5, <3>1, <3>3 DEF LifeInv
  <2> QED
    BY <2>6, <2>7
<1> QED
  BY <1>1, <1>2 DEF LayerClose

\* A sweep only removes entries.
LEMMA LifeSweep ==
    ASSUME PoolInv, LifeInv, NEW i \in DOMAIN connections, SweepClose(i)
    PROVE  LifeInv'
<1>1. connections \in Seq(connectionObj) /\ connections' = Closed(connections, i)
  BY DEF PoolInv, TypeOK, SweepClose
<1> QED
  BY <1>1, LifeClosed DEF LifeInv

\* Every step preserves the lifespans.
LEMMA LifeNext == PoolInv /\ LifeInv /\ [Next]_vars => LifeInv'
<1> SUFFICES ASSUME PoolInv, LifeInv, [Next]_vars PROVE LifeInv'
  OBVIOUS
<1>1. CASE UNCHANGED connections
  BY <1>1 DEF LifeInv
<1>2. ASSUME NEW l \in Layers, LayerStep(l) PROVE LifeInv'
  <2>1. CASE OpenHit(l) \/ Register(l) \/ LayerClose(l)
    BY <2>1, LifeOpenHit, LifeRegister, LifeRelease
  <2>2. CASE ~(OpenHit(l) \/ Register(l) \/ LayerClose(l))
    BY <1>1, <1>2, <2>2 DEF LayerStep, OpenMiss, Connect, ConnectFail, RegisterFail,
       TestPooled, AbandonPooled, Opened, poolVars
  <2> QED
    BY <2>1, <2>2
<1>3. ASSUME NEW t \in Threads, SweepStep(t) PROVE LifeInv'
  <2>1. CASE CloseUnreferenced(t)
    <3>1. CASE UNCHANGED connections
      BY <1>1, <3>1
    <3>2. CASE SweepClose(sweep.i)
      <4>1. sweep.i \in DOMAIN connections
        BY <2>1 DEF CloseUnreferenced, PoolInv, SweepOK, TypeOK
      <4> QED
        BY <3>2, <4>1, LifeSweep
    <3> QED
      BY <2>1, <3>1, <3>2 DEF CloseUnreferenced
  <2>2. CASE FinalCleanup(t)
    <3>1. SweepClose(1) /\ 1 \in DOMAIN connections
      BY <2>2 DEF FinalCleanup, PoolInv, TypeOK
    <3> QED
      BY <3>1, LifeSweep
  <2>3. CASE BeginSweep(t) \/ EndSweep(t)
    BY <1>1, <2>3 DEF BeginSweep, EndSweep
  <2> QED
    BY <1>3, <2>1, <2>2, <2>3 DEF SweepStep
<1>4. ASSUME NEW h \in Handles, ServerDrops(h) PROVE LifeInv'
  BY <1>1, <1>4 DEF ServerDrops, poolVars
<1> QED
  BY <1>1, <1>2, <1>3, <1>4 DEF Next, vars, poolVars

\* A connection lives as its CLOSE_CONNECTION key says: without a reference
\* only if it was deferred, and never with two holders if it must not be
\* reused, whatever the other layers ask.
THEOREM LifespansKept == Spec => []LifespanKept
<1>1. Init => LifeInv
  BY DEF Init, LifeInv
<1>2. LifeInv /\ PoolInv /\ [Next]_vars => LifeInv'
  BY LifeNext
<1>3. LifeInv /\ PoolInv => LifespanKept
  <2> SUFFICES ASSUME LifeInv, PoolInv, NEW i \in DOMAIN connections
               PROVE  /\ connections[i].ref_count = 0 => connections[i].lifespan = "FOREVER"
                      /\ connections[i].lifespan = "SINGLE" =>
                            Cardinality(Holders(connections[i].conn_handle)) <= 1
    BY DEF LifespanKept
  <2> DEFINE h == connections[i].conn_handle
             n == Cardinality(Holders(h))
  <2>1. h \in Handles /\ abandoned[h] \in Nat /\ connections[i].ref_count = n + abandoned[h]
    BY EntryType DEF PoolInv, TypeOK, RefCountExact
  <2>2. n \in Nat
    <3>1. Holders(h) = HoldersIn(Layers, pgconn, h)
      BY DEF Holders, HoldersIn
    <3> QED
      BY <3>1, HoldersFinite, LayersFinite
  <2> HIDE DEF n, h
  <2>3. connections[i].ref_count <= 1 => n <= 1
    BY <2>1, <2>2
  <2> QED
    BY <2>3 DEF LifeInv, LifeOf, n, h
<1> QED
  BY <1>1, <1>2, <1>3, PoolInvariance, PTL DEF Spec

-----------------------------------------------------------------------------
(* The pool keeps the promise of its notes.                                *)

Live == {h \in Handles : backend[h] # "free"}

\* PQconnectdb opens a connection for the layer that asks.
LEMMA LeaseConnect ==
    ASSUME PoolInv, NEW l \in Layers, Connect(l)
    PROVE  Lease!Next
<1>1. PICK h \in Handles :
         /\ backend[h] = "free"
         /\ backend' = [backend EXCEPT ![h] = "ok"]
         /\ pgconn' = [pgconn EXCEPT ![l] = h]
  BY DEF Connect
<1>2. pgconn[l] = NoHandle
  BY DEF Connect, PoolInv, HandleOK
<1>3. h \notin Live /\ Live' = Live \cup {h}
  BY <1>1 DEF Live, PoolInv, TypeOK
<1>4. Lease!Open(l, h)
  BY <1>1, <1>2, <1>3 DEF Lease!Open, Live
<1> QED
  BY <1>4 DEF Lease!Next

\* msConnPoolRequest hands a connection to a second layer only within the
\* thread that uses it.
LEMMA LeaseOpenHit ==
    ASSUME PoolInv, NEW l \in Layers, OpenHit(l)
    PROVE  Lease!Next
<1>1. PICK i \in DOMAIN connections :
         /\ connections[i].ref_count = 0 \/ connections[i].thread_id = ThreadOf[l]
         /\ pgconn' = [pgconn EXCEPT ![l] = connections[i].conn_handle]
         /\ UNCHANGED backend
  BY DEF OpenHit, FirstRequestable, Requestable
<1> DEFINE h == connections[i].conn_handle
<1>2. h \in Handles /\ h \in Live
  BY EntryType DEF PoolInv, PoolOK, Live
<1>3. pgconn[l] = NoHandle
  BY DEF OpenHit, PoolInv, HandleOK
<1>4. ASSUME NEW m \in Layers, pgconn[m] = h PROVE ThreadOf[m] = ThreadOf[l]
  <2>1. connections[i].ref_count > 0
    BY <1>4, HeldIsCounted
  <2>2. connections[i].thread_id = ThreadOf[m]
    BY <1>4 DEF PoolInv, HolderOK
  <2> QED
    BY <1>1, <2>1, <2>2
<1> HIDE DEF h
<1>5. Lease!Share(l, h)
  BY <1>1, <1>2, <1>3, <1>4 DEF Lease!Share, Lease!Users, Live, h
<1> QED
  BY <1>2, <1>5 DEF Lease!Next

\* A layer leaves a connection; the pool closes it only behind its last user.
LEMMA LeaseLayerClose ==
    ASSUME PoolInv, NEW l \in Layers, LayerClose(l)
    PROVE  Lease!Next
<1>1. /\ pgconn[l] # NoHandle /\ pgconn[l] \in Handles
      /\ pgconn' = [pgconn EXCEPT ![l] = NoHandle]
  BY DEF LayerClose, PoolInv, HandleOK, TypeOK
<1>2. CASE UNCHANGED backend
  <2>1. Lease!Leave(l)
    BY <1>1, <1>2 DEF Lease!Leave
  <2> QED
    BY <2>1 DEF Lease!Next
<1>3. CASE backend' # backend
  <2>1. ReleaseFound(l)
    BY <1>3 DEF LayerClose, ReleaseUnknown
  <2>2. PICK i \in Releasable(connections, ConnectionOf[l], pgconn[l]) :
           /\ ClosedOnRelease(connections, i)
           /\ backend' = [backend EXCEPT ![pgconn[l]] = "free"]
    BY <1>3, <2>1 DEF ReleaseFound
  <2>3. /\ i \in DOMAIN connections /\ connections[i].conn_handle = pgconn[l]
        /\ connections[i].ref_count = 1
    BY <2>2 DEF Releasable, ClosedOnRelease
  <2> DEFINE U == HoldersIn(Layers, pgconn, pgconn[l])
  <2>4. /\ 1 = Cardinality(U) + abandoned[pgconn[l]]
        /\ abandoned[pgconn[l]] \in Nat
    BY <1>1, <2>3 DEF PoolInv, RefCountExact, TypeOK, Holders, HoldersIn
  <2>5. IsFiniteSet(U) /\ Cardinality(U) \in Nat /\ l \in U
    <3>1. IsFiniteSet(U) /\ Cardinality(U) \in Nat
      BY HoldersFinite, LayersFinite
    <3>2. l \in U
      BY DEF HoldersIn
    <3> QED
      BY <3>1, <3>2
  <2> HIDE DEF U
  <2>6. U = {l}
    <3>1. Cardinality(U) <= 1
      BY <2>4, <2>5
    <3>2. IsFiniteSet(U \ {l}) /\ Cardinality(U \ {l}) = Cardinality(U) - 1
      BY <2>5, FS_RemoveElement
    <3>3. Cardinality(U \ {l}) \in Nat
      BY <3>2, FS_CardinalityType
    <3>4. Cardinality(U \ {l}) = 0
      BY <2>5, <3>1, <3>2, <3>3
    <3>5. U \ {l} = {}
      BY <3>2, <3>4, FS_EmptySet
    <3> QED
      BY <2>5, <3>5
  <2>7. Live' = Live \ {pgconn[l]}
    BY <2>2 DEF Live, PoolInv, TypeOK
  <2>8. Lease!LeaveAndClose(l)
    BY <1>1, <2>6, <2>7 DEF Lease!LeaveAndClose, Lease!Users, Live, U, HoldersIn
  <2> QED
    BY <2>8 DEF Lease!Next
<1> QED
  BY <1>2, <1>3

\* A sweep closes only connections that nobody uses.
LEMMA LeaseSweep ==
    ASSUME PoolInv, NEW i \in DOMAIN connections, SweepClose(i), UNCHANGED pgconn,
           \A l \in Layers : pgconn[l] # connections[i].conn_handle
    PROVE  Lease!Next
<1>1. connections[i].conn_handle \in Handles
  BY EntryType DEF PoolInv
<1>2. PICK h \in Handles : h = connections[i].conn_handle
  BY <1>1
<1>3. h \in Live
  BY <1>2 DEF PoolInv, PoolOK, Live
<1>4. Live' = Live \ {h}
  BY <1>2 DEF SweepClose, Live, PoolInv, TypeOK
<1>5. Lease!Close(h)
  BY <1>2, <1>3, <1>4 DEF Lease!Close, Lease!Users, Live
<1> QED
  BY <1>5 DEF Lease!Next

\* Every step of the pool and its driver is one the promise allows.
LEMMA LeaseNext == PoolInv /\ [Next]_vars => [Lease!Next]_(Lease!leaseVars)
<1> SUFFICES ASSUME PoolInv, [Next]_vars
             PROVE  Lease!Next \/ (Live' = Live /\ UNCHANGED pgconn)
  <2>1. Lease!leaseVars = <<Live, pgconn>> /\ Lease!leaseVars' = <<Live', pgconn'>>
    BY DEF Lease!leaseVars, Live
  <2> QED
    BY <2>1
<1>1. ASSUME NEW l \in Layers, LayerStep(l)
      PROVE  Lease!Next \/ (Live' = Live /\ UNCHANGED pgconn)
  <2>1. CASE Connect(l) \/ OpenHit(l) \/ LayerClose(l)
    BY <2>1, LeaseConnect, LeaseOpenHit, LeaseLayerClose
  <2>2. CASE AbandonPooled(l)
    <3>1. Lease!Leave(l)
      BY <2>2 DEF AbandonPooled, Lease!Leave, PoolInv, HandleOK
    <3> QED
      BY <3>1 DEF Lease!Next
  <2>3. CASE TestPooled(l)
    <3>1. pgconn[l] \in Handles /\ backend[pgconn[l]] # "free"
      BY <2>3 DEF TestPooled, PoolInv, HandleOK, TypeOK, NoUseAfterClose
    <3> QED
      BY <2>3, <3>1 DEF TestPooled, Live, PoolInv, TypeOK
  <2>4. CASE OpenMiss(l) \/ ConnectFail(l) \/ Register(l) \/ RegisterFail(l) \/ Opened(l)
    BY <2>4 DEF OpenMiss, ConnectFail, Register, RegisterFail, Opened, Live
  <2> QED
    BY <1>1, <2>1, <2>2, <2>3, <2>4 DEF LayerStep
<1>2. ASSUME NEW t \in Threads, SweepStep(t)
      PROVE  Lease!Next \/ (Live' = Live /\ UNCHANGED pgconn)
  <2>1. CASE CloseUnreferenced(t)
    <3>1. CASE connections[sweep.i].ref_count = 0
      <4>1. SweepClose(sweep.i) /\ UNCHANGED pgconn /\ sweep.i \in DOMAIN connections
        BY <2>1, <3>1 DEF CloseUnreferenced, PoolInv, SweepOK, TypeOK
      <4>2. \A l \in Layers : pgconn[l] # connections[sweep.i].conn_handle
        BY <3>1, <4>1, HeldIsCounted
      <4> QED
        BY <4>1, <4>2, LeaseSweep
    <3>2. CASE connections[sweep.i].ref_count # 0
      BY <2>1, <3>2 DEF CloseUnreferenced, Live
    <3> QED
      BY <3>1, <3>2
  <2>2. CASE FinalCleanup(t)
    <3>1. SweepClose(1) /\ UNCHANGED pgconn /\ 1 \in DOMAIN connections
      BY <2>2 DEF FinalCleanup, PoolInv, TypeOK
    <3>2. \A l \in Layers : pgconn[l] # connections[1].conn_handle
      BY <2>2, <3>1 DEF FinalCleanup, PoolInv, FinalOK, Pooled
    <3> QED
      BY <3>1, <3>2, LeaseSweep
  <2>3. CASE BeginSweep(t) \/ EndSweep(t)
    BY <2>3 DEF BeginSweep, EndSweep, Live
  <2> QED
    BY <1>2, <2>1, <2>2, <2>3 DEF SweepStep
<1>3. ASSUME NEW h \in Handles, ServerDrops(h)
      PROVE  Live' = Live /\ UNCHANGED pgconn
  BY <1>3 DEF ServerDrops, Live, PoolInv, TypeOK
<1>4. CASE UNCHANGED vars
  BY <1>4 DEF vars, Live
<1> QED
  BY <1>1, <1>2, <1>3, <1>4 DEF Next

\* The pool and the PostGIS driver implement what the notes of mappool.c
\* promise: connections are shared within a thread only, and are closed only
\* when nobody uses them.
THEOREM LeaseKept == Spec => LeaseSpec
<1>1. Init => Lease!Init
  BY DEF Init, Lease!Init
<1>2. PoolInv /\ [Next]_vars => [Lease!Next]_(Lease!leaseVars)
  BY LeaseNext
<1> QED
  BY <1>1, <1>2, PoolInvariance, PTL DEF Spec, LeaseSpec, Lease!Spec
=============================================================================
