----------------------------- MODULE MapLayers ------------------------------
(***************************************************************************)
(* The layers of a map, their drawing order and their reference counts     *)
(* (mapobject.c, mapfile.c, and the mapscript methods that call them).     *)
(*                                                                         *)
(* The arrays of mapObj are functions on 0 .. n-1.  Slots of layers from   *)
(* numlayers up to maxlayers hold no layer.                                *)
(***************************************************************************)
EXTENDS Integers, FiniteSets

CONSTANTS
    LayerObjs,              \* addresses of layers
    NULL,                   \* no layer in a slot
    Dangling,               \* a slot whose layer has been freed
    MS_LAYER_ALLOCSIZE,     \* slots added when the arrays are full, 64
    MaxLayers,              \* bound on the layers in the map
    MaxHandles              \* bound on the script's handles on one layer

ASSUME MapLayersAssumption ==
    /\ NULL \notin LayerObjs
    /\ Dangling \notin LayerObjs
    /\ NULL # Dangling
    /\ MS_LAYER_ALLOCSIZE \in Nat \ {0}
    /\ MaxLayers \in Nat
    /\ MaxHandles \in Nat

VARIABLES
    numlayers, maxlayers,   \* map->numlayers, map->maxlayers
    layers,                 \* map->layers
    layerorder,             \* map->layerorder, as far as it is in use
    index,                  \* layer->index
    mapped,                 \* the layers whose layer->map is this map
    refcount,               \* layer->refcount; 0 for a layer that is not
    handles                 \* how many mapscript objects stand for a layer

vars == <<numlayers, maxlayers, layers, layerorder, index, mapped, refcount, handles>>

TypeOK ==
    /\ numlayers \in Nat
    /\ maxlayers \in Nat
    /\ numlayers <= maxlayers
    /\ layers \in [0 .. maxlayers - 1 -> LayerObjs \cup {NULL, Dangling}]
    /\ \A i \in 0 .. maxlayers - 1 : i < numlayers <=> layers[i] \in LayerObjs
    /\ layerorder \in [0 .. numlayers - 1 -> 0 .. numlayers - 1]
    /\ index \in [LayerObjs -> Int]
    /\ mapped \subseteq LayerObjs
    /\ refcount \in [LayerObjs -> Nat]
    /\ handles \in [LayerObjs -> Nat]

Init ==
    /\ numlayers = 0
    /\ maxlayers = 0
    /\ layers = [i \in 0 .. -1 |-> NULL]
    /\ layerorder = [i \in 0 .. -1 |-> 0]
    /\ index = [l \in LayerObjs |-> -1]
    /\ mapped = {}
    /\ refcount = [l \in LayerObjs |-> 0]
    /\ handles = [l \in LayerObjs |-> 0]

\* Where a layer is in the map.  A script may insert the same layer again.
Positions(l) == {i \in 0 .. numlayers - 1 : layers[i] = l}
InMap(l) == Positions(l) # {}

\* A mapscript object is made for, or taken off, a layer.
Incr(f, l) == [f EXCEPT ![l] = @ + 1]
Decr(f, l) == [f EXCEPT ![l] = @ - 1]

-----------------------------------------------------------------------------
\* Slip: the test for full arrays comes one layer late.
GrownMaxLate == IF numlayers > maxlayers THEN maxlayers + MS_LAYER_ALLOCSIZE
                                         ELSE maxlayers

\* msGrowMapLayers: the capacity after room has been made for one more.
GrownMax == IF numlayers = maxlayers THEN maxlayers + MS_LAYER_ALLOCSIZE
                                     ELSE maxlayers

\* The slots after it.  It also allocates a layer for the next slot, which
\* its callers use or free at once.
GrownLayers ==
    [i \in 0 .. GrownMax - 1 |-> IF i < maxlayers THEN layers[i] ELSE NULL]

\* The new layer is drawn last.
OrderAppended ==
    [i \in 0 .. numlayers |-> IF i = numlayers THEN numlayers ELSE layerorder[i]]

AppendLayer(l) ==
    /\ numlayers' = numlayers + 1
    /\ maxlayers' = GrownMax
    /\ layers' = [GrownLayers EXCEPT ![numlayers] = l]
    /\ layerorder' = OrderAppended
    /\ index' = [index EXCEPT ![l] = numlayers]
    /\ mapped' = mapped \cup {l}

\* The constructor layerObj(NULL): a layer without a map.
NewLayer(l) ==
    /\ refcount[l] = 0
    /\ index' = [index EXCEPT ![l] = -1]
    /\ refcount' = [refcount EXCEPT ![l] = 1]
    /\ handles' = [handles EXCEPT ![l] = 1]
    /\ mapped' = mapped \ {l}
    /\ UNCHANGED <<numlayers, maxlayers, layers, layerorder>>

\* The constructor layerObj(map): a layer at the end of the map.
NewLayerInMap(l) ==
    /\ refcount[l] = 0
    /\ numlayers < MaxLayers
    /\ AppendLayer(l)
    /\ refcount' = [refcount EXCEPT ![l] = 2]
    /\ handles' = [handles EXCEPT ![l] = 1]

\* msInsertLayer with a negative index.
InsertLast(l) ==
    /\ handles[l] > 0
    /\ numlayers < MaxLayers
    /\ AppendLayer(l)
    /\ refcount' = Incr(refcount, l)
    /\ UNCHANGED handles

\* The layer with number k after a layer has been inserted as number n.
Raised(k, n) == IF k >= n THEN k + 1 ELSE k

\* Slip: the drawing order of the layers in front is not renumbered.
OrderInsertedHalf(n) ==
    [i \in 0 .. numlayers |-> IF i < n THEN layerorder[i]
                              ELSE IF i = n THEN n ELSE Raised(layerorder[i - 1], n)]

OrderInserted(n) ==
    [i \in 0 .. numlayers |-> IF i < n THEN Raised(layerorder[i], n)
                              ELSE IF i = n THEN n ELSE Raised(layerorder[i - 1], n)]

LayersInserted(l, n) ==
    [i \in 0 .. GrownMax - 1 |->
        IF i = n THEN l
        ELSE IF n < i /\ i <= numlayers THEN layers[i - 1] ELSE GrownLayers[i]]

\* Slip: the layers that have moved keep their index.
IndexInsertedAlone(l, n) == [index EXCEPT ![l] = n]

\* The loop that moves the layers up writes their index from the last to the
\* first.
Behind(k, n) == {i \in Positions(k) : i >= n}
Least(S) == CHOOSE i \in S : \A j \in S : i <= j

IndexInserted(l, n) ==
    [k \in LayerObjs |-> IF k = l THEN n
                         ELSE IF Behind(k, n) # {} THEN Least(Behind(k, n)) + 1
                         ELSE index[k]]

\* msInsertLayer in front of layer number n.
InsertAt(l, n) ==
    /\ handles[l] > 0
    /\ numlayers < MaxLayers
    /\ n \in 0 .. numlayers - 1
    /\ numlayers' = numlayers + 1
    /\ maxlayers' = GrownMax
    /\ layers' = LayersInserted(l, n)
    /\ layerorder' = OrderInserted(n)
    /\ index' = IndexInserted(l, n)
    /\ mapped' = mapped \cup {l}
    /\ refcount' = Incr(refcount, l)
    /\ UNCHANGED handles

\* msInsertLayer beyond the last layer fails.  The layer in the next slot, one
\* that msGrowMapLayers has just made there or an old one, has been freed, but
\* the slot still points to it.  What freeing it again does to the heap is not
\* modelled: a later step that uses the slot replaces the pointer.
InsertBeyond(l) ==
    /\ handles[l] > 0
    /\ maxlayers' = GrownMax
    /\ layers' = IF numlayers = maxlayers
                 THEN [GrownLayers EXCEPT ![numlayers] = Dangling]
                 ELSE layers
    /\ UNCHANGED <<numlayers, layerorder, index, mapped, refcount, handles>>

-----------------------------------------------------------------------------
\* msRemoveLayer: the first loop renumbers the drawing order while it looks
\* for layer n, and stops at the entry that is n after being renumbered; the
\* second loop moves the entries behind it, renumbered, down.
Lowered(k, n) == IF k > n THEN k - 1 ELSE k

FoundAt(i, n) ==
    /\ layerorder[i] \in {n, n + 1}
    /\ \A j \in 0 .. i - 1 : layerorder[j] \notin {n, n + 1}

OrderRemoved(n) ==
    LET order_index == CHOOSE i \in 0 .. numlayers - 1 : FoundAt(i, n) IN
    [i \in 0 .. numlayers - 2 |->
        Lowered(IF i < order_index THEN layerorder[i] ELSE layerorder[i + 1], n)]

LayersRemoved(n) ==
    [i \in 0 .. maxlayers - 1 |->
        IF n <= i /\ i < numlayers - 1 THEN layers[i + 1]
        ELSE IF i = numlayers - 1 THEN NULL ELSE layers[i]]

\* The loop that moves the layers down writes their index from the first to
\* the last.
Greatest(S) == CHOOSE i \in S : \A j \in S : i >= j

IndexRemoved(n) ==
    [k \in LayerObjs |-> IF Behind(k, n + 1) # {} THEN Greatest(Behind(k, n + 1)) - 1
                         ELSE index[k]]

\* msRemoveLayer gives the map's reference back, layer->map becomes NULL, and
\* mapscript takes a reference for the object it returns.
RemoveLayer(n) ==
    /\ n \in 0 .. numlayers - 1
    /\ handles[layers[n]] < MaxHandles
    /\ numlayers' = numlayers - 1
    /\ layers' = LayersRemoved(n)
    /\ layerorder' = OrderRemoved(n)
    /\ index' = IndexRemoved(n)
    /\ mapped' = mapped \ {layers[n]}
    /\ refcount' = Incr(Decr(refcount, layers[n]), layers[n])
    /\ handles' = Incr(handles, layers[n])
    /\ UNCHANGED maxlayers

\* getLayer returns the layer itself, with one more reference.
GetLayer(n) ==
    /\ n \in 0 .. numlayers - 1
    /\ handles[layers[n]] < MaxHandles
    /\ refcount' = Incr(refcount, layers[n])
    /\ handles' = Incr(handles, layers[n])
    /\ UNCHANGED <<numlayers, maxlayers, layers, layerorder, index, mapped>>

\* Slip: a layer goes with its handle although the map has it.
ReleaseHandleFrees(l) ==
    /\ handles[l] > 0
    /\ refcount' = [refcount EXCEPT ![l] = 0]
    /\ handles' = Decr(handles, l)
    /\ UNCHANGED <<numlayers, maxlayers, layers, layerorder, index, mapped>>

\* freeLayer by the destructor of a mapscript object.
ReleaseHandle(l) ==
    /\ handles[l] > 0
    /\ refcount' = Decr(refcount, l)
    /\ handles' = Decr(handles, l)
    /\ UNCHANGED <<numlayers, maxlayers, layers, layerorder, index, mapped>>

\* msMoveLayerUp (step -1) and msMoveLayerDown (step 1) exchange the layer
\* with its neighbour in the drawing order.
Swapped(i, j) == [layerorder EXCEPT ![i] = layerorder[j], ![j] = layerorder[i]]

MoveLayer(step) ==
    /\ \E i \in 0 .. numlayers - 1 :
          /\ i + step \in 0 .. numlayers - 1
          /\ layerorder' = Swapped(i, i + step)
    /\ UNCHANGED <<numlayers, maxlayers, layers, index, mapped, refcount, handles>>

\* Slip: it is only checked that every number is one of a layer.
ValidOrderRange(order) == \A i \in 0 .. numlayers - 1 : order[i] < numlayers

\* msSetLayersdrawingOrder: every layer has to be in the new order.
ValidOrder(order) ==
    \A i \in 0 .. numlayers - 1 : \E j \in 0 .. numlayers - 1 : order[j] = i

SetLayersDrawingOrder(order) ==
    /\ ValidOrder(order)
    /\ layerorder' = order
    /\ UNCHANGED <<numlayers, maxlayers, layers, index, mapped, refcount, handles>>

\* msFreeMap gives the references back, one for every place a layer has in the
\* map; the script loads a new map.
FreeMap ==
    /\ numlayers > 0
    /\ numlayers' = 0
    /\ maxlayers' = 0
    /\ layers' = [i \in 0 .. -1 |-> NULL]
    /\ layerorder' = [i \in 0 .. -1 |-> 0]
    /\ refcount' = [l \in LayerObjs |-> refcount[l] - Cardinality(Positions(l))]
    /\ mapped' = {l \in mapped : ~InMap(l)}
    /\ UNCHANGED <<index, handles>>

Next ==
    \/ \E l \in LayerObjs :
          \/ NewLayer(l) \/ NewLayerInMap(l) \/ InsertLast(l)
          \/ \E n \in 0 .. numlayers - 1 : InsertAt(l, n)
          \/ InsertBeyond(l)
          \/ ReleaseHandle(l)
    \/ \E n \in 0 .. numlayers - 1 : RemoveLayer(n) \/ GetLayer(n)
    \/ \E step \in {-1, 1} : MoveLayer(step)
    \/ \E order \in [0 .. numlayers - 1 -> 0 .. numlayers - 1] :
          SetLayersDrawingOrder(order)
    \/ FreeMap

Spec == Init /\ [][Next]_vars

-----------------------------------------------------------------------------
\* Every layer is drawn exactly once: whatever is inserted, removed and moved,
\* the drawing order is a permutation of the layers' numbers (mapdraw.c takes
\* layers[layerorder[i]] for every i).
OrderIsPermutation ==
    /\ \A i, j \in 0 .. numlayers - 1 : layerorder[i] = layerorder[j] => i = j
    /\ \A k \in 0 .. numlayers - 1 : \E i \in 0 .. numlayers - 1 : layerorder[i] = k

\* A layer whose layer->map is set is found in the map under its own number,
\* also after others were inserted in front of it or removed and after it was
\* inserted a second time: labels find the layer again by it (maplabel.c:397,
\* mapdraw.c:3019).
IndexNamesLayer ==
    \A l \in mapped : index[l] \in Positions(l)

\* layer->index is the "Index of layer within parent map's layers array"
\* (mapserver.h:2221), for every place of that array.
IndexIsPosition ==
    \A i \in 0 .. numlayers - 1 : index[layers[i]] = i

\* A layer's references are its places in the map and the script's handles, so
\* it lives exactly as long as one of them has it (msFreeMap, freeLayer).
RefCountExact ==
    \A l \in LayerObjs : refcount[l] = handles[l] + Cardinality(Positions(l))

\* The three together with the types are inductive.
LayersInv == TypeOK /\ OrderIsPermutation /\ IndexNamesLayer /\ RefCountExact

\* Layer a is drawn before layer b.
DrawnBefore(a, b) ==
    \E i, j \in 0 .. numlayers - 1 :
        i < j /\ layers[layerorder[i]] = a /\ layers[layerorder[j]] = b

\* Inserting a layer does not change the order in which the others are drawn.
InsertKeepsOrder ==
    [][numlayers' = numlayers + 1 =>
          \A a, b \in LayerObjs : DrawnBefore(a, b) => DrawnBefore(a, b)']_vars

\* Removing a layer does not change the order in which the others are drawn
\* ("Adjust drawing order", mapobject.c:622).
RemoveKeepsOrder ==
    [][numlayers' = numlayers - 1 =>
          \A a, b \in LayerObjs :
              DrawnBefore(a, b) /\ InMap(a)' /\ InMap(b)' => DrawnBefore(a, b)']_vars
=============================================================================
