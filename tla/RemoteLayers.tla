---------------------------- MODULE RemoteLayers ----------------------------
(***************************************************************************)
(* A map with remote layers is drawn (msDrawMap of mapdraw.c): the         *)
(* requests of all WMS and WFS layers are prepared first, layers of one    *)
(* WMS server being merged into one request (mapwmslayer.c, mapwfslayer.c),*)
(* then executed together (maphttp.c), and then the layers are drawn in    *)
(* their order, those with POSTLABELCACHE after the labels.                *)
(***************************************************************************)
EXTENDS Integers, Sequences, FiniteSets

CONSTANTS
    Maps,                   \* the maps: sequences of layers in drawing order
    Servers,                \* URLs with the parameters that layers share
    Cookies, None

VARIABLES
    layers,                 \* the map
    pc,                     \* which loop of msDrawMap is running
    i,                      \* its index
    lastconnectiontype,     \* of the remote layer before
    last,                   \* sLastWMSParams
    reqs,                   \* pasOWSReqInfo
    nTimeout,               \* limit on all transfers
    wfsstatus,              \* nStatus in the msWFSLayerInfo of each layer
    image                   \* what was painted, in order; 0 for the labels

vars == <<layers, pc, i, lastconnectiontype, last, reqs, nTimeout, wfsstatus, image>>

\* A layer; timeout is its connectiontimeout in seconds, outside tells that
\* nothing of it is in the view.
Layers == [type : {"WMS", "WFS", "LOCAL"}, visible : BOOLEAN, outside : BOOLEAN,
           server : Servers, separate : BOOLEAN, essential : BOOLEAN,
           cookie : Cookies \cup {None}, timeout : Nat, post : BOOLEAN]

\* Only WMS layers can be outside of the view, separate or essential.
PlainUnlessWMS(lp) == lp.outside \/ lp.separate \/ lp.essential => lp.type = "WMS"

ASSUME RemoteAssumption ==
    /\ Maps \subseteq Seq(Layers)
    /\ \A m \in Maps : \A l \in DOMAIN m : PlainUnlessWMS(m[l])
    /\ None \notin Servers \cup Cookies

Statuses == {"none", "running", "ok", "empty", "exception", "failed"}

\* A request: the layer it was made for, the service its URL asks for and
\* the layers named in the URL.
Requests == [id : Nat, kind : {"WMS", "WFS"}, names : Seq(Nat),
             cookie : Cookies \cup {None}, timeout : Nat, status : Statuses]

NoParams == [server |-> None, essential |-> FALSE, names |-> <<>>]

Last(s) == s[Len(s)]
Painted(l) == \E k \in 1 .. Len(image) : image[k] = l
Places == 1 .. Len(layers)

TypeOK ==
    /\ layers \in Maps
    /\ pc \in {"prepare", "start", "download", "draw", "labels", "post",
               "done", "failed"}
    /\ i \in 1 .. Len(layers) + 1
    /\ lastconnectiontype \in {"SHAPEFILE", "WMS", "WFS"}
    /\ last.server \in Servers \cup {None}
    /\ Len(reqs) <= Cardinality({l \in Places : layers[l].type # "LOCAL"})
    /\ \A r \in 1 .. Len(reqs) : reqs[r] \in Requests /\ reqs[r].names # <<>>
    /\ nTimeout \in Nat /\ (pc = "download" => nTimeout > 0)
    /\ wfsstatus \in [Places -> Statuses]
    /\ \A k \in 1 .. Len(image) : image[k] \in 0 .. Len(layers)

Init ==
    /\ layers \in Maps
    /\ pc = "prepare"
    /\ i = 1
    /\ lastconnectiontype = "SHAPEFILE"
    /\ last = NoParams
    /\ reqs = <<>>
    /\ nTimeout = 0
    /\ wfsstatus = [l \in Places |-> "none"]
    /\ image = <<>>

-----------------------------------------------------------------------------
(* Preparing the requests.                                                 *)

\* The loop is at a layer that it prepares a request for.
Preparing(type) ==
    /\ pc = "prepare"
    /\ i <= Len(layers)
    /\ layers[i].type = type
    /\ layers[i].visible

\* Local layers and those that are not visible leave no trace.
PrepareSkip ==
    /\ pc = "prepare"
    /\ i <= Len(layers)
    /\ layers[i].type = "LOCAL" \/ ~layers[i].visible
    /\ i' = i + 1
    /\ UNCHANGED <<layers, pc, lastconnectiontype, last, reqs, nTimeout, wfsstatus, image>>

\* A WMS layer outside of the view needs no request, and keeps the parameters
\* of the layer before.
PrepareOutside ==
    /\ Preparing("WMS")
    /\ layers[i].outside
    /\ lastconnectiontype' = "WMS"
    /\ i' = i + 1
    /\ UNCHANGED <<layers, pc, last, reqs, nTimeout, wfsstatus, image>>

\* Slip: a layer without EXCEPTIONS parameter passes for one that has it.
SameParamsButExceptions(lp) == last.server = lp.server

\* The parameters are those of the layer before, but for the names of the
\* layers.  An essential layer has one less: it sends no EXCEPTIONS.
SameParams(lp) == last.server = lp.server /\ last.essential = lp.essential

\* Slip: the type of the layer before plays no part.
OkToMergeAnyType(lp) ==
    ~lp.separate /\ SameParams(lp) /\ lp.cookie = None

\* bOkToMerge.  The cookie is compared with one that is never set.
OkToMerge(lp) ==
    /\ ~lp.separate
    /\ lastconnectiontype = "WMS"
    /\ SameParams(lp)
    /\ lp.cookie = None

\* Slip: the parameters are kept for the next layer although this one is to
\* be alone.
RememberAlways(lp, names) ==
    [server |-> lp.server, essential |-> lp.essential, names |-> names]

\* psLastWMSParams for the next layer.
Remember(lp, names) ==
    IF lp.separate THEN NoParams
    ELSE [server |-> lp.server, essential |-> lp.essential, names |-> names]

MaxOf(a, b) == IF a > b THEN a ELSE b

\* Slip: the layer is put before those that are there.
NamesBefore(l) == <<l>> \o last.names

\* The LAYERS parameter with the layer added.
NamesWith(l) == Append(last.names, l)

\* The layer is added to the URL of the last request.
PrepareMerge ==
    LET lp == layers[i]
        names == NamesWith(i)
        n == Len(reqs) IN
    /\ Preparing("WMS")
    /\ ~lp.outside
    /\ OkToMerge(lp)
    /\ n > 0
    /\ reqs' = [reqs EXCEPT ![n].kind = "WMS", ![n].names = names,
                            ![n].timeout = MaxOf(@, lp.timeout)]
    /\ last' = Remember(lp, names)
    /\ lastconnectiontype' = "WMS"
    /\ i' = i + 1
    /\ UNCHANGED <<layers, pc, nTimeout, wfsstatus, image>>

Request(kind) == [id |-> i, kind |-> kind, names |-> <<i>>, cookie |-> layers[i].cookie,
                  timeout |-> layers[i].timeout, status |-> "none"]

\* The layer gets a request of its own.
PrepareWMS ==
    LET lp == layers[i] IN
    /\ Preparing("WMS")
    /\ ~lp.outside
    /\ ~(OkToMerge(lp) /\ Len(reqs) > 0)
    /\ reqs' = Append(reqs, Request("WMS"))
    /\ last' = Remember(lp, <<i>>)
    /\ lastconnectiontype' = "WMS"
    /\ i' = i + 1
    /\ UNCHANGED <<layers, pc, nTimeout, wfsstatus, image>>

\* msPrepareWFSLayerRequest.
PrepareWFS ==
    /\ Preparing("WFS")
    /\ reqs' = Append(reqs, Request("WFS"))
    /\ wfsstatus' = [wfsstatus EXCEPT ![i] = "none"]
    /\ lastconnectiontype' = "WFS"
    /\ i' = i + 1
    /\ UNCHANGED <<layers, pc, last, nTimeout, image>>

\* The URL, the projection or the metadata of the layer are not right.
PrepareFails ==
    /\ Preparing("WMS") \/ Preparing("WFS")
    /\ pc' = "failed"
    /\ UNCHANGED <<layers, i, lastconnectiontype, last, reqs, nTimeout, wfsstatus, image>>

PrepareEnds ==
    /\ pc = "prepare"
    /\ i > Len(layers)
    /\ pc' = IF reqs = <<>> THEN "draw" ELSE "start"
    /\ i' = 1
    /\ last' = NoParams
    /\ UNCHANGED <<layers, lastconnectiontype, reqs, nTimeout, wfsstatus, image>>
-----------------------------------------------------------------------------
(* Executing the requests.                                                 *)

DefaultTimeout == 30

\* Slip: a limit of zero seconds is passed on, which means no limit.
TimeoutOfNoDefault == LET ts == {reqs[r].timeout : r \in 1 .. Len(reqs)} IN
    CHOOSE t \in ts : \A u \in ts : u <= t

\* The longest limit of the requests holds for all of them.
TimeoutOf ==
    LET ts == {reqs[r].timeout : r \in 1 .. Len(reqs)}
        t == CHOOSE t \in ts : \A u \in ts : u <= t IN
    IF t <= 0 THEN DefaultTimeout ELSE t

Start ==
    /\ pc = "start"
    /\ nTimeout' = TimeoutOf
    /\ reqs' = [r \in 1 .. Len(reqs) |-> [reqs[r] EXCEPT !.status = "running"]]
    /\ pc' = "download"
    /\ UNCHANGED <<layers, i, lastconnectiontype, last, wfsstatus, image>>

\* No handle, or the output file cannot be opened.
StartFails ==
    /\ pc = "start"
    /\ pc' = "failed"
    /\ UNCHANGED <<layers, i, lastconnectiontype, last, reqs, nTimeout, wfsstatus, image>>

Ended(r, status) ==
    /\ pc = "download"
    /\ reqs[r].status = "running"
    /\ reqs' = [reqs EXCEPT ![r].status = status]
    /\ UNCHANGED <<layers, pc, i, lastconnectiontype, last, nTimeout, wfsstatus, image>>

\* The server answers with what was asked for, an exception document, or a
\* failure; a WFS server may also have no features to send.
Answered(r) ==
    \E status \in {"ok", "exception", "failed"} \cup
                  (IF reqs[r].kind = "WFS" THEN {"empty"} ELSE {}) :
        Ended(r, status)

\* The limit is over.
TimesOut(r) == nTimeout > 0 /\ Ended(r, "failed")

\* msWFSUpdateRequestInfo for the WFS layers.
StatusFor(l) ==
    IF \E r \in 1 .. Len(reqs) : reqs[r].id = l
    THEN reqs[CHOOSE r \in 1 .. Len(reqs) : reqs[r].id = l].status
    ELSE "none"

DownloadEnds ==
    /\ pc = "download"
    /\ \A r \in 1 .. Len(reqs) : reqs[r].status # "running"
    /\ wfsstatus' = [l \in Places |-> IF layers[l].type = "WFS" THEN StatusFor(l)
                                      ELSE wfsstatus[l]]
    /\ pc' = "draw"
    /\ UNCHANGED <<layers, i, lastconnectiontype, last, reqs, nTimeout, image>>

-----------------------------------------------------------------------------
(* Drawing.                                                                *)

\* Slip: the last loop draws the visible layers once more.
InTurnAgain(l) == layers[l].visible /\ (layers[l].post => pc = "post")

\* The loops draw the visible layers, each those of its kind.
InTurn(l) == layers[l].visible /\ layers[l].post = (pc = "post")

Drawing(type) ==
    /\ pc \in {"draw", "post"}
    /\ i <= Len(layers)
    /\ InTurn(i)
    /\ layers[i].type = type

DrawSkip ==
    /\ pc \in {"draw", "post"}
    /\ i <= Len(layers)
    /\ ~InTurn(i)
    /\ i' = i + 1
    /\ UNCHANGED <<layers, pc, lastconnectiontype, last, reqs, nTimeout, wfsstatus, image>>

OwnRequests(l) == {r \in 1 .. Len(reqs) : reqs[r].id = l}

\* The image that came is drawn, with all layers that are in it.
DrawWMS ==
    /\ Drawing("WMS")
    /\ \E r \in OwnRequests(i) :
          /\ reqs[r].status = "ok"
          /\ image' = image \o reqs[r].names
    /\ i' = i + 1
    /\ UNCHANGED <<layers, pc, lastconnectiontype, last, reqs, nTimeout, wfsstatus>>

Refused(r) == reqs[r].status \in {"failed", "exception"}

\* The layer was outside or is in the image of another layer, or its request
\* failed and the map may do without it.
DrawWMSSkip ==
    /\ Drawing("WMS")
    /\ \/ OwnRequests(i) = {}
       \/ ~layers[i].essential /\ \E r \in OwnRequests(i) : Refused(r)
    /\ i' = i + 1
    /\ UNCHANGED <<layers, pc, lastconnectiontype, last, reqs, nTimeout, wfsstatus, image>>

DrawWMSEssential ==
    /\ Drawing("WMS")
    /\ layers[i].essential
    /\ \E r \in OwnRequests(i) : Refused(r)
    /\ pc' = "failed"
    /\ UNCHANGED <<layers, i, lastconnectiontype, last, reqs, nTimeout, wfsstatus, image>>

\* What came for the WFS layer is a document with features.
HasFeatures(l) ==
    /\ wfsstatus[l] = "ok"
    /\ \A r \in OwnRequests(l) : reqs[r].kind = "WFS"

DrawWFS ==
    /\ Drawing("WFS")
    /\ \/ HasFeatures(i) /\ image' = Append(image, i)
       \/ wfsstatus[i] = "empty" /\ UNCHANGED image
    /\ i' = i + 1
    /\ UNCHANGED <<layers, pc, lastconnectiontype, last, reqs, nTimeout, wfsstatus>>

\* Anything else that came, and a failed download, fail the map.
DrawWFSFails ==
    /\ Drawing("WFS")
    /\ ~HasFeatures(i)
    /\ wfsstatus[i] # "empty"
    /\ pc' = "failed"
    /\ UNCHANGED <<layers, i, lastconnectiontype, last, reqs, nTimeout, wfsstatus, image>>

DrawLocal ==
    /\ Drawing("LOCAL")
    /\ image' = Append(image, i)
    /\ i' = i + 1
    /\ UNCHANGED <<layers, pc, lastconnectiontype, last, reqs, nTimeout, wfsstatus>>

\* msDrawLayer or msDrawLabelCache fails.
DrawFails ==
    /\ \/ Drawing("LOCAL")
       \/ Drawing("WMS") /\ \E r \in OwnRequests(i) : reqs[r].status = "ok"
       \/ pc = "labels"
    /\ pc' = "failed"
    /\ UNCHANGED <<layers, i, lastconnectiontype, last, reqs, nTimeout, wfsstatus, image>>

DrawLabelCache ==
    /\ pc = "labels"
    /\ image' = Append(image, 0)
    /\ pc' = "post"
    /\ UNCHANGED <<layers, i, lastconnectiontype, last, reqs, nTimeout, wfsstatus>>

LoopEnds ==
    /\ pc \in {"draw", "post"}
    /\ i > Len(layers)
    /\ pc' = IF pc = "draw" THEN "labels" ELSE "done"
    /\ i' = 1
    /\ UNCHANGED <<layers, lastconnectiontype, last, reqs, nTimeout, wfsstatus, image>>

Finished == pc \in {"done", "failed"} /\ UNCHANGED vars

Step ==
    \/ PrepareSkip \/ PrepareOutside \/ PrepareMerge \/ PrepareWMS \/ PrepareWFS
    \/ PrepareFails \/ PrepareEnds
    \/ Start \/ StartFails \/ DownloadEnds
    \/ \E r \in 1 .. Len(reqs) : TimesOut(r)
    \/ DrawSkip \/ DrawWMS \/ DrawWMSSkip \/ DrawWMSEssential \/ DrawWFS
    \/ DrawWFSFails \/ DrawLocal \/ DrawFails \/ DrawLabelCache \/ LoopEnds

Next == Step \/ (\E r \in 1 .. Len(reqs) : Answered(r)) \/ Finished

\* The process goes on, and the library ends a transfer when its limit is over.
\* That a server answers is not presumed.
Spec == Init /\ [][Next]_vars /\ WF_vars(Step)
-----------------------------------------------------------------------------
Wanted(l) == layers[l].visible /\ ~layers[l].outside
Remote(l) == layers[l].type # "LOCAL"
Names(r) == {reqs[r].names[k] : k \in 1 .. Len(reqs[r].names)}
Naming(l) == {r \in 1 .. Len(reqs) : l \in Names(r)}
Prepared == pc \notin {"prepare", "failed"}

\* No WMS layer outside of the view comes after a WFS layer.  Where one does,
\* the WFS request may be overwritten by one for WMS layers.
NoOutsideAfterWFS(m) ==
    \A a, b \in DOMAIN m :
        a < b /\ m[a].type = "WFS" /\ m[a].visible /\ m[b].visible =>
            ~(m[b].type = "WMS" /\ m[b].outside)

\* When the requests are prepared, every remote layer that is wanted is named
\* in one request of its service, and no other layer is named in any
\* (mapwmslayer.c:1134: "Check if layer can be merged with previous WMS layer
\* requests").
RequestsComplete ==
    Prepared =>
        \A l \in Places :
            /\ Cardinality(Naming(l)) = (IF Remote(l) /\ Wanted(l) THEN 1 ELSE 0)
            /\ \A r \in Naming(l) : reqs[r].kind = layers[l].type

\* Whatever is merged, a layer is asked for with its own cookie and from its
\* own server, and a layer with FORCE_SEPARATE_REQUEST is alone in its request.
AskedAsConfigured ==
    \A r \in 1 .. Len(reqs) : \A l \in Names(r) :
        /\ layers[l].cookie # None => reqs[r].cookie = layers[l].cookie
        /\ layers[l].server = layers[reqs[r].id].server
        /\ layers[l].separate => Names(r) = {l}

\* A map is only delivered with all of its essential layers, although a layer
\* merged into the request of another is not looked at again when it is drawn
\* (mapwmslayer.c:1336: "if the request fails or an error is delivered, the map
\* has not to be drawn").
EssentialPainted ==
    pc = "done" =>
        \A l \in Places : layers[l].essential /\ Wanted(l) => Painted(l)

\* What is wanted is in the map that is delivered, once, unless a server
\* refused it or had no features.
PaintedOrRefused ==
    /\ \A j, k \in 1 .. Len(image) : image[j] = image[k] => j = k
    /\ pc = "done" =>
          \A l \in Places : Wanted(l) =>
              \/ Painted(l)
              \/ \E r \in Naming(l) : Refused(r) \/ reqs[r].status = "empty"

\* The place of a layer, or of the labels, in the order of drawing.
Turn(l) == IF l = 0 THEN Len(layers) + 1
           ELSE IF layers[l].post THEN Len(layers) + 1 + l ELSE l

Merged(l) == \E r \in Naming(l) : reqs[r].id # l
SameImage(l, n) == Naming(l) \cap Naming(n) # {}

\* Layers and labels are painted in the drawing order, but for layers that came
\* in the image of another one; those of one image are in their own order.
PaintedInTurn ==
    \A j, k \in 1 .. Len(image) : j < k =>
        \/ Turn(image[j]) < Turn(image[k])
        \/ /\ Merged(image[j]) \/ Merged(image[k])
           /\ SameImage(image[j], image[k]) => image[j] < image[k]

\* Drawing comes to an end although servers may never answer.
DrawEnds == <>(pc \in {"done", "failed"})
=============================================================================
