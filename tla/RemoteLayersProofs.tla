------------------------- MODULE RemoteLayersProofs -------------------------
(***************************************************************************)
(* Proofs about the requests to remote servers and the image that is made  *)
(* of their answers, for maps in which no WMS layer outside of the view    *)
(* comes after a WFS layer.  The invariant of the preparation ties the     *)
(* parameters that are remembered from the layer before to the last        *)
(* request; the one of the drawing gives everything that was painted the   *)
(* layer that painted it, whose turn is over.                              *)
(***************************************************************************)
EXTENDS RemoteLayers, FiniteSetTheorems, SequenceTheorems, TLAPS

\* The variables have their types.
Typed ==
    /\ layers \in Maps
    /\ pc \in {"prepare", "start", "download", "draw", "labels", "post",
               "done", "failed"}
    /\ i \in 1 .. Len(layers) + 1
    /\ lastconnectiontype \in {"SHAPEFILE", "WMS", "WFS"}
    /\ last \in [server : Servers \cup {None}, essential : BOOLEAN, names : Seq(Nat)]
    /\ reqs \in Seq(Requests)
    /\ wfsstatus \in [Places -> Statuses]
    /\ image \in Seq(Nat)

\* What layer l has in common with the layer that request q was made for.
AsFirst(q, l) ==
    /\ l \in Places
    /\ Wanted(l)
    /\ layers[l].type = q.kind
    /\ layers[l].server = layers[q.id].server
    /\ layers[l].essential = layers[q.id].essential

\* A request is right: the layers named in it are like the first one, which
\* it was made for; they are in their order; and where there are several, all
\* are WMS layers that may be merged.
Fitting(q) ==
    /\ Len(q.names) > 0
    /\ q.id = q.names[1]
    /\ q.cookie = layers[q.id].cookie
    /\ Len(q.names) > 1 => q.kind = "WMS"
    /\ \A k \in 1 .. Len(q.names) :
          /\ AsFirst(q, q.names[k])
          /\ k > 1 => layers[q.names[k]].cookie = None
          /\ Len(q.names) > 1 => ~layers[q.names[k]].separate
    /\ \A j, k \in 1 .. Len(q.names) : j < k => q.names[j] < q.names[k]

\* Every request is right, ...
AllFitting == \A r \in 1 .. Len(reqs) : Fitting(reqs[r])

\* ... no layer is named in two, ...
NamedOnce ==
    \A r, s \in 1 .. Len(reqs) :
        \A j \in 1 .. Len(reqs[r].names), k \in 1 .. Len(reqs[s].names) :
            reqs[r].names[j] = reqs[s].names[k] => r = s

\* ... and none is named before the loop was there.
NamedBefore ==
    pc = "prepare" =>
        \A r \in 1 .. Len(reqs) : \A k \in 1 .. Len(reqs[r].names) :
            reqs[r].names[k] < i

Named(l) ==
    \E r \in 1 .. Len(reqs) : \E k \in 1 .. Len(reqs[r].names) : reqs[r].names[k] = l

\* The layers that the loop has passed and that need a request are named.
AllNamed ==
    pc # "failed" =>
        \A l \in Places :
            Remote(l) /\ Wanted(l) /\ (pc = "prepare" => l < i) => Named(l)

\* The last request q is the one that the remembered parameters are of.
Linked(q) ==
    /\ q.kind = "WMS"
    /\ q.names = last.names
    /\ layers[q.id].server = last.server
    /\ layers[q.id].essential = last.essential
    /\ \A k \in 1 .. Len(q.names) : ~layers[q.names[k]].separate

\* Parameters that are remembered from a WMS layer are those of the last
\* request: this is what makes merging by them right, and what a WMS layer
\* outside of the view after a WFS layer would break.
Remembered ==
    pc = "prepare" =>
        /\ lastconnectiontype = "SHAPEFILE" => last.server = None
        /\ lastconnectiontype = "WFS" =>
              \E l \in Places : l < i /\ layers[l].type = "WFS" /\ layers[l].visible
        /\ lastconnectiontype = "WMS" /\ last.server # None =>
              Len(reqs) > 0 /\ Linked(reqs[Len(reqs)])

\* A WFS layer has no features only when its server said so.
EmptyKnown ==
    /\ pc \in {"prepare", "start", "download"} => \A l \in Places : wfsstatus[l] = "none"
    /\ \A l \in Places : wfsstatus[l] = "empty" =>
          \E r \in 1 .. Len(reqs) : reqs[r].id = l /\ reqs[r].status = "empty"

\* The inductive invariant of the requests.
RequestsInv ==
    /\ Typed
    /\ AllFitting
    /\ NamedOnce
    /\ NamedBefore
    /\ AllNamed
    /\ Remembered
    /\ EmptyKnown

-----------------------------------------------------------------------------
\* Where the drawing is, on the scale of Turn.
Now ==
    CASE pc = "draw" -> i
      [] pc = "labels" -> Len(layers) + 1
      [] pc = "post" -> Len(layers) + 1 + i
      [] pc = "done" -> 2 * Len(layers) + 2
      [] OTHER -> 0

\* Layer o, or the labels as 0, put l into the image.
Paints(o, l) ==
    \/ o = 0 /\ l = 0
    \/ /\ o \in Places
       /\ \/ layers[o].type # "WMS" /\ l = o
          \/ /\ layers[o].type = "WMS"
             /\ \E r \in 1 .. Len(reqs) :
                   /\ reqs[r].id = o
                   /\ \E k \in 1 .. Len(reqs[r].names) : reqs[r].names[k] = l

\* What is in the image was painted by something whose turn is over.
AllPainted ==
    /\ pc \in {"prepare", "start", "download"} => image = <<>>
    /\ \A k \in 1 .. Len(image) : \E o \in 0 .. Len(layers) :
          Paints(o, image[k]) /\ (pc # "failed" => Turn(o) < Now)

PaintedOnce == \A j, k \in 1 .. Len(image) : image[j] = image[k] => j = k

\* Everything of request r is in the image, or the map may do without it.
Served(r) ==
    \/ \A k \in 1 .. Len(reqs[r].names) : Painted(reqs[r].names[k])
    \/ Refused(r) /\ ~layers[reqs[r].id].essential

\* The drawing of layer o was right.
Handled(o) ==
    /\ layers[o].type = "WMS" =>
          \A r \in 1 .. Len(reqs) : reqs[r].id = o => Served(r)
    /\ layers[o].type = "WFS" =>
          \/ Painted(o)
          \/ \E r \in 1 .. Len(reqs) : reqs[r].id = o /\ reqs[r].status = "empty"
    /\ layers[o].type = "LOCAL" => Painted(o)

\* Every visible layer whose turn is over was drawn as it should be.
AllHandled ==
    pc # "failed" =>
        \A o \in Places : layers[o].visible /\ Turn(o) < Now => Handled(o)

\* Between the loops the index is at the first layer.
FromTheTop == pc \in {"start", "download", "labels", "done"} => i = 1

\* The inductive invariant of the drawing.
ImageInv ==
    /\ FromTheTop
    /\ AllPainted
    /\ PaintedOnce
    /\ PaintedInTurn
    /\ AllHandled

-----------------------------------------------------------------------------
(* The types.                                                              *)

\* A map is a sequence of layers, of which only WMS layers are outside,
\* separate or essential.
LEMMA LayersTyped ==
    ASSUME layers \in Maps
    PROVE  /\ layers \in Seq(Layers)
           /\ Len(layers) \in Nat
           /\ Places = DOMAIN layers
           /\ \A l \in Places : layers[l] \in Layers /\ PlainUnlessWMS(layers[l])
<1>1. layers \in Seq(Layers)
  BY RemoteAssumption
<1>2. Len(layers) \in Nat /\ Places = DOMAIN layers
  BY <1>1 DEF Places
<1>3. \A l \in Places : layers[l] \in Layers
  BY <1>1 DEF Places
<1>4. \A l \in Places : PlainUnlessWMS(layers[l])
  BY <1>2, RemoteAssumption
<1> QED
  BY <1>1, <1>2, <1>3, <1>4

\* The request made for a layer is one.
LEMMA RequestTyped ==
    ASSUME layers \in Maps, i \in Places, NEW kind \in {"WMS", "WFS"}
    PROVE  /\ Request(kind) \in Requests
           /\ Request(kind).id = i
           /\ Request(kind).kind = kind
           /\ Request(kind).names \in Seq(Nat)
           /\ Len(Request(kind).names) = 1
           /\ Request(kind).names[1] = i
           /\ Request(kind).cookie = layers[i].cookie
<1>1. layers[i] \in Layers /\ i \in Nat
  BY LayersTyped DEF Places
<1>2. <<i>> \in Seq(Nat) /\ Len(<<i>>) = 1 /\ <<i>>[1] = i
  BY <1>1
<1> QED
  BY <1>1, <1>2 DEF Request, Requests, Layers, Statuses

\* A request with another status is one.
LEMMA StatusSet ==
    ASSUME NEW q \in Requests, NEW s \in Statuses
    PROVE  LET e == [q EXCEPT !.status = s] IN
           /\ e \in Requests
           /\ e.id = q.id /\ e.kind = q.kind /\ e.names = q.names /\ e.cookie = q.cookie
           /\ e.status = s
  BY DEF Requests

\* A request that another layer is merged into, field by field.
LEMMA RequestMerged ==
    ASSUME NEW q \in Requests, NEW nm, NEW t
    PROVE  [[[q EXCEPT !.kind = "WMS"] EXCEPT !.names = nm] EXCEPT !.timeout = t]
           = [id |-> q.id, kind |-> "WMS", names |-> nm, cookie |-> q.cookie,
              timeout |-> t, status |-> q.status]
<1>1. q = [id |-> q.id, kind |-> q.kind, names |-> q.names, cookie |-> q.cookie,
           timeout |-> q.timeout, status |-> q.status]
  BY DEF Requests
<1>2. PICK e1 : e1 = [q EXCEPT !.kind = "WMS"]
  OBVIOUS
<1>3. e1 = [id |-> q.id, kind |-> "WMS", names |-> q.names, cookie |-> q.cookie,
            timeout |-> q.timeout, status |-> q.status]
  BY <1>1, <1>2 DEF Requests
<1>4. PICK e2 : e2 = [e1 EXCEPT !.names = nm]
  OBVIOUS
<1>5. e2 = [id |-> q.id, kind |-> "WMS", names |-> nm, cookie |-> q.cookie,
            timeout |-> q.timeout, status |-> q.status]
  BY <1>3, <1>4
<1>6. [e2 EXCEPT !.timeout = t]
      = [id |-> q.id, kind |-> "WMS", names |-> nm, cookie |-> q.cookie,
         timeout |-> t, status |-> q.status]
  BY <1>5
<1> QED
  BY <1>2, <1>4, <1>6

\* What PrepareMerge does to the last request.
LEMMA MergeEffect ==
    ASSUME Typed, PrepareMerge
    PROVE  /\ Len(reqs) \in Nat /\ Len(reqs) > 0
           /\ reqs' \in Seq(Requests)
           /\ Len(reqs') = Len(reqs)
           /\ \A r \in 1 .. Len(reqs) : r # Len(reqs) => reqs'[r] = reqs[r]
           /\ reqs'[Len(reqs)].id = reqs[Len(reqs)].id
           /\ reqs'[Len(reqs)].cookie = reqs[Len(reqs)].cookie
           /\ reqs'[Len(reqs)].status = reqs[Len(reqs)].status
           /\ reqs'[Len(reqs)].kind = "WMS"
           /\ reqs'[Len(reqs)].names = Append(last.names, i)
<1> DEFINE n == Len(reqs)
<1> DEFINE nm == Append(last.names, i)
<1> DEFINE t == MaxOf(reqs[n].timeout, layers[i].timeout)
<1> DEFINE q == [[[reqs[n] EXCEPT !.kind = "WMS"] EXCEPT !.names = nm] EXCEPT !.timeout = t]
<1>1. reqs \in Seq(Requests) /\ n \in Nat /\ n > 0 /\ n \in 1 .. n /\ reqs[n] \in Requests
  BY DEF Typed, PrepareMerge
<1>2. i \in Places /\ i \in Nat /\ layers[i] \in Layers
  BY LayersTyped DEF Typed, PrepareMerge, Preparing, Places
<1>3. last.names \in Seq(Nat)
  BY DEF Typed
<1>4. nm \in Seq(Nat)
  BY <1>2, <1>3
<1>5. t \in Nat
  BY <1>1, <1>2 DEF Requests, Layers, MaxOf
<1>6. q = [id |-> reqs[n].id, kind |-> "WMS", names |-> nm, cookie |-> reqs[n].cookie,
           timeout |-> t, status |-> reqs[n].status]
  <2> HIDE DEF n, nm, t
  <2> QED BY <1>1, RequestMerged
<1>7. q \in Requests
  <2> HIDE DEF n, nm, t, q
  <2> QED BY <1>1, <1>4, <1>5, <1>6 DEF Requests
<1>8. reqs' = [reqs EXCEPT ![n] = q]
  <2>1. reqs' = [reqs EXCEPT ![n].kind = "WMS", ![n].names = nm,
                             ![n].timeout = MaxOf(@, layers[i].timeout)]
    BY DEF PrepareMerge, NamesWith
  <2> QED
    BY <1>1, <2>1 DEF Requests
<1> HIDE DEF n, nm, t, q
<1>9. reqs' \in Seq(Requests) /\ Len(reqs') = Len(reqs) /\ reqs'[n] = q
      /\ \A r \in 1 .. n : r # n => reqs'[r] = reqs[r]
  BY <1>1, <1>7, <1>8 DEF n
<1> QED
  BY <1>1, <1>6, <1>9 DEF n, nm

\* What the preparation of a request of its own does.
LEMMA AppendEffect ==
    ASSUME Typed, NEW kind \in {"WMS", "WFS"}, i \in Places,
           reqs' = Append(reqs, Request(kind))
    PROVE  /\ Len(reqs) \in Nat
           /\ reqs' \in Seq(Requests)
           /\ Len(reqs') = Len(reqs) + 1
           /\ \A r \in 1 .. Len(reqs) : reqs'[r] = reqs[r]
           /\ reqs'[Len(reqs) + 1] = Request(kind)
<1>1. Request(kind) \in Requests
  BY RequestTyped DEF Typed
<1>2. reqs \in Seq(Requests)
  BY DEF Typed
<1> QED
  BY <1>1, <1>2

\* Start and the end of a transfer change nothing of the requests but their
\* status, and the other steps that are not of the preparation nothing at all.
SameAsked ==
    /\ layers' = layers
    /\ reqs' \in Seq(Requests)
    /\ Len(reqs') = Len(reqs)
    /\ \A r \in 1 .. Len(reqs) :
          /\ reqs'[r].id = reqs[r].id
          /\ reqs'[r].kind = reqs[r].kind
          /\ reqs'[r].names = reqs[r].names
          /\ reqs'[r].cookie = reqs[r].cookie

\* A request that asks for the same is as right as before.
LEMMA FittingFrame ==
    ASSUME NEW r, layers' = layers, Fitting(reqs[r]),
           reqs'[r].id = reqs[r].id, reqs'[r].kind = reqs[r].kind,
           reqs'[r].names = reqs[r].names, reqs'[r].cookie = reqs[r].cookie
    PROVE  Fitting(reqs[r])'
<1>1. \A l : AsFirst(reqs[r], l) => AsFirst(reqs[r], l)'
  BY DEF AsFirst, Places, Wanted
<1> QED
  BY <1>1 DEF Fitting

\* The frame of what the invariant says of the requests.
LEMMA AskedFrame ==
    ASSUME Typed, SameAsked
    PROVE  /\ AllFitting => AllFitting'
           /\ NamedOnce => NamedOnce'
           /\ \A l : Named(l)' <=> Named(l)
<1>1. AllFitting => AllFitting'
  <2>1. SUFFICES ASSUME AllFitting, NEW r \in 1 .. Len(reqs)
                 PROVE  Fitting(reqs[r])'
    BY DEF AllFitting, SameAsked
  <2>2. Fitting(reqs[r])
    BY <2>1 DEF AllFitting
  <2>3. /\ reqs'[r].id = reqs[r].id /\ reqs'[r].kind = reqs[r].kind
        /\ reqs'[r].names = reqs[r].names /\ reqs'[r].cookie = reqs[r].cookie
        /\ layers' = layers
    BY DEF SameAsked
  <2> QED
    BY <2>2, <2>3, FittingFrame
<1>2. NamedOnce => NamedOnce'
  <2> SUFFICES ASSUME NamedOnce,
                      NEW r \in 1 .. Len(reqs), NEW s \in 1 .. Len(reqs),
                      NEW j \in 1 .. Len(reqs'[r].names), NEW k \in 1 .. Len(reqs'[s].names),
                      reqs'[r].names[j] = reqs'[s].names[k]
               PROVE  r = s
    BY DEF SameAsked, NamedOnce
  <2>1. reqs'[r].names = reqs[r].names /\ reqs'[s].names = reqs[s].names
    BY DEF SameAsked
  <2> QED
    BY <2>1 DEF NamedOnce
<1>3. \A l : Named(l)' <=> Named(l)
  <2>1. /\ Len(reqs') = Len(reqs)
        /\ \A r \in 1 .. Len(reqs) : reqs'[r].names = reqs[r].names
    BY DEF SameAsked
  <2> QED
    BY <2>1 DEF Named
<1> QED
  BY <1>1, <1>2, <1>3

\* Start sets the status of all requests.
LEMMA StartEffect ==
    ASSUME Typed, Start
    PROVE  SameAsked
<1> DEFINE f(r) == [reqs[r] EXCEPT !.status = "running"]
<1>1. reqs \in Seq(Requests) /\ Len(reqs) \in Nat
  BY DEF Typed
<1>2. \A r \in 1 .. Len(reqs) :
         /\ f(r) \in Requests
         /\ f(r).id = reqs[r].id /\ f(r).kind = reqs[r].kind
         /\ f(r).names = reqs[r].names /\ f(r).cookie = reqs[r].cookie
  <2> TAKE r \in 1 .. Len(reqs)
  <2>1. reqs[r] \in Requests /\ "running" \in Statuses
    BY <1>1 DEF Statuses
  <2> QED BY <2>1, StatusSet
<1>3. reqs' = [r \in 1 .. Len(reqs) |-> f(r)]
  BY DEF Start
<1> HIDE DEF f
<1>4. reqs' \in Seq(Requests) /\ Len(reqs') = Len(reqs)
      /\ \A r \in 1 .. Len(reqs) : reqs'[r] = f(r)
  BY <1>1, <1>2, <1>3, IsASeq
<1> QED
  BY <1>2, <1>4 DEF SameAsked, Start

\* The end of a transfer sets the status of its request.
LEMMA EndedEffect ==
    ASSUME Typed, NEW r \in 1 .. Len(reqs), NEW s \in Statuses, Ended(r, s)
    PROVE  SameAsked
<1> DEFINE q == [reqs[r] EXCEPT !.status = s]
<1>1. reqs \in Seq(Requests) /\ Len(reqs) \in Nat /\ reqs[r] \in Requests
  BY DEF Typed
<1>2. /\ q \in Requests
      /\ q.id = reqs[r].id /\ q.kind = reqs[r].kind
      /\ q.names = reqs[r].names /\ q.cookie = reqs[r].cookie
  BY <1>1 DEF Requests
<1>3. reqs' = [reqs EXCEPT ![r] = q]
  BY <1>1 DEF Ended
<1> HIDE DEF q
<1>4. reqs' \in Seq(Requests) /\ Len(reqs') = Len(reqs) /\ reqs'[r] = q
      /\ \A x \in 1 .. Len(reqs) : x # r => reqs'[x] = reqs[x]
  BY <1>1, <1>2, <1>3
<1> QED
  BY <1>2, <1>4 DEF SameAsked, Ended

\* The initial state has the types.
LEMMA TypedInit ==
    ASSUME Init
    PROVE  Typed
<1>1. layers \in Maps /\ Len(layers) \in Nat
  BY LayersTyped DEF Init
<1>2. i \in 1 .. Len(layers) + 1
  BY <1>1 DEF Init
<1>3. last \in [server : Servers \cup {None}, essential : BOOLEAN, names : Seq(Nat)]
  <2>1. <<>> \in Seq(Nat)
    OBVIOUS
  <2> QED BY <2>1 DEF Init, NoParams
<1>4. reqs \in Seq(Requests) /\ image \in Seq(Nat)
  BY DEF Init
<1>5. wfsstatus \in [Places -> Statuses]
  BY DEF Init, Statuses
<1> QED
  BY <1>1, <1>2, <1>3, <1>4, <1>5 DEF Typed, Init

\* What is remembered has its type.
LEMMA RememberTyped ==
    ASSUME NEW lp \in Layers, NEW nm \in Seq(Nat)
    PROVE  Remember(lp, nm) \in
               [server : Servers \cup {None}, essential : BOOLEAN, names : Seq(Nat)]
<1>1. <<>> \in Seq(Nat)
  OBVIOUS
<1> QED
  BY <1>1 DEF Remember, NoParams, Layers

\* The statuses of an answer.
LEMMA AnswerStatus ==
    ASSUME NEW r \in 1 .. Len(reqs), Answered(r)
    PROVE  \E s \in Statuses : s # "running" /\ s # "none" /\ Ended(r, s)
<1>1. PICK s \in {"ok", "exception", "failed"} \cup
                 (IF reqs[r].kind = "WFS" THEN {"empty"} ELSE {}) : Ended(r, s)
  BY DEF Answered
<1>2. s \in {"ok", "exception", "failed", "empty"}
  BY <1>1
<1> QED
  BY <1>1, <1>2 DEF Statuses

\* All steps but those that prepare a request leave what is asked for.
LEMMA QuietAsked ==
    ASSUME Typed, [Next]_vars, ~PrepareMerge, ~PrepareWMS, ~PrepareWFS
    PROVE  SameAsked
<1>1. reqs \in Seq(Requests)
  BY DEF Typed
<1>2. layers' = layers /\ reqs' = reqs => SameAsked
  BY <1>1 DEF SameAsked
<1>3. CASE Start
  BY <1>3, StartEffect
<1>4. CASE \E r \in 1 .. Len(reqs) : TimesOut(r)
  BY <1>4, EndedEffect DEF TimesOut, Statuses
<1>5. CASE \E r \in 1 .. Len(reqs) : Answered(r)
  BY <1>5, EndedEffect, AnswerStatus
<1>6. CASE PrepareSkip \/ PrepareOutside \/ PrepareFails \/ PrepareEnds
           \/ StartFails \/ DownloadEnds
  BY <1>2, <1>6 DEF PrepareSkip, PrepareOutside, PrepareFails, PrepareEnds, StartFails,
                    DownloadEnds
<1>7. CASE DrawSkip \/ DrawWMS \/ DrawWMSSkip \/ DrawWMSEssential \/ DrawWFS
           \/ DrawWFSFails \/ DrawLocal \/ DrawFails \/ DrawLabelCache \/ LoopEnds
  BY <1>2, <1>7 DEF DrawSkip, DrawWMS, DrawWMSSkip, DrawWMSEssential, DrawWFS, DrawWFSFails,
                    DrawLocal, DrawFails, DrawLabelCache, LoopEnds
<1>8. CASE Finished \/ UNCHANGED vars
  BY <1>2, <1>8 DEF Finished, vars
<1> QED
  BY <1>3, <1>4, <1>5, <1>6, <1>7, <1>8 DEF Next, Step

\* Every step keeps the types.
LEMMA TypedStep ==
    ASSUME Typed, [Next]_vars
    PROVE  Typed'
<1>1. /\ layers \in Maps /\ layers \in Seq(Layers) /\ Len(layers) \in Nat
      /\ \A l \in Places : layers[l] \in Layers
      /\ i \in 1 .. Len(layers) + 1 /\ i \in Nat
      /\ reqs \in Seq(Requests) /\ Len(reqs) \in Nat
      /\ wfsstatus \in [Places -> Statuses]
      /\ image \in Seq(Nat)
      /\ last \in [server : Servers \cup {None}, essential : BOOLEAN, names : Seq(Nat)]
  <2>1. i \in 1 .. Len(layers) + 1
    BY DEF Typed
  <2> QED BY <2>1, LayersTyped DEF Typed
<1>2. layers' = layers
  BY DEF Next, Step, vars, PrepareSkip, PrepareOutside, PrepareMerge, PrepareWMS, PrepareWFS,
         PrepareFails, PrepareEnds, Start, StartFails, DownloadEnds, TimesOut, Answered, Ended,
         DrawSkip, DrawWMS, DrawWMSSkip, DrawWMSEssential, DrawWFS, DrawWFSFails, DrawLocal,
         DrawFails, DrawLabelCache, LoopEnds, Finished
<1>3. i' \in 1 .. Len(layers) + 1
  <2>1. CASE PrepareSkip \/ PrepareOutside \/ PrepareMerge \/ PrepareWMS \/ PrepareWFS
    <3>1. i <= Len(layers) /\ i' = i + 1
      BY <2>1 DEF PrepareSkip, PrepareOutside, PrepareMerge, PrepareWMS, PrepareWFS, Preparing
    <3> QED BY <1>1, <3>1
  <2>2. CASE DrawSkip \/ DrawWMS \/ DrawWMSSkip \/ DrawWFS \/ DrawLocal
    <3>1. i <= Len(layers) /\ i' = i + 1
      BY <2>2 DEF DrawSkip, DrawWMS, DrawWMSSkip, DrawWFS, DrawLocal, Drawing
    <3> QED BY <1>1, <3>1
  <2>3. CASE ~(PrepareSkip \/ PrepareOutside \/ PrepareMerge \/ PrepareWMS \/ PrepareWFS
               \/ DrawSkip \/ DrawWMS \/ DrawWMSSkip \/ DrawWFS \/ DrawLocal)
    <3>1. i' = i \/ i' = 1
      BY <2>3 DEF Next, Step, vars, PrepareFails, PrepareEnds, Start, StartFails, DownloadEnds,
             TimesOut, Answered, Ended, DrawWMSEssential, DrawWFSFails, DrawFails,
             DrawLabelCache, LoopEnds, Finished
    <3> QED BY <1>1, <3>1
  <2> QED BY <2>1, <2>2, <2>3
<1>4. /\ pc' \in {"prepare", "start", "download", "draw", "labels", "post", "done", "failed"}
      /\ lastconnectiontype' \in {"SHAPEFILE", "WMS", "WFS"}
  BY DEF Typed, Next, Step, vars, PrepareSkip, PrepareOutside, PrepareMerge, PrepareWMS,
         PrepareWFS, PrepareFails, PrepareEnds, Start, StartFails, DownloadEnds, TimesOut,
         Answered, Ended, DrawSkip, DrawWMS, DrawWMSSkip, DrawWMSEssential, DrawWFS,
         DrawWFSFails, DrawLocal, DrawFails, DrawLabelCache, LoopEnds, Finished
<1>5. last' \in [server : Servers \cup {None}, essential : BOOLEAN, names : Seq(Nat)]
  <2>1. CASE PrepareMerge
    <3>1. i \in Places
      BY <1>1, <2>1 DEF PrepareMerge, Preparing, Places
    <3>2. last' = Remember(layers[i], Append(last.names, i))
      BY <2>1 DEF PrepareMerge, NamesWith
    <3>3. layers[i] \in Layers /\ Append(last.names, i) \in Seq(Nat)
      BY <1>1, <3>1
    <3> QED
      BY <3>2, <3>3, RememberTyped
  <2>2. CASE PrepareWMS
    <3>1. i \in Places
      BY <1>1, <2>2 DEF PrepareWMS, Preparing, Places
    <3>2. last' = Remember(layers[i], <<i>>)
      BY <2>2 DEF PrepareWMS
    <3>3. layers[i] \in Layers /\ <<i>> \in Seq(Nat)
      BY <1>1, <3>1
    <3> QED
      BY <3>2, <3>3, RememberTyped
  <2>3. CASE PrepareEnds
    <3>1. <<>> \in Seq(Nat)
      OBVIOUS
    <3> QED BY <2>3, <3>1 DEF PrepareEnds, NoParams
  <2>4. CASE ~(PrepareMerge \/ PrepareWMS \/ PrepareEnds)
    <3>1. last' = last
      BY <2>4 DEF Next, Step, vars, PrepareSkip, PrepareOutside, PrepareWFS, PrepareFails,
             Start, StartFails, DownloadEnds, TimesOut, Answered, Ended, DrawSkip, DrawWMS,
             DrawWMSSkip, DrawWMSEssential, DrawWFS, DrawWFSFails, DrawLocal, DrawFails,
             DrawLabelCache, LoopEnds, Finished
    <3> QED BY <1>1, <3>1
  <2> QED BY <2>1, <2>2, <2>3, <2>4
<1>6. reqs' \in Seq(Requests)
  <2>1. CASE PrepareMerge
    BY <2>1, MergeEffect
  <2>2. CASE PrepareWMS
    BY <1>1, <2>2, AppendEffect DEF PrepareWMS, Preparing, Places
  <2>3. CASE PrepareWFS
    BY <1>1, <2>3, AppendEffect DEF PrepareWFS, Preparing, Places
  <2>4. CASE ~(PrepareMerge \/ PrepareWMS \/ PrepareWFS)
    BY <2>4, QuietAsked DEF SameAsked
  <2> QED BY <2>1, <2>2, <2>3, <2>4
<1>7. wfsstatus' \in [Places -> Statuses]
  <2>1. CASE PrepareWFS
    BY <1>1, <2>1 DEF PrepareWFS, Statuses
  <2>2. CASE DownloadEnds
    <3>1. \A l \in Places : StatusFor(l) \in Statuses
      <4> TAKE l \in Places
      <4>1. CASE \E r \in 1 .. Len(reqs) : reqs[r].id = l
        <5>1. PICK r \in 1 .. Len(reqs) : r = CHOOSE x \in 1 .. Len(reqs) : reqs[x].id = l
          BY <4>1
        <5>2. reqs[r].status \in Statuses
          <6>1. reqs[r] \in Requests
            BY <1>1
          <6> QED BY <6>1 DEF Requests
        <5> QED BY <4>1, <5>1, <5>2 DEF StatusFor
      <4>2. CASE ~\E r \in 1 .. Len(reqs) : reqs[r].id = l
        BY <4>2 DEF StatusFor, Statuses
      <4> QED BY <4>1, <4>2
    <3> QED
      BY <1>1, <2>2, <3>1 DEF DownloadEnds
  <2>3. CASE ~(PrepareWFS \/ DownloadEnds)
    <3>1. wfsstatus' = wfsstatus
      BY <2>3 DEF Next, Step, vars, PrepareSkip, PrepareOutside, PrepareMerge, PrepareWMS,
             PrepareFails, PrepareEnds, Start, StartFails, TimesOut, Answered, Ended, DrawSkip,
             DrawWMS, DrawWMSSkip, DrawWMSEssential, DrawWFS, DrawWFSFails, DrawLocal,
             DrawFails, DrawLabelCache, LoopEnds, Finished
    <3> QED BY <1>1, <3>1
  <2> QED BY <2>1, <2>2, <2>3
<1>8. image' \in Seq(Nat)
  <2>1. CASE DrawWMS
    <3>1. PICK r \in 1 .. Len(reqs) : image' = image \o reqs[r].names
      BY <2>1 DEF DrawWMS, OwnRequests
    <3>2. reqs[r].names \in Seq(Nat)
      <4>1. reqs[r] \in Requests
        BY <1>1
      <4> QED BY <4>1 DEF Requests
    <3> QED BY <1>1, <3>1, <3>2, ConcatProperties
  <2>2. CASE DrawWFS \/ DrawLocal \/ DrawLabelCache
    <3>1. image' = image \/ image' = Append(image, i) \/ image' = Append(image, 0)
      BY <2>2 DEF DrawWFS, DrawLocal, DrawLabelCache
    <3>2. Append(image, i) \in Seq(Nat) /\ Append(image, 0) \in Seq(Nat)
      BY <1>1
    <3> QED BY <1>1, <3>1, <3>2
  <2>3. CASE ~(DrawWMS \/ DrawWFS \/ DrawLocal \/ DrawLabelCache)
    <3>1. image' = image
      BY <2>3 DEF Next, Step, vars, PrepareSkip, PrepareOutside, PrepareMerge, PrepareWMS,
             PrepareWFS, PrepareFails, PrepareEnds, Start, StartFails, DownloadEnds, TimesOut,
             Answered, Ended, DrawSkip, DrawWMSSkip, DrawWMSEssential, DrawWFSFails, DrawFails,
             LoopEnds, Finished
    <3> QED BY <1>1, <3>1
  <2> QED BY <2>1, <2>2, <2>3
<1> QED
  BY <1>1, <1>2, <1>3, <1>4, <1>5, <1>6, <1>7, <1>8 DEF Typed, Places

-----------------------------------------------------------------------------
(* The requests.                                                           *)

\* A layer that gets a request of its own: what the invariant says of the
\* requests goes on to hold.
LEMMA OwnRequestStep ==
    ASSUME RequestsInv, NEW kind \in {"WMS", "WFS"}, Preparing(kind), ~layers[i].outside,
           reqs' = Append(reqs, Request(kind)), layers' = layers, i' = i + 1, pc' = pc
    PROVE  AllFitting' /\ NamedOnce' /\ NamedBefore' /\ AllNamed'
<1>1. /\ i \in Places /\ i \in Nat /\ Len(layers) \in Nat
      /\ pc = "prepare" /\ layers[i].visible /\ layers[i].type = kind
      /\ layers \in Maps /\ Typed
  BY LayersTyped DEF RequestsInv, Typed, Preparing, Places
<1>0. PICK n : n = Len(reqs)
  OBVIOUS
<1> DEFINE q == Request(kind)
<1>2. /\ n \in Nat
      /\ Len(reqs') = n + 1
      /\ \A r \in 1 .. n : reqs'[r] = reqs[r]
      /\ reqs'[n + 1] = q
  BY <1>0, <1>1, AppendEffect
<1>3. /\ q.id = i /\ q.kind = kind /\ Len(q.names) = 1 /\ q.names[1] = i
      /\ q.cookie = layers[i].cookie
  BY <1>1, RequestTyped
<1> HIDE DEF q
<1>4. \A r \in 1 .. n + 1 : r \in 1 .. n \/ r = n + 1
  BY <1>2
<1>5. \A r \in 1 .. n : \A k \in 1 .. Len(reqs[r].names) : reqs[r].names[k] < i
  BY <1>0, <1>1 DEF RequestsInv, NamedBefore
<1>6. \A r \in 1 .. n : \A k \in 1 .. Len(reqs[r].names) : reqs[r].names[k] \in Nat
  <2> TAKE r \in 1 .. n
  <2>1. Fitting(reqs[r])
    BY <1>0 DEF RequestsInv, AllFitting
  <2>2. \A k \in 1 .. Len(reqs[r].names) : reqs[r].names[k] \in Places
    BY <2>1 DEF Fitting, AsFirst
  <2> QED BY <2>2 DEF Places
<1>a. \A r \in 1 .. n : \A k \in 1 .. Len(reqs[r].names) : reqs[r].names[k] # i
  BY <1>1, <1>5, <1>6
<1>7. AllFitting'
  <2>1. \A r \in 1 .. n : Fitting(reqs[r])'
    <3> TAKE r \in 1 .. n
    <3>1. Fitting(reqs[r])
      BY <1>0 DEF RequestsInv, AllFitting
    <3>2. reqs'[r] = reqs[r] /\ layers' = layers
      BY <1>2
    <3> QED
      BY <3>1, <3>2, FittingFrame
  <2>2. Fitting(reqs[n + 1])'
    BY <1>1, <1>2, <1>3 DEF Fitting, AsFirst, Places, Wanted
  <2> QED
    BY <1>2, <1>4, <2>1, <2>2 DEF AllFitting
<1>8. NamedOnce'
  <2> SUFFICES ASSUME NEW r \in 1 .. n + 1, NEW s \in 1 .. n + 1,
                      NEW j \in 1 .. Len(reqs'[r].names), NEW k \in 1 .. Len(reqs'[s].names),
                      reqs'[r].names[j] = reqs'[s].names[k]
               PROVE  r = s
    BY <1>2 DEF NamedOnce
  <2>1. CASE r \in 1 .. n /\ s \in 1 .. n
    BY <1>0, <1>2, <2>1 DEF RequestsInv, NamedOnce
  <2>2. CASE r \in 1 .. n /\ s = n + 1
    <3>1. reqs'[r] = reqs[r] /\ reqs'[s].names[k] = i
      BY <1>2, <1>3, <2>2
    <3>2. reqs[r].names[j] # i
      BY <1>a, <2>2, <3>1
    <3> QED BY <3>1, <3>2
  <2>3. CASE r = n + 1 /\ s \in 1 .. n
    <3>1. reqs'[s] = reqs[s] /\ reqs'[r].names[j] = i
      BY <1>2, <1>3, <2>3
    <3>2. reqs[s].names[k] # i
      BY <1>a, <2>3, <3>1
    <3> QED BY <3>1, <3>2
  <2> QED
    BY <1>4, <2>1, <2>2, <2>3
<1>9. NamedBefore'
  <2> SUFFICES ASSUME NEW r \in 1 .. n + 1, NEW k \in 1 .. Len(reqs'[r].names)
               PROVE  reqs'[r].names[k] < i + 1
    BY <1>2 DEF NamedBefore
  <2>1. CASE r \in 1 .. n
    BY <1>1, <1>2, <1>5, <1>6, <2>1
  <2>2. CASE r = n + 1
    BY <1>1, <1>2, <1>3, <2>2
  <2> QED
    BY <1>4, <2>1, <2>2
<1>10. AllNamed'
  <2> SUFFICES ASSUME NEW l \in Places, Remote(l), Wanted(l), l < i + 1
               PROVE  Named(l)'
    BY <1>1 DEF AllNamed, Places, Remote, Wanted
  <2>1. CASE l < i
    <3>1. PICK r \in 1 .. n : \E k \in 1 .. Len(reqs[r].names) : reqs[r].names[k] = l
      BY <1>0, <1>1, <2>1 DEF RequestsInv, AllNamed, Named
    <3>2. r \in 1 .. n + 1
      BY <1>2
    <3> QED
      BY <1>2, <3>1, <3>2 DEF Named
  <2>2. CASE l = i
    <3>1. n + 1 \in 1 .. n + 1 /\ 1 \in 1 .. Len(q.names)
      BY <1>2, <1>3
    <3> QED
      BY <1>2, <1>3, <2>2, <3>1 DEF Named
  <2> QED
    BY <1>1, <2>1, <2>2 DEF Places
<1> QED
  BY <1>7, <1>8, <1>9, <1>10

\* A layer that is merged into the last request: what the invariant says of
\* the requests goes on to hold, because what is remembered is of that request.
LEMMA MergeStep ==
    ASSUME RequestsInv, PrepareMerge
    PROVE  AllFitting' /\ NamedOnce' /\ NamedBefore' /\ AllNamed' /\ Remembered'
<1>0. PICK n : n = Len(reqs)
  OBVIOUS
<1>1. /\ i \in Places /\ i \in Nat /\ Len(layers) \in Nat
      /\ pc = "prepare" /\ layers[i].visible /\ layers[i].type = "WMS"
      /\ layers \in Maps /\ Typed /\ layers[i] \in Layers
      /\ ~layers[i].outside /\ OkToMerge(layers[i])
      /\ layers' = layers /\ i' = i + 1 /\ pc' = pc /\ lastconnectiontype' = "WMS"
      /\ last' = Remember(layers[i], Append(last.names, i))
  BY LayersTyped DEF RequestsInv, Typed, PrepareMerge, Preparing, Places, NamesWith
<1>2. /\ ~layers[i].separate /\ lastconnectiontype = "WMS" /\ layers[i].cookie = None
      /\ last.server = layers[i].server /\ last.essential = layers[i].essential
      /\ last.server # None
  BY <1>1, RemoteAssumption DEF OkToMerge, SameParams, Layers
<1>3. Linked(reqs[n])
  BY <1>0, <1>1, <1>2 DEF RequestsInv, Remembered
<1>4. /\ n \in Nat /\ n > 0
      /\ Len(reqs') = n
      /\ \A r \in 1 .. n : r # n => reqs'[r] = reqs[r]
      /\ reqs'[n].id = reqs[n].id
      /\ reqs'[n].cookie = reqs[n].cookie
      /\ reqs'[n].kind = "WMS"
      /\ reqs'[n].names = Append(last.names, i)
  BY <1>0, <1>1, MergeEffect
<1>m. PICK m : m = Len(reqs[n].names)
  OBVIOUS
<1>5. n \in 1 .. n
  BY <1>4
<1>6. Fitting(reqs[n])
  BY <1>0, <1>5 DEF RequestsInv, AllFitting
<1>7. /\ m \in Nat /\ m > 0
      /\ Len(reqs'[n].names) = m + 1
      /\ \A k \in 1 .. m : reqs'[n].names[k] = reqs[n].names[k]
      /\ reqs'[n].names[m + 1] = i
  <2>1. reqs[n].names = last.names /\ last.names \in Seq(Nat)
    BY <1>1, <1>3 DEF Linked, Typed
  <2>2. m > 0
    BY <1>m, <1>6 DEF Fitting
  <2> QED
    BY <1>m, <1>1, <1>4, <2>1, <2>2
<1>8. \A k \in 1 .. m + 1 : k \in 1 .. m \/ k = m + 1
  BY <1>7
<1>9. \A r \in 1 .. n : \A k \in 1 .. Len(reqs[r].names) :
          reqs[r].names[k] < i /\ reqs[r].names[k] \in Nat
  <2>1. \A r \in 1 .. n : \A k \in 1 .. Len(reqs[r].names) : reqs[r].names[k] < i
    BY <1>0, <1>1 DEF RequestsInv, NamedBefore
  <2>2. \A r \in 1 .. n : \A k \in 1 .. Len(reqs[r].names) : reqs[r].names[k] \in Nat
    <3> TAKE r \in 1 .. n
    <3>1. Fitting(reqs[r])
      BY <1>0 DEF RequestsInv, AllFitting
    <3> QED BY <3>1 DEF Fitting, AsFirst, Places
  <2> QED BY <2>1, <2>2
<1>a. \A r \in 1 .. n : \A k \in 1 .. Len(reqs[r].names) : reqs[r].names[k] # i
  BY <1>1, <1>9
<1>10. /\ layers[i].server = layers[reqs[n].id].server
       /\ layers[i].essential = layers[reqs[n].id].essential
       /\ reqs[n].kind = "WMS"
       /\ \A k \in 1 .. m : ~layers[reqs[n].names[k]].separate
  BY <1>m, <1>2, <1>3 DEF Linked
<1>11. AllFitting'
  <2>1. \A r \in 1 .. n : r # n => Fitting(reqs[r])'
    <3> SUFFICES ASSUME NEW r \in 1 .. n, r # n
                 PROVE  Fitting(reqs[r])'
      OBVIOUS
    <3>1. Fitting(reqs[r])
      BY <1>0 DEF RequestsInv, AllFitting
    <3>2. reqs'[r] = reqs[r] /\ layers' = layers
      BY <1>1, <1>4
    <3> QED
      BY <3>1, <3>2, FittingFrame
  <2>2. Fitting(reqs[n])'
    <3>1. /\ reqs[n].id = reqs[n].names[1]
          /\ reqs[n].cookie = layers[reqs[n].id].cookie
          /\ \A k \in 1 .. m :
                /\ AsFirst(reqs[n], reqs[n].names[k])
                /\ k > 1 => layers[reqs[n].names[k]].cookie = None
          /\ \A j, k \in 1 .. m : j < k => reqs[n].names[j] < reqs[n].names[k]
      BY <1>m, <1>6 DEF Fitting
    <3>2. 1 \in 1 .. m
      BY <1>7
    <3>3. reqs'[n].id = reqs'[n].names[1] /\ reqs'[n].cookie = layers[reqs'[n].id].cookie
      BY <1>4, <1>7, <3>1, <3>2
    <3>4. \A k \in 1 .. m + 1 :
             /\ AsFirst(reqs[n], reqs'[n].names[k])
             /\ k > 1 => layers[reqs'[n].names[k]].cookie = None
             /\ ~layers[reqs'[n].names[k]].separate
      <4> TAKE k \in 1 .. m + 1
      <4>1. CASE k \in 1 .. m
        BY <1>7, <1>10, <3>1, <4>1
      <4>2. CASE k = m + 1
        BY <1>1, <1>2, <1>7, <1>10, <4>2 DEF AsFirst, Wanted
      <4> QED
        BY <1>8, <4>1, <4>2
    <3>5. \A j, k \in 1 .. m + 1 : j < k => reqs'[n].names[j] < reqs'[n].names[k]
      <4> SUFFICES ASSUME NEW j \in 1 .. m + 1, NEW k \in 1 .. m + 1, j < k
                   PROVE  reqs'[n].names[j] < reqs'[n].names[k]
        OBVIOUS
      <4>1. CASE k \in 1 .. m
        <5>1. j \in 1 .. m
          BY <1>7, <4>1
        <5> QED BY <1>7, <3>1, <4>1, <5>1
      <4>2. CASE k = m + 1
        <5>1. j \in 1 .. m
          BY <1>7, <4>2
        <5> QED BY <1>m, <1>5, <1>7, <1>9, <4>2, <5>1
      <4> QED BY <1>8, <4>1, <4>2
    <3>6. \A k \in 1 .. m + 1 : AsFirst(reqs[n], reqs[n].names[k])'
      <4>1. layers' = layers /\ reqs'[n].kind = reqs[n].kind /\ reqs'[n].id = reqs[n].id
        BY <1>1, <1>4, <1>10
      <4> QED
        BY <3>4, <4>1 DEF AsFirst, Places, Wanted
    <3>7. layers' = layers /\ Len(reqs'[n].names) = m + 1 /\ m + 1 > 0
          /\ reqs'[n].kind = "WMS"
      BY <1>1, <1>4, <1>7
    <3> QED
      BY <3>3, <3>4, <3>5, <3>6, <3>7 DEF Fitting
  <2> QED
    BY <1>4, <2>1, <2>2 DEF AllFitting
<1>12. NamedOnce'
  <2> SUFFICES ASSUME NEW r \in 1 .. n, NEW s \in 1 .. n,
                      NEW j \in 1 .. Len(reqs'[r].names), NEW k \in 1 .. Len(reqs'[s].names),
                      reqs'[r].names[j] = reqs'[s].names[k], r # s
               PROVE  FALSE
    BY <1>4 DEF NamedOnce
  <2>1. \A x, y \in 1 .. n :
           \A a \in 1 .. Len(reqs[x].names), b \in 1 .. Len(reqs[y].names) :
              reqs[x].names[a] = reqs[y].names[b] => x = y
    BY <1>0 DEF RequestsInv, NamedOnce
  <2>2. CASE r # n /\ s # n
    <3>1. reqs'[r] = reqs[r] /\ reqs'[s] = reqs[s]
      BY <1>4, <2>2
    <3> QED BY <2>1, <3>1
  <2>3. ASSUME NEW x \in 1 .. n, x # n, NEW a \in 1 .. Len(reqs[x].names),
               NEW b \in 1 .. m + 1
        PROVE  reqs'[n].names[b] # reqs[x].names[a]
    <3>1. CASE b \in 1 .. m
      <4>1. reqs'[n].names[b] = reqs[n].names[b] /\ b \in 1 .. Len(reqs[n].names)
        BY <1>m, <1>7, <3>1
      <4>2. reqs[n].names[b] = reqs[x].names[a] => n = x
        BY <1>5, <2>1, <4>1
      <4> QED BY <2>3, <4>1, <4>2
    <3>2. CASE b = m + 1
      <4>1. reqs'[n].names[b] = i
        BY <1>7, <3>2
      <4>2. reqs[x].names[a] # i
        BY <1>a
      <4> QED BY <4>1, <4>2
    <3> QED BY <1>8, <3>1, <3>2
  <2>4. CASE r = n
    <3>1. reqs'[s] = reqs[s] /\ s # n /\ j \in 1 .. m + 1
      BY <1>4, <1>7, <2>4
    <3> QED BY <2>3, <2>4, <3>1
  <2>5. CASE s = n
    <3>1. reqs'[r] = reqs[r] /\ r # n /\ k \in 1 .. m + 1
      BY <1>4, <1>7, <2>5
    <3> QED BY <2>3, <2>5, <3>1
  <2> QED BY <2>2, <2>4, <2>5
<1>13. NamedBefore'
  <2> SUFFICES ASSUME NEW r \in 1 .. n, NEW k \in 1 .. Len(reqs'[r].names)
               PROVE  reqs'[r].names[k] < i + 1
    BY <1>1, <1>4 DEF NamedBefore
  <2>1. CASE r # n
    <3>1. reqs'[r] = reqs[r]
      BY <1>4, <2>1
    <3>2. reqs[r].names[k] < i /\ reqs[r].names[k] \in Nat
      BY <1>9, <3>1
    <3> QED BY <1>1, <3>1, <3>2
  <2>2. CASE r = n /\ k \in 1 .. m
    <3>1. reqs'[n].names[k] = reqs[n].names[k] /\ k \in 1 .. Len(reqs[n].names)
      BY <1>m, <1>7, <2>2
    <3>2. reqs[n].names[k] < i /\ reqs[n].names[k] \in Nat
      BY <1>5, <1>9, <3>1
    <3> QED BY <1>1, <2>2, <3>1, <3>2
  <2>3. CASE r = n /\ k = m + 1
    BY <1>1, <1>7, <2>3
  <2> QED BY <1>7, <1>8, <2>1, <2>2, <2>3
<1>14. AllNamed'
  <2> SUFFICES ASSUME NEW l \in Places, Remote(l), Wanted(l), l < i + 1
               PROVE  Named(l)'
    BY <1>1 DEF AllNamed, Places, Remote, Wanted
  <2>1. CASE l < i
    <3>1. PICK r \in 1 .. n : \E k \in 1 .. Len(reqs[r].names) : reqs[r].names[k] = l
      BY <1>0, <1>1, <2>1 DEF RequestsInv, AllNamed, Named
    <3>2. PICK k \in 1 .. Len(reqs[r].names) : reqs[r].names[k] = l
      BY <3>1
    <3>3. CASE r # n
      BY <1>4, <3>2, <3>3 DEF Named
    <3>4. CASE r = n
      <4>1. k \in 1 .. m /\ k \in 1 .. m + 1
        BY <1>m, <1>7, <3>2, <3>4
      <4> QED BY <1>4, <1>5, <1>7, <3>2, <3>4, <4>1 DEF Named
    <3> QED BY <3>3, <3>4
  <2>2. CASE l = i
    <3>1. m + 1 \in 1 .. m + 1
      BY <1>7
    <3> QED
      BY <1>4, <1>5, <1>7, <2>2, <3>1 DEF Named
  <2> QED
    BY <1>1, <2>1, <2>2 DEF Places
<1>15. Remembered'
  <2>1. last' = [server |-> layers[i].server, essential |-> layers[i].essential,
                 names |-> Append(last.names, i)]
    BY <1>1, <1>2 DEF Remember
  <2>2. last'.server = layers[i].server /\ last'.essential = layers[i].essential
        /\ last'.names = Append(last.names, i)
    BY <2>1
  <2>3. \A k \in 1 .. m + 1 : ~layers[reqs'[n].names[k]].separate
    BY <1>2, <1>7, <1>8, <1>10
  <2>4. Linked(reqs[n])'
    BY <1>1, <1>4, <1>7, <1>10, <2>2, <2>3 DEF Linked
  <2> QED
    BY <1>1, <1>4, <2>4 DEF Remembered
<1> QED
  BY <1>11, <1>12, <1>13, <1>14, <1>15

\* A WMS layer gets a request of its own.
LEMMA OwnWMSStep ==
    ASSUME RequestsInv, PrepareWMS
    PROVE  AllFitting' /\ NamedOnce' /\ NamedBefore' /\ AllNamed' /\ Remembered'
<1>0. PICK n : n = Len(reqs)
  OBVIOUS
<1>1. /\ i \in Places /\ i \in Nat
      /\ pc = "prepare" /\ layers \in Maps /\ Typed /\ layers[i] \in Layers
      /\ layers' = layers /\ i' = i + 1 /\ pc' = pc /\ lastconnectiontype' = "WMS"
      /\ last' = Remember(layers[i], <<i>>)
      /\ reqs' = Append(reqs, Request("WMS"))
      /\ Preparing("WMS") /\ ~layers[i].outside
  BY LayersTyped DEF RequestsInv, Typed, PrepareWMS, Preparing, Places
<1>2. AllFitting' /\ NamedOnce' /\ NamedBefore' /\ AllNamed'
  BY <1>1, OwnRequestStep
<1>3. /\ n \in Nat /\ Len(reqs') = n + 1 /\ reqs'[n + 1] = Request("WMS")
  BY <1>0, <1>1, AppendEffect
<1>4. /\ Request("WMS").id = i /\ Request("WMS").kind = "WMS"
      /\ Request("WMS").names = <<i>>
  BY DEF Request
<1>5. Remembered'
  <2>1. CASE layers[i].separate
    <3>1. last'.server = None
      BY <1>1, <2>1 DEF Remember, NoParams
    <3> QED
      BY <1>1, <3>1 DEF Remembered
  <2>2. CASE ~layers[i].separate
    <3>1. last' = [server |-> layers[i].server, essential |-> layers[i].essential,
                   names |-> <<i>>]
      BY <1>1, <2>2 DEF Remember
    <3>2. last'.server = layers[i].server /\ last'.essential = layers[i].essential
          /\ last'.names = <<i>>
      BY <3>1
    <3>3. reqs'[n + 1].names = <<i>> /\ reqs'[n + 1].kind = "WMS" /\ reqs'[n + 1].id = i
      BY <1>3, <1>4
    <3>4. \A k \in 1 .. Len(<<i>>) : <<i>>[k] = i
      OBVIOUS
    <3>5. Linked(reqs[n + 1])'
      <4>1. layers' = layers
        BY <1>1
      <4> QED
        BY <2>2, <3>2, <3>3, <3>4, <4>1 DEF Linked
    <3> QED
      BY <1>1, <1>3, <3>5 DEF Remembered
  <2> QED BY <2>1, <2>2
<1> QED
  BY <1>2, <1>5

\* A WFS layer gets a request of its own.
LEMMA OwnWFSStep ==
    ASSUME RequestsInv, PrepareWFS
    PROVE  AllFitting' /\ NamedOnce' /\ NamedBefore' /\ AllNamed' /\ Remembered'
<1>1. /\ i \in Places /\ i \in Nat
      /\ pc = "prepare" /\ layers \in Maps /\ Typed
      /\ layers' = layers /\ i' = i + 1 /\ pc' = pc /\ lastconnectiontype' = "WFS"
      /\ reqs' = Append(reqs, Request("WFS"))
      /\ Preparing("WFS") /\ layers[i].type = "WFS" /\ layers[i].visible
  BY LayersTyped DEF RequestsInv, Typed, PrepareWFS, Preparing, Places
<1>2. ~layers[i].outside
  BY <1>1, LayersTyped DEF PlainUnlessWMS
<1>3. AllFitting' /\ NamedOnce' /\ NamedBefore' /\ AllNamed'
  BY <1>1, <1>2, OwnRequestStep
<1>4. Remembered'
  BY <1>1 DEF Remembered, Places
<1> QED
  BY <1>3, <1>4

\* What a step may do to the loop of the preparation without a request.
LEMMA QuietLoop ==
    ASSUME Typed, [Next]_vars, ~PrepareMerge, ~PrepareWMS, ~PrepareWFS
    PROVE  \/ PrepareSkip
           \/ PrepareOutside
           \/ PrepareEnds
           \/ pc' = "failed"
           \/ pc # "prepare" /\ pc' # "prepare" /\ pc # "failed"
           \/ UNCHANGED vars
  BY DEF Next, Step, PrepareFails, Start, StartFails, DownloadEnds, TimesOut, Answered, Ended,
         DrawSkip, DrawWMS, DrawWMSSkip, DrawWMSEssential, DrawWFS, DrawWFSFails, DrawLocal,
         DrawFails, DrawLabelCache, LoopEnds, Finished, Drawing

\* A step without a request keeps what the invariant says of the preparation.
\* A WMS layer outside of the view does not come after a WFS layer, so that it
\* leaves what is remembered linked to the last request.
LEMMA QuietStep ==
    ASSUME \A m \in Maps : NoOutsideAfterWFS(m), RequestsInv, [Next]_vars,
           ~PrepareMerge, ~PrepareWMS, ~PrepareWFS
    PROVE  AllFitting' /\ NamedOnce' /\ NamedBefore' /\ AllNamed' /\ Remembered'
<1>1. /\ Typed /\ SameAsked
      /\ layers \in Maps /\ i \in Nat /\ Len(layers) \in Nat /\ i <= Len(layers) + 1
      /\ Places' = Places /\ layers' = layers /\ Len(reqs') = Len(reqs)
      /\ \A r \in 1 .. Len(reqs) : reqs'[r].names = reqs[r].names
  <2>1. Typed
    BY DEF RequestsInv
  <2>2. SameAsked
    BY <2>1, QuietAsked
  <2> QED BY <2>1, <2>2, LayersTyped DEF Typed, SameAsked, Places
<1>2. AllFitting' /\ NamedOnce' /\ \A l : Named(l)' <=> Named(l)
  BY <1>1, AskedFrame DEF RequestsInv
<1>3. \A l : (Wanted(l)' <=> Wanted(l)) /\ (Remote(l)' <=> Remote(l))
  BY <1>1 DEF Wanted, Remote
<1>4. \A r \in 1 .. Len(reqs) : \A k \in 1 .. Len(reqs[r].names) : reqs[r].names[k] \in Nat
  <2> TAKE r \in 1 .. Len(reqs)
  <2>1. Fitting(reqs[r])
    BY DEF RequestsInv, AllFitting
  <2> QED BY <2>1 DEF Fitting, AsFirst, Places
<1>5. NamedBefore /\ AllNamed /\ Remembered
  BY DEF RequestsInv
<1>6. CASE PrepareSkip \/ PrepareOutside
  <2>1. /\ pc = "prepare" /\ pc' = "prepare" /\ i <= Len(layers) /\ i' = i + 1
        /\ last' = last /\ reqs' = reqs
        /\ ~(Remote(i) /\ Wanted(i))
    BY <1>6 DEF PrepareSkip, PrepareOutside, Preparing, Remote, Wanted
  <2>2. NamedBefore'
    BY <1>1, <1>4, <1>5, <2>1 DEF NamedBefore
  <2>3. AllNamed'
    <3> SUFFICES ASSUME NEW l \in Places, Remote(l), Wanted(l), l < i + 1
                 PROVE  Named(l)
      BY <1>1, <1>2, <1>3, <2>1 DEF AllNamed
    <3>1. l < i
      BY <1>1, <2>1 DEF Places
    <3> QED BY <1>5, <2>1, <3>1 DEF AllNamed
  <2>4. Remembered'
    <3>1. CASE PrepareSkip
      <4>1. lastconnectiontype' = lastconnectiontype
        BY <3>1 DEF PrepareSkip
      <4>2. \A l \in Places : l < i => l < i + 1
        BY <1>1 DEF Places
      <4> QED BY <1>1, <1>5, <2>1, <4>1, <4>2 DEF Remembered, Linked
    <3>2. CASE PrepareOutside
      <4>1. lastconnectiontype' = "WMS"
        BY <3>2 DEF PrepareOutside
      <4>2. lastconnectiontype # "WFS"
        <5> SUFFICES ASSUME NEW l \in Places, l < i, layers[l].type = "WFS", layers[l].visible
                     PROVE  FALSE
          BY <1>5, <2>1 DEF Remembered
        <5>1. i \in Places /\ Places = DOMAIN layers
          BY <1>1, <2>1, LayersTyped DEF Places
        <5>2. layers[i].type = "WMS" /\ layers[i].visible /\ layers[i].outside
          BY <3>2 DEF PrepareOutside, Preparing
        <5> QED BY <1>1, <5>1, <5>2 DEF NoOutsideAfterWFS
      <4>3. lastconnectiontype \in {"SHAPEFILE", "WMS"}
        BY <1>1, <4>2 DEF Typed
      <4> QED BY <1>1, <1>5, <2>1, <4>1, <4>3 DEF Remembered, Linked
    <3> QED BY <1>6, <3>1, <3>2
  <2> QED BY <1>2, <2>2, <2>3, <2>4
<1>7. CASE PrepareEnds
  <2>1. pc = "prepare" /\ pc' # "prepare" /\ i > Len(layers)
    BY <1>7 DEF PrepareEnds
  <2>2. AllNamed'
    <3> SUFFICES ASSUME NEW l \in Places, Remote(l), Wanted(l)
                 PROVE  Named(l)
      BY <1>1, <1>2, <1>3 DEF AllNamed
    <3>1. l < i
      BY <1>1, <2>1 DEF Places
    <3> QED BY <1>5, <2>1, <3>1 DEF AllNamed
  <2> QED BY <1>2, <2>1, <2>2 DEF NamedBefore, Remembered
<1>8. CASE pc' = "failed"
  BY <1>2, <1>8 DEF NamedBefore, AllNamed, Remembered
<1>9. CASE pc # "prepare" /\ pc' # "prepare" /\ pc # "failed"
  <2>1. AllNamed'
    BY <1>1, <1>2, <1>3, <1>5, <1>9 DEF AllNamed
  <2> QED BY <1>2, <1>9, <2>1 DEF NamedBefore, Remembered
<1>10. CASE UNCHANGED vars
  BY <1>2, <1>5, <1>10 DEF vars, NamedBefore, AllNamed, Remembered, Named, Linked, Places,
                           Wanted, Remote
<1> QED
  BY <1>1, <1>6, <1>7, <1>8, <1>9, <1>10, QuietLoop

\* The statuses of the WFS layers are those of their requests.
LEMMA EmptyStep ==
    ASSUME RequestsInv, [Next]_vars
    PROVE  EmptyKnown'
<1>1. /\ Typed /\ EmptyKnown /\ wfsstatus \in [Places -> Statuses]
      /\ reqs \in Seq(Requests)
  BY DEF RequestsInv, Typed
<1>2. CASE PrepareWFS
  <2>1. wfsstatus' = [wfsstatus EXCEPT ![i] = "none"] /\ layers' = layers /\ pc = "prepare"
        /\ pc' = pc
    BY <1>2 DEF PrepareWFS, Preparing
  <2>2. \A l \in Places : wfsstatus[l] = "none"
    BY <1>1, <2>1 DEF EmptyKnown
  <2>3. \A l \in Places : wfsstatus'[l] = "none"
    BY <1>1, <2>1, <2>2
  <2> QED BY <2>1, <2>3 DEF EmptyKnown, Places
<1>3. CASE PrepareMerge \/ PrepareWMS \/ PrepareSkip \/ PrepareOutside \/ Start
           \/ (\E r \in 1 .. Len(reqs) : TimesOut(r) \/ Answered(r))
  <2>1. /\ pc \in {"prepare", "start", "download"} /\ wfsstatus' = wfsstatus
        /\ layers' = layers
    BY <1>3 DEF PrepareMerge, PrepareWMS, PrepareSkip, PrepareOutside, Start, TimesOut,
                Answered, Ended, Preparing
  <2>2. \A l \in Places : wfsstatus[l] = "none"
    BY <1>1, <2>1 DEF EmptyKnown
  <2> QED BY <2>1, <2>2 DEF EmptyKnown, Places
<1>4. CASE DownloadEnds
  <2>1. /\ reqs' = reqs /\ layers' = layers /\ pc = "download" /\ pc' = "draw"
        /\ wfsstatus' = [l \in Places |-> IF layers[l].type = "WFS" THEN StatusFor(l)
                                          ELSE wfsstatus[l]]
    BY <1>4 DEF DownloadEnds
  <2>2. \A l \in Places : wfsstatus[l] = "none"
    BY <1>1, <2>1 DEF EmptyKnown
  <2>3. ASSUME NEW l \in Places, wfsstatus'[l] = "empty"
        PROVE  \E r \in 1 .. Len(reqs) : reqs[r].id = l /\ reqs[r].status = "empty"
    <3>1. StatusFor(l) = "empty"
      BY <2>1, <2>2, <2>3
    <3>2. \E r \in 1 .. Len(reqs) : reqs[r].id = l
      BY <3>1 DEF StatusFor
    <3>3. PICK r \in 1 .. Len(reqs) : /\ r = CHOOSE x \in 1 .. Len(reqs) : reqs[x].id = l
                                      /\ reqs[r].id = l
      BY <3>2
    <3> QED BY <3>1, <3>2, <3>3 DEF StatusFor
  <2> QED BY <2>1, <2>3 DEF EmptyKnown, Places
<1>5. CASE ~(PrepareWFS \/ PrepareMerge \/ PrepareWMS \/ PrepareSkip \/ PrepareOutside \/ Start
             \/ DownloadEnds \/ (\E r \in 1 .. Len(reqs) : TimesOut(r) \/ Answered(r)))
  <2>1. /\ reqs' = reqs /\ wfsstatus' = wfsstatus /\ layers' = layers
        /\ pc' \in {"prepare", "start", "download"} => pc \in {"prepare", "start", "download"}
    BY <1>5 DEF Next, Step, vars, PrepareFails, PrepareEnds, StartFails, DrawSkip, DrawWMS,
           DrawWMSSkip, DrawWMSEssential, DrawWFS, DrawWFSFails, DrawLocal, DrawFails,
           DrawLabelCache, LoopEnds, Finished, Drawing
  <2> QED BY <1>1, <2>1 DEF EmptyKnown, Places
<1> QED
  BY <1>2, <1>3, <1>4, <1>5

\* Before the preparation there is nothing to say.
LEMMA RequestsInit ==
    ASSUME Init
    PROVE  RequestsInv
<1>1. Typed
  BY TypedInit
<1>2. reqs = <<>> /\ i = 1 /\ pc = "prepare" /\ lastconnectiontype = "SHAPEFILE"
      /\ last.server = None /\ wfsstatus = [l \in Places |-> "none"]
  BY DEF Init, NoParams
<1>3. 1 .. Len(reqs) = {}
  BY <1>2
<1>4. \A l \in Places : ~(l < 1)
  BY <1>1, LayersTyped DEF Typed, Places
<1> QED
  BY <1>1, <1>2, <1>3, <1>4 DEF RequestsInv, AllFitting, NamedOnce, NamedBefore, AllNamed,
                                 Remembered, EmptyKnown

\* Every step keeps the invariant of the requests.
LEMMA RequestsStep ==
    ASSUME \A m \in Maps : NoOutsideAfterWFS(m), RequestsInv, [Next]_vars
    PROVE  RequestsInv'
<1>1. Typed' /\ EmptyKnown'
  BY TypedStep, EmptyStep DEF RequestsInv
<1>2. AllFitting' /\ NamedOnce' /\ NamedBefore' /\ AllNamed' /\ Remembered'
  BY MergeStep, OwnWMSStep, OwnWFSStep, QuietStep
<1> QED
  BY <1>1, <1>2 DEF RequestsInv

\* The requests are right all the time.
THEOREM RequestsInvariance ==
    ASSUME \A m \in Maps : NoOutsideAfterWFS(m)
    PROVE  Spec => []RequestsInv
<1>1. Init => RequestsInv
  BY RequestsInit
<1>2. RequestsInv /\ [Next]_vars => RequestsInv'
  BY RequestsStep
<1> QED
  BY <1>1, <1>2, PTL DEF Spec

\* A layer is asked for with its own cookie and from its own server, and alone
\* where FORCE_SEPARATE_REQUEST is set, whatever msBuildWMSLayerURLBase and the
\* merging of msPrepareWMSLayerRequest make of the layers of the map.
THEOREM RequestsAsConfigured ==
    ASSUME \A m \in Maps : NoOutsideAfterWFS(m)
    PROVE  Spec => []AskedAsConfigured
<1>1. ASSUME RequestsInv, NEW r \in 1 .. Len(reqs), NEW l \in Names(r)
      PROVE  /\ layers[l].cookie # None => reqs[r].cookie = layers[l].cookie
             /\ layers[l].server = layers[reqs[r].id].server
             /\ layers[l].separate => Names(r) = {l}
  <2>1. PICK k \in 1 .. Len(reqs[r].names) : reqs[r].names[k] = l
    BY DEF Names
  <2>2. Fitting(reqs[r])
    BY <1>1 DEF RequestsInv, AllFitting
  <2>3. reqs[r].names \in Seq(Nat) /\ Len(reqs[r].names) \in Nat
    <3>1. reqs[r] \in Requests
      BY <1>1 DEF RequestsInv, Typed
    <3> QED BY <3>1 DEF Requests
  <2>4. k = 1 \/ k > 1
    BY <2>3
  <2>5. layers[l].cookie # None => reqs[r].cookie = layers[l].cookie
    BY <2>1, <2>2, <2>4 DEF Fitting
  <2>6. layers[l].server = layers[reqs[r].id].server
    BY <2>1, <2>2 DEF Fitting, AsFirst
  <2>7. ASSUME layers[l].separate
        PROVE  Names(r) = {l}
    <3>1. Len(reqs[r].names) > 0 /\ ~(Len(reqs[r].names) > 1)
      BY <2>1, <2>2, <2>7 DEF Fitting
    <3>2. \A n \in Nat : n > 0 /\ ~(n > 1) => n = 1
      OBVIOUS
    <3>3. Len(reqs[r].names) = 1
      BY <2>3, <3>1, <3>2
    <3> QED BY <2>1, <3>3 DEF Names
  <2> QED BY <2>5, <2>6, <2>7
<1>2. RequestsInv => AskedAsConfigured
  BY <1>1 DEF AskedAsConfigured
<1> QED
  BY <1>2, RequestsInvariance, PTL

\* When the requests are prepared, every remote layer that is wanted is named
\* in exactly one request of its service, and no other layer in any.
THEOREM RequestsAreComplete ==
    ASSUME \A m \in Maps : NoOutsideAfterWFS(m)
    PROVE  Spec => []RequestsComplete
<1>1. ASSUME RequestsInv, Prepared, NEW l \in Places
      PROVE  /\ Cardinality(Naming(l)) = (IF Remote(l) /\ Wanted(l) THEN 1 ELSE 0)
             /\ \A r \in Naming(l) : reqs[r].kind = layers[l].type
  <2>1. \A r \in Naming(l) : /\ r \in 1 .. Len(reqs)
                             /\ \E k \in 1 .. Len(reqs[r].names) : reqs[r].names[k] = l
    BY DEF Naming, Names
  <2>2. \A r \in Naming(l) : AsFirst(reqs[r], l)
    BY <1>1, <2>1 DEF RequestsInv, AllFitting, Fitting
  <2>3. \A r \in Naming(l) : reqs[r].kind \in {"WMS", "WFS"}
    <3> TAKE r \in Naming(l)
    <3>1. reqs[r] \in Requests
      BY <1>1, <2>1 DEF RequestsInv, Typed
    <3> QED BY <3>1 DEF Requests
  <2>4. CASE Remote(l) /\ Wanted(l)
    <3>1. Named(l)
      BY <1>1, <2>4 DEF RequestsInv, AllNamed, Prepared
    <3>2. PICK r \in 1 .. Len(reqs) : \E k \in 1 .. Len(reqs[r].names) : reqs[r].names[k] = l
      BY <3>1 DEF Named
    <3>3. \A s \in Naming(l) : s = r
      BY <1>1, <2>1, <3>2 DEF RequestsInv, NamedOnce
    <3>4. Naming(l) = {r}
      BY <3>2, <3>3 DEF Naming, Names
    <3> QED BY <2>2, <2>4, <3>4, FS_Singleton DEF AsFirst
  <2>5. CASE ~(Remote(l) /\ Wanted(l))
    <3>1. Naming(l) = {}
      BY <2>2, <2>3, <2>5 DEF AsFirst, Remote
    <3> QED BY <2>5, <3>1, FS_EmptySet
  <2> QED BY <2>4, <2>5
<1>2. RequestsInv => RequestsComplete
  BY <1>1 DEF RequestsComplete
<1> QED
  BY <1>2, RequestsInvariance, PTL

-----------------------------------------------------------------------------
(* The image.                                                              *)

\* The turns of the layers and of the labels.
LEMMA TurnFacts ==
    ASSUME layers \in Maps
    PROVE  /\ Len(layers) \in Nat
           /\ Turn(0) = Len(layers) + 1
           /\ \A o \in Places :
                 /\ o \in Nat /\ o > 0 /\ o <= Len(layers)
                 /\ layers[o].post \in BOOLEAN
                 /\ layers[o].post => Turn(o) = Len(layers) + 1 + o
                 /\ ~layers[o].post => Turn(o) = o
           /\ \A o \in 0 .. Len(layers) : Turn(o) \in Nat /\ (o = 0 \/ o \in Places)
<1>1. Len(layers) \in Nat /\ \A o \in Places : layers[o] \in Layers
  BY LayersTyped
<1>2. \A o \in Places : o \in Nat /\ o > 0 /\ o <= Len(layers)
  BY <1>1 DEF Places
<1>3. \A o \in Places : layers[o].post \in BOOLEAN
  BY <1>1 DEF Layers
<1>4. \A o \in 0 .. Len(layers) : o = 0 \/ o \in Places
  BY <1>1 DEF Places
<1> QED
  BY <1>1, <1>2, <1>3, <1>4 DEF Turn

\* At the end of the drawing all turns are over.
LEMMA LastTurn ==
    ASSUME layers \in Maps, NEW o \in Places
    PROVE  Turn(o) < 2 * Len(layers) + 2
<1>1. /\ Len(layers) \in Nat /\ o \in Nat /\ o <= Len(layers)
      /\ Turn(o) = Len(layers) + 1 + o \/ Turn(o) = o
  BY TurnFacts
<1> QED
  BY <1>1

\* A request belongs to one layer, and a layer has one.
LEMMA OwnRequestUnique ==
    ASSUME RequestsInv, NEW r \in 1 .. Len(reqs), NEW s \in 1 .. Len(reqs),
           reqs[r].id = reqs[s].id
    PROVE  r = s
<1>1. Fitting(reqs[r]) /\ Fitting(reqs[s])
  BY DEF RequestsInv, AllFitting
<1>2. reqs[r] \in Requests /\ reqs[s] \in Requests
  BY DEF RequestsInv, Typed
<1>3. Len(reqs[r].names) \in Nat /\ Len(reqs[s].names) \in Nat
  BY <1>2 DEF Requests
<1>4. /\ 1 \in 1 .. Len(reqs[r].names) /\ 1 \in 1 .. Len(reqs[s].names)
      /\ reqs[r].names[1] = reqs[s].names[1]
  <2>1. /\ Len(reqs[r].names) > 0 /\ Len(reqs[s].names) > 0
        /\ reqs[r].id = reqs[r].names[1] /\ reqs[s].id = reqs[s].names[1]
    BY <1>1 DEF Fitting
  <2>2. \A n \in Nat : n > 0 => 1 \in 1 .. n
    OBVIOUS
  <2> QED BY <1>3, <2>1, <2>2
<1> QED
  BY <1>4 DEF RequestsInv, NamedOnce

\* What is named in a request is a layer of its kind.
LEMMA NamedFacts ==
    ASSUME RequestsInv, NEW r \in 1 .. Len(reqs), NEW k \in 1 .. Len(reqs[r].names)
    PROVE  /\ reqs[r].names[k] \in Places /\ reqs[r].names[k] # 0
           /\ layers[reqs[r].names[k]].type = reqs[r].kind
           /\ Wanted(reqs[r].names[k])
           /\ layers[reqs[r].names[k]].essential = layers[reqs[r].id].essential
           /\ reqs[r].id \in Places
           /\ layers[reqs[r].id].type = reqs[r].kind
           /\ Wanted(reqs[r].id)
           /\ reqs[r].kind # "WMS" => reqs[r].names[k] = reqs[r].id
<1>1. Fitting(reqs[r])
  BY DEF RequestsInv, AllFitting
<1>2. reqs[r] \in Requests
  BY DEF RequestsInv, Typed
<1>3. Len(reqs[r].names) \in Nat
  BY <1>2 DEF Requests
<1>4. 1 \in 1 .. Len(reqs[r].names)
  BY <1>1, <1>3 DEF Fitting
<1>5. /\ AsFirst(reqs[r], reqs[r].names[k])
      /\ AsFirst(reqs[r], reqs[r].id)
  BY <1>1, <1>4 DEF Fitting
<1>6. 0 \notin Places
  BY LayersTyped DEF RequestsInv, Typed, Places
<1>7. reqs[r].kind # "WMS" => k = 1
  BY <1>1, <1>3 DEF Fitting
<1> QED
  BY <1>1, <1>5, <1>6, <1>7 DEF AsFirst, Fitting

\* What is in the image has one painter.
LEMMA PainterUnique ==
    ASSUME RequestsInv, NEW o, NEW p, NEW l, Paints(o, l), Paints(p, l)
    PROVE  o = p
<1>1. 0 \notin Places
  BY LayersTyped DEF RequestsInv, Typed, Places
<1>2. \A x : Paints(x, l) => \/ x = 0 /\ l = 0
                             \/ x \in Places /\ layers[x].type # "WMS" /\ l = x
                             \/ /\ layers[l].type = "WMS" /\ l \in Places
                                /\ \E r \in 1 .. Len(reqs) :
                                      /\ reqs[r].id = x
                                      /\ \E k \in 1 .. Len(reqs[r].names) :
                                            reqs[r].names[k] = l
  <2>1. ASSUME NEW r \in 1 .. Len(reqs), NEW k \in 1 .. Len(reqs[r].names),
               reqs[r].names[k] = l, layers[reqs[r].id].type = "WMS"
        PROVE  layers[l].type = "WMS" /\ l \in Places
    BY <2>1, NamedFacts
  <2> QED
    BY <2>1 DEF Paints
<1>3. CASE l = 0
  BY <1>1, <1>2, <1>3
<1>4. CASE l \in Places /\ layers[l].type # "WMS"
  BY <1>1, <1>2, <1>4
<1>5. CASE l \in Places /\ layers[l].type = "WMS"
  <2>1. PICK r \in 1 .. Len(reqs) : reqs[r].id = o /\ \E k \in 1 .. Len(reqs[r].names) :
                                                         reqs[r].names[k] = l
    BY <1>1, <1>2, <1>5
  <2>2. PICK s \in 1 .. Len(reqs) : reqs[s].id = p /\ \E k \in 1 .. Len(reqs[s].names) :
                                                         reqs[s].names[k] = l
    BY <1>1, <1>2, <1>5
  <2>3. r = s
    BY <2>1, <2>2 DEF RequestsInv, NamedOnce
  <2> QED BY <2>1, <2>2, <2>3
<1> QED
  BY <1>2, <1>3, <1>4, <1>5

\* A layer that is in no image of another one is its own painter.
LEMMA UnmergedPainter ==
    ASSUME RequestsInv, NEW o, NEW x, Paints(o, x), ~Merged(x)
    PROVE  x = o
  BY DEF Paints, Merged, Naming, Names

\* Layers of one image have one painter.
LEMMA SamePainter ==
    ASSUME RequestsInv, NEW o, NEW p, NEW x, NEW y, Paints(o, x), Paints(p, y), SameImage(x, y)
    PROVE  o = p
<1>1. PICK r \in 1 .. Len(reqs) : /\ \E k \in 1 .. Len(reqs[r].names) : reqs[r].names[k] = x
                                  /\ \E k \in 1 .. Len(reqs[r].names) : reqs[r].names[k] = y
  BY DEF SameImage, Naming, Names
<1>2. /\ x \in Places /\ y \in Places /\ x # 0 /\ y # 0
      /\ layers[x].type = reqs[r].kind /\ layers[y].type = reqs[r].kind
      /\ reqs[r].id \in Places /\ layers[reqs[r].id].type = reqs[r].kind
      /\ reqs[r].kind # "WMS" => x = reqs[r].id /\ y = reqs[r].id
  BY <1>1, NamedFacts
<1>3. CASE reqs[r].kind # "WMS"
  <2>1. x = y
    BY <1>2, <1>3
  <2> QED BY <2>1, PainterUnique
<1>4. CASE reqs[r].kind = "WMS"
  <2>1. Paints(reqs[r].id, x) /\ Paints(reqs[r].id, y)
    BY <1>1, <1>2, <1>4 DEF Paints
  <2>2. o = reqs[r].id
    BY <2>1, PainterUnique
  <2>3. p = reqs[r].id
    BY <2>1, PainterUnique
  <2> QED BY <2>2, <2>3
<1> QED
  BY <1>3, <1>4

\* The frame of what is said of the image: it depends on the map, the requests
\* and the image.
LEMMA ImageFrame ==
    ASSUME layers' = layers, reqs' = reqs
    PROVE  /\ Places' = Places
           /\ \A o, l : Paints(o, l)' <=> Paints(o, l)
           /\ \A o : Turn(o)' = Turn(o)
           /\ \A l : Merged(l)' <=> Merged(l)
           /\ \A l, n : SameImage(l, n)' <=> SameImage(l, n)
<1>1. Places' = Places
  BY DEF Places
<1>2. \A o, l : Paints(o, l)' <=> Paints(o, l)
  BY <1>1 DEF Paints
<1>3. \A o : Turn(o)' = Turn(o)
  BY DEF Turn
<1>4. \A r : Names(r)' = Names(r)
  BY DEF Names
<1>5. \A l : Naming(l)' = Naming(l)
  BY <1>4 DEF Naming
<1>6. \A l : Merged(l)' <=> Merged(l)
  BY <1>5 DEF Merged
<1>7. \A l, n : SameImage(l, n)' <=> SameImage(l, n)
  BY <1>5 DEF SameImage
<1> QED
  BY <1>1, <1>2, <1>3, <1>6, <1>7

\* What painter o puts into the image at its turn: s, which is in order and of
\* which all but the first are merged layers.
LEMMA PaintStep ==
    ASSUME RequestsInv, AllPainted, PaintedOnce, PaintedInTurn,
           pc \in {"draw", "labels", "post"}, layers' = layers, reqs' = reqs,
           pc' \in {"draw", "post"}, Now \in Nat, Now' \in Nat, Now < Now',
           NEW o \in 0 .. Len(layers), Turn(o) = Now,
           NEW s \in Seq(Nat), image' = image \o s,
           \A k \in 1 .. Len(s) : Paints(o, s[k]) /\ (k > 1 => Merged(s[k])),
           \A j, k \in 1 .. Len(s) : j < k => s[j] < s[k]
    PROVE  AllPainted' /\ PaintedOnce' /\ PaintedInTurn'
<1>1. layers \in Maps /\ image \in Seq(Nat)
  BY DEF RequestsInv, Typed
<1>2. PICK n \in Nat : n = Len(image)
  BY <1>1
<1>3. PICK e \in Nat : e = Len(s)
  OBVIOUS
<1>4. /\ Len(image') = n + e
      /\ \A k \in 1 .. n : image'[k] = image[k]
      /\ \A k \in 1 .. e : image'[n + k] = s[k]
  <2>1. Len(image') = n + e
    BY <1>1, <1>2, <1>3, ConcatProperties
  <2>2. \A k \in 1 .. n + e : image'[k] = IF k <= n THEN image[k] ELSE s[k - n]
    BY <1>1, <1>2, <1>3, ConcatProperties
  <2>3. \A k \in 1 .. n : k \in 1 .. n + e /\ k <= n
    OBVIOUS
  <2>4. \A k \in 1 .. e : n + k \in 1 .. n + e /\ ~(n + k <= n) /\ (n + k) - n = k
    OBVIOUS
  <2> QED BY <2>1, <2>2, <2>3, <2>4
<1>5. \A k \in 1 .. n + e : k \in 1 .. n \/ \E j \in 1 .. e : k = n + j
  <2> TAKE k \in 1 .. n + e
  <2>1. k \in 1 .. n \/ (k - n \in 1 .. e /\ k = n + (k - n))
    OBVIOUS
  <2> QED BY <2>1
<1>6. /\ \A x, l : Paints(x, l)' <=> Paints(x, l)
      /\ \A x : Turn(x)' = Turn(x)
      /\ \A l : Merged(l)' <=> Merged(l)
      /\ \A l, m : SameImage(l, m)' <=> SameImage(l, m)
  BY ImageFrame
<1>7. \A k \in 1 .. n : \E p \in 0 .. Len(layers) : Paints(p, image[k]) /\ Turn(p) < Now
  BY <1>2 DEF AllPainted
<1>8. \A p \in 0 .. Len(layers) : Turn(p) \in Nat
  BY <1>1, TurnFacts
<1>9. \A k \in 1 .. n : \A p : Paints(p, image[k]) => p # o
  <2> SUFFICES ASSUME NEW k \in 1 .. n, Paints(o, image[k])
               PROVE  FALSE
    OBVIOUS
  <2>1. PICK p \in 0 .. Len(layers) : Paints(p, image[k]) /\ Turn(p) < Now
    BY <1>7
  <2>2. p = o
    BY <2>1, PainterUnique
  <2> QED BY <1>8, <2>1, <2>2
<1>10. AllPainted'
  <2>1. ASSUME NEW k \in 1 .. n + e
        PROVE  \E p \in 0 .. Len(layers) : Paints(p, image'[k]) /\ Turn(p) < Now'
    <3>1. CASE k \in 1 .. n
      <4>1. PICK p \in 0 .. Len(layers) : Paints(p, image[k]) /\ Turn(p) < Now
        BY <1>7, <3>1
      <4>2. Turn(p) < Now'
        BY <1>8, <4>1
      <4> QED BY <1>4, <3>1, <4>1, <4>2
    <3>2. CASE \E j \in 1 .. e : k = n + j
      <4>1. PICK j \in 1 .. e : k = n + j
        BY <3>2
      <4>2. Paints(o, image'[k])
        BY <1>3, <1>4, <4>1
      <4> QED BY <4>2
    <3> QED BY <1>5, <3>1, <3>2
  <2> QED BY <1>4, <1>6, <2>1 DEF AllPainted
<1>11. ASSUME NEW j \in 1 .. n, NEW k \in 1 .. e
       PROVE  /\ image[j] # s[k]
              /\ ~SameImage(image[j], s[k])
              /\ \/ Turn(image[j]) < Turn(s[k])
                 \/ Merged(image[j]) \/ Merged(s[k])
  <2>1. PICK p \in 0 .. Len(layers) : Paints(p, image[j]) /\ Turn(p) < Now
    BY <1>7
  <2>2. Paints(o, s[k])
    BY <1>3
  <2>3. image[j] # s[k]
    BY <1>9, <2>2
  <2>4. ~SameImage(image[j], s[k])
    BY <1>9, <2>1, <2>2, SamePainter
  <2>5. ASSUME ~Merged(image[j]), ~Merged(s[k])
        PROVE  Turn(image[j]) < Turn(s[k])
    <3>1. image[j] = p
      BY <2>1, <2>5, UnmergedPainter
    <3>2. s[k] = o
      BY <2>2, <2>5, UnmergedPainter
    <3> QED BY <2>1, <3>1, <3>2
  <2> QED BY <2>3, <2>4, <2>5
<1>12. ASSUME NEW j \in 1 .. e, NEW k \in 1 .. e, j < k
       PROVE  s[j] < s[k] /\ s[j] # s[k] /\ Merged(s[k])
  <2>1. s[j] \in Nat /\ s[k] \in Nat /\ k > 1
    BY <1>3, <1>12
  <2> QED BY <1>3, <1>12, <2>1
<1>13. ASSUME NEW j \in 1 .. n + e, NEW k \in 1 .. n + e, j < k
       PROVE  /\ image'[j] # image'[k]
              /\ \/ Turn(image'[j]) < Turn(image'[k])
                 \/ /\ Merged(image'[j]) \/ Merged(image'[k])
                    /\ SameImage(image'[j], image'[k]) => image'[j] < image'[k]
  <2>1. CASE k \in 1 .. n
    <3>1. j \in 1 .. n /\ j # k
      BY <1>13, <2>1
    <3>2. image'[j] = image[j] /\ image'[k] = image[k]
      BY <1>4, <2>1, <3>1
    <3> QED BY <1>2, <1>13, <2>1, <3>1, <3>2 DEF PaintedOnce, PaintedInTurn
  <2>2. CASE \E b \in 1 .. e : k = n + b
    <3>1. PICK b \in 1 .. e : k = n + b
      BY <2>2
    <3>2. image'[k] = s[b]
      BY <1>4, <3>1
    <3>3. CASE j \in 1 .. n
      <4>1. image'[j] = image[j]
        BY <1>4, <3>3
      <4> QED BY <1>11, <3>2, <3>3, <4>1
    <3>4. CASE \E a \in 1 .. e : j = n + a
      <4>1. PICK a \in 1 .. e : j = n + a
        BY <3>4
      <4>2. image'[j] = s[a] /\ a < b
        BY <1>4, <1>13, <3>1, <4>1
      <4> QED BY <1>12, <3>2, <4>2
    <3> QED BY <1>5, <3>3, <3>4
  <2> QED BY <1>5, <2>1, <2>2
<1>14. PaintedOnce'
  <2> SUFFICES ASSUME NEW j \in 1 .. n + e, NEW k \in 1 .. n + e, image'[j] = image'[k]
               PROVE  j = k
    BY <1>4 DEF PaintedOnce
  <2>1. j < k \/ k < j \/ j = k
    OBVIOUS
  <2> QED BY <1>13, <2>1
<1>15. PaintedInTurn'
  BY <1>4, <1>6, <1>13 DEF PaintedInTurn
<1> QED
  BY <1>10, <1>14, <1>15

\* A step that paints nothing and lets the time go on.
LEMMA RestStep ==
    ASSUME Typed, AllPainted, PaintedOnce, PaintedInTurn,
           pc \in {"draw", "labels", "post", "done", "failed"},
           layers' = layers, reqs' = reqs, image' = image,
           \/ pc' = "failed"
           \/ pc # "failed" /\ pc' \in {"draw", "labels", "post", "done"}
              /\ Now \in Nat /\ Now' \in Nat /\ Now <= Now'
    PROVE  AllPainted' /\ PaintedOnce' /\ PaintedInTurn'
<1>1. /\ \A x, l : Paints(x, l)' <=> Paints(x, l)
      /\ \A x : Turn(x)' = Turn(x)
      /\ \A l : Merged(l)' <=> Merged(l)
      /\ \A l, m : SameImage(l, m)' <=> SameImage(l, m)
  BY ImageFrame
<1>2. PaintedOnce' /\ PaintedInTurn'
  BY <1>1 DEF PaintedOnce, PaintedInTurn
<1>3. \A p \in 0 .. Len(layers) : Turn(p) \in Nat
  BY TurnFacts DEF Typed
<1>4. AllPainted'
  <2>1. CASE pc' = "failed"
    BY <1>1, <2>1 DEF AllPainted
  <2>2. CASE /\ pc # "failed" /\ pc' \in {"draw", "labels", "post", "done"}
             /\ Now \in Nat /\ Now' \in Nat /\ Now <= Now'
    <3>1. \A p \in 0 .. Len(layers) : Turn(p) < Now => Turn(p) < Now'
      BY <1>3, <2>2
    <3> QED BY <1>1, <2>2, <3>1 DEF AllPainted
  <2> QED BY <2>1, <2>2
<1> QED
  BY <1>2, <1>4

\* What was handled stays so while more is painted.
LEMMA HandledFrame ==
    ASSUME layers' = layers, reqs' = reqs, \A l : Painted(l) => Painted(l)', NEW o, Handled(o)
    PROVE  Handled(o)'
<1>1. \A r : Refused(r)' <=> Refused(r)
  BY DEF Refused
<1>2. \A r : Served(r) => Served(r)'
  BY <1>1 DEF Served
<1> QED
  BY <1>2 DEF Handled

\* What is in the image stays there when something is painted.
LEMMA PaintedGrows ==
    ASSUME image \in Seq(Nat), NEW s \in Seq(Nat), image' = image \o s
    PROVE  /\ \A l : Painted(l) => Painted(l)'
           /\ \A k \in 1 .. Len(s) : Painted(s[k])'
<1>1. PICK n \in Nat : n = Len(image)
  OBVIOUS
<1>2. PICK e \in Nat : e = Len(s)
  OBVIOUS
<1>3. Len(image') = n + e
  BY <1>1, <1>2, ConcatProperties
<1>4. \A k \in 1 .. n + e : image'[k] = IF k <= n THEN image[k] ELSE s[k - n]
  BY <1>1, <1>2, ConcatProperties
<1>5. \A k \in 1 .. n : k \in 1 .. n + e /\ k <= n
  OBVIOUS
<1>6. \A k \in 1 .. e : n + k \in 1 .. n + e /\ ~(n + k <= n) /\ (n + k) - n = k
  OBVIOUS
<1>7. \A l : Painted(l) => Painted(l)'
  BY <1>1, <1>3, <1>4, <1>5 DEF Painted
<1>8. \A k \in 1 .. e : Painted(s[k])'
  <2> TAKE k \in 1 .. e
  <2>1. image'[n + k] = s[k] /\ n + k \in 1 .. Len(image')
    BY <1>3, <1>4, <1>6
  <2> QED BY <2>1 DEF Painted
<1> QED
  BY <1>2, <1>7, <1>8

\* The loop goes on by one layer, and so does the time: only the layer that the
\* loop is at may have its turn.
LEMMA NextTurn ==
    ASSUME Typed, pc \in {"draw", "post"}, i <= Len(layers), layers' = layers, pc' = pc,
           i' = i + 1
    PROVE  /\ i \in Places /\ Now \in Nat /\ Now' \in Nat /\ Now' = Now + 1
           /\ InTurn(i) => Turn(i) = Now
           /\ \A o \in Places : /\ layers[o].visible
                                /\ Turn(o) < Now'
                                => Turn(o) < Now \/ (o = i /\ InTurn(i))
<1>1. /\ i \in Places /\ i \in Nat /\ Len(layers) \in Nat
      /\ \A o \in Places : /\ o \in Nat /\ o > 0 /\ o <= Len(layers)
                           /\ layers[o].post \in BOOLEAN
                           /\ layers[o].post => Turn(o) = Len(layers) + 1 + o
                           /\ ~layers[o].post => Turn(o) = o
  BY TurnFacts DEF Typed, Places
<1>2. CASE pc = "draw"
  <2>1. Now = i /\ Now' = i + 1
    BY <1>2 DEF Now
  <2>2. InTurn(i) => Turn(i) = Now
    BY <1>1, <1>2, <2>1 DEF InTurn
  <2>3. ASSUME NEW o \in Places, layers[o].visible, Turn(o) < Now', ~(Turn(o) < Now)
        PROVE  o = i /\ InTurn(i)
    <3>1. ~layers[o].post /\ o = i
      BY <1>1, <2>1, <2>3
    <3> QED BY <1>1, <1>2, <2>3, <3>1 DEF InTurn
  <2> QED BY <1>1, <2>1, <2>2, <2>3
<1>3. CASE pc = "post"
  <2>1. Now = Len(layers) + 1 + i /\ Now' = Len(layers) + 1 + (i + 1)
    BY <1>3 DEF Now
  <2>2. InTurn(i) => Turn(i) = Now
    BY <1>1, <1>3, <2>1 DEF InTurn
  <2>3. ASSUME NEW o \in Places, layers[o].visible, Turn(o) < Now', ~(Turn(o) < Now)
        PROVE  o = i /\ InTurn(i)
    <3>1. layers[o].post /\ o = i
      BY <1>1, <2>1, <2>3
    <3> QED BY <1>1, <1>3, <2>3, <3>1 DEF InTurn
  <2> QED BY <1>1, <2>1, <2>2, <2>3
<1> QED
  BY <1>2, <1>3

\* The loop passes a layer: the rest of the invariant follows when what the
\* layer painted and how it was handled are right.
LEMMA PassLayer ==
    ASSUME RequestsInv, ImageInv, pc \in {"draw", "post"}, i <= Len(layers),
           layers' = layers, reqs' = reqs, pc' = pc, i' = i + 1,
           NEW s \in Seq(Nat), image' = image \o s,
           NEW x, x = i, InTurn(x) => Handled(x)',
           \A k \in 1 .. Len(s) : /\ InTurn(x) /\ Paints(x, s[k])
                                  /\ k > 1 => Merged(s[k]),
           \A j, k \in 1 .. Len(s) : j < k => s[j] < s[k]
    PROVE  ImageInv'
<1>1. Typed /\ AllPainted /\ PaintedOnce /\ PaintedInTurn /\ AllHandled
      /\ image \in Seq(Nat) /\ layers \in Maps /\ Len(layers) \in Nat
  BY LayersTyped DEF RequestsInv, Typed, ImageInv
<1>2. /\ i \in Places /\ Now \in Nat /\ Now' \in Nat /\ Now' = Now + 1
      /\ InTurn(i) => Turn(i) = Now
      /\ \A o \in Places : /\ layers[o].visible
                           /\ Turn(o) < Now'
                           => Turn(o) < Now \/ (o = i /\ InTurn(i))
  BY <1>1, NextTurn
<1>3. AllPainted' /\ PaintedOnce' /\ PaintedInTurn'
  <2>1. CASE InTurn(i)
    <3>1. PICK o \in 0 .. Len(layers) : o = i
      BY <1>1, <1>2 DEF Places
    <3>2. Turn(o) = Now /\ Now < Now'
      BY <1>2, <2>1, <3>1
    <3>3. \A k \in 1 .. Len(s) : Paints(o, s[k]) /\ (k > 1 => Merged(s[k]))
      BY <3>1
    <3> QED BY <1>1, <1>2, <3>2, <3>3, PaintStep
  <2>2. CASE ~InTurn(i)
    <3>1. Len(s) = 0
      <4>1. 1 .. Len(s) = {} /\ Len(s) \in Nat
        BY <2>2
      <4> QED BY <4>1
    <3>2. s = <<>>
      BY <3>1, EmptySeq
    <3>3. image' = image
      BY <1>1, <3>2, ConcatEmptySeq
    <3>4. Now <= Now'
      BY <1>2
    <3> QED BY <1>1, <1>2, <3>3, <3>4, RestStep
  <2> QED BY <2>1, <2>2
<1>4. \A l : Painted(l) => Painted(l)'
  BY <1>1, PaintedGrows
<1>5. AllHandled'
  <2> SUFFICES ASSUME NEW o \in Places, layers[o].visible, Turn(o) < Now'
               PROVE  Handled(o)'
    BY ImageFrame DEF AllHandled
  <2>1. CASE Turn(o) < Now
    <3>1. Handled(o)
      BY <1>1, <2>1 DEF AllHandled
    <3> QED BY <1>4, <3>1, HandledFrame
  <2>2. CASE o = i /\ InTurn(i)
    <3>1. o = x /\ Handled(x)'
      BY <2>2
    <3> QED BY <3>1
  <2> QED BY <1>2, <2>1, <2>2
<1>6. FromTheTop'
  BY DEF FromTheTop
<1> QED
  BY <1>3, <1>5, <1>6 DEF ImageInv

\* A step of msDrawMap that fails leaves the image.
LEMMA FailStep ==
    ASSUME RequestsInv, ImageInv, pc' = "failed", layers' = layers, reqs' = reqs,
           image' = image
    PROVE  ImageInv'
<1>1. /\ \A x, l : Paints(x, l)' <=> Paints(x, l)
      /\ \A x : Turn(x)' = Turn(x)
      /\ \A l : Merged(l)' <=> Merged(l)
      /\ \A l, m : SameImage(l, m)' <=> SameImage(l, m)
  BY ImageFrame
<1>2. PaintedOnce' /\ PaintedInTurn'
  BY <1>1 DEF ImageInv, PaintedOnce, PaintedInTurn
<1>3. AllPainted'
  BY <1>1 DEF ImageInv, AllPainted
<1> QED
  BY <1>2, <1>3 DEF ImageInv, AllHandled, FromTheTop

\* Before the drawing nothing is painted.
LEMMA EmptyImage ==
    ASSUME Typed', image' = <<>>, FromTheTop',
           pc' \in {"prepare", "start", "download", "failed"} \/ (pc' = "draw" /\ i' = 1)
    PROVE  ImageInv'
<1>1. 1 .. Len(image') = {}
  OBVIOUS
<1>2. AllPainted' /\ PaintedOnce' /\ PaintedInTurn'
  BY <1>1 DEF AllPainted, PaintedOnce, PaintedInTurn
<1>3. AllHandled'
  <2>1. pc' # "failed" => Now' \in {0, 1}
    BY DEF Now
  <2>2. layers' \in Maps
    BY DEF Typed
  <2>3. \A o \in Places' : (layers'[o].post => Turn(o)' = Len(layers') + 1 + o)
                           /\ (~layers'[o].post => Turn(o)' = o)
                           /\ o \in Nat /\ o > 0 /\ Len(layers') \in Nat
    <3>1. \A o \in Places' : o \in Nat /\ o > 0 /\ Len(layers') \in Nat
      BY <2>2, RemoteAssumption DEF Places
    <3> QED BY <3>1 DEF Turn
  <2>4. \A o \in Places' : ~(Turn(o)' < 0) /\ ~(Turn(o)' < 1)
    BY <2>3
  <2> QED BY <2>1, <2>4 DEF AllHandled
<1> QED
  BY <1>2, <1>3 DEF ImageInv

\* Nothing is painted while the requests are prepared and executed.
LEMMA EarlyStep ==
    ASSUME RequestsInv, ImageInv, [Next]_vars, pc \in {"prepare", "start", "download"}
    PROVE  ImageInv'
<1>1. Typed'
  BY TypedStep DEF RequestsInv
<1>2. image = <<>> /\ FromTheTop
  BY DEF ImageInv, AllPainted
<1>3. image' = <<>>
  BY <1>2 DEF Next, Step, vars, PrepareSkip, PrepareOutside, PrepareMerge, PrepareWMS,
         PrepareWFS, PrepareFails, PrepareEnds, Start, StartFails, DownloadEnds, TimesOut,
         Answered, Ended, DrawSkip, DrawWMS, DrawWMSSkip, DrawWMSEssential, DrawWFS,
         DrawWFSFails, DrawLocal, DrawFails, DrawLabelCache, LoopEnds, Finished, Drawing
<1>4. /\ FromTheTop'
      /\ pc' \in {"prepare", "start", "download", "failed"} \/ (pc' = "draw" /\ i' = 1)
  BY <1>2 DEF Next, Step, vars, PrepareSkip, PrepareOutside, PrepareMerge, PrepareWMS,
         PrepareWFS, PrepareFails, PrepareEnds, Start, StartFails, DownloadEnds, TimesOut,
         Answered, Ended, DrawSkip, DrawWMS, DrawWMSSkip, DrawWMSEssential, DrawWFS,
         DrawWFSFails, DrawLocal, DrawFails, DrawLabelCache, LoopEnds, Finished, Drawing,
         Preparing, FromTheTop
<1> QED
  BY <1>1, <1>3, <1>4, EmptyImage

\* The loop passes a layer that paints nothing.
LEMMA PassUnpainted ==
    ASSUME RequestsInv, ImageInv, pc \in {"draw", "post"}, i <= Len(layers),
           layers' = layers, reqs' = reqs, pc' = pc, i' = i + 1, image' = image,
           NEW x, x = i, InTurn(x) => Handled(x)'
    PROVE  ImageInv'
<1>1. PICK s \in Seq(Nat) : s = <<>>
  <2>1. <<>> \in Seq(Nat)
    OBVIOUS
  <2> QED BY <2>1
<1>2. image \in Seq(Nat)
  BY DEF RequestsInv, Typed
<1>3. image' = image \o s /\ 1 .. Len(s) = {}
  BY <1>1, <1>2, ConcatEmptySeq
<1> QED
  BY <1>3, PassLayer

\* The loop passes a layer that paints itself.
LEMMA PassPainted ==
    ASSUME RequestsInv, ImageInv, pc \in {"draw", "post"}, i <= Len(layers), InTurn(i),
           layers[i].type # "WMS",
           layers' = layers, reqs' = reqs, pc' = pc, i' = i + 1, image' = Append(image, i)
    PROVE  ImageInv'
<1>1. i \in Places /\ i \in Nat /\ image \in Seq(Nat)
  BY LayersTyped DEF RequestsInv, Typed, Places
<1>2. PICK x \in Nat : x = i
  BY <1>1
<1>3. PICK s \in Seq(Nat) : s = <<x>>
  <2>1. <<x>> \in Seq(Nat)
    OBVIOUS
  <2> QED BY <2>1
<1>4. Len(s) = 1 /\ s[1] = x
  BY <1>3
<1>5. image' = image \o s
  BY <1>1, <1>2, <1>3, AppendIsConcat
<1>6. Painted(x)'
  <2>1. 1 \in 1 .. Len(s)
    BY <1>4
  <2> QED BY <1>1, <1>4, <1>5, <2>1, PaintedGrows
<1>7. Handled(x)'
  BY <1>2, <1>6 DEF Handled
<1>8. \A k \in 1 .. Len(s) : k = 1 /\ s[k] = x
  BY <1>4
<1>9. InTurn(x) /\ Paints(x, x)
  BY <1>1, <1>2 DEF Paints
<1>10. \A k \in 1 .. Len(s) : /\ InTurn(x) /\ Paints(x, s[k])
                              /\ k > 1 => Merged(s[k])
  <2> TAKE k \in 1 .. Len(s)
  <2>1. k = 1 /\ s[k] = x
    BY <1>8
  <2> QED BY <1>9, <2>1
<1>11. \A j, k \in 1 .. Len(s) : j < k => s[j] < s[k]
  <2> SUFFICES ASSUME NEW j \in 1 .. Len(s), NEW k \in 1 .. Len(s), j < k
               PROVE  FALSE
    OBVIOUS
  <2>1. j = 1 /\ k = 1
    BY <1>8
  <2> QED BY <2>1
<1> QED
  BY <1>2, <1>5, <1>7, <1>10, <1>11, PassLayer

\* The answer for a WMS layer is drawn.
LEMMA DrawWMSStep ==
    ASSUME RequestsInv, ImageInv, DrawWMS
    PROVE  ImageInv'
<1>1. PICK r \in 1 .. Len(reqs) : reqs[r].id = i /\ image' = image \o reqs[r].names
  BY DEF DrawWMS, OwnRequests
<1>2. /\ pc \in {"draw", "post"} /\ i <= Len(layers) /\ InTurn(i) /\ layers[i].type = "WMS"
      /\ layers' = layers /\ reqs' = reqs /\ pc' = pc /\ i' = i + 1
  BY DEF DrawWMS, Drawing
<1>3. i \in Places /\ i \in Nat /\ image \in Seq(Nat) /\ reqs[r] \in Requests
  BY <1>2, LayersTyped DEF RequestsInv, Typed, Places
<1>4. PICK x \in Nat : x = i
  BY <1>3
<1>5. PICK s \in Seq(Nat) : s = reqs[r].names
  BY <1>3 DEF Requests
<1>6. image' = image \o s
  BY <1>1, <1>5
<1>7. Fitting(reqs[r])
  BY DEF RequestsInv, AllFitting
<1>8. \A j, k \in 1 .. Len(s) : j < k => s[j] < s[k]
  BY <1>5, <1>7 DEF Fitting
<1>9. Len(s) > 0 /\ s[1] = x
  BY <1>1, <1>4, <1>5, <1>7 DEF Fitting
<1>10. ASSUME NEW k \in 1 .. Len(s)
       PROVE  InTurn(x) /\ Paints(x, s[k]) /\ (k > 1 => Merged(s[k]))
  <2>1. InTurn(x) /\ Paints(x, s[k])
    BY <1>1, <1>2, <1>3, <1>4, <1>5 DEF Paints
  <2>2. ASSUME k > 1
        PROVE  Merged(s[k])
    <3>1. 1 \in 1 .. Len(s) /\ s[1] < s[k] /\ s[k] \in Nat
      BY <1>8, <2>2
    <3>2. s[k] # x
      BY <1>4, <1>9, <3>1
    <3>3. r \in Naming(s[k])
      BY <1>5 DEF Naming, Names
    <3> QED BY <1>1, <1>4, <3>2, <3>3 DEF Merged
  <2> QED BY <2>1, <2>2
<1>11. Handled(x)'
  <2>1. \A k \in 1 .. Len(s) : Painted(s[k])'
    BY <1>3, <1>6, PaintedGrows
  <2>2. \A q \in 1 .. Len(reqs) : reqs[q].id = x => q = r
    BY <1>1, <1>4, OwnRequestUnique
  <2>3. Served(r)'
    BY <1>2, <1>5, <2>1 DEF Served
  <2> QED BY <1>2, <1>4, <2>2, <2>3 DEF Handled
<1> QED
  BY <1>2, <1>4, <1>6, <1>8, <1>10, <1>11, PassLayer

\* A WMS layer is passed that was outside, is in another image, or that the map
\* may do without.
LEMMA DrawWMSSkipStep ==
    ASSUME RequestsInv, ImageInv, DrawWMSSkip
    PROVE  ImageInv'
<1>1. /\ pc \in {"draw", "post"} /\ i <= Len(layers) /\ layers[i].type = "WMS"
      /\ layers' = layers /\ reqs' = reqs /\ pc' = pc /\ i' = i + 1 /\ image' = image
  BY DEF DrawWMSSkip, Drawing
<1>2. PICK x : x = i
  OBVIOUS
<1>3. Handled(x)'
  <2>1. CASE OwnRequests(x) = {}
    BY <1>1, <1>2, <2>1 DEF OwnRequests, Handled
  <2>2. CASE ~layers[x].essential /\ \E r \in OwnRequests(x) : Refused(r)
    <3>1. PICK r \in 1 .. Len(reqs) : reqs[r].id = x /\ Refused(r)
      BY <2>2 DEF OwnRequests
    <3>2. \A q \in 1 .. Len(reqs) : reqs[q].id = x => q = r
      BY <3>1, OwnRequestUnique
    <3>3. Served(r)'
      BY <1>1, <2>2, <3>1 DEF Served, Refused
    <3> QED BY <1>1, <1>2, <3>2, <3>3 DEF Handled
  <2> QED BY <1>2, <2>1, <2>2 DEF DrawWMSSkip
<1> QED
  BY <1>1, <1>2, <1>3, PassUnpainted

\* A WFS layer is drawn, or has no features.
LEMMA DrawWFSStep ==
    ASSUME RequestsInv, ImageInv, DrawWFS
    PROVE  ImageInv'
<1>1. /\ pc \in {"draw", "post"} /\ i <= Len(layers) /\ InTurn(i) /\ layers[i].type = "WFS"
      /\ layers' = layers /\ reqs' = reqs /\ pc' = pc /\ i' = i + 1
      /\ image' = Append(image, i) \/ (wfsstatus[i] = "empty" /\ image' = image)
  BY DEF DrawWFS, Drawing
<1>2. CASE image' = Append(image, i)
  BY <1>1, <1>2, PassPainted
<1>3. CASE wfsstatus[i] = "empty" /\ image' = image
  <2>1. PICK x : x = i
    OBVIOUS
  <2>2. x \in Places
    BY <1>1, <2>1, LayersTyped DEF RequestsInv, Typed, Places
  <2>3. \E r \in 1 .. Len(reqs) : reqs[r].id = x /\ reqs[r].status = "empty"
    BY <1>3, <2>1, <2>2 DEF RequestsInv, EmptyKnown
  <2>4. Handled(x)'
    BY <1>1, <2>1, <2>3 DEF Handled
  <2> QED BY <1>1, <1>3, <2>1, <2>4, PassUnpainted
<1> QED
  BY <1>1, <1>2, <1>3

\* The labels are drawn between the layers.
LEMMA DrawLabelsStep ==
    ASSUME RequestsInv, ImageInv, DrawLabelCache
    PROVE  ImageInv'
<1>1. /\ pc = "labels" /\ pc' = "post" /\ layers' = layers /\ reqs' = reqs /\ i' = i
      /\ image' = Append(image, 0)
  BY DEF DrawLabelCache
<1>2. i = 1 /\ layers \in Maps /\ Len(layers) \in Nat /\ image \in Seq(Nat)
  BY <1>1, LayersTyped DEF ImageInv, FromTheTop, RequestsInv, Typed
<1>3. Now = Len(layers) + 1 /\ Now' = Len(layers) + 1 + 1
  BY <1>1, <1>2 DEF Now
<1>4. Now \in Nat /\ Now' \in Nat /\ Now < Now'
  BY <1>2, <1>3
<1>5. PICK s \in Seq(Nat) : s = <<0>>
  <2>1. <<0>> \in Seq(Nat)
    OBVIOUS
  <2> QED BY <2>1
<1>6. Len(s) = 1 /\ s[1] = 0
  BY <1>5
<1>7. image' = image \o s
  BY <1>1, <1>2, <1>5, AppendIsConcat
<1>8. \A k \in 1 .. Len(s) : k = 1 /\ s[k] = 0
  BY <1>6
<1>9. Paints(0, 0) /\ Turn(0) = Now /\ 0 \in 0 .. Len(layers)
  BY <1>2, <1>3, TurnFacts DEF Paints
<1>10. \A k \in 1 .. Len(s) : Paints(0, s[k]) /\ (k > 1 => Merged(s[k]))
  BY <1>8, <1>9
<1>11. \A j, k \in 1 .. Len(s) : j < k => s[j] < s[k]
  BY <1>8
<1>12. AllPainted' /\ PaintedOnce' /\ PaintedInTurn'
  BY <1>1, <1>4, <1>7, <1>9, <1>10, <1>11, PaintStep DEF ImageInv
<1>13. AllHandled'
  <2> SUFFICES ASSUME NEW o \in Places, layers[o].visible, Turn(o) < Now'
               PROVE  Handled(o)'
    BY <1>1, ImageFrame DEF AllHandled
  <2>1. Turn(o) < Now
    <3>1. /\ o \in Nat /\ o > 0 /\ o <= Len(layers)
          /\ layers[o].post => Turn(o) = Len(layers) + 1 + o
          /\ ~layers[o].post => Turn(o) = o
      BY <1>2, TurnFacts
    <3>2. CASE layers[o].post
      BY <1>2, <1>3, <3>1, <3>2
    <3>3. CASE ~layers[o].post
      BY <1>2, <1>3, <3>1, <3>3
    <3> QED BY <3>2, <3>3
  <2>2. Handled(o)
    BY <1>1, <2>1 DEF ImageInv, AllHandled
  <2>3. \A l : Painted(l) => Painted(l)'
    BY <1>2, <1>7, PaintedGrows
  <2> QED BY <1>1, <2>2, <2>3, HandledFrame
<1> QED
  BY <1>1, <1>12, <1>13 DEF ImageInv, FromTheTop

\* A loop ends, or nothing happens any more.
LEMMA StillStep ==
    ASSUME RequestsInv, ImageInv, pc \in {"draw", "labels", "post", "done", "failed"},
           LoopEnds \/ UNCHANGED vars
    PROVE  ImageInv'
<1>1. /\ layers' = layers /\ reqs' = reqs /\ image' = image
      /\ layers \in Maps /\ Len(layers) \in Nat /\ i \in Nat /\ i <= Len(layers) + 1
  BY LayersTyped DEF LoopEnds, vars, RequestsInv, Typed
<1>2. CASE pc = "failed"
  <2>1. pc' = "failed"
    BY <1>2 DEF LoopEnds, vars
  <2> QED BY <1>1, <2>1, FailStep
<1>3. CASE pc # "failed"
  <2>1. /\ pc' \in {"draw", "labels", "post", "done"} /\ Now \in Nat /\ Now' = Now
        /\ FromTheTop'
    <3>1. CASE LoopEnds
      <4>1. i = Len(layers) + 1
        BY <1>1, <3>1 DEF LoopEnds
      <4> QED BY <1>1, <3>1, <4>1 DEF LoopEnds, Now, FromTheTop
    <3>2. CASE UNCHANGED vars
      <4>1. pc' = pc /\ i' = i /\ Len(layers') = Len(layers)
        BY <3>2 DEF vars
      <4> QED BY <1>1, <1>3, <4>1 DEF Now, FromTheTop, ImageInv
    <3> QED BY <3>1, <3>2
  <2>2. Now <= Now'
    BY <2>1
  <2>3. AllPainted' /\ PaintedOnce' /\ PaintedInTurn'
    BY <1>1, <1>3, <2>1, <2>2, RestStep DEF ImageInv, RequestsInv
  <2>4. AllHandled'
    <3> SUFFICES ASSUME NEW o \in Places, layers[o].visible, Turn(o) < Now
                 PROVE  Handled(o)'
      BY <1>1, <2>1, ImageFrame DEF AllHandled
    <3>1. Handled(o)
      BY <1>3 DEF ImageInv, AllHandled
    <3>2. \A l : Painted(l) => Painted(l)'
      BY <1>1 DEF Painted
    <3> QED BY <1>1, <3>1, <3>2, HandledFrame
  <2> QED BY <2>1, <2>3, <2>4 DEF ImageInv
<1> QED
  BY <1>2, <1>3

\* Every step keeps the invariant of the image.
LEMMA ImageStep ==
    ASSUME RequestsInv, ImageInv, [Next]_vars
    PROVE  ImageInv'
<1>1. CASE pc \in {"prepare", "start", "download"}
  BY <1>1, EarlyStep
<1>2. CASE pc \notin {"prepare", "start", "download"}
  <2>0. pc \in {"draw", "labels", "post", "done", "failed"}
    BY <1>2 DEF RequestsInv, Typed
  <2>1. CASE DrawSkip
    <3>1. PICK x : x = i
      OBVIOUS
    <3>2. /\ pc \in {"draw", "post"} /\ i <= Len(layers) /\ ~InTurn(x)
          /\ layers' = layers /\ reqs' = reqs /\ pc' = pc /\ i' = i + 1 /\ image' = image
      BY <2>1, <3>1 DEF DrawSkip
    <3> QED BY <3>1, <3>2, PassUnpainted
  <2>2. CASE DrawWMS
    BY <2>2, DrawWMSStep
  <2>3. CASE DrawWMSSkip
    BY <2>3, DrawWMSSkipStep
  <2>4. CASE DrawWFS
    BY <2>4, DrawWFSStep
  <2>5. CASE DrawLocal
    <3>1. /\ pc \in {"draw", "post"} /\ i <= Len(layers) /\ InTurn(i)
          /\ layers[i].type # "WMS"
          /\ layers' = layers /\ reqs' = reqs /\ pc' = pc /\ i' = i + 1
          /\ image' = Append(image, i)
      BY <2>5 DEF DrawLocal, Drawing
    <3> QED BY <3>1, PassPainted
  <2>6. CASE DrawLabelCache
    BY <2>6, DrawLabelsStep
  <2>7. CASE DrawWMSEssential \/ DrawWFSFails \/ DrawFails
    BY <2>7, FailStep DEF DrawWMSEssential, DrawWFSFails, DrawFails
  <2>8. CASE LoopEnds \/ Finished \/ UNCHANGED vars
    BY <2>0, <2>8, StillStep DEF Finished
  <2>9. ~(PrepareSkip \/ PrepareOutside \/ PrepareMerge \/ PrepareWMS \/ PrepareWFS
          \/ PrepareFails \/ PrepareEnds \/ Start \/ StartFails \/ DownloadEnds
          \/ (\E r \in 1 .. Len(reqs) : TimesOut(r) \/ Answered(r)))
    BY <1>2 DEF PrepareSkip, PrepareOutside, PrepareMerge, PrepareWMS, PrepareWFS,
           PrepareFails, PrepareEnds, Start, StartFails, DownloadEnds, TimesOut, Answered,
           Ended, Preparing
  <2> QED
    BY <2>1, <2>2, <2>3, <2>4, <2>5, <2>6, <2>7, <2>8, <2>9 DEF Next, Step
<1> QED
  BY <1>1, <1>2

\* Before the preparation the image is empty.
LEMMA ImageInit ==
    ASSUME Init
    PROVE  ImageInv
<1>1. pc = "prepare" /\ image = <<>> /\ i = 1
  BY DEF Init
<1>2. 1 .. Len(image) = {} /\ Now = 0
  BY <1>1 DEF Now
<1>3. \A o \in Places : ~(Turn(o) < 0)
  <2>1. layers \in Maps
    BY DEF Init
  <2>2. \A o \in Places : o \in 0 .. Len(layers)
    BY <2>1, TurnFacts
  <2>3. \A o \in Places : Turn(o) \in Nat
    BY <2>1, <2>2, TurnFacts
  <2> QED BY <2>3
<1> QED
  BY <1>1, <1>2, <1>3 DEF ImageInv, FromTheTop, AllPainted, PaintedOnce, PaintedInTurn,
                           AllHandled

\* What is painted was painted in its turn by a layer that was to paint it, and
\* every layer whose turn is over was drawn as it should be.
THEOREM ImageInvariance ==
    ASSUME \A m \in Maps : NoOutsideAfterWFS(m)
    PROVE  Spec => []ImageInv
<1>1. Init => ImageInv
  BY ImageInit
<1>2. RequestsInv /\ ImageInv /\ [Next]_vars => ImageInv'
  BY ImageStep
<1> QED
  BY <1>1, <1>2, RequestsInvariance, PTL DEF Spec

\* A map that is delivered holds all of its essential layers, although a layer
\* merged into the request of another is not looked at when it is drawn: the
\* two are essential together.
THEOREM EssentialsDelivered ==
    ASSUME \A m \in Maps : NoOutsideAfterWFS(m)
    PROVE  Spec => []EssentialPainted
<1>1. ASSUME RequestsInv, ImageInv, pc = "done", NEW l \in Places, layers[l].essential,
             Wanted(l)
      PROVE  Painted(l)
  <2>1. layers \in Maps /\ PlainUnlessWMS(layers[l])
    BY <1>1, LayersTyped DEF RequestsInv, Typed
  <2>2. Remote(l)
    BY <1>1, <2>1 DEF PlainUnlessWMS, Remote
  <2>3. PICK r \in 1 .. Len(reqs) : \E k \in 1 .. Len(reqs[r].names) : reqs[r].names[k] = l
    BY <1>1, <2>2 DEF RequestsInv, AllNamed, Named
  <2>4. /\ layers[l].type = reqs[r].kind
        /\ layers[l].essential = layers[reqs[r].id].essential
        /\ reqs[r].id \in Places
        /\ layers[reqs[r].id].type = reqs[r].kind
        /\ Wanted(reqs[r].id)
    <3>1. PICK k \in 1 .. Len(reqs[r].names) : reqs[r].names[k] = l
      BY <2>3
    <3>2. /\ layers[reqs[r].names[k]].type = reqs[r].kind
          /\ layers[reqs[r].names[k]].essential = layers[reqs[r].id].essential
          /\ reqs[r].id \in Places
          /\ layers[reqs[r].id].type = reqs[r].kind
          /\ Wanted(reqs[r].id)
      BY <1>1, NamedFacts
    <3> QED BY <3>1, <3>2
  <2>5. Turn(reqs[r].id) < Now
    <3>1. Now = 2 * Len(layers) + 2
      BY <1>1 DEF Now
    <3> QED BY <2>1, <2>4, <3>1, LastTurn
  <2>6. Handled(reqs[r].id)
    BY <1>1, <2>4, <2>5 DEF ImageInv, AllHandled, Wanted
  <2>7. layers[l].type = "WMS"
    BY <1>1, <2>1 DEF PlainUnlessWMS
  <2>8. Served(r)
    BY <2>4, <2>6, <2>7 DEF Handled
  <2> QED BY <1>1, <2>3, <2>4, <2>8 DEF Served
<1>2. RequestsInv /\ ImageInv => EssentialPainted
  BY <1>1 DEF EssentialPainted
<1> QED
  BY <1>2, RequestsInvariance, ImageInvariance, PTL

\* What is wanted is in the map that is delivered, once, unless a server refused
\* it or had no features.
THEOREM WantedPaintedOrRefused ==
    ASSUME \A m \in Maps : NoOutsideAfterWFS(m)
    PROVE  Spec => []PaintedOrRefused
<1>1. ASSUME RequestsInv, ImageInv, pc = "done", NEW l \in Places, Wanted(l)
      PROVE  Painted(l) \/ \E r \in Naming(l) : Refused(r) \/ reqs[r].status = "empty"
  <2>1. layers \in Maps /\ layers[l] \in Layers
    BY <1>1, LayersTyped DEF RequestsInv, Typed
  <2>2. Now = 2 * Len(layers) + 2
    BY <1>1 DEF Now
  <2>3. \A o \in Places : Turn(o) < Now
    BY <2>1, <2>2, LastTurn
  <2>4. \A o \in Places : Wanted(o) => Handled(o)
    BY <1>1, <2>3 DEF ImageInv, AllHandled, Wanted
  <2>5. CASE layers[l].type = "LOCAL"
    BY <1>1, <2>4, <2>5 DEF Handled
  <2>6. CASE layers[l].type = "WFS"
    <3>1. CASE Painted(l)
      BY <3>1
    <3>2. CASE \E r \in 1 .. Len(reqs) : reqs[r].id = l /\ reqs[r].status = "empty"
      <4>1. PICK r \in 1 .. Len(reqs) : reqs[r].id = l /\ reqs[r].status = "empty"
        BY <3>2
      <4>2. Fitting(reqs[r]) /\ reqs[r] \in Requests
        BY <1>1 DEF RequestsInv, AllFitting, Typed
      <4>3. Len(reqs[r].names) \in Nat
        BY <4>2 DEF Requests
      <4>4. Len(reqs[r].names) > 0 /\ reqs[r].names[1] = l
        BY <4>1, <4>2 DEF Fitting
      <4>5. \A n \in Nat : n > 0 => 1 \in 1 .. n
        OBVIOUS
      <4>6. 1 \in 1 .. Len(reqs[r].names)
        BY <4>3, <4>4, <4>5
      <4>7. r \in Naming(l)
        BY <4>4, <4>6 DEF Naming, Names
      <4> QED BY <4>1, <4>7
    <3> QED BY <1>1, <2>4, <2>6, <3>1, <3>2 DEF Handled
  <2>7. CASE layers[l].type = "WMS"
    <3>1. PICK r \in 1 .. Len(reqs) : \E k \in 1 .. Len(reqs[r].names) : reqs[r].names[k] = l
      BY <1>1, <2>7 DEF RequestsInv, AllNamed, Named, Remote
    <3>2. /\ layers[l].type = reqs[r].kind
          /\ reqs[r].id \in Places
          /\ layers[reqs[r].id].type = reqs[r].kind
          /\ Wanted(reqs[r].id)
      BY <1>1, <3>1, NamedFacts
    <3>3. Served(r)
      BY <2>4, <2>7, <3>2 DEF Handled
    <3>4. r \in Naming(l)
      BY <3>1 DEF Naming, Names
    <3> QED BY <3>1, <3>3, <3>4 DEF Served
  <2> QED BY <2>1, <2>5, <2>6, <2>7 DEF Layers
<1>2. RequestsInv /\ ImageInv => PaintedOrRefused
  BY <1>1 DEF PaintedOrRefused, ImageInv, PaintedOnce
<1> QED
  BY <1>2, RequestsInvariance, ImageInvariance, PTL

\* Layers and labels are painted in the drawing order, but for layers in the
\* image of another one, and those of one image are in their own order.
THEOREM PaintingInTurn ==
    ASSUME \A m \in Maps : NoOutsideAfterWFS(m)
    PROVE  Spec => []PaintedInTurn
<1>1. ImageInv => PaintedInTurn
  BY DEF ImageInv
<1> QED
  BY <1>1, ImageInvariance, PTL
=============================================================================
