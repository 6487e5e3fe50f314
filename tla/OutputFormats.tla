--------------------------- MODULE OutputFormats ----------------------------
(***************************************************************************)
(* The output formats of maps and their reference counts (mapoutput.c, and *)
(* the callers in mapdraw.c, maputil.c, maplegend.c, maptemplate.c,        *)
(* mapwms.cpp, mapwcs.cpp, mapcopy.c, mapobject.c and mapscript).          *)
(*                                                                         *)
(* A format is referred to by the format lists of maps, as the current     *)
(* format of a map, by images, by the mask image of a layer and by the     *)
(* objects of scripts.  Each of them counts in format->refcount.  Some     *)
(* callers exchange the current format of a map without counting, and put  *)
(* it back afterwards.                                                     *)
(*                                                                         *)
(* A function of the C code is an operator that maps the state it finds to *)
(* the state it leaves, so that a handler is the composition of what it    *)
(* calls.  The state it works on is a record w: the heap of formats and    *)
(* the fields of one map.                                                  *)
(***************************************************************************)
EXTENDS Integers, FiniteSets, SequencesExt

CONSTANTS
    Maps, Images, Handles,  \* mapObj, imageObj, script objects of formats
    NULL,                   \* a pointer to nothing
    Defaults,               \* defaultoutputformats: a sequence of names
    UserNames,              \* names of formats that map files and scripts make
    Mime,                   \* the mimetype of a name
    Keys,                   \* names and mimetypes that are asked for
    Unavailable,            \* names whose GDAL driver is not configured
    Vector,                 \* names of formats without a pixel buffer
    Mixed,                  \* names of formats of driver AGG/MIXED
    Jpeg,                   \* names of formats of the JPEG drivers
    OPAQUE_FORMAT, TRANSPARENT_FORMAT,  \* their format options
    Draws,                  \* what the draws of maps meet, see msDrawMap
    Careless,               \* what callers do without care, see below
    MaxFormats,             \* bound on the formats in memory after a call
    MaxList                 \* bound on the formats in a list

Names == Range(Defaults) \cup UserNames

(***************************************************************************)
(* "remove": formats other than the last of the list are removed;          *)
(* "embed": legends are embedded though map->imagetype names another       *)
(* object than the current format; "fail": a draw fails while the current  *)
(* format is exchanged, an image for a legend cannot be made, or that of a *)
(* coverage cannot be filled or saved.                                     *)
(***************************************************************************)
ASSUME FormatsAssumption ==
    /\ Careless \subseteq {"remove", "embed", "fail"}
    /\ NULL \notin Images \cup Handles \cup Names
    /\ Keys \subseteq Names \cup {Mime[n] : n \in Names}
    /\ {OPAQUE_FORMAT, TRANSPARENT_FORMAT} \subseteq Names \ (Vector \cup Mixed \cup Unavailable)
    /\ Vector \subseteq Names
    /\ Mixed \subseteq Names \ Vector
    /\ Jpeg \subseteq Names \ (Vector \cup Mixed \cup {Defaults[1], TRANSPARENT_FORMAT})
    /\ Unavailable \subseteq Names \ {Defaults[1]}
    /\ MaxFormats \in Nat
    /\ MaxList \in Nat

\* A handler makes at most a format per default and two copies.
Formats == 1 .. MaxFormats + Len(Defaults) + 2

\* Values of transparent, and the third choice: leave it as it is.
MS_FALSE == 0
MS_TRUE == 1
Bool == {MS_FALSE, MS_TRUE}
NoOverride == -1

VARIABLES
    heap,       \* the formats, freed ones included
    maps,       \* the maps; NULL when there is none
    images,     \* image->format; NULL when there is no image
    handles     \* what the script's objects stand for

vars == <<heap, maps, images, handles>>

Freed == [live |-> FALSE, name |-> NULL, transparent |-> MS_FALSE, refcount |-> 0]

TypeOK ==
    /\ heap \in [Formats -> [live : BOOLEAN, name : Names \cup {NULL},
                             transparent : Bool, refcount : Nat]]
    /\ images \in [Images -> Formats \cup {NULL}]
    /\ handles \in [Handles -> Formats \cup {NULL}]
    /\ \A m \in Maps : maps[m] # NULL =>
          /\ maps[m].list \in Seq(Formats)
          /\ maps[m].cur \in Formats \cup {NULL}
          /\ maps[m].imagetype \in Keys \cup Names
          /\ maps[m].mask \in Formats \cup {NULL}

Init ==
    /\ heap = [f \in Formats |-> Freed]
    /\ maps = [m \in Maps |-> NULL]
    /\ images = [i \in Images |-> NULL]
    /\ handles = [o \in Handles |-> NULL]

-----------------------------------------------------------------------------
(* Formats and their counts.                                               *)

\* Room for a new format.
Fresh(h) == CHOOSE f \in Formats : ~h[f].live /\ \A g \in 1 .. f - 1 : h[g].live

Alloc(h, n) ==
    [h EXCEPT ![Fresh(h)] = [live |-> TRUE, name |-> n, transparent |-> MS_FALSE, refcount |-> 0]]

msCloneOutputFormat(h, f) ==
    [h EXCEPT ![Fresh(h)] = [h[f] EXCEPT !.refcount = 0]]

Incr(h, f) == [h EXCEPT ![f].refcount = @ + 1]

msFreeOutputFormat(h, f) ==
    IF f = NULL THEN h
    ELSE IF h[f].refcount - 1 > 0 THEN [h EXCEPT ![f].refcount = @ - 1]
    ELSE [h EXCEPT ![f] = Freed]

(***************************************************************************)
(* Take a reference back and free the format when it was the last one.     *)
(* The callers write it in three ways, with the same result.               *)
(***************************************************************************)
Release(h, f) ==
    IF h[f].refcount - 1 <= 0 THEN msFreeOutputFormat(h, f)
    ELSE [h EXCEPT ![f].refcount = @ - 1]

ReleaseIf(h, f) == IF f = NULL THEN h ELSE Release(h, f)

ReleaseAll(h, s) ==
    LET upTo[i \in 0 .. Len(s)] == IF i = 0 THEN h ELSE Release(upTo[i - 1], s[i])
    IN  upTo[Len(s)]

\* A JPEG is never transparent: the format itself is changed.
msOutputFormatValidate(h, f) ==
    IF h[f].name \in Jpeg THEN [h EXCEPT ![f].transparent = MS_FALSE] ELSE h

\* Slip: the shared format itself is changed.
CopyOnChangeSlip(h, f, transparent) == FALSE

\* A private copy is made when anybody else refers to the format.
CopyOnChange(h, f, transparent) ==
    /\ transparent # NoOverride
    /\ h[f].transparent # transparent
    /\ h[f].refcount > 0

\* The reference that a pointer stands for is counted down.
Decr(h, target) == IF target = NULL THEN h ELSE [h EXCEPT ![target].refcount = @ - 1]

\* The format g, with the transparency that was asked for.
Overridden(h, g, transparent) ==
    [heap |-> IF transparent = NoOverride THEN h ELSE [h EXCEPT ![g].transparent = transparent],
     fmt |-> g]

\* The new target refers to it.
Counted(r) == [r EXCEPT !.heap = Incr(@, r.fmt)]

\* The format f or a copy of it.
Chosen(h, f, transparent) ==
    IF CopyOnChange(h, f, transparent)
    THEN Counted(Overridden(msCloneOutputFormat(h, f), Fresh(h), transparent))
    ELSE Counted(Overridden(h, f, transparent))

(***************************************************************************)
(* msApplyOutputFormat(&target, f, transparent).  The former target is     *)
(* counted down first and freed last, even if it is also the new one.      *)
(***************************************************************************)
msApplyOutputFormat(h, target, f, transparent) ==
    LET r == IF f = NULL THEN [heap |-> Decr(h, target), fmt |-> NULL]
             ELSE Chosen(msOutputFormatValidate(Decr(h, target), f), f, transparent)
        free == target # NULL /\ h[target].refcount - 1 <= 0
    IN  [r EXCEPT !.heap = IF free THEN msFreeOutputFormat(@, target) ELSE @]

-----------------------------------------------------------------------------
(* The list of a map.                                                      *)

MimeMatch(w, key) == {i \in DOMAIN w.list : w.heap[w.list[i]].live /\ Mime[w.heap[w.list[i]].name] = key}
NameMatch(w, key) == {i \in DOMAIN w.list : w.heap[w.list[i]].name = key}

\* The first of the places that match.
First(S, otherwise) == IF S = {} THEN otherwise ELSE Min(S)

\* The place of a format in the list, by mime type or else by name; 0 if none.
msGetOutputFormatIndex(w, key) ==
    First(MimeMatch(w, key), First(NameMatch(w, key), 0))

msAppendOutputFormat(w, f) ==
    [w EXCEPT !.list = Append(@, f), !.heap = Incr(@, f)]

\* Make a format and put it into the list; a driver that is missing takes
\* it out again.
msCreateDefaultOutputFormat(w, n) ==
    IF n \in Unavailable THEN [w |-> w, fmt |-> NULL]
    ELSE [w |-> msAppendOutputFormat([w EXCEPT !.heap = Alloc(@, n)], Fresh(w.heap)),
          fmt |-> Fresh(w.heap)]

DefaultFor(key) == {i \in DOMAIN Defaults : Defaults[i] = key \/ Mime[Defaults[i]] = key}

\* The entry of the list, or else a default that has the name or mime type.
FoundOrMade(w, key, at) ==
    CASE at > 0 -> [w |-> w, fmt |-> w.list[at]]
      [] at = 0 /\ DefaultFor(key) = {} -> [w |-> w, fmt |-> NULL]
      [] OTHER -> msCreateDefaultOutputFormat(w, Defaults[Min(DefaultFor(key))])

\* map->imagetype is the name of the format found, which is validated.
Selected(r) ==
    IF r.fmt = NULL THEN r
    ELSE [r EXCEPT !.w.imagetype = r.w.heap[r.fmt].name,
                   !.w.heap = msOutputFormatValidate(@, r.fmt)]

\* Find a format or make a default one; map->imagetype becomes its name.
msSelectOutputFormat(w, key) ==
    Selected(FoundOrMade(w, key, msGetOutputFormatIndex(w, key)))

\* Every default the list lacks; map->imagetype is put back.
msApplyDefaultOutputFormats(w) ==
    LET upTo[i \in 0 .. Len(Defaults)] ==
            IF i = 0 THEN w ELSE msSelectOutputFormat(upTo[i - 1], Defaults[i]).w
    IN  [upTo[Len(Defaults)] EXCEPT !.imagetype = w.imagetype]

\* map->outputformat after it was given to msApplyOutputFormat.
WithCurrent(w, r) == [w EXCEPT !.heap = r.heap, !.cur = r.fmt]

Apply(w, f, transparent) ==
    WithCurrent(w, msApplyOutputFormat(w.heap, w.cur, f, transparent))

(***************************************************************************)
(* Removal of entry i.  The loop runs to numoutputformats - 1 though the   *)
(* number has been counted down already, so of the entries behind i the    *)
(* last one is not moved and is cut off.                                   *)
(***************************************************************************)
ListRemoved(list, i) ==
    LET n == Len(list) - 1
    IN  [j \in 1 .. n |-> IF i <= j /\ j < n THEN list[j + 1] ELSE list[j]]

msRemoveOutputFormat(w, key) ==
    LET i == msGetOutputFormatIndex(w, key)
    IN  IF i = 0 THEN w
        ELSE [w EXCEPT !.heap = Release(@, w.list[i]), !.list = ListRemoved(@, i)]

-----------------------------------------------------------------------------
(* Drawing.                                                                *)

\* An image refers to its format; the reference of msImageCreate and
\* msPrepareImage.
msFreeImage(w, f) == [w EXCEPT !.heap = ReleaseIf(@, f)]

(***************************************************************************)
(* msDrawLegend and msDrawScalebar: a local reference to the current       *)
(* format, or to a copy with the transparency of the legend, an image on   *)
(* it, and the local reference dropped.  end is "done", "memory" when the  *)
(* image cannot be made, which leaves the local reference, or "legend"     *)
(* when the drawing fails.  The icon of a layer with a renderer of its own *)
(* is drawn on an image of the first default, whose name map->imagetype    *)
(* keeps.                                                                  *)
(***************************************************************************)
LegendFreed(r, end) ==
    IF end = "done" THEN r ELSE [w |-> msFreeImage(r.w, r.img), img |-> NULL]

LegendOn(w, fmt, renderer, end) ==
    IF end = "memory" THEN [w |-> w, img |-> NULL]
    ELSE LegendFreed(
            [w |-> IF renderer THEN msSelectOutputFormat(w, Defaults[1]).w ELSE w,
             img |-> fmt], end)

\* The image takes its reference before the local one is dropped.
LegendImage(w, r, end) ==
    [w EXCEPT !.heap =
        IF end = "memory" THEN r.heap
        ELSE msApplyOutputFormat(Incr(r.heap, r.fmt), r.fmt, NULL, NoOverride).heap]

LegendIn(w, r, renderer, end) == LegendOn(LegendImage(w, r, end), r.fmt, renderer, end)

msDrawLegend(w, transparent, renderer, end) ==
    LegendIn(w, msApplyOutputFormat(w.heap, NULL, w.cur, transparent), renderer, end)

(***************************************************************************)
(* msCreateLegendIcon drops the local reference before it looks whether    *)
(* there is an image, so an image that cannot be made ends as a drawing    *)
(* that fails, before a layer's renderer is asked for.                     *)
(***************************************************************************)
msCreateLegendIcon(w, transparent, renderer, end) ==
    IF end = "memory" THEN msDrawLegend(w, transparent, FALSE, "legend")
    ELSE msDrawLegend(w, transparent, renderer, end)

(***************************************************************************)
(* msEmbedLegend and msEmbedScalebar.  A format without a pixel buffer is  *)
(* exchanged for the first default, uncounted, and found again through     *)
(* map->imagetype; msEmbedLegend does not look for it when the legend      *)
(* fails.                                                                  *)
(***************************************************************************)
Uncounted(s) == [s.w EXCEPT !.cur = s.fmt]

Exchanged(w, key, exchange) ==
    IF exchange THEN Uncounted(msSelectOutputFormat(w, key)) ELSE w

Embedded(d, imagetype, exchange) ==
    IF d.img = NULL THEN d.w
    ELSE msFreeImage(Exchanged(d.w, imagetype, exchange), d.img)

msEmbedLegend(w, how) ==
    LET exchange == w.heap[w.cur].name \in Vector
    IN  Embedded(msDrawLegend(Exchanged(w, Defaults[1], exchange), how.transparent,
                              how.layers = "renderer", how.end),
                 w.imagetype, exchange)

(***************************************************************************)
(* msDrawLayer of a masked layer makes an image of the first default and   *)
(* leaves it with the mask layer; a layer with a renderer of its own       *)
(* frees it after the layer.  map->imagetype becomes the image's format,   *)
(* except when the mask layer fails: then it stays what the selection made *)
(* it.  Masks need an image with a pixel buffer.                           *)
(***************************************************************************)
Unmaskable(w, img, how) == how.layers = "masked" /\ w.heap[img].name \in Vector

Masked(w, f) == [w EXCEPT !.heap = Incr(@, f), !.mask = f]

LayersOn(s, imagetype, how) ==
    CASE how.layers = "renderer" -> [s.w EXCEPT !.imagetype = imagetype]
      [] how.layers = "masked" /\ how.end = "mask" -> Masked(s.w, s.fmt)
      [] OTHER -> Masked([s.w EXCEPT !.imagetype = imagetype], s.fmt)

DrawLayers(w, img, how) ==
    IF how.layers = "plain" \/ Unmaskable(w, img, how) THEN w
    ELSE LayersOn(msSelectOutputFormat(w, Defaults[1]), w.heap[img].name, how)

\* msPrepareImage forgets the mask image of the last draw.
ForgetMask(w) == [w EXCEPT !.heap = ReleaseIf(@, w.mask), !.mask = NULL]

(***************************************************************************)
(* msDrawMap: the image, the layers, the embedded legend.  how says what   *)
(* the map contains, whether its pixels are opaque, and how far the draw   *)
(* comes: "done", "mask" when the mask layer fails, "layers" when another  *)
(* layer fails, "legend" or "memory" when the legend fails.                *)
(***************************************************************************)
AllDraws == [layers : {"plain", "renderer", "masked"}, embed : BOOLEAN,
             transparent : Bool, opaque : BOOLEAN,
             end : {"done", "mask", "layers", "legend", "memory"}]

ASSUME DrawsAssumption ==
    /\ Draws \subseteq AllDraws
    /\ \A how \in Draws :
          /\ how.end = "mask" => how.layers = "masked"
          /\ how.end \in {"legend", "memory"} => how.embed
          /\ how.end = "memory" => "fail" \in Careless

NoImage(w) == [w |-> w, img |-> NULL]

\* The legend or scale bar that is embedded when the layers are drawn.
EmbedOn(w, how) == IF how.embed THEN msEmbedLegend(w, how) ELSE w

Finished(w, img, how) ==
    IF how.end = "done" THEN [w |-> w, img |-> img] ELSE NoImage(msFreeImage(w, img))

DrawnOn(w, img, how) ==
    IF how.end \in {"mask", "layers"} \/ Unmaskable(w, img, how)
    THEN NoImage(msFreeImage(w, img))
    ELSE Finished(EmbedOn(w, how), img, how)

msPrepareImage(w) == [w EXCEPT !.heap = Incr(@, w.cur)]

msDrawMap(w, how) ==
    IF w.cur = NULL THEN NoImage(ForgetMask(w))
    ELSE DrawnOn(DrawLayers(msPrepareImage(ForgetMask(w)), w.cur, how), w.cur, how)

(***************************************************************************)
(* Embedding exchanges the current format that the draw meets.  It is put  *)
(* back when map->imagetype, which layers set to the name of the image's   *)
(* format, finds it in the list, and when the legend does not fail.        *)
(***************************************************************************)
EmbedExchanges(w, how) ==
    /\ w.cur # NULL
    /\ how.embed
    /\ how.layers # "masked" /\ how.end # "layers"
    /\ w.heap[w.cur].name \in Vector

ImageTypeFinds(w, how) ==
    LET at == msGetOutputFormatIndex(w, IF how.layers = "plain" THEN w.imagetype
                                        ELSE w.heap[w.cur].name)
    IN  at > 0 /\ w.list[at] = w.cur

Careful(w, how) ==
    EmbedExchanges(w, how) =>
        /\ how.end = "done" \/ "fail" \in Careless
        /\ ImageTypeFinds(w, how) \/ "embed" \in Careless

(***************************************************************************)
(* The image of a mixed format gets the format that fits its pixels, and   *)
(* so does the map, if there is one.                                       *)
(***************************************************************************)
SelectAndApply(s, transparent) == Apply(s.w, s.fmt, transparent)

WithImage(w, img) ==
    [w |-> [w EXCEPT !.heap = Incr(msFreeOutputFormat(@, img), w.cur)], img |-> w.cur]

Resolved(s, transparent, w, img) ==
    IF s.fmt = NULL THEN [w |-> w, img |-> img]
    ELSE WithImage(SelectAndApply(s, transparent), img)

msOutputFormatResolveFromImage(w, img, opaquePixels) ==
    LET opaque == opaquePixels \/ w.heap[img].transparent = MS_FALSE
        key == IF opaque THEN OPAQUE_FORMAT ELSE TRANSPARENT_FORMAT
    IN  IF w.heap[img].name \notin Mixed THEN [w |-> w, img |-> img]
        ELSE Resolved(msSelectOutputFormat(w, key), IF opaque THEN MS_FALSE ELSE MS_TRUE,
                      w, img)

-----------------------------------------------------------------------------
(* Operations.                                                             *)

\* The state operators work on, and the state they leave.
State(m) == [heap |-> heap, list |-> maps[m].list, cur |-> maps[m].cur,
             imagetype |-> maps[m].imagetype, mask |-> maps[m].mask]

Fields(w) == [list |-> w.list, cur |-> w.cur, imagetype |-> w.imagetype, mask |-> w.mask]

Fits(w) ==
    /\ Cardinality({f \in Formats : w.heap[f].live}) <= MaxFormats
    /\ Len(w.list) <= MaxList

Leave(m, after) ==
    \E w \in {after} :
        /\ Fits(w)
        /\ heap' = w.heap
        /\ maps' = [maps EXCEPT ![m] = Fields(w)]

\* The same for a draw, whose image is kept in i.
LeaveImage(m, i, drawn) ==
    \E d \in {drawn} :
        /\ Leave(m, d.w)
        /\ images' = [images EXCEPT ![i] = d.img]

\* Slip: the reference of the map's current format is not given back.
MapFreedSlip(w) == ReleaseAll(ForgetMask(w).heap, w.list)

\* Layers, and with them mask images, go before the formats.
MapFreed(w) == ReleaseAll(ReleaseIf(ForgetMask(w).heap, w.cur), w.list)

(***************************************************************************)
(* A map file with a declared format or none and with an IMAGETYPE or      *)
(* none (msNewMapObj: neither), and msPostMapParseOutputFormatSetup.  A    *)
(* format that cannot be selected is an error, and the map is freed.       *)
(***************************************************************************)
EmptyMap == [heap |-> heap, list |-> <<>>, cur |-> NULL, imagetype |-> NULL, mask |-> NULL]

WithDeclared(declared) ==
    IF declared = NULL THEN EmptyMap ELSE msCreateDefaultOutputFormat(EmptyMap, declared).w

\* The format selected becomes the current format, if there is one.
Current(r) == IF r.fmt = NULL THEN r.w ELSE SelectAndApply(r, NoOverride)

SetUp(w, key) == Current(msSelectOutputFormat([w EXCEPT !.imagetype = key], key))

msPostMapParseOutputFormatSetup(w, imagetype) ==
    SetUp(w, CASE imagetype # NULL -> imagetype
               [] imagetype = NULL /\ w.list # <<>> -> w.heap[w.list[1]].name
               [] OTHER -> Defaults[1])

Parsed(declared, imagetype) ==
    msPostMapParseOutputFormatSetup(WithDeclared(declared), imagetype)

LoadMap(m, declared, imagetype) ==
    /\ maps[m] = NULL
    /\ \E w \in {Parsed(declared, imagetype)} :
          IF w.cur # NULL /\ declared \notin Unavailable THEN Leave(m, w)
          ELSE /\ heap' = MapFreed(w)
               /\ UNCHANGED maps
    /\ UNCHANGED <<images, handles>>

msFreeMap(m) ==
    /\ maps[m] # NULL
    /\ heap' = MapFreed(State(m))
    /\ maps' = [maps EXCEPT ![m] = NULL]
    /\ UNCHANGED <<images, handles>>

\* A new map, whose formats are dropped again for copies of the other map's.
msCopyMap(src) ==
    LET cleared == [EmptyMap EXCEPT !.heap = MapFreed(Parsed(NULL, NULL))]
        copies == FoldLeft(LAMBDA w, f :
                     msAppendOutputFormat([w EXCEPT !.heap = msCloneOutputFormat(@, f)],
                                          Fresh(w.heap)),
                     cleared, src.list)
    IN  SetUp(copies, src.imagetype)

\* A script goes on with a copy of its map, and the map is freed.
CloneMap(m) ==
    /\ maps[m] # NULL
    /\ \E w \in {msCopyMap(maps[m])} :
          Leave(m, [w EXCEPT !.heap = MapFreed([State(m) EXCEPT !.heap = w.heap])])
    /\ UNCHANGED <<images, handles>>

\* setImageType, selectOutputFormat, and imagetype in a request.
TypeSet(r, key) ==
    IF r.fmt = NULL THEN r.w ELSE [SelectAndApply(r, NoOverride) EXCEPT !.imagetype = key]

SetImageType(m, key) ==
    /\ maps[m] # NULL
    /\ Leave(m, TypeSet(msSelectOutputFormat(State(m), key), key))
    /\ UNCHANGED <<images, handles>>

\* getOutputFormatByName: the script is given a pointer it does not own.
GetOutputFormatByName(m, key) ==
    /\ maps[m] # NULL
    /\ Leave(m, msSelectOutputFormat(State(m), key).w)
    /\ UNCHANGED <<images, handles>>

GetOutputFormat(m, i, o) ==
    /\ maps[m] # NULL
    /\ handles[o] = NULL
    /\ i \in DOMAIN maps[m].list
    /\ heap' = Incr(heap, maps[m].list[i])
    /\ handles' = [handles EXCEPT ![o] = maps[m].list[i]]
    /\ UNCHANGED <<maps, images>>

\* The constructor of a script's format.
NewOutputFormat(o, n) ==
    /\ handles[o] = NULL
    /\ n \notin Unavailable
    /\ Cardinality({f \in Formats : heap[f].live}) < MaxFormats
    /\ heap' = Incr(Alloc(heap, n), Fresh(heap))
    /\ handles' = [handles EXCEPT ![o] = Fresh(heap)]
    /\ UNCHANGED <<maps, images>>

DeleteOutputFormat(o) ==
    /\ handles[o] # NULL
    /\ heap' = msFreeOutputFormat(heap, handles[o])
    /\ handles' = [handles EXCEPT ![o] = NULL]
    /\ UNCHANGED <<maps, images>>

\* setOutputFormat, which leaves map->imagetype alone; f may be NULL.
SetOutputFormat(m, f) ==
    /\ maps[m] # NULL
    /\ Leave(m, Apply(State(m), f, NoOverride))
    /\ UNCHANGED <<images, handles>>

AppendOutputFormat(m, o) ==
    /\ maps[m] # NULL
    /\ handles[o] # NULL
    /\ Leave(m, msAppendOutputFormat(State(m), handles[o]))
    /\ UNCHANGED <<images, handles>>

RemoveOutputFormat(m, key) ==
    /\ maps[m] # NULL
    /\ maps[m].list # <<>>
    /\ \/ "remove" \in Careless
       \/ msGetOutputFormatIndex(State(m), key) \in {0, Len(maps[m].list)}
    /\ Leave(m, msRemoveOutputFormat(State(m), key))
    /\ UNCHANGED <<images, handles>>

\* draw and drawQuery: the script keeps the image.
DrawMap(m, i, how) ==
    /\ maps[m] # NULL
    /\ images[i] = NULL
    /\ Careful(State(m), how)
    /\ LeaveImage(m, i, msDrawMap(State(m), how))
    /\ UNCHANGED handles

\* drawLegend and drawScalebar.
DrawLegend(m, i, transparent, renderer, end) ==
    /\ maps[m] # NULL
    /\ maps[m].cur # NULL
    /\ images[i] = NULL
    /\ end = "memory" => "fail" \in Careless
    /\ LeaveImage(m, i, msDrawLegend(State(m), transparent, renderer, end))
    /\ UNCHANGED handles

\* createLegendIcon of a class.
CreateLegendIcon(m, i, transparent, renderer, end) ==
    /\ maps[m] # NULL
    /\ maps[m].cur # NULL
    /\ images[i] = NULL
    /\ LeaveImage(m, i, msCreateLegendIcon(State(m), transparent, renderer, end))
    /\ UNCHANGED handles

(***************************************************************************)
(* A legend, an icon or a scale bar of a map without a current format: its *)
(* driver is looked up in no format, and the process ends.                 *)
(***************************************************************************)
DrawLegendWithoutFormat(m) ==
    /\ maps[m] # NULL
    /\ maps[m].cur = NULL
    /\ heap' = [f \in Formats |-> Freed]
    /\ maps' = [n \in Maps |-> NULL]
    /\ images' = [i \in Images |-> NULL]
    /\ handles' = [o \in Handles |-> NULL]

FreeImage(i) ==
    /\ images[i] # NULL
    /\ heap' = Release(heap, images[i])
    /\ images' = [images EXCEPT ![i] = NULL]
    /\ UNCHANGED <<maps, handles>>

(***************************************************************************)
(* WMS GetMap: the format of the request with its transparency, and        *)
(* map->imagetype as the request spells it, the draw, the format that fits *)
(* the image, and the image is sent and freed.                             *)
(***************************************************************************)
Sent(r) == msFreeImage(r.w, r.img)

DrawnSent(d, how) ==
    IF d.img = NULL THEN d.w
    ELSE Sent(msOutputFormatResolveFromImage(d.w, d.img, how.opaque))

MapRequested(s, key, transparent) ==
    IF s.fmt = NULL THEN s.w ELSE [SelectAndApply(s, transparent) EXCEPT !.imagetype = key]

GetMap(m, key, transparent, how) ==
    /\ maps[m] # NULL
    /\ \E s \in {msSelectOutputFormat(State(m), key)} :
       \E w \in {MapRequested(s, key, transparent)} :
          IF s.fmt = NULL THEN Leave(m, w)
          ELSE Careful(w, how) /\ Leave(m, DrawnSent(msDrawMap(w, how), how))
    /\ UNCHANGED <<images, handles>>

(***************************************************************************)
(* WCS GetCoverage: a copy of the format becomes the current format, and   *)
(* the map has none when the coverage has been sent, with opaque pixels    *)
(* ("opaque") or others ("clear").  When the mask layer or the raster      *)
(* layer fails ("mask", "raster") the copy stays, when the image gives no  *)
(* buffer or cannot be saved ("buffer", "save") the image stays as well    *)
(* and nobody frees it.  A mask layer that has no image yet is drawn.      *)
(***************************************************************************)
CopyCurrent(s) ==
    Apply([s.w EXCEPT !.heap = msCloneOutputFormat(@, s.fmt)], Fresh(s.w.heap), NoOverride)

CoverageMask(w, masked) ==
    IF ~masked \/ w.mask # NULL THEN w
    ELSE LET s == msSelectOutputFormat(w, Defaults[1])
         IN  Masked([s.w EXCEPT !.imagetype = w.imagetype], s.fmt)

CoverageResolved(r, end) ==
    IF end = "save" THEN r.w ELSE Apply(Sent(r), NULL, NoOverride)

CoverageDrawn(w, end) ==
    CASE end = "buffer" -> w
      [] end = "raster" -> msFreeImage(w, w.cur)
      [] OTHER -> CoverageResolved(msOutputFormatResolveFromImage(w, w.cur, end # "clear"), end)

CoverageOn(w, end) == IF end = "mask" THEN w ELSE CoverageDrawn(msPrepareImage(w), end)

CoverageSent(w, key, masked, end) ==
    IF msGetOutputFormatIndex(w, key) = 0 THEN w
    ELSE CoverageOn(CoverageMask(CopyCurrent(msSelectOutputFormat(w, key)), masked), end)

CoverageEnds == {"opaque", "clear", "mask", "raster", "buffer", "save"}

GetCoverage(m, key, masked, end) ==
    /\ maps[m] # NULL
    /\ end \in {"buffer", "save"} => "fail" \in Careless
    /\ Leave(m, CoverageSent(msApplyDefaultOutputFormats(State(m)), key, masked, end))
    /\ UNCHANGED <<images, handles>>

(***************************************************************************)
(* msReturnTemplateQuery with an image format: the map is drawn in it,     *)
(* uncounted, and the current format is put back unless the draw fails.    *)
(***************************************************************************)
QueryDrawn(d, cur) == IF d.img = NULL THEN d.w ELSE [Sent(d) EXCEPT !.cur = cur]

QuerySent(w, at, how) ==
    IF at = 0 THEN w ELSE QueryDrawn(msDrawMap([w EXCEPT !.cur = w.list[at]], how), w.cur)

QueryFails(w, at, how) ==
    at > 0 /\ (how.end # "done" \/ Unmaskable(w, w.list[at], how))

ReturnTemplateQuery(m, key, how) ==
    /\ maps[m] # NULL
    /\ \E w \in {msApplyDefaultOutputFormats(State(m))} :
       \E at \in {msGetOutputFormatIndex(w, key)} :
          /\ QueryFails(w, at, how) => "fail" \in Careless
          /\ Leave(m, QuerySent(w, at, how))
    /\ UNCHANGED <<images, handles>>

Next ==
    \/ \E m \in Maps :
          \/ \E d \in UserNames \cup {NULL}, key \in Keys \cup {NULL} : LoadMap(m, d, key)
          \/ msFreeMap(m)
          \/ CloneMap(m)
          \/ SetOutputFormat(m, NULL)
          \/ \E key \in Keys :
                \/ SetImageType(m, key)
                \/ GetOutputFormatByName(m, key)
                \/ RemoveOutputFormat(m, key)
                \/ \E t \in Bool \cup {NoOverride}, how \in Draws : GetMap(m, key, t, how)
                \/ \E masked \in BOOLEAN, end \in CoverageEnds :
                      GetCoverage(m, key, masked, end)
                \/ \E how \in Draws : ReturnTemplateQuery(m, key, how)
          \/ \E o \in Handles :
                \/ \E i \in 1 .. MaxList : GetOutputFormat(m, i, o)
                \/ handles[o] # NULL /\ SetOutputFormat(m, handles[o])
                \/ AppendOutputFormat(m, o)
          \/ \E i \in Images :
                \/ \E how \in Draws : DrawMap(m, i, how)
                \/ \E t \in Bool, renderer \in BOOLEAN, end \in {"done", "legend", "memory"} :
                      \/ DrawLegend(m, i, t, renderer, end)
                      \/ CreateLegendIcon(m, i, t, renderer, end)
          \/ DrawLegendWithoutFormat(m)
    \/ \E o \in Handles : DeleteOutputFormat(o) \/ \E n \in UserNames : NewOutputFormat(o, n)
    \/ \E i \in Images : FreeImage(i)

Spec == Init /\ [][Next]_vars

-----------------------------------------------------------------------------
(* Properties.                                                             *)

LoadedMaps == {m \in Maps : maps[m] # NULL}

\* How many references to a format there are, wherever they are.
CountOf(f) ==
    Cardinality({p \in LoadedMaps \X (1 .. MaxList) :
                    p[2] <= Len(maps[p[1]].list) /\ maps[p[1]].list[p[2]] = f})
    + Cardinality({m \in LoadedMaps : maps[m].cur = f})
    + Cardinality({m \in LoadedMaps : maps[m].mask = f})
    + Cardinality({i \in Images : images[i] = f})
    + Cardinality({o \in Handles : handles[o] = f})

(***************************************************************************)
(* What a map, an image or a script refers to has not been freed; and a    *)
(* format in memory has as many references as its count says and at least  *)
(* one, so that none is leaked and the last holder frees it (the counting  *)
(* of msApplyOutputFormat and msFreeOutputFormat, and of the callers that  *)
(* exchange the format of a map without counting).                         *)
(***************************************************************************)
HeldWhileReferenced ==
    TypeOK /\ \A f \in Formats :
        /\ heap[f].live <=> CountOf(f) > 0
        /\ heap[f].refcount = CountOf(f)

(***************************************************************************)
(* The transparency of one request or legend never shows in a format that  *)
(* a list, an image or a script goes on referring to (the copy that        *)
(* msApplyOutputFormat makes); only a JPEG format loses a transparency     *)
(* that it cannot have, in place (msOutputFormatValidate).                 *)
(***************************************************************************)
TransparencyKept(f) ==
    \/ heap'[f].transparent = heap[f].transparent
    \/ heap'[f].name \in Jpeg /\ heap'[f].transparent = MS_FALSE

SettingsKept ==
    [][/\ \A i \in Images :
             images[i] # NULL /\ images'[i] = images[i] => TransparencyKept(images[i])
       /\ \A o \in Handles :
             handles[o] # NULL /\ handles'[o] = handles[o] => TransparencyKept(handles[o])
       /\ \A m \in LoadedMaps : maps'[m] # NULL =>
             \A i \in DOMAIN maps[m].list \cap DOMAIN maps'[m].list :
                maps'[m].list[i] = maps[m].list[i] => TransparencyKept(maps[m].list[i])
      ]_vars

(***************************************************************************)
(* A draw leaves the map the current format it found: what msEmbedLegend   *)
(* exchanges is put back (maplegend.c:968, "restore format").              *)
(***************************************************************************)
FormatRestored ==
    [][\A m \in LoadedMaps, i \in Images, how \in Draws :
          DrawMap(m, i, how) => maps'[m].cur = maps[m].cur]_vars

(***************************************************************************)
(* A query result that is drawn leaves the map the current format it       *)
(* found: the one that msReturnTemplateQuery saves is put back             *)
(* (maptemplate.c:407, "restore format").                                  *)
(***************************************************************************)
QueryRestored ==
    [][\A m \in LoadedMaps, key \in Keys, how \in Draws :
          ReturnTemplateQuery(m, key, how) => maps'[m].cur = maps[m].cur]_vars

(***************************************************************************)
(* removeOutputFormat takes the named format out of the list and no other  *)
(* (mapoutput.c: "Remove an output format (by name)").                     *)
(***************************************************************************)
RemovedExactly ==
    [][\A m \in LoadedMaps, key \in Keys :
          LET i == msGetOutputFormatIndex(State(m), key)
          IN  i > 0 /\ RemoveOutputFormat(m, key)
                 => maps'[m].list = RemoveAt(maps[m].list, i)]_vars
=============================================================================
