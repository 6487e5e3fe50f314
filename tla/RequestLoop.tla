----------------------------- MODULE RequestLoop -----------------------------
(***************************************************************************)
(* The FastCGI process mapserv (apps/mapserv.c): requests are accepted one *)
(* after the other, their parameters read (cgiutil.c), a map loaded, the   *)
(* request dispatched by mode (mapservutil.c), by service (mapows.cpp) or  *)
(* by path, and an error page written when one of these fails.  A signal   *)
(* may ask the process to end at any time.  Built with USE_FASTCGI,        *)
(* USE_OGCAPI_SVR and the services.                                        *)
(***************************************************************************)
EXTENDS Integers, Sequences, FiniteSets

CONSTANTS
    Requests,               \* what clients send, see Request
    Configurations          \* what the config file and the map file say

VARIABLES
    pc,                     \* where the process is
    conf,                   \* the configuration
    req,                    \* the request being processed
    Mode, CoordSource, QueryCoordSource, mappnt,    \* of the mapservObj
    given,                  \* the parameters about places read so far
    type,                   \* map->query.type
    map,                    \* mapserv->map is set
    maps,                   \* number of map objects that are allocated
    errs,                   \* the list of errors, newest first
    isWMS,                  \* the flag of msSetErrorSetIsWMS
    out,                    \* what was written to the client
    finish                  \* finish_process, and the flag in the library

form == <<Mode, CoordSource, QueryCoordSource, mappnt, given, type>>
vars == <<pc, conf, req, form, map, maps, errs, isWMS, out, finish>>

ModeStrings == <<"BROWSE", "ZOOMIN", "ZOOMOUT", "MAP", "LEGEND", "LEGENDICON",
    "REFERENCE", "SCALEBAR", "COORDINATE", "QUERY", "NQUERY", "ITEMQUERY",
    "ITEMNQUERY", "FEATUREQUERY", "FEATURENQUERY", "ITEMFEATUREQUERY",
    "ITEMFEATURENQUERY", "INDEXQUERY", "TILE", "OWS", "WFS", "MAPLEGEND",
    "MAPLEGENDICON">>

ModeNames == {ModeStrings[j] : j \in 1 .. Len(ModeStrings)}
Number(mode) == CHOOSE j \in 1 .. Len(ModeStrings) : ModeStrings[j] = mode

\* A request.  params: what loadParams finds.  path: the PATH_INFO, "map"
\* being /{map} and the last two /{map}/{signature}.  service: the SERVICE
\* parameter, or "body" for an XML document that names the service.  mode:
\* the mode parameter or MS_MODE.  places: the most parameters about places.
Request ==
    [params : {"nomethod", "noquery", "unreadable", "zero", "some"},
     path : {"none", "root", "map", "ogcapi", "badapi"}, hasmap : BOOLEAN,
     service : {"none", "WMS", "other", "body", "unknown"},
     mode : ModeNames \cup {"none", "invalid"}, places : Nat]

\* index: MS_INDEX_TEMPLATE_DIRECTORY; strict: ows_compliance; template and
\* empty: of the WEB object; wide: the KEYSPACING of the LEGEND is so wide that
\* a legend without classes has no height (n - 1 of them are counted).
Configuration ==
    [index : BOOLEAN, strict : BOOLEAN, template : BOOLEAN, empty : BOOLEAN,
     wide : BOOLEAN]

ASSUME RequestLoopAssumption ==
    /\ Requests \subseteq Request
    /\ Configurations \subseteq Configuration

Sources == {"NONE", "FROMIMGPNT", "FROMIMGBOX", "FROMIMGSHAPE", "FROMREFPNT",
            "FROMUSERPNT", "FROMUSERBOX", "FROMUSERSHAPE", "FROMBUF",
            "FROMSCALE", "FROMTILE"}

Places == {"mapext", "mapxy", "mapxy=shape", "mapshape", "imgshape", "img.x",
           "imgxy", "imgbox", "refxy", "buffer", "scale", "tile"}

Types == {"NULL", "POINT", "RECT", "SHAPE", "FILTER", "INDEX"}

\* What is written.  Headers alone were sent before an error; a refusal is
\* written by the index page; text and scale pages are no answers in full.
Outputs == {"text", "index", "refusal", "api", "ows", "exception", "scalepage",
            "headers", "page", "image", "coordinate", "result", "error"}

\* own: set during this request.  wms: the status of a WMS error belongs to it.
Errors == [kind : {"noquery", "load", "template", "notfound", "other"},
           own : BOOLEAN, wms : BOOLEAN, reported : BOOLEAN]

Started == ~(pc \in {"start", "refuse", "exit"})

TypeOK ==
    /\ conf \in Configuration
    /\ req \in Request
    /\ Mode \in ModeNames \cup {"none"}
    /\ CoordSource \in Sources
    /\ QueryCoordSource \in Sources \ {"FROMREFPNT", "FROMBUF", "FROMSCALE", "FROMTILE"}
    /\ mappnt \in {"unset", "user", "image", "center"}
    /\ given \subseteq Places
    /\ type \in Types
    /\ map \in BOOLEAN /\ maps \in Nat
    /\ \A k \in 1 .. Len(errs) : errs[k] \in Errors
    /\ isWMS \in BOOLEAN
    /\ \A k \in 1 .. Len(out) : out[k] \in Outputs
    /\ finish \in BOOLEAN

\* No request is being processed.
NoRequest == [params |-> "nomethod", path |-> "none", hasmap |-> FALSE,
              service |-> "none", mode |-> "none", places |-> 0]

Init ==
    /\ pc = "start"
    /\ conf \in Configurations
    /\ req = NoRequest
    /\ Mode = "none" /\ CoordSource = "NONE" /\ QueryCoordSource = "NONE"
    /\ mappnt = "unset" /\ given = {} /\ type = "NULL"
    /\ map = FALSE /\ maps = 0
    /\ errs = <<>>
    /\ isWMS = FALSE
    /\ out = <<>>
    /\ finish = FALSE

-----------------------------------------------------------------------------
(* Errors and answers.                                                     *)

NewError(kind) ==
    [kind |-> kind, own |-> TRUE, wms |-> kind = "load" /\ isWMS', reported |-> FALSE]

SetError(kind) == errs' = <<NewError(kind)>> \o errs
Write(kind) == out' = Append(out, kind)

\* A failure of msCGIDispatchRequest: the index page of the map may do.
FailTo == IF req.path = "map" /\ conf.index THEN "fallback" ELSE "failed"

Fail(kind) ==
    /\ SetError(kind)
    /\ pc' = FailTo

\* A failure that sets no error.
FailQuietly ==
    /\ UNCHANGED errs
    /\ pc' = FailTo

\* msCGIWriteError: a page about the errors, or a redirection.
WriteError ==
    /\ pc = "failed"
    /\ IF errs = <<>> \/ Head(errs).reported THEN UNCHANGED <<errs, out>>
       ELSE /\ Write("error")
            /\ errs' = [k \in 1 .. Len(errs) |-> [errs[k] EXCEPT !.reported = TRUE]]
    /\ pc' = "end"
    /\ UNCHANGED <<conf, req, form, map, maps, isWMS, finish>>

NumParams ==
    CASE req.params = "some" -> 1 [] req.params = "zero" -> 0 [] OTHER -> -1

\* The request did not ask for anything, so the index page of the map is shown.
ShowIndex ==
    \/ NumParams = 0
    \/ errs # <<>> /\ Head(errs).kind \in {"noquery", "template"}

Fallback ==
    /\ pc = "fallback"
    /\ IF ShowIndex
       THEN \/ Write("index") /\ pc' = "end"
            \/ Write("refusal") /\ pc' = "failed"
       ELSE pc' = "failed" /\ UNCHANGED out
    /\ UNCHANGED <<conf, req, form, map, maps, errs, isWMS, finish>>

-----------------------------------------------------------------------------
(* The process.                                                            *)

\* msLoadConfig and msSetup; without them one request is answered.
Start ==
    /\ pc = "start"
    /\ \/ pc' = "loop" /\ UNCHANGED errs
       \/ pc' = "refuse" /\ SetError("other")
    /\ UNCHANGED <<conf, req, form, map, maps, isWMS, out, finish>>

\* FCGI_Accept returns.
Arrive(r) ==
    /\ pc = "accept"
    /\ ~finish
    /\ pc' = "params"
    /\ req' = r
    /\ errs' = [k \in 1 .. Len(errs) |-> [errs[k] EXCEPT !.own = FALSE]]
    /\ UNCHANGED <<conf, form, map, maps, isWMS, out, finish>>

Refuse ==
    /\ pc = "refuse"
    /\ Write("error")
    /\ pc' = "exit"
    /\ UNCHANGED <<conf, req, form, map, maps, errs, isWMS, finish>>

\* Slip: the handler only sets its own variable; the library goes on waiting.
StopsWaitingNever == FALSE

\* FCGX_ShutdownPending: FCGI_Accept returns -1 instead of waiting.
StopsWaiting == finish

\* The condition of the loop; the requests end when it is false.
Loop ==
    /\ \/ pc = "loop" /\ pc' = IF finish THEN "exit" ELSE "accept"
       \/ pc = "accept" /\ StopsWaiting /\ pc' = "exit"
    /\ UNCHANGED <<conf, req, form, map, maps, errs, isWMS, out, finish>>

\* SIGTERM or SIGUSR1: msCleanupOnSignal, once it is installed.
Signal ==
    /\ IF Started THEN ~finish /\ finish' = TRUE /\ UNCHANGED pc
       ELSE pc # "exit" /\ pc' = "exit" /\ UNCHANGED finish
    /\ UNCHANGED <<conf, req, form, map, maps, errs, isWMS, out>>

\* The mapservObj is freed; the next msAllocMapServObj starts from the defaults.
FreeMapServObj ==
    /\ maps' = IF map THEN maps - 1 ELSE maps
    /\ map' = FALSE
    /\ req' = NoRequest
    /\ Mode' = "none" /\ CoordSource' = "NONE" /\ QueryCoordSource' = "NONE"
    /\ mappnt' = "unset" /\ given' = {} /\ type' = "NULL"

\* end_request: msFreeMapServObj and msResetErrorList; the client has what was
\* written.
EndRequest ==
    /\ pc = "end"
    /\ FreeMapServObj
    /\ errs' = <<>>
    /\ out' = <<>>
    /\ pc' = "loop"
    /\ UNCHANGED <<conf, isWMS, finish>>

-----------------------------------------------------------------------------
(* Parameters, map and dispatch.                                           *)

IsAPIRequest == req.path \in {"map", "ogcapi", "badapi"}

\* loadParams; the first thing main looks at is whether that found anything.
LoadParams ==
    /\ pc = "params"
    /\ CASE req.params = "nomethod" -> Write("text") /\ UNCHANGED errs
         [] req.params = "noquery" -> SetError("noquery") /\ UNCHANGED out
         [] req.params = "unreadable" -> SetError("other") /\ UNCHANGED out
         [] OTHER -> UNCHANGED <<errs, out>>
    /\ pc' = IF IsAPIRequest \/ NumParams # -1 THEN "load"
             ELSE IF conf.index THEN "index" ELSE "failed"
    /\ UNCHANGED <<conf, req, form, map, maps, isWMS, finish>>

\* msCGIDispatchIndexRequest: the maps of the configuration, loaded and freed
\* one by one, or a refusal of the format.
Index ==
    /\ pc = "index"
    /\ Write("index") \/ Write("refusal")
    /\ pc' = "end"
    /\ UNCHANGED <<conf, req, form, map, maps, errs, isWMS, finish>>

\* Slip: only a WMS request sets the flag.
NoteServiceOnce == isWMS' = (isWMS \/ req.service = "WMS")

\* msSetErrorSetIsWMS
NoteService == isWMS' = (req.service = "WMS")

\* Slip: the map is not freed when a parameter is wrong.
MapsAfterFailureKept == {maps, maps + 1}

\* The map may have been read, and is freed when a parameter is wrong.
MapsAfterFailure == {maps, (maps + 1) - 1}

LoadMap ==
    /\ pc = "load"
    /\ NoteService
    /\ map' = TRUE
    /\ maps' = maps + 1
    /\ pc' = IF req.path \in {"ogcapi", "badapi"} THEN "api" ELSE "mode"
    /\ UNCHANGED <<conf, req, form, errs, out, finish>>

LoadMapFails ==
    /\ pc = "load"
    /\ NoteService
    /\ SetError("load")
    /\ maps' \in MapsAfterFailure
    /\ pc' = IF ~req.hasmap /\ conf.index /\ req.path = "root" THEN "index"
             ELSE "failed"
    /\ UNCHANGED <<conf, req, form, map, out, finish>>

\* msCGIDispatchAPIRequest.  Most errors are answered by the API itself.
DispatchAPI ==
    /\ pc = "api"
    /\ \/ req.path = "ogcapi" /\ Write("api") /\ pc' = "end" /\ UNCHANGED errs
       \/ SetError("other") /\ pc' = "failed" /\ UNCHANGED out
    /\ UNCHANGED <<conf, req, form, map, maps, isWMS, finish>>

\* msCGISetMode: an unknown mode, or one the map does not enable.
SetModeFails ==
    /\ pc = "mode"
    /\ req.mode # "none"
    /\ Fail("other")
    /\ UNCHANGED <<conf, req, form, map, maps, isWMS, out, finish>>

OWSModes == {"none", "OWS", "WFS"}

SetMode ==
    /\ pc = "mode"
    /\ req.mode # "invalid"
    /\ Mode' = req.mode
    /\ pc' = IF req.mode \in OWSModes THEN "ows" ELSE "form"
    /\ UNCHANGED <<conf, req, CoordSource, QueryCoordSource, mappnt, given,
                   type, map, maps, errs, isWMS, out, finish>>

Services == {"WMS", "other", "body"}

\* A service answers.
OWSAnswers ==
    /\ pc = "ows"
    /\ req.service \in Services
    /\ Write("ows")
    /\ pc' = "end"
    /\ UNCHANGED <<conf, req, form, map, maps, errs, isWMS, finish>>

\* Slip: the exception is written and its errors are left as they are.
ReportedLeft == errs' = <<NewError("other")>> \o errs

\* The errors after an exception: emptied by most services, marked as
\* reported by WMS and SOS.
Reported ==
    \/ errs' = <<>>
    \/ errs' = [k \in 1 .. Len(errs) + 1 |->
                   [(<<NewError("other")>> \o errs)[k] EXCEPT !.reported = TRUE]]

\* A service has sent the headers of its answer when it cannot go on.
OWSBreaks ==
    /\ pc = "ows"
    /\ req.service \in Services
    /\ Write("headers")
    /\ pc' = "broken"
    /\ UNCHANGED <<conf, req, form, map, maps, errs, isWMS, finish>>

\* A service writes an exception; so does the dispatcher of a strict map when
\* there is no such service.  For a legend that depends on the content WMS may
\* write another one, for it takes the first one for a failure to report.
OWSException ==
    /\ pc \in {"ows", "broken", "again"}
    /\ IF req.service \in Services THEN Reported
       ELSE conf.strict /\ errs' = <<>>
    /\ Write("exception")
    /\ \/ pc' = FailTo
       \/ req.service = "WMS" /\ pc # "again" /\ pc' = "again"
    /\ UNCHANGED <<conf, req, form, map, maps, isWMS, finish>>

\* Mode OWS needs a service; a service or the parser may fail without an
\* exception, and after the headers without an error.
OWSFails ==
    /\ \/ /\ pc = "ows"
          /\ req.service \in Services \/ (Mode # "none" /\ ~conf.strict)
          /\ Fail("other")
       \/ pc = "broken" /\ (Fail("other") \/ FailQuietly)
    /\ UNCHANGED <<conf, req, form, map, maps, isWMS, out, finish>>

\* MS_DONE: not a request to a service.  WMS says this of a document too, for
\* it looks for its parameters in the query string only.
OWSDone ==
    /\ pc = "ows"
    /\ \/ req.service \in {"none", "unknown"} /\ Mode = "none" /\ ~conf.strict
       \/ req.service = "body"
    /\ Mode' = IF Mode = "none" THEN "BROWSE" ELSE Mode
    /\ pc' = "form"
    /\ UNCHANGED <<conf, req, CoordSource, QueryCoordSource, mappnt, given,
                   type, map, maps, errs, isWMS, out, finish>>

-----------------------------------------------------------------------------
(* msCGILoadForm: the last parameter about a place wins, but mapxy and     *)
(* imgxy give way to those before.                                         *)

\* Slip: mapxy is taken whatever was given before.
YieldingOnlyImgxy == {"imgxy"}

Yielding == {"mapxy", "imgxy"}

\* The place of the map that the parameter stands for, and that of the query.
CoordOf(p) ==
    CASE p = "mapext" -> "FROMUSERBOX" [] p = "mapxy" -> "FROMUSERPNT"
      [] p \in {"img.x", "imgxy"} -> "FROMIMGPNT" [] p = "imgbox" -> "FROMIMGBOX"
      [] p = "refxy" -> "FROMREFPNT" [] p = "buffer" -> "FROMBUF"
      [] p = "scale" -> "FROMSCALE" [] p = "tile" -> "FROMTILE"
      [] OTHER -> CoordSource

QueryCoordOf(p) ==
    CASE p = "mapext" -> "FROMUSERBOX"
      [] p \in {"mapxy", "buffer", "scale"} -> "FROMUSERPNT"
      [] p \in {"img.x", "imgxy"} -> "FROMIMGPNT" [] p = "imgbox" -> "FROMIMGBOX"
      [] p = "mapshape" -> "FROMUSERSHAPE" [] p = "imgshape" -> "FROMIMGSHAPE"
      [] OTHER -> QueryCoordSource

LoadPlace(p) ==
    /\ pc = "form"
    /\ Cardinality(given) < req.places
    /\ p \notin given
    /\ given' = given \cup {p}
    /\ mappnt' = IF p = "mapxy" THEN "user" ELSE mappnt
    /\ IF p \in Yielding /\ CoordSource # "NONE"
       THEN UNCHANGED <<CoordSource, QueryCoordSource>>
       ELSE CoordSource' = CoordOf(p) /\ QueryCoordSource' = QueryCoordOf(p)
    /\ UNCHANGED <<pc, conf, req, Mode, type, map, maps, errs, isWMS, out, finish>>

\* A parameter does not validate, or msTileSetup fails.
LoadFormFails ==
    /\ pc = "form"
    /\ req.params = "some" \/ Mode = "TILE"
    /\ Fail("other")
    /\ UNCHANGED <<conf, req, form, map, maps, isWMS, out, finish>>

\* The zoom modes are ways to browse, and so is a click in the reference map.
EffectiveMode ==
    IF Mode \in {"ZOOMIN", "ZOOMOUT"} \/ CoordSource = "FROMREFPNT"
    THEN "BROWSE" ELSE Mode

\* The modes that need an extent, some of which have numbers above QUERY.
ImageModes == {"MAP", "SCALEBAR", "REFERENCE", "TILE", "MAPLEGEND", "MAPLEGENDICON"}

\* Where msCGIDispatchRequest goes; "unsupported" is its last branch.
Handler(mode) ==
    CASE mode = "BROWSE" -> IF conf.template THEN "extent" ELSE "notemplate"
      [] mode \in ImageModes -> "extent"
      [] mode \in {"LEGEND", "LEGENDICON"} -> "produce"
      [] mode \notin ImageModes /\ Number(mode) >= Number("QUERY") -> "query"
      [] mode = "COORDINATE" -> "produce"
      [] OTHER -> "unsupported"

LoadForm ==
    /\ pc = "form"
    /\ Mode' = EffectiveMode
    /\ pc' = Handler(EffectiveMode)
    /\ UNCHANGED <<conf, req, CoordSource, QueryCoordSource, mappnt, given,
                   type, map, maps, errs, isWMS, out, finish>>

-----------------------------------------------------------------------------
(* Browse, image, legend and coordinate requests.                          *)

\* msCGIDispatchBrowseRequest needs a template.
NoTemplate ==
    /\ pc = "notemplate"
    /\ Fail("template")
    /\ UNCHANGED <<conf, req, form, map, maps, isWMS, out, finish>>

\* setExtent computes the point again when it was one of an image.
ExtentPoint ==
    IF CoordSource \in {"FROMIMGPNT", "FROMREFPNT"} THEN "image" ELSE mappnt

\* checkWebScale: for a scale out of bounds a page is written, and the request
\* goes on, or the place is the centre of the extent at the bound.
CheckWebScale(point) ==
    \/ mappnt' = point /\ UNCHANGED <<CoordSource, out>>
    \/ mappnt' = point /\ UNCHANGED CoordSource /\ Write("scalepage")
    \/ mappnt' = "center" /\ CoordSource' = "FROMSCALE" /\ UNCHANGED out

\* setExtent and checkWebScale
Extent ==
    /\ pc = "extent"
    /\ CheckWebScale(ExtentPoint)
    /\ pc' = "produce"
    /\ UNCHANGED <<conf, req, Mode, QueryCoordSource, given, type, map, maps,
                   errs, isWMS, finish>>

\* The headers and the page or image are written.
Produce ==
    /\ pc = "produce"
    /\ Write(CASE Mode = "BROWSE" -> "page" [] Mode = "COORDINATE" -> "coordinate"
               [] OTHER -> "image")
    /\ pc' = "end"
    /\ UNCHANGED <<conf, req, form, map, maps, errs, isWMS, finish>>

\* Anything before fails, without or with a page for the scale or the headers
\* having been written; the image may not be saved without an error (a broken
\* connection).  The coordinate needs neither.
ProduceFails ==
    /\ \/ pc = "extent" /\ (Write("scalepage") \/ UNCHANGED out) /\ Fail("other")
       \/ /\ pc = "produce"
          /\ Mode # "COORDINATE"
          /\ \/ UNCHANGED out /\ Fail("other")
             \/ Write("headers") /\ (Fail("other") \/ FailQuietly)
    /\ UNCHANGED <<conf, req, form, map, maps, isWMS, finish>>

\* The modes that draw the legend, by itself, in the map or for the page.
LegendModes == {"LEGEND", "MAPLEGEND", "MAP", "TILE", "BROWSE"}

\* msDrawLegend and msLegendCalcSize: a legend without height is not drawn, and
\* no error says so.  A map of query results may have the legend as well.
LegendEmpty ==
    /\ conf.wide
    /\ pc \in {"produce", "return"}
    /\ pc = "produce" => Mode \in LegendModes
    /\ FailQuietly
    /\ UNCHANGED <<conf, req, form, map, maps, isWMS, out, finish>>

\* Browsing a query that was saved before (QueryFile).
BrowseQuery ==
    /\ pc = "produce"
    /\ Mode = "BROWSE"
    /\ pc' = "result"
    /\ UNCHANGED <<conf, req, form, map, maps, errs, isWMS, out, finish>>

-----------------------------------------------------------------------------
(* Queries.                                                                *)

Points == {"FROMIMGPNT", "FROMUSERPNT"}

\* Slip: a feature query does not look where its point comes from.
FeatureTypeAny == "POINT"

\* The type of a query for the features at one point.
FeatureType == IF QueryCoordSource \in Points THEN "POINT" ELSE "refused"

\* The type msCGIDispatchQueryRequest gives to the query: search tells that
\* the new extent is to be searched, buffer that there is a distance.
\* Nothing was written for a box in the image (FEATURENQUERY).
QueryType(search, buffer) ==
    CASE Mode \in {"ITEMQUERY", "ITEMNQUERY", "ITEMFEATUREQUERY", "ITEMFEATURENQUERY"} -> "FILTER"
      [] Mode \in {"QUERY", "FEATUREQUERY"} -> FeatureType
      [] Mode = "FEATURENQUERY" ->
            (CASE QueryCoordSource \in Points -> "POINT"
               [] QueryCoordSource = "FROMIMGBOX" -> "NULL"
               [] OTHER -> "RECT")
      [] Mode = "NQUERY" ->
            (CASE QueryCoordSource \in {"FROMIMGSHAPE", "FROMUSERSHAPE"} -> "SHAPE"
               [] QueryCoordSource = "FROMIMGPNT" /\ ~search -> "POINT"
               [] QueryCoordSource = "FROMUSERPNT" /\ ~buffer -> "POINT"
               [] OTHER -> "RECT")
      [] Mode = "INDEXQUERY" -> "INDEX"
      [] OTHER -> "NULL"

\* The point is computed for a click, but a list of items needs none; setExtent
\* is called for the point of a user.
QueryPoint ==
    IF QueryCoordSource = "FROMIMGPNT"
       /\ Mode \in {"QUERY", "NQUERY", "FEATUREQUERY", "FEATURENQUERY"}
    THEN "image" ELSE mappnt

\* NQUERY goes on when setExtent fails, with the error in the list.
Query ==
    /\ pc = "query"
    /\ \E search \in BOOLEAN, buffer \in {FALSE, "buffer" \in given} :
          /\ QueryType(search, buffer) # "refused"
          /\ type' = QueryType(search, buffer)
    /\ mappnt' = QueryPoint
    /\ \/ UNCHANGED errs
       \/ Mode = "NQUERY" /\ CoordSource \in {"NONE", "FROMUSERPNT", "FROMTILE"} /\ SetError("other")
    /\ pc' = "execute"
    /\ UNCHANGED <<conf, req, Mode, CoordSource, QueryCoordSource, given, map,
                   maps, isWMS, out, finish>>

\* A layer, a string or an extent is wrong, or a point missing.
QueryFails ==
    /\ pc = "query"
    /\ Mode \notin {"INDEXQUERY", "OWS", "WFS"}
    /\ Fail("other")
    /\ UNCHANGED <<conf, req, form, map, maps, isWMS, out, finish>>

\* A query saved before (QueryFile) is loaded instead.
LoadQuery ==
    /\ pc = "query"
    /\ pc' = "result"
    /\ UNCHANGED <<conf, req, form, map, maps, errs, isWMS, out, finish>>

\* msExecuteQuery; nothing found is an error if there is a page for it.
Execute ==
    /\ pc = "execute"
    /\ \/ type # "NULL" /\ pc' = "result" /\ UNCHANGED errs
       \/ type # "NULL" /\ conf.empty /\ Fail("notfound")
       \/ Fail("other")
    /\ UNCHANGED <<conf, req, form, map, maps, isWMS, out, finish>>

\* setExtentFromShapes takes the centre of what was found; an image of it is
\* drawn at a scale that is in bounds, whatever checkWebScale returns.
ResultExtent ==
    /\ pc = "result"
    /\ \/ CheckWebScale(mappnt)
       \/ Mode # "BROWSE" /\ CheckWebScale("center")
    /\ UNCHANGED errs \/ SetError("other")
    /\ pc' = "return"
    /\ UNCHANGED <<conf, req, Mode, QueryCoordSource, given, type, map, maps,
                   isWMS, finish>>

\* msReturnTemplateQuery, then msSaveQuery.
Result ==
    /\ pc = "return"
    /\ \/ Write("result") /\ pc' = "end" /\ UNCHANGED errs
       \/ Write("result") /\ Mode # "BROWSE" /\ Fail("other")
       \/ Write("headers") /\ (Fail("other") \/ FailQuietly)
       \/ UNCHANGED out /\ Fail("other")
    /\ UNCHANGED <<conf, req, form, map, maps, isWMS, finish>>

-----------------------------------------------------------------------------
Process ==
    \/ Start \/ Loop \/ LoadParams \/ Index \/ LoadMap \/ LoadMapFails
    \/ DispatchAPI \/ SetMode \/ SetModeFails
    \/ OWSAnswers \/ OWSBreaks \/ OWSException \/ OWSFails \/ OWSDone
    \/ \E p \in Places : LoadPlace(p)
    \/ LoadForm \/ LoadFormFails
    \/ NoTemplate \/ Extent \/ Produce \/ ProduceFails \/ LegendEmpty \/ BrowseQuery
    \/ Query \/ QueryFails \/ LoadQuery \/ Execute \/ ResultExtent \/ Result
    \/ Fallback \/ WriteError \/ EndRequest

Next ==
    \/ Process
    \/ \E r \in Requests : Arrive(r)
    \/ Refuse
    \/ Signal

\* The process runs; nobody is bound to send requests or signals.
Spec == Init /\ [][Next]_vars /\ WF_vars(Process)

-----------------------------------------------------------------------------
(* Properties.                                                             *)

\* What may be written after what was written before: something after the
\* text of loadParams and after a page of checkWebScale, an error or the index
\* page after headers and after results that could not be saved, an exception
\* after headers too and after an exception of WMS, an error after an index
\* page that refused, an index page after an exception.
MayFollow(a, b) ==
    \/ a \in {"text", "scalepage"}
    \/ a \in {"headers", "result"} /\ b \in {"error", "index", "refusal"}
    \/ a \in {"headers", "exception"} /\ b = "exception"
    \/ a = "exception" /\ b \in {"index", "refusal"}
    \/ a = "refusal" /\ b = "error"

\* A request is over without a word to the client, not even headers, only where
\* an empty legend has failed without an error (the early return of
\* msCGIWriteError), and but for the cases of MayFollow it has one answer: no
\* error page follows an exception whose errors it would tell again.
Answered ==
    /\ pc = "end" /\ out = <<>> => conf.wide /\ errs = <<>>
    /\ \A k \in 1 .. Len(out) - 1 : MayFollow(out[k], out[k + 1])

\* What msCGIWriteError says of its early return: without an unreported error
\* there is nothing to tell, so a request that is over has been answered.
SilentOnlyIfAnswered == pc = "end" => out # <<>>

\* The errors that msCGIWriteError tells a client, and that main looks at to
\* choose the index page, are those of its own request, and those of
\* msCGILoadMap have the status of a WMS request if it is one.
OwnErrors ==
    pc \in {"failed", "fallback"} =>
        \A k \in 1 .. Len(errs) :
            /\ errs[k].own
            /\ errs[k].kind = "load" => errs[k].wms = (req.service = "WMS")

\* A process that waits for requests has no map and no error left, and one
\* that works has the map of its request only.
NothingKept ==
    /\ maps = IF map THEN 1 ELSE 0
    /\ pc \in {"loop", "accept"} => maps = 0 /\ errs = <<>>

\* Whatever the mode and the parameters, some branch of msCGIDispatchRequest
\* handles it.  A query is only executed without a type in the cases known:
\* a box in the image with FEATURENQUERY, and a document for WMS in mode OWS
\* or WFS.  A query by shape has a shape, and a query at a point has the point
\* of the parameter; a buffer or scale without mapxy leaves it unset.
QueryDefined ==
    /\ TypeOK
    /\ pc # "unsupported"
    /\ pc = "execute" =>
        /\ type = "NULL" =>
              \/ Mode = "FEATURENQUERY" /\ QueryCoordSource = "FROMIMGBOX"
              \/ Mode \in {"OWS", "WFS"} /\ req.service = "body"
        /\ type = "SHAPE" => given \cap {"mapshape", "imgshape"} # {}
        /\ type = "POINT" =>
              \/ mappnt = "image" /\ given \cap {"img.x", "imgxy"} # {}
              \/ mappnt = "user" /\ "mapxy" \in given
              \/ "mapxy" \notin given /\ given \cap {"buffer", "scale"} # {}

\* The order of the parameters does not decide whether mapxy or imgxy is the
\* place of a query: they count only if no extent, box, buffer or scale was
\* given, and mapxy only if there is no click either.  (A shape given before
\* them is forgotten all the same.)
DefaultsYield ==
    Started /\ pc # "form" =>
        /\ QueryCoordSource = "FROMIMGPNT" /\ "img.x" \notin given =>
              given \cap {"mapext", "imgbox", "buffer", "scale"} = {}
        /\ QueryCoordSource = "FROMUSERPNT" /\ given \cap {"buffer", "scale"} = {} =>
              given \cap {"mapext", "imgbox", "img.x"} = {}

\* After a signal the process ends, also when no request ever comes
\* (msCleanupOnSignal and the loop of main).
SignalEnds == finish ~> pc = "exit"

=============================================================================
