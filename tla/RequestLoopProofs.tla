-------------------------- MODULE RequestLoopProofs --------------------------
(***************************************************************************)
(* For all sets of requests and configurations: the FastCGI process keeps  *)
(* neither a map nor an error from one request to the next, a client is    *)
(* told about the errors of its own request only, every request has an     *)
(* answer, and queries have what they need, whatever the order of the      *)
(* parameters.                                                             *)
(***************************************************************************)
EXTENDS RequestLoop, TLAPS

\* Where the process has no map, and where it has no error.
WithoutMap == {"start", "refuse", "loop", "accept", "params", "load"}
WithoutErrors == {"start", "loop", "accept"}

\* Where no request is being processed.
Between == {"start", "refuse", "loop", "accept", "exit"}

\* The map that is counted is that of the mapservObj, and there is one only
\* after msCGILoadMap has succeeded.
KeptInv ==
    /\ map \in BOOLEAN
    /\ maps = IF map THEN 1 ELSE 0
    /\ pc \in WithoutMap => map = FALSE
    /\ pc \in WithoutErrors => errs = <<>>

\* An error of the request at hand.
OwnError(e) == e.own /\ (e.kind = "load" => e.wms = (req.service = "WMS"))

OwnInv ==
    pc \notin Between => \A k \in 1 .. Len(errs) : OwnError(errs[k])

ErrsOK == errs \in Seq(Errors) /\ isWMS \in BOOLEAN

ProcessInv == KeptInv /\ ErrsOK /\ OwnInv

-----------------------------------------------------------------------------
(* The list of errors.                                                     *)

\* A new error is one of the request, and it is put in front of the others
\* (msSetError).
LEMMA NewErrorOK ==
    ASSUME NEW kind \in {"noquery", "load", "template", "notfound", "other"},
           ErrsOK, isWMS' \in BOOLEAN
    PROVE  /\ NewError(kind) \in Errors
           /\ NewError(kind).own
           /\ NewError(kind).kind = kind
           /\ kind = "load" => NewError(kind).wms = isWMS'
  <1>1. (kind = "load" /\ isWMS') \in BOOLEAN
    OBVIOUS
  <1>. QED  BY <1>1 DEF NewError, Errors

\* Whatever is set after the list was in order, the list is in order.
LEMMA SetErrorOK ==
    ASSUME NEW kind \in {"noquery", "load", "template", "notfound", "other"},
           ErrsOK, isWMS' \in BOOLEAN, SetError(kind), req' = req,
           kind = "load" => isWMS' = (req.service = "WMS"),
           \A k \in 1 .. Len(errs) : OwnError(errs[k])
    PROVE  /\ errs' \in Seq(Errors)
           /\ \A k \in 1 .. Len(errs') : OwnError(errs[k])'
  <1>. DEFINE e == NewError(kind)
  <1>1. /\ e \in Errors
        /\ e.own
        /\ e.kind = kind
        /\ kind = "load" => e.wms = isWMS'
    BY NewErrorOK
  <1>2. errs' = <<e>> \o errs
    BY DEF SetError
  <1>. HIDE DEF e
  <1>3. errs \in Seq(Errors)
    BY DEF ErrsOK
  <1>4. /\ errs' \in Seq(Errors)
        /\ Len(errs') = Len(errs) + 1
        /\ errs'[1] = e
        /\ \A k \in 2 .. Len(errs') : errs'[k] = errs[k - 1]
    BY <1>1, <1>2, <1>3
  <1>5. ASSUME NEW k \in 1 .. Len(errs')
        PROVE  OwnError(errs[k])'
    <2>1. CASE k = 1
      BY <1>1, <1>4, <2>1 DEF OwnError
    <2>2. CASE k # 1
      <3>1. k - 1 \in 1 .. Len(errs) /\ errs'[k] = errs[k - 1]
        BY <1>3, <1>4, <2>2
      <3>. QED  BY <3>1 DEF OwnError
    <2>. QED  BY <2>1, <2>2
  <1>. QED  BY <1>4, <1>5

\* A list whose errors were marked is in order if it was: marking changes
\* neither whose they are nor what they are (ms_error->isreported).
LEMMA MarkedOK ==
    ASSUME NEW list \in Seq(Errors),
           errs' = [k \in 1 .. Len(list) |-> [list[k] EXCEPT !.reported = TRUE]],
           req' = req,
           \A k \in 1 .. Len(list) : OwnError(list[k])
    PROVE  /\ errs' \in Seq(Errors)
           /\ \A k \in 1 .. Len(errs') : OwnError(errs[k])'
  <1>1. ASSUME NEW k \in 1 .. Len(list)
        PROVE  /\ errs'[k] \in Errors
               /\ errs'[k].own = list[k].own
               /\ errs'[k].kind = list[k].kind
               /\ errs'[k].wms = list[k].wms
    <2>1. list[k] \in Errors
      OBVIOUS
    <2>2. errs'[k] = [list[k] EXCEPT !.reported = TRUE]
      OBVIOUS
    <2>. QED  BY <2>1, <2>2 DEF Errors
  <1>2. Len(list) \in Nat
    OBVIOUS
  <1>3. errs' \in Seq(Errors) /\ Len(errs') = Len(list)
    BY <1>1, <1>2
  <1>. QED  BY <1>1, <1>3 DEF OwnError

-----------------------------------------------------------------------------
(* The invariant.                                                          *)

\* Where msCGIDispatchRequest goes, a map has been loaded.
LEMMA HandlerInside ==
    ASSUME NEW mode
    PROVE  Handler(mode) \in {"extent", "notemplate", "produce", "query", "unsupported"}
  BY DEF Handler

\* A failing step that has a map keeps the invariant (Fail).
LEMMA FailKeeps ==
    ASSUME ProcessInv, pc \notin WithoutMap \cup Between,
           NEW kind \in {"template", "notfound", "other"}, Fail(kind),
           UNCHANGED <<req, map, maps, isWMS>>
    PROVE  ProcessInv'
  <1>1. isWMS' \in BOOLEAN /\ req' = req /\ SetError(kind)
    BY DEF ProcessInv, ErrsOK, Fail
  <1>2. /\ errs' \in Seq(Errors)
        /\ \A k \in 1 .. Len(errs') : OwnError(errs[k])'
    BY <1>1, SetErrorOK DEF ProcessInv, OwnInv
  <1>3. pc' \in {"fallback", "failed"}
    BY DEF Fail, FailTo
  <1>4. KeptInv'
    BY <1>3 DEF ProcessInv, KeptInv, WithoutMap, WithoutErrors
  <1>5. ErrsOK'
    BY <1>1, <1>2 DEF ErrsOK
  <1>6. OwnInv'
    BY <1>2 DEF OwnInv
  <1>. QED  BY <1>4, <1>5, <1>6 DEF ProcessInv

\* A step inside of a request that sets no error keeps the invariant.
LEMMA QuietKeeps ==
    ASSUME ProcessInv, pc \notin Between, pc' \notin WithoutMap \cup WithoutErrors,
           UNCHANGED <<req, map, maps, errs, isWMS>>
    PROVE  ProcessInv'
  BY DEF ProcessInv, KeptInv, ErrsOK, OwnInv, OwnError

\* So does a failure that sets no error (FailQuietly).
LEMMA QuietFailKeeps ==
    ASSUME ProcessInv, pc \notin Between, FailQuietly,
           UNCHANGED <<req, map, maps, isWMS>>
    PROVE  ProcessInv'
  <1>1. pc' \in {"fallback", "failed"} /\ UNCHANGED errs
    BY DEF FailQuietly, FailTo
  <1>. QED  BY <1>1, QuietKeeps DEF WithoutMap, WithoutErrors

\* A step inside of a request that sets another error keeps the invariant.
LEMMA ErrorKeeps ==
    ASSUME ProcessInv, pc \notin WithoutMap \cup Between, SetError("other"),
           pc' \notin WithoutMap \cup WithoutErrors, UNCHANGED <<req, map, maps, isWMS>>
    PROVE  ProcessInv'
  <1>1. /\ errs' \in Seq(Errors)
        /\ \A k \in 1 .. Len(errs') : OwnError(errs[k])'
    BY SetErrorOK DEF ProcessInv, ErrsOK, OwnInv
  <1>. QED  BY <1>1 DEF ProcessInv, KeptInv, ErrsOK, OwnInv

\* Every step of the process keeps the invariant.
LEMMA StepKeeps ==
    ASSUME ProcessInv, [Next]_vars
    PROVE  ProcessInv'
  <1>. USE DEF WithoutMap, WithoutErrors, Between
  <1>1. CASE Index
    BY <1>1, QuietKeeps DEF Index, form
  <1>2. CASE OWSAnswers \/ OWSBreaks \/ BrowseQuery
    BY <1>2, QuietKeeps DEF OWSAnswers, OWSBreaks, BrowseQuery, form
  <1>3. CASE Produce
    BY <1>3, QuietKeeps DEF Produce, form
  <1>4. CASE Extent
    BY <1>4, QuietKeeps DEF Extent, form
  <1>5. CASE LoadQuery
    BY <1>5, QuietKeeps DEF LoadQuery, form
  <1>6. CASE SetMode
    BY <1>6, QuietKeeps DEF SetMode, form
  <1>7. CASE OWSDone
    BY <1>7, QuietKeeps DEF OWSDone, form
  <1>8. CASE Fallback
    BY <1>8, QuietKeeps DEF Fallback, form
  <1>9. CASE \E p \in Places : LoadPlace(p)
    BY <1>9, QuietKeeps DEF LoadPlace
  <1>10. CASE LoadForm
    <2>1. pc' \notin WithoutMap \cup WithoutErrors
      BY <1>10, HandlerInside DEF LoadForm
    <2>. QED  BY <1>10, <2>1, QuietKeeps DEF LoadForm
  <1>11. CASE SetModeFails
    BY <1>11, FailKeeps DEF SetModeFails, form
  <1>12. CASE OWSFails
    BY <1>12, FailKeeps, QuietFailKeeps DEF OWSFails, form
  <1>13. CASE LoadFormFails
    BY <1>13, FailKeeps DEF LoadFormFails, form
  <1>14. CASE NoTemplate
    BY <1>14, FailKeeps DEF NoTemplate, form
  <1>15. CASE ProduceFails \/ LegendEmpty
    BY <1>15, FailKeeps, QuietFailKeeps DEF ProduceFails, LegendEmpty, form
  <1>16. CASE QueryFails
    BY <1>16, FailKeeps DEF QueryFails, form
  <1>17. CASE Execute
    <2>1. CASE pc' = "result" /\ UNCHANGED errs
      BY <1>17, <2>1, QuietKeeps DEF Execute, form
    <2>2. CASE Fail("notfound") \/ Fail("other")
      BY <1>17, <2>2, FailKeeps DEF Execute, form
    <2>. QED  BY <1>17, <2>1, <2>2 DEF Execute
  <1>18. CASE Result
    <2>1. CASE pc' = "end" /\ UNCHANGED errs
      BY <1>18, <2>1, QuietKeeps DEF Result, form
    <2>2. CASE Fail("other") \/ FailQuietly
      BY <1>18, <2>2, FailKeeps, QuietFailKeeps DEF Result, form
    <2>. QED  BY <1>18, <2>1, <2>2 DEF Result
  <1>19. CASE DispatchAPI
    <2>1. CASE pc' = "end" /\ UNCHANGED errs
      BY <1>19, <2>1, QuietKeeps DEF DispatchAPI, form
    <2>2. CASE SetError("other") /\ pc' = "failed"
      <3>1. /\ errs' \in Seq(Errors)
            /\ \A k \in 1 .. Len(errs') : OwnError(errs[k])'
        BY <1>19, <2>2, SetErrorOK DEF DispatchAPI, ProcessInv, ErrsOK, OwnInv
      <3>. QED
        BY <1>19, <2>2, <3>1 DEF DispatchAPI, ProcessInv, KeptInv, ErrsOK, OwnInv
    <2>. QED  BY <1>19, <2>1, <2>2 DEF DispatchAPI
  <1>20. CASE Query
    <2>1. CASE UNCHANGED errs
      BY <1>20, <2>1, QuietKeeps DEF Query
    <2>2. CASE SetError("other")
      BY <1>20, <2>2, ErrorKeeps DEF Query
    <2>. QED  BY <1>20, <2>1, <2>2 DEF Query
  <1>21. CASE LoadParams
    <2>1. /\ pc' \in {"load", "index", "failed"}
          /\ pc = "params"
          /\ UNCHANGED <<req, map, maps, isWMS>>
      BY <1>21 DEF LoadParams, form
    <2>2. CASE UNCHANGED errs
      BY <2>1, <2>2 DEF ProcessInv, KeptInv, ErrsOK, OwnInv, OwnError
    <2>3. CASE SetError("noquery") \/ SetError("other")
      <3>1. /\ errs' \in Seq(Errors)
            /\ \A k \in 1 .. Len(errs') : OwnError(errs[k])'
        BY <2>1, <2>3, SetErrorOK DEF ProcessInv, ErrsOK, OwnInv
      <3>. QED
        BY <2>1, <3>1 DEF ProcessInv, KeptInv, ErrsOK, OwnInv
    <2>4. UNCHANGED errs \/ SetError("noquery") \/ SetError("other")
      BY <1>21 DEF LoadParams
    <2>. QED  BY <2>2, <2>3, <2>4
  <1>22. CASE LoadMap
    BY <1>22 DEF LoadMap, NoteService, ProcessInv, KeptInv, ErrsOK, OwnInv, OwnError
  <1>23. CASE LoadMapFails
    <2>1. /\ isWMS' = (req.service = "WMS")
          /\ SetError("load")
          /\ UNCHANGED <<req, map>>
          /\ pc = "load"
          /\ pc' \in {"index", "failed"}
      BY <1>23 DEF LoadMapFails, NoteService
    <2>2. maps' = maps
      BY <1>23, <2>1 DEF LoadMapFails, MapsAfterFailure, ProcessInv, KeptInv
    <2>3. /\ errs' \in Seq(Errors)
          /\ \A k \in 1 .. Len(errs') : OwnError(errs[k])'
      BY <2>1, SetErrorOK DEF ProcessInv, OwnInv
    <2>. QED
      BY <2>1, <2>2, <2>3 DEF ProcessInv, KeptInv, ErrsOK, OwnInv
  <1>24. CASE OWSException
    <2>1. /\ pc \in {"ows", "broken", "again"}
          /\ pc' \in {"fallback", "failed", "again"}
          /\ UNCHANGED <<req, map, maps, isWMS>>
      BY <1>24 DEF OWSException, FailTo
    <2>2. /\ errs' \in Seq(Errors)
          /\ \A k \in 1 .. Len(errs') : OwnError(errs[k])'
      <3>1. CASE errs' = <<>>
        BY <3>1
      <3>2. CASE errs' # <<>>
        <4>. DEFINE list == <<NewError("other")>> \o errs
        <4>1. errs' = [k \in 1 .. Len(errs) + 1 |-> [list[k] EXCEPT !.reported = TRUE]]
          BY <1>24, <3>2 DEF OWSException, Reported
        <4>2. /\ NewError("other") \in Errors
              /\ NewError("other").own
              /\ NewError("other").kind = "other"
          BY <2>1, NewErrorOK DEF ProcessInv, ErrsOK
        <4>3. errs \in Seq(Errors) /\ \A k \in 1 .. Len(errs) : OwnError(errs[k])
          BY <2>1 DEF ProcessInv, ErrsOK, OwnInv
        <4>4. /\ list \in Seq(Errors)
              /\ Len(list) = Len(errs) + 1
              /\ list[1] = NewError("other")
              /\ \A k \in 2 .. Len(list) : list[k] = errs[k - 1]
          BY <4>2, <4>3
        <4>5. ASSUME NEW k \in 1 .. Len(list)
              PROVE  OwnError(list[k])
          <5>1. CASE k = 1
            BY <4>2, <4>4, <5>1 DEF OwnError
          <5>2. CASE k # 1
            <6>1. k - 1 \in 1 .. Len(errs) /\ list[k] = errs[k - 1]
              BY <4>3, <4>4, <5>2
            <6>. QED  BY <4>3, <6>1
          <5>. QED  BY <5>1, <5>2
        <4>. HIDE DEF list
        <4>. QED  BY <2>1, <4>1, <4>4, <4>5, MarkedOK
      <3>. QED  BY <3>1, <3>2
    <2>. QED  BY <2>1, <2>2 DEF ProcessInv, KeptInv, ErrsOK, OwnInv
  <1>25. CASE WriteError
    <2>1. CASE UNCHANGED errs
      BY <1>25, <2>1, QuietKeeps DEF WriteError, form
    <2>2. CASE errs' = [k \in 1 .. Len(errs) |-> [errs[k] EXCEPT !.reported = TRUE]]
      <3>1. /\ errs' \in Seq(Errors)
            /\ \A k \in 1 .. Len(errs') : OwnError(errs[k])'
        BY <1>25, <2>2, MarkedOK DEF WriteError, ProcessInv, ErrsOK, OwnInv
      <3>. QED
        BY <1>25, <3>1 DEF WriteError, ProcessInv, KeptInv, ErrsOK, OwnInv
    <2>. QED  BY <1>25, <2>1, <2>2 DEF WriteError
  <1>26. CASE EndRequest
    <2>1. maps' = 0
      BY <1>26 DEF EndRequest, FreeMapServObj, ProcessInv, KeptInv
    <2>2. map' = FALSE /\ errs' = <<>> /\ pc' = "loop" /\ isWMS' = isWMS
      BY <1>26 DEF EndRequest, FreeMapServObj
    <2>3. KeptInv'
      BY <2>1, <2>2 DEF KeptInv
    <2>4. ErrsOK' /\ OwnInv'
      BY <2>2 DEF ProcessInv, ErrsOK, OwnInv
    <2>. QED  BY <2>3, <2>4 DEF ProcessInv
  <1>27. CASE Start
    <2>1. CASE pc' = "loop" /\ UNCHANGED errs
      BY <1>27, <2>1 DEF Start, ProcessInv, KeptInv, ErrsOK, OwnInv
    <2>2. CASE pc' = "refuse" /\ SetError("other")
      <3>1. errs = <<>> /\ req' = req /\ isWMS' \in BOOLEAN
        BY <1>27 DEF Start, ProcessInv, KeptInv, ErrsOK
      <3>2. errs' \in Seq(Errors)
        BY <2>2, <3>1, SetErrorOK DEF ProcessInv
      <3>. QED
        BY <1>27, <2>2, <3>2 DEF Start, ProcessInv, KeptInv, ErrsOK, OwnInv
    <2>. QED  BY <1>27, <2>1, <2>2 DEF Start
  <1>28. CASE Loop
    BY <1>28 DEF Loop, ProcessInv, KeptInv, ErrsOK, OwnInv
  <1>29. CASE Refuse
    BY <1>29 DEF Refuse, ProcessInv, KeptInv, ErrsOK, OwnInv
  <1>30. CASE Signal
    BY <1>30 DEF Signal, Started, ProcessInv, KeptInv, ErrsOK, OwnInv, OwnError
  <1>31. CASE \E r \in Requests : Arrive(r)
    <2>1. /\ pc = "accept" /\ pc' = "params"
          /\ errs' = [k \in 1 .. Len(errs) |-> [errs[k] EXCEPT !.own = FALSE]]
          /\ UNCHANGED <<map, maps, isWMS>>
      BY <1>31 DEF Arrive
    <2>2. errs = <<>>
      BY <2>1 DEF ProcessInv, KeptInv
    <2>3. errs' = <<>>
      BY <2>1, <2>2
    <2>. QED  BY <2>1, <2>3 DEF ProcessInv, KeptInv, ErrsOK, OwnInv
  <1>32. CASE UNCHANGED vars
    BY <1>32 DEF vars, ProcessInv, KeptInv, ErrsOK, OwnInv, OwnError
  <1>33. CASE ResultExtent
    <2>1. CASE UNCHANGED errs
      BY <1>33, <2>1, QuietKeeps DEF ResultExtent
    <2>2. CASE SetError("other")
      BY <1>33, <2>2, ErrorKeeps DEF ResultExtent
    <2>. QED  BY <1>33, <2>1, <2>2 DEF ResultExtent
  <1>. QED
    BY <1>1, <1>2, <1>3, <1>4, <1>5, <1>6, <1>7, <1>8,
       <1>9, <1>10, <1>11, <1>12, <1>13, <1>14, <1>15, <1>16,
       <1>17, <1>18, <1>19, <1>20, <1>21, <1>22, <1>23, <1>24,
       <1>25, <1>26, <1>27, <1>28, <1>29, <1>30, <1>31, <1>32, <1>33
    DEF Next, Process

\* The invariant holds in every behaviour of the process.
THEOREM ProcessInvariance == Spec => []ProcessInv
  <1>1. Init => ProcessInv
    <2>. SUFFICES ASSUME Init PROVE ProcessInv
      OBVIOUS
    <2>1. pc = "start" /\ map = FALSE /\ maps = 0 /\ errs = <<>> /\ isWMS = FALSE
      BY DEF Init
    <2>2. KeptInv
      BY <2>1 DEF KeptInv
    <2>3. errs \in Seq(Errors)
      BY <2>1
    <2>4. isWMS \in BOOLEAN
      BY <2>1, Zenon
    <2>5. OwnInv
      BY <2>1 DEF OwnInv, Between
    <2>. QED  BY <2>2, <2>3, <2>4, <2>5 DEF ProcessInv, ErrsOK
  <1>2. ProcessInv /\ [Next]_vars => ProcessInv'
    BY StepKeeps
  <1>. QED  BY <1>1, <1>2, PTL DEF Spec

\* A process that waits for a request has no map and no error of an earlier
\* one, and one that works has no map but that of its request (end_request of
\* main and the failing exits of msCGILoadMap).
THEOREM NothingIsKept == Spec => []NothingKept
  <1>1. ProcessInv => NothingKept
    BY DEF ProcessInv, KeptInv, NothingKept, WithoutMap, WithoutErrors
  <1>. QED  BY <1>1, ProcessInvariance, PTL

\* What msCGIWriteError tells a client, and what main decides on, are errors of
\* the request at hand; those of msCGILoadMap have the status of a WMS request
\* exactly if it is one.
THEOREM ErrorsAreOwn == Spec => []OwnErrors
  <1>1. ProcessInv => OwnErrors
    BY DEF ProcessInv, OwnInv, OwnErrors, OwnError, Between
  <1>. QED  BY <1>1, ProcessInvariance, PTL

-----------------------------------------------------------------------------
(* Answers.                                                                *)

\* The last thing written, if any, is one of kinds.
LastIn(kinds) == out = <<>> \/ out[Len(out)] \in kinds

\* There is an error that msCGIWriteError would write.
Fresh == errs # <<>> /\ ~Head(errs).reported

Unwritten == {"start", "refuse", "loop", "accept", "params"}
Reading == {"load", "index", "api", "mode", "ows", "form", "notemplate", "extent",
            "query", "execute"}

\* What an answer may follow.
Before == {"text", "scalepage", "headers", "result", "exception"}

\* What may have been written at each place.  A request that has failed has
\* been answered, or has an error that will be, or an empty legend was its only
\* failure; and it has not been answered by an exception and has an error.
PlacesInv ==
    /\ pc \in Unwritten => out = <<>>
    /\ pc \in Reading => LastIn({"text"})
    /\ pc \in {"produce", "result", "return"} => LastIn({"text", "scalepage"})
    /\ pc = "broken" => out # <<>> /\ out[Len(out)] = "headers"
    /\ pc = "again" => out # <<>> /\ out[Len(out)] = "exception"
    /\ pc = "fallback" => LastIn(Before)
    /\ pc = "failed" => LastIn(Before \cup {"refusal"})
    /\ pc \in {"fallback", "failed"} =>
          /\ out = <<>> => Fresh \/ (conf.wide /\ errs = <<>>)
          /\ out # <<>> /\ out[Len(out)] = "exception" => ~Fresh
    /\ pc = "end" /\ out = <<>> => conf.wide /\ errs = <<>>

AnswerInv ==
    /\ out \in Seq(Outputs)
    /\ \A k \in 1 .. Len(out) - 1 : MayFollow(out[k], out[k + 1])
    /\ PlacesInv

-----------------------------------------------------------------------------
(* Modes and places.                                                       *)

FormTypes ==
    /\ conf \in Configuration
    /\ req \in Request
    /\ Mode \in ModeNames \cup {"none"}
    /\ CoordSource \in Sources
    /\ QueryCoordSource \in Sources \ {"FROMREFPNT", "FROMBUF", "FROMSCALE", "FROMTILE"}
    /\ mappnt \in {"unset", "user", "image", "center"}
    /\ given \subseteq Places
    /\ type \in Types
    /\ finish \in BOOLEAN

\* Where the place of a query comes from, in terms of the parameters given.
SourceInv ==
    /\ CoordSource = "NONE" =>
          given \cap {"mapext", "imgbox", "img.x", "buffer", "scale"} = {}
    /\ QueryCoordSource = "FROMIMGPNT" => given \cap {"img.x", "imgxy"} # {}
    /\ QueryCoordSource = "FROMUSERPNT" => given \cap {"mapxy", "buffer", "scale"} # {}
    /\ QueryCoordSource \in {"FROMIMGSHAPE", "FROMUSERSHAPE"} =>
          given \cap {"mapshape", "imgshape"} # {}
    /\ QueryCoordSource = "FROMIMGPNT" /\ "img.x" \notin given =>
          given \cap {"mapext", "imgbox", "buffer", "scale"} = {}
    /\ QueryCoordSource = "FROMUSERPNT" /\ given \cap {"buffer", "scale"} = {} =>
          given \cap {"mapext", "imgbox", "img.x"} = {}

\* Places after which the point may have been computed again.
Computed == {"produce", "execute", "result", "return", "fallback", "failed", "end", "exit"}

QueryModes == {"QUERY", "NQUERY", "ITEMQUERY", "ITEMNQUERY", "FEATUREQUERY",
               "FEATURENQUERY", "ITEMFEATUREQUERY", "ITEMFEATURENQUERY", "INDEXQUERY"}

\* A mode is known before the form is read; the modes of services get there
\* only with a document that WMS does not see.
ModeInv ==
    /\ pc = "ows" => Mode \in OWSModes
    /\ pc = "form" => Mode \in ModeNames
    /\ pc \in {"form", "query"} /\ Mode \in {"OWS", "WFS"} => req.service = "body"
    /\ pc = "query" => Mode \in QueryModes \cup {"OWS", "WFS"}
    /\ pc # "unsupported"

PointInv ==
    pc \notin Computed => mappnt = IF "mapxy" \in given THEN "user" ELSE "unset"

\* The query that is executed.
ExecuteInv ==
    pc = "execute" =>
        /\ type = "NULL" =>
              \/ Mode = "FEATURENQUERY" /\ QueryCoordSource = "FROMIMGBOX"
              \/ Mode \in {"OWS", "WFS"} /\ req.service = "body"
        /\ type = "SHAPE" => given \cap {"mapshape", "imgshape"} # {}
        /\ type = "POINT" =>
              \/ mappnt = "image" /\ given \cap {"img.x", "imgxy"} # {}
              \/ mappnt = "user" /\ "mapxy" \in given
              \/ "mapxy" \notin given /\ given \cap {"buffer", "scale"} # {}

FormInv == FormTypes /\ SourceInv /\ ModeInv /\ PointInv /\ ExecuteInv

LowModes == {"BROWSE", "ZOOMIN", "ZOOMOUT", "MAP", "LEGEND", "LEGENDICON",
             "REFERENCE", "SCALEBAR", "COORDINATE"}

\* The modes up to COORDINATE have lower numbers than QUERY (the enumeration
\* that main compares with ">=").
LEMMA ModeNumbers ==
    /\ Number("QUERY") = 10
    /\ \A mode \in ModeNames :
          Number(mode) >= 10 <=> mode \notin LowModes
  <1>1. Len(ModeStrings) = 23 /\ ModeStrings[10] = "QUERY"
    BY DEF ModeStrings
  <1>2. \A mode \in ModeNames :
            Number(mode) \in 1 .. 23 /\ ModeStrings[Number(mode)] = mode
    BY <1>1 DEF ModeNames, Number
  <1>3. \A j \in 1 .. 23 : ModeStrings[j] = "QUERY" => j = 10
    BY DEF ModeStrings
  <1>4. "QUERY" \in ModeNames
    BY <1>1 DEF ModeNames
  <1>5. /\ \A j \in 1 .. 9 : ModeStrings[j] \in LowModes
        /\ \A j \in 10 .. 23 : ModeStrings[j] \notin LowModes
    BY DEF ModeStrings, LowModes
  <1>6. ASSUME NEW mode \in ModeNames
        PROVE  Number(mode) >= 10 <=> mode \notin LowModes
    <2>1. Number(mode) \in 1 .. 23 /\ ModeStrings[Number(mode)] = mode
      BY <1>2
    <2>2. CASE Number(mode) >= 10
      <3>1. Number(mode) \in 10 .. 23
        BY <2>1, <2>2
      <3>. QED  BY <1>5, <2>1, <2>2, <3>1
    <2>3. CASE ~(Number(mode) >= 10)
      <3>1. Number(mode) \in 1 .. 9
        BY <2>1, <2>3
      <3>. QED  BY <1>5, <2>1, <2>3, <3>1
    <2>. QED  BY <2>2, <2>3
  <1>. QED  BY <1>2, <1>3, <1>4, <1>6

\* The names of the modes, one by one.
LEMMA ModesListed ==
    ModeNames = {"BROWSE", "ZOOMIN", "ZOOMOUT", "MAP", "LEGEND", "LEGENDICON",
        "REFERENCE", "SCALEBAR", "COORDINATE", "TILE", "OWS", "WFS", "MAPLEGEND",
        "MAPLEGENDICON"} \cup QueryModes
  <1>1. Len(ModeStrings) = 23
    BY DEF ModeStrings
  <1>2. \A j \in 1 .. 23 : ModeStrings[j] \in
       {"BROWSE", "ZOOMIN", "ZOOMOUT", "MAP", "LEGEND", "LEGENDICON",
        "REFERENCE", "SCALEBAR", "COORDINATE", "TILE", "OWS", "WFS", "MAPLEGEND",
        "MAPLEGENDICON"} \cup QueryModes
    BY DEF ModeStrings, QueryModes
  <1>3. /\ ModeStrings[1] = "BROWSE" /\ ModeStrings[2] = "ZOOMIN" /\ ModeStrings[3] = "ZOOMOUT"
        /\ ModeStrings[4] = "MAP" /\ ModeStrings[5] = "LEGEND" /\ ModeStrings[6] = "LEGENDICON"
        /\ ModeStrings[7] = "REFERENCE" /\ ModeStrings[8] = "SCALEBAR"
        /\ ModeStrings[9] = "COORDINATE" /\ ModeStrings[10] = "QUERY"
        /\ ModeStrings[11] = "NQUERY" /\ ModeStrings[12] = "ITEMQUERY"
        /\ ModeStrings[13] = "ITEMNQUERY" /\ ModeStrings[14] = "FEATUREQUERY"
        /\ ModeStrings[15] = "FEATURENQUERY" /\ ModeStrings[16] = "ITEMFEATUREQUERY"
        /\ ModeStrings[17] = "ITEMFEATURENQUERY" /\ ModeStrings[18] = "INDEXQUERY"
        /\ ModeStrings[19] = "TILE" /\ ModeStrings[20] = "OWS" /\ ModeStrings[21] = "WFS"
        /\ ModeStrings[22] = "MAPLEGEND" /\ ModeStrings[23] = "MAPLEGENDICON"
    BY DEF ModeStrings
  <1>. QED  BY <1>1, <1>2, <1>3 DEF ModeNames, QueryModes

\* A step that leaves the form alone and does not go on to the form or to a
\* query keeps what is known of them.
LEMMA FormUntouched ==
    ASSUME FormInv, UNCHANGED form, conf' = conf, req' \in Request, finish' \in BOOLEAN,
           pc' \notin {"ows", "form", "query", "execute", "unsupported"},
           pc \in Computed => pc' \in Computed
    PROVE  FormInv'
  <1>1. FormTypes' /\ SourceInv'
    BY DEF FormInv, FormTypes, SourceInv, form
  <1>2. ModeInv' /\ ExecuteInv'
    BY DEF ModeInv, ExecuteInv
  <1>3. PointInv'
    BY DEF FormInv, PointInv, form
  <1>. QED  BY <1>1, <1>2, <1>3 DEF FormInv

\* The parameters about places: whatever their order, the defaults give way.
LEMMA LoadPlaceKeeps ==
    ASSUME FormInv, NEW p \in Places, LoadPlace(p)
    PROVE  FormInv'
  <1>1. /\ pc = "form" /\ UNCHANGED <<pc, conf, req, Mode, type, finish>>
        /\ p \notin given /\ given' = given \cup {p}
        /\ mappnt' = IF p = "mapxy" THEN "user" ELSE mappnt
    BY DEF LoadPlace
  <1>2. CASE p \in Yielding /\ CoordSource # "NONE"
    <2>1. UNCHANGED <<CoordSource, QueryCoordSource>>
      BY <1>2 DEF LoadPlace
    <2>2. p \in {"mapxy", "imgxy"}
      BY <1>2 DEF Yielding
    <2>3. FormTypes'
      BY <1>1, <2>1 DEF FormInv, FormTypes
    <2>4. SourceInv'
      BY <1>1, <1>2, <2>1, <2>2 DEF FormInv, SourceInv
    <2>5. ModeInv' /\ PointInv' /\ ExecuteInv'
      BY <1>1 DEF FormInv, ModeInv, PointInv, ExecuteInv, Computed
    <2>. QED  BY <2>3, <2>4, <2>5 DEF FormInv
  <1>3. CASE ~(p \in Yielding /\ CoordSource # "NONE")
    <2>1. CoordSource' = CoordOf(p) /\ QueryCoordSource' = QueryCoordOf(p)
      BY <1>3 DEF LoadPlace
    <2>2. p \in {"mapxy", "imgxy"} => CoordSource = "NONE"
      BY <1>3 DEF Yielding
    <2>3. FormTypes'
      BY <1>1, <2>1 DEF FormInv, FormTypes, CoordOf, QueryCoordOf, Sources
    <2>4. SourceInv'
      <3>1. p \in {"mapext", "mapxy", "mapxy=shape", "mapshape", "imgshape", "img.x",
                   "imgxy", "imgbox", "refxy", "buffer", "scale", "tile"}
        BY DEF Places
      <3>2. CASE p \in {"mapext", "imgbox", "img.x"}
        BY <1>1, <2>1, <3>2 DEF FormInv, SourceInv, CoordOf, QueryCoordOf
      <3>3. CASE p \in {"mapxy", "imgxy"}
        BY <1>1, <2>1, <2>2, <3>3 DEF FormInv, SourceInv, CoordOf, QueryCoordOf
      <3>4. CASE p \in {"buffer", "scale"}
        BY <1>1, <2>1, <3>4 DEF FormInv, SourceInv, CoordOf, QueryCoordOf
      <3>5. CASE p \in {"mapshape", "imgshape"}
        BY <1>1, <2>1, <3>5 DEF FormInv, SourceInv, CoordOf, QueryCoordOf
      <3>6. CASE p \in {"mapxy=shape", "refxy", "tile"}
        BY <1>1, <2>1, <3>6 DEF FormInv, SourceInv, CoordOf, QueryCoordOf
      <3>. QED  BY <3>1, <3>2, <3>3, <3>4, <3>5, <3>6
    <2>5. ModeInv' /\ PointInv' /\ ExecuteInv'
      BY <1>1 DEF FormInv, ModeInv, PointInv, ExecuteInv, Computed
    <2>. QED  BY <2>3, <2>4, <2>5 DEF FormInv
  <1>. QED  BY <1>2, <1>3

\* Whatever the mode, a branch of msCGIDispatchRequest handles it, and only
\* the modes for queries get to the queries.
LEMMA LoadFormKeeps ==
    ASSUME FormInv, LoadForm
    PROVE  FormInv'
  <1>1. /\ pc = "form" /\ Mode' = EffectiveMode /\ pc' = Handler(EffectiveMode)
        /\ UNCHANGED <<conf, req, CoordSource, QueryCoordSource, mappnt, given, type, finish>>
    BY DEF LoadForm
  <1>2. Mode \in ModeNames
    BY <1>1 DEF FormInv, ModeInv
  <1>3. /\ EffectiveMode \in ModeNames
        /\ EffectiveMode \notin {"ZOOMIN", "ZOOMOUT"}
        /\ EffectiveMode \in {"OWS", "WFS"} => req.service = "body"
    BY <1>1, <1>2, ModesListed DEF EffectiveMode, FormInv, ModeInv
  <1>. DEFINE mode == EffectiveMode
  <1>. HIDE DEF mode
  <1>4. Handler(mode) # "unsupported" /\ Handler(mode) \notin {"ows", "form", "execute"}
    <2>1. mode \in ModeNames /\ mode \notin {"ZOOMIN", "ZOOMOUT"}
      BY <1>3 DEF mode
    <2>2. Number(mode) >= Number("QUERY") <=> mode \notin LowModes
      BY <2>1, ModeNumbers
    <2>. QED  BY <2>1, <2>2 DEF Handler, ImageModes, LowModes
  <1>5. Handler(mode) = "query" => mode \in QueryModes \cup {"OWS", "WFS"}
    <2>1. mode \in ModeNames
      BY <1>3 DEF mode
    <2>2. Number(mode) >= Number("QUERY") <=> mode \notin LowModes
      BY <2>1, ModeNumbers
    <2>3. Handler(mode) = "query" => mode \notin ImageModes /\ mode \notin LowModes
      BY <2>2 DEF Handler, ImageModes, LowModes
    <2>. QED  BY <2>1, <2>3, ModesListed DEF ImageModes, LowModes
  <1>6. Mode' = mode /\ pc' = Handler(mode)
    BY <1>1 DEF mode
  <1>7. FormTypes' /\ SourceInv'
    BY <1>1, <1>3 DEF FormInv, FormTypes, SourceInv
  <1>8. ModeInv'
    BY <1>1, <1>3, <1>4, <1>5, <1>6 DEF ModeInv, mode
  <1>9. PointInv' /\ ExecuteInv'
    BY <1>1, <1>4, <1>6 DEF FormInv, PointInv, ExecuteInv, Computed
  <1>. QED  BY <1>7, <1>8, <1>9 DEF FormInv

\* A query is given a type and a point that its parameters stand for.
LEMMA QueryKeeps ==
    ASSUME FormInv, Query
    PROVE  FormInv'
  <1>1. /\ pc = "query" /\ pc' = "execute" /\ mappnt' = QueryPoint
        /\ UNCHANGED <<conf, req, Mode, CoordSource, QueryCoordSource, given, finish>>
    BY DEF Query
  <1>2. PICK search \in BOOLEAN, buffer \in {FALSE, "buffer" \in given} :
            /\ QueryType(search, buffer) # "refused"
            /\ type' = QueryType(search, buffer)
    BY DEF Query
  <1>3. Mode \in QueryModes \cup {"OWS", "WFS"} /\ (Mode \in {"OWS", "WFS"} => req.service = "body")
    BY <1>1 DEF FormInv, ModeInv
  <1>4. mappnt = IF "mapxy" \in given THEN "user" ELSE "unset"
    BY <1>1 DEF FormInv, PointInv, Computed
  <1>5. type' \in Types
    BY <1>2 DEF QueryType, FeatureType, Types
  <1>6. FormTypes' /\ SourceInv'
    BY <1>1, <1>5 DEF FormInv, FormTypes, SourceInv, QueryPoint
  <1>7. ModeInv' /\ PointInv'
    BY <1>1 DEF ModeInv, PointInv, Computed
  <1>8. type' = "NULL" =>
            \/ Mode = "FEATURENQUERY" /\ QueryCoordSource = "FROMIMGBOX"
            \/ Mode \in {"OWS", "WFS"} /\ req.service = "body"
    BY <1>2, <1>3 DEF QueryType, FeatureType, QueryModes
  <1>9. type' = "SHAPE" => QueryCoordSource \in {"FROMIMGSHAPE", "FROMUSERSHAPE"}
    BY <1>2 DEF QueryType, FeatureType
  <1>10. type' = "POINT" =>
            /\ QueryCoordSource \in {"FROMIMGPNT", "FROMUSERPNT"}
            /\ Mode \in {"QUERY", "NQUERY", "FEATUREQUERY", "FEATURENQUERY"}
    BY <1>2 DEF QueryType, FeatureType, Points
  <1>11. ExecuteInv'
    BY <1>1, <1>4, <1>8, <1>9, <1>10 DEF FormInv, SourceInv, ExecuteInv, QueryPoint
  <1>. QED  BY <1>6, <1>7, <1>11 DEF FormInv

\* Every step of the process keeps what is known of the form.
LEMMA FormStepKeeps ==
    ASSUME FormInv, [Next]_vars
    PROVE  FormInv'
  <1>. USE DEF Computed
  <1>0. conf \in Configuration /\ req \in Request /\ finish \in BOOLEAN
    BY DEF FormInv, FormTypes
  <1>1. CASE Index \/ OWSAnswers \/ OWSBreaks \/ Produce \/ BrowseQuery \/ LoadQuery
             \/ Fallback \/ DispatchAPI
    BY <1>0, <1>1, FormUntouched
    DEF Index, OWSAnswers, OWSBreaks, Produce, BrowseQuery, LoadQuery, Fallback, DispatchAPI
  <1>2. CASE SetModeFails \/ OWSFails \/ OWSException \/ LoadFormFails \/ NoTemplate
             \/ ProduceFails \/ LegendEmpty \/ QueryFails
    <2>1. pc' \in {"fallback", "failed"} \/ (pc \notin Computed /\ pc' = "again")
      BY <1>2 DEF SetModeFails, OWSFails, OWSException, LoadFormFails, NoTemplate,
                  ProduceFails, LegendEmpty, QueryFails, Fail, FailQuietly, FailTo
    <2>2. UNCHANGED form /\ conf' = conf /\ req' = req /\ finish' = finish
      BY <1>2 DEF SetModeFails, OWSFails, OWSException, LoadFormFails, NoTemplate,
                  ProduceFails, LegendEmpty, QueryFails
    <2>. QED  BY <1>0, <2>1, <2>2, FormUntouched
  <1>3. CASE Execute \/ Result
    <2>1. pc' \in {"fallback", "failed", "result", "end"}
      BY <1>3 DEF Execute, Result, Fail, FailQuietly, FailTo
    <2>2. UNCHANGED form /\ conf' = conf /\ req' = req /\ finish' = finish
      BY <1>3 DEF Execute, Result
    <2>. QED  BY <1>0, <2>1, <2>2, FormUntouched
  <1>4. CASE Start \/ Loop \/ LoadParams \/ LoadMap \/ LoadMapFails \/ WriteError \/ Refuse
    BY <1>0, <1>4, FormUntouched
    DEF Start, Loop, LoadParams, LoadMap, LoadMapFails, WriteError, Refuse
  <1>5. CASE \E r \in Requests : Arrive(r)
    <2>1. pc = "accept" /\ pc' = "params" /\ req' \in Request /\ UNCHANGED <<conf, form, finish>>
      BY <1>5, RequestLoopAssumption DEF Arrive
    <2>. QED  BY <1>0, <2>1, FormUntouched
  <1>6. CASE Signal
    <2>1. CASE Started
      <3>1. finish' = TRUE /\ UNCHANGED <<pc, conf, req, form>>
        BY <1>6, <2>1 DEF Signal
      <3>. QED
        BY <1>0, <3>1 DEF FormInv, FormTypes, SourceInv, ModeInv, PointInv, ExecuteInv, form
    <2>2. CASE ~Started
      BY <1>0, <1>6, <2>2, FormUntouched DEF Signal
    <2>. QED  BY <2>1, <2>2
  <1>7. CASE SetMode
    <2>1. /\ pc = "mode" /\ Mode' = req.mode
          /\ pc' = IF req.mode \in OWSModes THEN "ows" ELSE "form"
          /\ req.mode # "invalid"
          /\ UNCHANGED <<conf, req, CoordSource, QueryCoordSource, mappnt, given, type, finish>>
      BY <1>7 DEF SetMode
    <2>2. req.mode \in ModeNames \cup {"none", "invalid"}
      BY <1>0 DEF Request
    <2>3. FormTypes' /\ SourceInv'
      BY <2>1, <2>2 DEF FormInv, FormTypes, SourceInv
    <2>4. ModeInv'
      BY <2>1, <2>2 DEF ModeInv, OWSModes
    <2>5. PointInv' /\ ExecuteInv'
      BY <2>1 DEF FormInv, PointInv, ExecuteInv
    <2>. QED  BY <2>3, <2>4, <2>5 DEF FormInv
  <1>8. CASE OWSDone
    <2>1. /\ pc = "ows" /\ Mode' = (IF Mode = "none" THEN "BROWSE" ELSE Mode) /\ pc' = "form"
          /\ UNCHANGED <<conf, req, CoordSource, QueryCoordSource, mappnt, given, type, finish>>
          /\ Mode = "none" \/ req.service = "body"
      BY <1>8 DEF OWSDone
    <2>2. Mode' \in ModeNames
      BY <2>1, ModesListed DEF FormInv, FormTypes
    <2>3. FormTypes' /\ SourceInv'
      BY <2>1, <2>2 DEF FormInv, FormTypes, SourceInv
    <2>4. ModeInv'
      BY <2>1, <2>2 DEF ModeInv
    <2>5. PointInv' /\ ExecuteInv'
      BY <2>1 DEF FormInv, PointInv, ExecuteInv
    <2>. QED  BY <2>3, <2>4, <2>5 DEF FormInv
  <1>9. CASE \E p \in Places : LoadPlace(p)
    BY <1>9, LoadPlaceKeeps
  <1>10. CASE LoadForm
    BY <1>10, LoadFormKeeps
  <1>11. CASE Query
    BY <1>11, QueryKeeps
  <1>12. CASE Extent \/ ResultExtent
    <2>1. /\ pc' \in {"produce", "return"}
          /\ mappnt' \in {ExtentPoint, mappnt, "center"}
          /\ CoordSource' \in {CoordSource, "FROMSCALE"}
          /\ UNCHANGED <<conf, req, Mode, QueryCoordSource, given, type, finish>>
      BY <1>12 DEF Extent, ResultExtent, CheckWebScale
    <2>2. FormTypes'
      BY <2>1 DEF FormInv, FormTypes, Sources, ExtentPoint
    <2>3. SourceInv'
      BY <2>1 DEF FormInv, SourceInv
    <2>4. ModeInv' /\ PointInv' /\ ExecuteInv'
      BY <2>1 DEF ModeInv, PointInv, ExecuteInv
    <2>. QED  BY <2>2, <2>3, <2>4 DEF FormInv
  <1>13. CASE EndRequest
    <2>1. /\ pc' = "loop" /\ Mode' = "none" /\ CoordSource' = "NONE" /\ QueryCoordSource' = "NONE"
          /\ mappnt' = "unset" /\ given' = {} /\ type' = "NULL" /\ req' = NoRequest
          /\ UNCHANGED <<conf, finish>>
      BY <1>13 DEF EndRequest, FreeMapServObj
    <2>2. NoRequest \in Request
      BY DEF NoRequest, Request
    <2>3. FormTypes'
      BY <1>0, <2>1, <2>2 DEF FormTypes, Sources, Types
    <2>4. SourceInv' /\ ModeInv' /\ PointInv' /\ ExecuteInv'
      BY <2>1 DEF SourceInv, ModeInv, PointInv, ExecuteInv
    <2>. QED  BY <2>3, <2>4 DEF FormInv
  <1>14. CASE UNCHANGED vars
    BY <1>14 DEF vars, form, FormInv, FormTypes, SourceInv, ModeInv, PointInv, ExecuteInv
  <1>. QED
    BY <1>1, <1>2, <1>3, <1>4, <1>5, <1>6, <1>7, <1>8, <1>9, <1>10, <1>11, <1>12, <1>13, <1>14
    DEF Next, Process

\* What is known of the form and of the query holds in every behaviour.
THEOREM FormInvariance == Spec => []FormInv
  <1>1. Init => FormInv
    <2>. SUFFICES ASSUME Init PROVE FormInv
      OBVIOUS
    <2>1. /\ pc = "start" /\ Mode = "none" /\ CoordSource = "NONE" /\ QueryCoordSource = "NONE"
          /\ mappnt = "unset" /\ given = {} /\ type = "NULL" /\ req = NoRequest
          /\ conf \in Configurations /\ finish = FALSE
      BY DEF Init
    <2>2. NoRequest \in Request /\ conf \in Configuration
      BY <2>1, RequestLoopAssumption DEF NoRequest, Request
    <2>3. FormTypes
      BY <2>1, <2>2 DEF FormTypes, Sources, Types
    <2>4. SourceInv /\ ModeInv /\ PointInv /\ ExecuteInv
      BY <2>1 DEF SourceInv, ModeInv, PointInv, ExecuteInv
    <2>. QED  BY <2>3, <2>4 DEF FormInv
  <1>2. FormInv /\ [Next]_vars => FormInv'
    BY FormStepKeeps
  <1>. QED  BY <1>1, <1>2, PTL DEF Spec

\* mapxy and imgxy give way to the other parameters whatever their order in
\* the request (msCGILoadForm).
THEOREM DefaultsGiveWay == Spec => []DefaultsYield
  <1>1. FormInv => DefaultsYield
    BY DEF FormInv, SourceInv, DefaultsYield
  <1>. QED  BY <1>1, FormInvariance, PTL

-----------------------------------------------------------------------------
(* Every request is answered.                                              *)

\* What is written follows what may come before it.
LEMMA WriteOK ==
    ASSUME AnswerInv, NEW kind \in Outputs, Write(kind),
           out = <<>> \/ MayFollow(out[Len(out)], kind)
    PROVE  /\ out' \in Seq(Outputs)
           /\ \A k \in 1 .. Len(out') - 1 : MayFollow(out'[k], out'[k + 1])
           /\ out' # <<>>
           /\ out'[Len(out')] = kind
  <1>1. out \in Seq(Outputs) /\ \A k \in 1 .. Len(out) - 1 : MayFollow(out[k], out[k + 1])
    BY DEF AnswerInv
  <1>2. out' = Append(out, kind)
    BY DEF Write
  <1>3. /\ out' \in Seq(Outputs) /\ Len(out') = Len(out) + 1
        /\ out'[Len(out) + 1] = kind
        /\ \A k \in 1 .. Len(out) : out'[k] = out[k]
    BY <1>1, <1>2
  <1>4. ASSUME NEW k \in 1 .. Len(out') - 1
        PROVE  MayFollow(out'[k], out'[k + 1])
    <2>1. k \in 1 .. Len(out) /\ out'[k] = out[k]
      BY <1>1, <1>3
    <2>2. CASE k = Len(out)
      <3>1. out # <<>>
        BY <1>1, <2>1
      <3>. QED  BY <1>3, <2>1, <2>2, <3>1
    <2>3. CASE k # Len(out)
      <3>1. k \in 1 .. Len(out) - 1 /\ k + 1 \in 1 .. Len(out)
        BY <1>1, <2>1, <2>3
      <3>. QED  BY <1>1, <1>3, <2>1, <3>1
    <2>. QED  BY <2>2, <2>3
  <1>5. out' # <<>>
    BY <1>1, <1>3
  <1>. QED  BY <1>3, <1>4, <1>5

\* An error that has just been set will be written.
LEMMA SetErrorFresh ==
    ASSUME errs \in Seq(Errors), NEW kind, SetError(kind)
    PROVE  Fresh'
  <1>. DEFINE e == NewError(kind)
  <1>1. errs' = <<e>> \o errs
    BY DEF SetError
  <1>2. ~e.reported
    BY DEF NewError
  <1>. HIDE DEF e
  <1>3. errs' # <<>> /\ Head(errs') = e
    BY <1>1
  <1>. QED  BY <1>2, <1>3 DEF Fresh

\* An error that has been written in an exception will not be written again.
LEMMA ReportedStale ==
    ASSUME errs' = <<>> \/ Reported, errs \in Seq(Errors)
    PROVE  ~Fresh'
  <1>1. CASE errs' = <<>>
    BY <1>1 DEF Fresh
  <1>2. CASE errs' = [k \in 1 .. Len(errs) + 1 |->
                   [(<<NewError("other")>> \o errs)[k] EXCEPT !.reported = TRUE]]
    <2>. DEFINE list == <<NewError("other")>> \o errs
    <2>1. Len(errs) \in Nat /\ list[1] = NewError("other")
      OBVIOUS
    <2>. HIDE DEF list
    <2>2. errs' = [k \in 1 .. Len(errs) + 1 |-> [list[k] EXCEPT !.reported = TRUE]]
      BY <1>2 DEF list
    <2>3. errs'[1] = [NewError("other") EXCEPT !.reported = TRUE]
      <3>1. 1 \in 1 .. Len(errs) + 1
        BY <2>1
      <3>2. errs'[1] = [list[1] EXCEPT !.reported = TRUE]
        BY <2>2, <3>1
      <3>. QED  BY <2>1, <3>2
    <2>4. [NewError("other") EXCEPT !.reported = TRUE].reported = TRUE
      BY DEF NewError
    <2>5. Head(errs') = errs'[1]
      OBVIOUS
    <2>. QED  BY <2>3, <2>4, <2>5 DEF Fresh
  <1>. QED  BY <1>1, <1>2 DEF Reported

\* Where a request is worked on.
Working == Reading \cup {"params", "produce", "result", "return"}

\* Only exceptions and error pages mark errors as reported.
UnmarkedInv == pc \in Working => errs = <<>> \/ Fresh

\* A request that is worked on has no error that was reported already.
LEMMA UnmarkedStep ==
    ASSUME UnmarkedInv, ProcessInv, [Next]_vars
    PROVE  UnmarkedInv'
  <1>. SUFFICES ASSUME pc' \in Working PROVE (errs = <<>> \/ Fresh)'
    BY DEF UnmarkedInv
  <1>. USE DEF Working, Reading
  <1>0. errs \in Seq(Errors)
    BY DEF ProcessInv, ErrsOK
  <1>1. CASE pc \in Working /\ errs' = errs
    BY <1>1 DEF UnmarkedInv, Fresh
  <1>2. CASE \E kind : SetError(kind)
    BY <1>0, <1>2, SetErrorFresh
  <1>3. CASE \E r \in Requests : Arrive(r)
    <2>1. errs = <<>>
      BY <1>3 DEF Arrive, ProcessInv, KeptInv, WithoutErrors
    <2>. QED  BY <1>3, <2>1 DEF Arrive
  <1>4. CASE Start \/ Loop \/ Index \/ OWSAnswers \/ OWSBreaks \/ OWSException \/ OWSFails
             \/ Produce \/ ProduceFails \/ LegendEmpty \/ Result \/ Fallback \/ WriteError
             \/ EndRequest \/ Refuse \/ SetModeFails \/ LoadFormFails \/ NoTemplate \/ QueryFails
    BY <1>4 DEF Start, Loop, Index, OWSAnswers, OWSBreaks, OWSException, OWSFails,
                Produce, ProduceFails, LegendEmpty, Result, Fallback, WriteError, EndRequest,
                Refuse, SetModeFails, LoadFormFails, NoTemplate, QueryFails,
                Fail, FailQuietly, FailTo
  <1>5. CASE LoadParams \/ LoadMap \/ LoadMapFails \/ DispatchAPI \/ SetMode \/ OWSDone
             \/ LoadForm \/ (\E p \in Places : LoadPlace(p))
    BY <1>1, <1>2, <1>5 DEF LoadParams, LoadMap, LoadMapFails, DispatchAPI, SetMode, OWSDone,
                            LoadForm, LoadPlace
  <1>6. CASE Extent \/ BrowseQuery \/ Query \/ LoadQuery \/ Execute \/ ResultExtent
    BY <1>1, <1>2, <1>6 DEF Extent, BrowseQuery, Query, LoadQuery, Execute, ResultExtent, Fail
  <1>7. CASE Signal \/ UNCHANGED vars
    BY <1>1, <1>7 DEF Signal, vars
  <1>. QED
    BY <1>3, <1>4, <1>5, <1>6, <1>7 DEF Next, Process

\* What is known of the marks holds in every behaviour.
THEOREM UnmarkedInvariance == Spec => []UnmarkedInv
  <1>1. Init => UnmarkedInv
    BY DEF Init, UnmarkedInv
  <1>2. UnmarkedInv /\ ProcessInv /\ [Next]_vars => UnmarkedInv'
    BY UnmarkedStep
  <1>. QED  BY <1>1, <1>2, ProcessInvariance, PTL DEF Spec

\* A step that writes nothing and sets no error, on to a place where as much
\* may have been written.
LEMMA NothingWritten ==
    ASSUME AnswerInv, out' = out, PlacesInv'
    PROVE  AnswerInv'
  BY DEF AnswerInv

\* A step that fails: the error will be written, and it may be.
LEMMA FailAnswers ==
    ASSUME AnswerInv, errs \in Seq(Errors), NEW kind, Fail(kind), out' = out,
           LastIn(Before \ {"exception"})
    PROVE  AnswerInv'
  <1>1. Fresh'
    BY SetErrorFresh DEF Fail
  <1>2. pc' \in {"fallback", "failed"}
    BY DEF Fail, FailTo
  <1>3. PlacesInv'
    BY <1>1, <1>2 DEF PlacesInv, LastIn, Before, Unwritten, Reading
  <1>. QED  BY <1>3, NothingWritten

\* As above, after something has been written, and then also without an error.
LEMMA FailAfterWriting ==
    ASSUME AnswerInv, Fail("other") \/ FailQuietly,
           NEW what \in {"headers", "result", "scalepage"}, Write(what),
           LastIn({"text", "scalepage"})
    PROVE  AnswerInv'
  <1>2. pc' \in {"fallback", "failed"}
    BY DEF Fail, FailQuietly, FailTo
  <1>3. /\ out' \in Seq(Outputs)
        /\ \A k \in 1 .. Len(out') - 1 : MayFollow(out'[k], out'[k + 1])
        /\ out' # <<>>
        /\ out'[Len(out')] = what
    BY WriteOK DEF LastIn, MayFollow, Outputs
  <1>4. PlacesInv'
    BY <1>2, <1>3 DEF PlacesInv, LastIn, Before, Unwritten, Reading
  <1>. QED  BY <1>3, <1>4 DEF AnswerInv

\* checkWebScale: at most a page is written.
LEMMA WebScaleAnswers ==
    ASSUME AnswerInv, NEW point, CheckWebScale(point), LastIn({"text", "scalepage"}),
           pc' \in {"produce", "return"}
    PROVE  AnswerInv'
  <1>1. CASE out' = out
    BY <1>1, NothingWritten DEF PlacesInv, LastIn, Unwritten, Reading
  <1>2. CASE Write("scalepage")
    <2>1. /\ out' \in Seq(Outputs)
          /\ \A k \in 1 .. Len(out') - 1 : MayFollow(out'[k], out'[k + 1])
          /\ out' # <<>> /\ out'[Len(out')] = "scalepage"
      BY <1>2, WriteOK DEF LastIn, MayFollow, Outputs
    <2>2. PlacesInv'
      BY <2>1 DEF PlacesInv, LastIn, Unwritten, Reading
    <2>. QED  BY <2>1, <2>2 DEF AnswerInv
  <1>. QED  BY <1>1, <1>2 DEF CheckWebScale

\* A step that answers.
LEMMA EndAnswers ==
    ASSUME AnswerInv, NEW what \in Outputs, Write(what), pc' = "end",
           out = <<>> \/ MayFollow(out[Len(out)], what)
    PROVE  AnswerInv'
  <1>1. /\ out' \in Seq(Outputs)
        /\ \A k \in 1 .. Len(out') - 1 : MayFollow(out'[k], out'[k + 1])
        /\ out' # <<>>
    BY WriteOK
  <1>2. PlacesInv'
    BY <1>1 DEF PlacesInv, Unwritten, Reading
  <1>. QED  BY <1>1, <1>2 DEF AnswerInv

\* Every step of the process keeps what is known of the answer.
LEMMA AnswerStepKeeps ==
    ASSUME AnswerInv, ProcessInv, FormInv, UnmarkedInv, [Next]_vars
    PROVE  AnswerInv'
  <1>. USE DEF Unwritten, Reading
  <1>0. errs \in Seq(Errors) /\ PlacesInv
    BY DEF ProcessInv, ErrsOK, AnswerInv
  <1>1. CASE Start
    <2>1. pc = "start" /\ pc' \in {"loop", "refuse"} /\ out' = out
      BY <1>1 DEF Start
    <2>. QED  BY <1>0, <2>1, NothingWritten DEF PlacesInv
  <1>2. CASE Loop
    <2>1. pc \in {"loop", "accept"} /\ pc' \in {"accept", "exit"} /\ out' = out
      BY <1>2 DEF Loop
    <2>. QED  BY <1>0, <2>1, NothingWritten DEF PlacesInv
  <1>3. CASE LoadParams
    <2>1. pc = "params" /\ out = <<>> /\ pc' \in {"load", "index", "failed"}
      BY <1>0, <1>3 DEF LoadParams, PlacesInv
    <2>2. CASE Write("text")
      <3>1. /\ out' \in Seq(Outputs)
            /\ \A k \in 1 .. Len(out') - 1 : MayFollow(out'[k], out'[k + 1])
            /\ out' # <<>> /\ out'[Len(out')] = "text"
        BY <2>1, <2>2, WriteOK DEF Outputs
      <3>2. PlacesInv'
        BY <2>1, <3>1 DEF PlacesInv, LastIn, Before
      <3>. QED  BY <3>1, <3>2 DEF AnswerInv
    <2>3. CASE out' = out /\ (SetError("noquery") \/ SetError("other"))
      <3>1. Fresh'
        BY <1>0, <2>3, SetErrorFresh
      <3>2. PlacesInv'
        BY <2>1, <2>3, <3>1 DEF PlacesInv, LastIn
      <3>. QED  BY <2>3, <3>2, NothingWritten
    <2>4. CASE out' = out /\ req.params \notin {"nomethod", "noquery", "unreadable"}
      <3>1. NumParams \in {0, 1} \/ req.params \notin {"zero", "some"}
        BY DEF NumParams
      <3>2. req.params \in {"zero", "some"}
        BY <2>4 DEF FormInv, FormTypes, Request
      <3>3. pc' = "load"
        BY <1>3, <3>1, <3>2 DEF LoadParams
      <3>4. PlacesInv'
        BY <2>1, <2>4, <3>3 DEF PlacesInv, LastIn
      <3>. QED  BY <2>4, <3>4, NothingWritten
    <2>. QED  BY <1>3, <2>2, <2>3, <2>4 DEF LoadParams
  <1>4. CASE Index
    <2>1. pc = "index" /\ pc' = "end" /\ (Write("index") \/ Write("refusal")) /\ LastIn({"text"})
      BY <1>0, <1>4 DEF Index, PlacesInv
    <2>. QED  BY <2>1, EndAnswers DEF LastIn, MayFollow, Outputs
  <1>5. CASE LoadMap
    <2>1. pc = "load" /\ pc' \in {"api", "mode"} /\ out' = out
      BY <1>5 DEF LoadMap
    <2>. QED  BY <1>0, <2>1, NothingWritten DEF PlacesInv, LastIn
  <1>6. CASE LoadMapFails
    <2>1. pc = "load" /\ pc' \in {"index", "failed"} /\ out' = out /\ SetError("load")
      BY <1>6 DEF LoadMapFails
    <2>2. Fresh'
      BY <1>0, <2>1, SetErrorFresh
    <2>. QED  BY <1>0, <2>1, <2>2, NothingWritten DEF PlacesInv, LastIn, Before
  <1>7. CASE DispatchAPI
    <2>1. pc = "api" /\ LastIn({"text"})
      BY <1>0, <1>7 DEF DispatchAPI, PlacesInv
    <2>2. CASE Write("api") /\ pc' = "end"
      BY <2>1, <2>2, EndAnswers DEF LastIn, MayFollow, Outputs
    <2>3. CASE SetError("other") /\ pc' = "failed" /\ out' = out
      <3>1. Fresh'
        BY <1>0, <2>3, SetErrorFresh
      <3>. QED  BY <2>1, <2>3, <3>1, NothingWritten DEF PlacesInv, LastIn, Before
    <2>. QED  BY <1>7, <2>2, <2>3 DEF DispatchAPI
  <1>8. CASE SetMode \/ OWSDone \/ LoadQuery \/ BrowseQuery \/ \E p \in Places : LoadPlace(p)
    <2>1. /\ \/ pc \in Reading /\ pc' \in Reading \cup {"result"}
             \/ pc = "produce" /\ pc' = "result"
          /\ out' = out
      BY <1>8 DEF SetMode, OWSDone, LoadQuery, BrowseQuery, LoadPlace
    <2>. QED  BY <1>0, <2>1, NothingWritten DEF PlacesInv, LastIn
  <1>9. CASE LoadForm
    <2>1. pc = "form" /\ out' = out
          /\ pc' \in {"extent", "notemplate", "produce", "query", "unsupported"}
      BY <1>9, HandlerInside DEF LoadForm
    <2>. QED  BY <1>0, <2>1, NothingWritten DEF PlacesInv, LastIn
  <1>10. CASE SetModeFails \/ LoadFormFails \/ NoTemplate \/ QueryFails
    <2>1. pc \in Reading /\ out' = out /\ (Fail("other") \/ Fail("template"))
      BY <1>10 DEF SetModeFails, LoadFormFails, NoTemplate, QueryFails
    <2>2. LastIn(Before \ {"exception"})
      BY <1>0, <2>1 DEF PlacesInv, LastIn, Before
    <2>. QED  BY <1>0, <2>1, <2>2, FailAnswers
  <1>26. CASE OWSFails
    <2>1. pc \in {"ows", "broken"} /\ out' = out
      BY <1>26 DEF OWSFails
    <2>2. LastIn(Before \ {"exception"})
      BY <1>0, <2>1 DEF PlacesInv, LastIn, Before
    <2>3. CASE Fail("other")
      BY <1>0, <2>1, <2>2, <2>3, FailAnswers
    <2>4. CASE pc = "broken" /\ FailQuietly
      <3>1. out # <<>> /\ out[Len(out)] = "headers" /\ pc' \in {"fallback", "failed"}
        BY <1>0, <2>4 DEF PlacesInv, FailQuietly, FailTo
      <3>. QED  BY <2>1, <3>1, NothingWritten DEF PlacesInv, LastIn, Before
    <2>. QED  BY <1>26, <2>3, <2>4 DEF OWSFails
  <1>11. CASE OWSAnswers
    <2>1. pc = "ows" /\ pc' = "end" /\ Write("ows") /\ LastIn({"text"})
      BY <1>0, <1>11 DEF OWSAnswers, PlacesInv
    <2>. QED  BY <2>1, EndAnswers DEF LastIn, MayFollow, Outputs
  <1>27. CASE OWSBreaks
    <2>1. pc = "ows" /\ pc' = "broken" /\ Write("headers") /\ LastIn({"text"})
      BY <1>0, <1>27 DEF OWSBreaks, PlacesInv
    <2>2. /\ out' \in Seq(Outputs)
          /\ \A k \in 1 .. Len(out') - 1 : MayFollow(out'[k], out'[k + 1])
          /\ out' # <<>> /\ out'[Len(out')] = "headers"
      BY <2>1, WriteOK DEF LastIn, MayFollow, Outputs
    <2>. QED  BY <2>1, <2>2 DEF AnswerInv, PlacesInv
  <1>12. CASE OWSException
    <2>1. /\ pc \in {"ows", "broken", "again"} /\ pc' \in {"fallback", "failed", "again"}
          /\ Write("exception")
          /\ LastIn({"text", "headers", "exception"})
          /\ errs' = <<>> \/ Reported
      BY <1>0, <1>12 DEF OWSException, FailTo, PlacesInv, LastIn
    <2>2. ~Fresh'
      BY <1>0, <2>1, ReportedStale
    <2>3. /\ out' \in Seq(Outputs)
          /\ \A k \in 1 .. Len(out') - 1 : MayFollow(out'[k], out'[k + 1])
          /\ out' # <<>> /\ out'[Len(out')] = "exception"
      BY <2>1, WriteOK DEF LastIn, MayFollow, Outputs
    <2>4. PlacesInv'
      BY <2>1, <2>2, <2>3 DEF PlacesInv, LastIn, Before
    <2>. QED  BY <2>3, <2>4 DEF AnswerInv
  <1>13. CASE Extent \/ ResultExtent
    <2>1. pc \in {"extent", "result"} /\ pc' \in {"produce", "return"}
      BY <1>13 DEF Extent, ResultExtent
    <2>2. LastIn({"text", "scalepage"})
      BY <1>0, <2>1 DEF PlacesInv, LastIn
    <2>3. CheckWebScale(ExtentPoint) \/ CheckWebScale(mappnt) \/ CheckWebScale("center")
      BY <1>13 DEF Extent, ResultExtent
    <2>. QED  BY <2>1, <2>2, <2>3, WebScaleAnswers
  <1>14. CASE Produce
    <2>1. /\ pc = "produce" /\ pc' = "end" /\ LastIn({"text", "scalepage"})
          /\ Write("page") \/ Write("coordinate") \/ Write("image")
      BY <1>0, <1>14 DEF Produce, PlacesInv
    <2>. QED  BY <2>1, EndAnswers DEF LastIn, MayFollow, Outputs
  <1>15. CASE ProduceFails
    <2>1. /\ pc \in {"extent", "produce"}
          /\ \/ out' = out /\ Fail("other")
             \/ (Write("headers") \/ Write("scalepage")) /\ (Fail("other") \/ FailQuietly)
      BY <1>15 DEF ProduceFails
    <2>2. LastIn({"text", "scalepage"}) /\ LastIn(Before \ {"exception"})
      BY <1>0, <2>1 DEF PlacesInv, LastIn, Before
    <2>. QED  BY <1>0, <2>1, <2>2, FailAnswers, FailAfterWriting
  <1>28. CASE LegendEmpty
    <2>1. /\ pc \in {"produce", "return"} /\ pc' \in {"fallback", "failed"}
          /\ conf.wide /\ UNCHANGED <<conf, errs, out>>
      BY <1>28 DEF LegendEmpty, FailQuietly, FailTo
    <2>2. LastIn({"text", "scalepage"})
      BY <1>0, <2>1 DEF PlacesInv
    <2>3. errs = <<>> \/ Fresh
      BY <2>1 DEF UnmarkedInv, Working
    <2>. QED  BY <2>1, <2>2, <2>3, NothingWritten DEF PlacesInv, LastIn, Before, Fresh
  <1>16. CASE Query
    <2>1. pc = "query" /\ pc' = "execute" /\ out' = out
      BY <1>16 DEF Query
    <2>. QED  BY <1>0, <2>1, NothingWritten DEF PlacesInv, LastIn
  <1>17. CASE Execute
    <2>1. pc = "execute" /\ out' = out /\ (pc' = "result" \/ Fail("notfound") \/ Fail("other"))
      BY <1>17 DEF Execute, form
    <2>2. LastIn({"text"}) /\ LastIn(Before \ {"exception"})
      BY <1>0, <2>1 DEF PlacesInv, LastIn, Before
    <2>3. CASE pc' = "result"
      BY <2>1, <2>2, <2>3, NothingWritten DEF PlacesInv, LastIn
    <2>. QED  BY <1>0, <2>1, <2>2, <2>3, FailAnswers
  <1>18. CASE Result
    <2>1. pc = "return" /\ LastIn({"text", "scalepage"})
      BY <1>0, <1>18 DEF Result, PlacesInv
    <2>2. LastIn(Before \ {"exception"})
      BY <2>1 DEF LastIn, Before
    <2>3. CASE Write("result") /\ pc' = "end"
      BY <2>1, <2>3, EndAnswers DEF LastIn, MayFollow, Outputs
    <2>4. CASE (Write("result") \/ Write("headers")) /\ (Fail("other") \/ FailQuietly)
      BY <2>1, <2>4, FailAfterWriting
    <2>5. CASE out' = out /\ Fail("other")
      BY <1>0, <2>2, <2>5, FailAnswers
    <2>. QED  BY <1>18, <2>3, <2>4, <2>5 DEF Result
  <1>19. CASE Fallback
    <2>1. /\ pc = "fallback" /\ errs' = errs
          /\ LastIn({"text", "scalepage", "headers", "result", "exception"})
      BY <1>0, <1>19 DEF Fallback, PlacesInv, Before
    <2>2. CASE Write("index") /\ pc' = "end"
      BY <2>1, <2>2, EndAnswers DEF LastIn, MayFollow, Outputs
    <2>3. CASE Write("refusal") /\ pc' = "failed"
      <3>1. /\ out' \in Seq(Outputs)
            /\ \A k \in 1 .. Len(out') - 1 : MayFollow(out'[k], out'[k + 1])
            /\ out' # <<>> /\ out'[Len(out')] = "refusal"
        BY <2>1, <2>3, WriteOK DEF LastIn, MayFollow, Outputs
      <3>2. PlacesInv'
        BY <2>3, <3>1 DEF PlacesInv, LastIn
      <3>. QED  BY <3>1, <3>2 DEF AnswerInv
    <2>4. CASE out' = out /\ pc' = "failed"
      <3>1. (Fresh' <=> Fresh) /\ conf' = conf
        BY <1>19, <2>1 DEF Fallback, Fresh
      <3>. QED  BY <1>0, <2>1, <2>4, <3>1, NothingWritten DEF PlacesInv, LastIn, Before
    <2>. QED  BY <1>19, <2>2, <2>3, <2>4 DEF Fallback
  <1>20. CASE WriteError
    <2>1. /\ pc = "failed" /\ pc' = "end" /\ conf' = conf
          /\ LastIn({"text", "scalepage", "headers", "result", "exception", "refusal"})
          /\ out = <<>> => Fresh \/ (conf.wide /\ errs = <<>>)
          /\ out # <<>> /\ out[Len(out)] = "exception" => ~Fresh
      BY <1>0, <1>20 DEF WriteError, PlacesInv, Before
    <2>2. CASE Fresh
      <3>1. Write("error")
        BY <1>20, <2>2 DEF WriteError, Fresh
      <3>. QED  BY <2>1, <2>2, <3>1, EndAnswers DEF LastIn, MayFollow, Outputs
    <2>3. CASE ~Fresh
      <3>1. out' = out /\ errs' = errs
        BY <1>20, <2>3 DEF WriteError, Fresh
      <3>. QED  BY <2>1, <2>3, <3>1, NothingWritten DEF PlacesInv
    <2>. QED  BY <2>2, <2>3
  <1>21. CASE EndRequest
    <2>1. out' = <<>> /\ pc' = "loop"
      BY <1>21 DEF EndRequest
    <2>. QED  BY <2>1 DEF AnswerInv, PlacesInv
  <1>22. CASE \E r \in Requests : Arrive(r)
    <2>1. pc = "accept" /\ pc' = "params" /\ out' = out
      BY <1>22 DEF Arrive
    <2>. QED  BY <1>0, <2>1, NothingWritten DEF PlacesInv
  <1>23. CASE Refuse
    <2>1. pc = "refuse" /\ pc' = "exit" /\ Write("error") /\ out = <<>>
      BY <1>0, <1>23 DEF Refuse, PlacesInv
    <2>2. /\ out' \in Seq(Outputs)
          /\ \A k \in 1 .. Len(out') - 1 : MayFollow(out'[k], out'[k + 1])
      BY <2>1, WriteOK DEF Outputs
    <2>. QED  BY <2>1, <2>2 DEF AnswerInv, PlacesInv
  <1>24. CASE Signal
    <2>1. out' = out /\ errs' = errs /\ conf' = conf /\ (pc' = pc \/ pc' = "exit")
      BY <1>24 DEF Signal
    <2>. QED  BY <1>0, <2>1, NothingWritten DEF PlacesInv, LastIn, Fresh
  <1>25. CASE UNCHANGED vars
    BY <1>0, <1>25, NothingWritten DEF vars, PlacesInv, LastIn, Fresh
  <1>. QED
    BY <1>1, <1>2, <1>3, <1>4, <1>5, <1>6, <1>7, <1>8, <1>9, <1>10, <1>11, <1>12, <1>13,
       <1>14, <1>15, <1>16, <1>17, <1>18, <1>19, <1>20, <1>21, <1>22, <1>23, <1>24, <1>25,
       <1>26, <1>27, <1>28
    DEF Next, Process

\* What is known of the answer holds in every behaviour.
THEOREM AnswerInvariance == Spec => []AnswerInv
  <1>1. Init => AnswerInv
    BY DEF Init, AnswerInv, PlacesInv, Reading
  <1>2. AnswerInv /\ ProcessInv /\ FormInv /\ UnmarkedInv /\ [Next]_vars => AnswerInv'
    BY AnswerStepKeeps
  <1>. QED
    BY <1>1, <1>2, ProcessInvariance, FormInvariance, UnmarkedInvariance, PTL DEF Spec

\* A request that ends has an answer unless an empty legend was all that failed,
\* and has one only, but for the cases that MayFollow lists (msCGIWriteError and
\* the exits of main).
THEOREM EveryRequestAnswered == Spec => []Answered
  <1>1. AnswerInv => Answered
    BY DEF AnswerInv, PlacesInv, Answered
  <1>. QED  BY <1>1, AnswerInvariance, PTL

\* Every mode has its branch in msCGIDispatchRequest, and what is executed is
\* a query whose type and point come from the parameters.
THEOREM QueriesAreDefined == Spec => []QueryDefined
  <1>1. FormInv /\ AnswerInv /\ ProcessInv => QueryDefined
    <2>. SUFFICES ASSUME FormInv, AnswerInv, ProcessInv PROVE QueryDefined
      OBVIOUS
    <2>1. \A k \in 1 .. Len(errs) : errs[k] \in Errors
      BY DEF ProcessInv, ErrsOK
    <2>2. \A k \in 1 .. Len(out) : out[k] \in Outputs
      BY DEF AnswerInv
    <2>3. map \in BOOLEAN /\ maps \in Nat /\ isWMS \in BOOLEAN
      BY DEF ProcessInv, KeptInv, ErrsOK
    <2>4. TypeOK
      BY <2>1, <2>2, <2>3 DEF FormInv, FormTypes, TypeOK
    <2>. QED  BY <2>4 DEF FormInv, ModeInv, ExecuteInv, QueryDefined
  <1>. QED  BY <1>1, FormInvariance, AnswerInvariance, ProcessInvariance, PTL
=============================================================================
