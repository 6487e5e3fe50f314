# MapServer in TLA+

Specifications, model-checking configurations and machine-checked proofs for the
parts of MapServer in which something can go wrong that a test would hardly
reach: threads that share a pool of connections, mutexes that are initialised on
first use, cursors that several callers move, lists that scripts rearrange,
remote layers that share a request, a process that serves one request after the
other, formats that are shared by counting.
Paths below are relative to the root of the repository; line numbers are those
of the sources beside this directory.

## 1. Inventory

MapServer reads a map file, opens the layers of the map through data drivers,
queries or draws their features and writes an image or a document. It runs as a
CGI or FastCGI program, as a library inside of a server with threads, and behind
the mapscript bindings.

| Part | State it keeps | Operations | What makes it correct |
|---|---|---|---|
| Connection pool, `src/mappool.c` | table of connections with reference count, thread and life span, under `TLOCK_POOL` | register, request, release, close unreferenced, final cleanup | a connection serves one thread at a time, is counted exactly, is closed when it should be and never under a user |
| PostGIS driver, `src/mappostgis.cpp` | libpq connection, result set, row number of a layer | open, close, which/next/get shape | a failing step of an open leaves the pool right; cached rows are given back |
| OGR driver, `src/mapogr.cpp` | data set, current tile, last feature, record index | open, close, read, read tile, cleanup | a section under the lock keeps it; threads never share a data set, for the library is also called without the lock; locks have one order; every call returns |
| MSSQL driver, `src/mapmssql2008.c` | statement of the pooled connection, row number | which/next/get shape | as for PostGIS, on a statement that only goes forward |
| Oracle driver, `src/maporaclespatial.c` | scrollable statement, buffer, row numbers | which/next/get shape | as for PostGIS, with a buffer smaller than the result |
| Layer dispatch, `src/maplayer.c` | the virtual table of a layer | choose the driver, forward calls | the driver of the connection type answers |
| Query results, `src/mapquery.cpp` | result cache of a layer | add a result, query by index | what is retrieved is what was cached |
| Map object, `src/mapobject.c`, `src/mapfile.c` | array of layers, drawing order, layer numbers, reference counts | insert, remove, move, reorder, free | every layer is drawn once, knows its number, is freed with its last holder |
| Mutexes, `src/mapthread.c` | mutexes, how many are initialised | setup, acquire, release | initialised once, held by one thread |
| Errors, `src/maperror.c` | one entry per thread with a chain of errors, under `TLOCK_ERROROBJ` | set, look at, reset | a thread has one entry, its own; latest error at the head |
| Remote layers, `src/mapdraw.c`, `src/mapwmslayer.c`, `src/mapwfslayer.c`, `src/maphttp.c` | array of requests, parameters of the last WMS layer, transfers and their limit | prepare, merge, execute together, hand out, draw | each layer asked for once and as configured; an essential layer never silently missing; drawing ends |
| Request dispatch and FastCGI loop, `src/apps/mapserv.c`, `src/mapservutil.c`, `src/mapows.cpp`, `src/mapserv-index.cpp` | `mapservObj`, the map, the list of errors, the flag for WMS, the flag to finish | accept, read parameters, load the map, choose path, service or mode, answer, clean up | one answer about the request's own errors; nothing kept for the next one; ends after a signal |
| Output formats, `src/mapoutput.c` and its callers | list of formats and current format of a map, counted references of images, masks and scripts | select, apply, append, remove, copy, draw, exchange for a legend or a query | a format lives as long as it is referred to; one request's settings stay in it |
| I/O handlers, `src/mapio.c`; debug state, `src/mapdebug.c`; font cache, `src/fontcache.c` | per-thread lists and caches | get, install, reset | as for errors |
| Projections, `src/mapproject.c`; plugins, `src/mappluginlayer.c` | pools and tables | get and give back, load once | shared state survives failure |
| Map file parser, templates, symbols, labels, drawing, renderers, raster, OGC services, utilities | mostly local | sequential transformations | right output for the input |

How the parts interact. `maplayer.c` calls a driver through the layer's virtual
table; a driver calls the pool, which calls back into the driver to close a
connection while it holds its lock; both use the named mutexes and set errors.
`mapquery.cpp` reads a layer to the end, caches the results, and retrieves them
later, when other layers may have used the same connection. Mapscript objects
hold references on layers and formats of a map. `msDrawMap` prepares the requests of
all remote layers before it draws the first layer. `mapserv` runs everything of one
request between two waits of the FastCGI library, and what a request leaves behind
(map, errors, flags, pooled connections) meets the next one.

What is hard here. Threads between two calls of one open; a pool callback that
takes a second lock; a flag read outside its lock; a server that drops an idle
connection; a failed step after a reference was taken; row numbers that outlive
the rows they count; index spaces that are renumbered while they are searched;
limits (pool slots, buffer rows, errors in a chain); parameters that come in any
order; a server that never answers; a step that fails when a part of the answer is
written; a pointer that is exchanged without counting and put back by name. `PROJECT.json` lists each of
these under "hazards", at its line, with the properties that watch it.

## 2. Modules

| Module | Models | Composes |
|---|---|---|
| `ConnPool` | the table of `mappool.c`: what each pool call does to it | |
| `ConnLease` | abstract: what the notes of `mappool.c` promise users of the pool | |
| `PostGISLayer` | threads opening and closing PostGIS layers, sweeps, a server that drops connections | `ConnPool`; implements `ConnLease` |
| `PostGISProofs` | theorems about `PostGISLayer`, with the lemmas on the table they need | |
| `OgrLayer` | threads in the OGR driver under two mutexes, tile indexes, the callback of the pool | `ConnPool` |
| `OgrLayerProofs` | theorems about `OgrLayer`, with the lemmas on the table they need | |
| `ResultRows` | what all cursors share: query, result cache, retrieval, adverse conditions | |
| `ResultSet` | abstract: what a driver promises the query code | `ResultRows` |
| `PostGISCursor`, `OgrCursor`, `MssqlCursor`, `OracleCursor` | reading and retrieving in each driver | `ResultRows` |
| `LayerCursor` | a layer that reads through the driver of its connection type | the four cursors; implements `ResultSet` |
| `LayerCursorProofs` | theorems about `LayerCursor` and its four drivers | |
| `MapLayers` | the layers of a map, their order, numbers and reference counts | |
| `MapLayersProofs` | theorems about `MapLayers` | |
| `ThreadLocks` | the named mutexes and their lazy initialisation | |
| `ThreadLocksProofs` | theorems about `ThreadLocks` | |
| `ErrorList` | the error list with one entry per thread | |
| `ErrorListProofs` | theorems about `ErrorList` | |
| `RemoteLayers` | the drawing of a map with WMS and WFS layers | |
| `RemoteLayersProofs` | theorems about `RemoteLayers` | |
| `RequestLoop` | the FastCGI process, its requests and its errors | |
| `RequestLoopProofs` | theorems about `RequestLoop` | |
| `OutputFormats` | formats of maps, images and scripts and their counts | |
| `MC...` | small values of the constants and symmetry sets | |

Definitions whose comment begins with "Slip" are variants with a plausible
mistake; each shows that one property notices it. They are not part of any
specification.

### Connection pool and PostGIS (`ConnPool`, `ConnLease`, `PostGISLayer`)

The table is a sequence of records with the fields of `connectionObj`;
connection type and string are one value. An open of a layer is split where
other threads run in the code: the request (`OpenHit`, `OpenMiss`), connecting
(`Connect`, `ConnectFail`), registering (`Register`, or `RegisterFail` when
`realloc` fails), the test of a pooled connection (`TestPooled`,
`AbandonPooled`), the version query (`Opened`). `LayerClose` releases. The two
sweeps hold `TLOCK_POOL` for several steps, one closed connection each, and move
the last entry into the hole as `msConnPoolClose` does. `ServerDrops` is the
environment. The variable `abandoned` counts the references that the failing
exit at `mappostgis.cpp:2474` never gives back. What a successful open
returns is abstracted; libpq is the state of a connection.

`ConnLease` has two variables, the open handles and the handle each layer uses,
and says: opened connections are new, a connection is shared only between layers
of one thread, and closed only when nobody uses it.

### OGR driver (`OgrLayer`)

Taking a mutex, the section under it and giving it back are steps of their own
where a thread can block between them. Not every call into the library is made under
`TLOCK_OGR`: the search for a layer by name or index, the questions about a data set
that was just opened, about items and for composing a statement run without it. These are
places too (`OgrUnlocked`), entered while other threads are in a section. What the mutex
gives is `SectionLocked`: a section that has taken it has it to its end. What keeps threads
apart outside of the sections is that no two of them have the same data set
(`DatasetsApart`). A layer is in one driver call (`call`) at
one place (`pc`). `ReleaseConnection` drops the reference under `TLOCK_POOL` and
goes on, with that lock held, to `DestroyEnter`, which wants `TLOCK_OGR`. An open
may end with a section that takes over the projection of the data set
(`PROJECTION AUTO`), and a tile with a filter. That `msConnPoolRegister` may fail to grow
the table is modelled in `PostGISLayer` and left out here. A tiled
layer has no connection, so the pool ignores it. `IgnoreMissingData` is the build
option of the same name: without it a tile that cannot be opened leads to
`goto NextFile`, behind the acquisition of the lock (`NextFileUnlocked`); what
releasing a mutex of another thread does is a choice of two outcomes. What is
read from data sets is left to `OgrCursor`.

### Cursors (`ResultRows`, `ResultSet`, the four drivers, `LayerCursor`)

A feature is its identifier, a query the sequence of features it yields; some
features cannot be drawn and are skipped. SQL text, geometry decoding and
attributes are abstracted. Reading fills the result cache, results are then
retrieved in any order and any number of times, a new query may come at any
moment, and `queryByIndex` reopens the layer. Reading ends with the last row or, in the
OGR driver, with a failure (`ShapesFail`), when a tile or the shape of a feature cannot be
read. `faults` holds the adverse
conditions of an execution: results are added by `queryByIndex` ("add"), another
layer uses the same MSSQL connection ("share"), MSSQL rows with a NULL geometry
("null"), Oracle fetches that fail ("fail"), an MSSQL query that cannot be run a second
time ("reissue"), after which the statement is closed. Other failures of an MSSQL fetch
are the end of the rows to the code and are not modelled. `LayerCursor` chooses a driver and the
conditions it is exposed to in `Init`, as `msInitializeVirtualTable` does once for
a layer, and hands every call to that driver.

### Map object (`MapLayers`)

The arrays are functions on `0 .. n-1`; slots behind the last layer are `NULL` or
dangling. Actions are the mapscript methods with the functions they call:
constructors, `insertLayer` (at the end, in front of a layer, beyond the end),
`removeLayer`, `getLayer`, destructor, moves up and down, `setLayersDrawingOrder`,
`msFreeMap`. `OrderRemoved` is the pair of loops of `msRemoveLayer`, with the
comparison that happens after the entry was decremented. `msInsertLayer` does not look
whether the layer is in the map already, so a layer may be at several places, with a
reference for each and the number of the place it was put to last; removing one of
its places clears `layer->map`. What still holds then is that a layer that points to the
map is found in it under its number (`IndexNamesLayer`); that the number is right for
every place (`IndexIsPosition`) does not (section 4). Freeing a dangling slot
again is undefined in C and not modelled beyond the pointer.

### Mutexes (`ThreadLocks`) and errors (`ErrorList`)

`ThreadLocks` splits `msThreadInit` at every statement, because
`msAcquireLock` reads `mutexes_initialized` without a lock: entering, the
initialisation of a mutex, the increment of the counter, leaving. With `NDEBUG`
the assertion is not there. `ErrorList` keeps the list in the order in which the
code rearranges it; setting an error is three steps (look, compare, insert) with
the lock released in between, resetting too (take, clear, unlink). Messages are
values; those in `Redacted` are stored without their password, while it is the message as
given that is compared with what is stored.

### Remote layers (`RemoteLayers`)

`pc` names the loop of `msDrawMap` that is running and `i` its index. In the first loop
`PrepareWMS`, `PrepareWFS` and `PrepareMerge` are what `msPrepareWMSLayerRequest` and
`msPrepareWFSLayerRequest` do to the array of requests and to `sLastWMSParams`;
`PrepareOutside` is the early return for a layer that is not in the view, after which
`msDrawMap` still notes the connection type. A URL is the server (with all parameters
that must agree for merging) and the names it asks for. `Start` is the setup of
`msHTTPExecuteRequests` with the one limit it chooses for all transfers; `Answered`
is the environment, `TimesOut` the library at the limit. In the later loops a layer
looks for the request that was made for it; a layer merged into another one's request
finds none and draws nothing itself. Pixels are the sequence of layers that are
painted, 0 for the labels.

### Requests (`RequestLoop`)

A step is a call of `main` or a branch of `msCGIDispatchRequest`; the process has one
thread, so steps only matter for where a signal or a failure can come in between. A
request is the set of choices that the code tests (parameters found, path, service,
mode); parameters about places are read one at a time in any order (`LoadForm...`),
as `msCGILoadForm` does, because each may overwrite `CoordSource` and
`QueryCoordSource`. Errors carry whether they were set in this request and whether the
flag for WMS was right. `out` is the sequence of things that were written. A service may
answer, write an exception, write the headers of an answer and then an exception or
nothing more, and WMS may write a second exception when the legend of what is visible
fails. Most failures set an error; the steps that use `FailQuietly` do not: a
broken connection after the headers, and a legend without classes whose KEYSPACING leaves
it no height (`wide`, `LegendEmpty`). `CheckWebScale` writes its page or moves the place
to the centre at the bound of the scale, with `CoordSource`.
`MapsAfterFailure` says that a map file that cannot be used leaves no map object.

### Formats (`OutputFormats`)

A function of the code is an operator from the state it finds (heap and map) to the
state it leaves, so that a handler (`GetMap`, `GetCoverage`, `ReturnTemplateQuery`,
`DrawLegend`, the methods of mapscript) is the composition of what it calls, with the
uncounted exchanges of `map->outputformat` as they are. A choice names where a draw ends:
it succeeds, or a mask, a layer, the legend or the memory for an image fails; a coverage
may also fail in its mask, its raster, its buffer or when it is saved.
`msOutputFormatValidate` takes the transparency from a JPEG in place, whoever else refers
to it. A map without a current format ends the process when a legend or an icon is asked
for (`DrawLegendWithoutFormat`).

`Careless` names what the passing runs assume of the callers, each as a condition on the
state and the request before the handler runs: that only the last format of a list is
removed; that a legend is embedded into a vector map only while IMAGETYPE names the
current format object (`EmbedExchanges`, `ImageTypeFinds`); and that no draw fails
while the format is exchanged and no image is left behind for lack of memory, of a
buffer or of a place to save it. Each assumption is there because the code does not
count right without it (section 4; `formats_removed` drops the first). Addresses of
formats are interchangeable; the view `ApartFromAddresses` numbers them by first
reference, so that states that differ in addresses only are one.

Left out: the attribute `transparent` that a script may set on a format, the two formats
that are tried for a layer with opacity, and `GetLegendGraphic` of WMS, which is a
composition of the selection and the legend that are modelled.

## 3. Runs

All passing runs explore their complete state space.

| Run | Bounds | Shows |
|---|---|---|
| `postgis_pool` | 2 threads, 4 layers (one of each CLOSE_CONNECTION kind), 3 handles, pool grows by 2, 2 references to a connection at most | exclusiveness, no use after close, exact counts, life span kept (idle only if deferred, ALWAYS never shared), the inductive invariant, and `LeaseSpec`: the pool with its driver implements `ConnLease` |
| `ogr_layers` | 2 threads, 1 layer and 3 layers (one of them tiled, one DEFER) over one data source, 3 data sets, 2 and 3 calls, both builds | no use after close, pooled data sets closed when unused, one lock order; threads never have the same data set, which is all that protects the calls without the lock; with IGNORE_MISSING_DATA a section keeps its lock and every call returns |
| `ogr_nextfile` | as `ogr_layers`, default build | violation, see findings |
| `layer_cursor` | 4 drivers, 3 features of which one cannot be drawn, all queries of up to 3 rows, 4 results, buffer of 2 rows, every set of adverse conditions | `ContractSpec`: each driver implements `ResultSet`, except under conditions it does not tolerate; style of the right shape, right results after re-issue, reads inside the buffer |
| `map_layers` | 4 layers, 3 places in the map, arrays grow by 2, 1 handle per layer, insertions of the same layer again included | order is a permutation, a layer that points to the map is at the place of its number, counts are exact, insertion keeps the order of the others |
| `thread_locks` | 3 threads, 3 mutexes, assertions | each mutex initialised once, held by one thread |
| `error_list` | 3 threads, 4 + 1 + 1 errors of two messages, one with a password, limit 2 | one entry per thread, handles are own, chain in order |
| `remote_layers` | all maps of 3 layers of ten kinds and of 4 layers of four kinds, in which no WMS layer outside of the view comes after a WFS layer | every wanted layer is asked for once, from its server, with its cookie; essential layers are painted; others are painted once or were refused; order of painting; drawing ends |
| `remote_overwritten` | all maps of 4 layers: plain WMS, WMS outside of the view, WFS | violation |
| `request_loop` | any number of requests: every mode with one parameter about places, queries with two, coordinates with three, every combination of path, service and parameters; 6 configurations | every request is answered (but for the empty legend), about its own errors; nothing is kept; queries have type, shape and point; order of parameters does not matter to mapxy and imgxy; a signal ends the process |
| `output_formats` | one map, image and script object, 2 default formats (one not available) and 3 of the user (mixed, vector, JPEG), lists of 2, 3 formats in memory between calls, five ways a draw can go | counts are exact and nothing is freed under a holder; transparency of a request stays in it, but for the reset of a JPEG |
| `formats_removed` | the same with lists of 3, any format removed | violation |

Why the bounds are enough. Two threads are needed for a race on the pool and a
third adds only another competitor for the same entries; two layers in a thread
give shared connections, a third layer in another thread contention, and three
handles let the table outgrow its first two slots. In OGR the second thread is
what a lock order needs, with a layer over a source that the first has as well; three
calls open a layer, change or read a tile and close it, or open two layers and close one. Four layers and steps of two let the map's arrays grow twice and give every
position (first, inner, last) to an insertion and a removal; three places for four
layers hold one layer twice next to another. Three rows with a
buffer of two rows reach the second block, a skipped row in front of, between
and behind delivered ones, and retrieval backwards and forwards. The constants
10 (pool), 64 (layers), 1024 (rows) and 100 (errors) of the code are scaled
down to 2 so that the boundary is crossed; nothing depends on their size. A request
for several layers needs two to be merged, one in between, and one more of another
kind to disturb what is remembered. Between two requests the FastCGI process keeps
only what `NothingKept` and `OwnErrors` are about, so that the state space of a loop
over all requests is finite and complete. Three formats are the one in the list, the
current one and a private copy; lists of two have a last and another format. For the
pool, the OGR locks, the cursors, the layers, the mutexes, the errors, the remote layers
and the requests the proofs below remove the bounds.

Deadlock is not checked in the OGR runs, because each thread
makes a bounded number of calls and then stops (that no thread stops inside of a
call is `CallsReturn`), nor in `thread_locks`, where a failed assertion ends the
process, nor in `request_loop`, where the process exits. In `remote_layers` the end of
a drawing stutters (`Finished`).

Fairness appears in three runs. In `ogr_layers`, weak fairness for every thread of its
steps inside of a call says that a thread that is in a driver call and can take its next
step takes it sometime. The operating system schedules runnable threads, and the code has
no loop that waits. Starting a call is not fair. `CallsReturn` is stated for the
build with IGNORE_MISSING_DATA: the other one skips missing tiles in a loop whose
end is the end of the tile index, which the model does not have. In `remote_layers`,
weak fairness of `Step`: the process goes on and the library ends a transfer whose
limit is over; that a server answers is not presumed, so `DrawEnds` rests on the limit
that `msHTTPExecuteRequests` sets. In `request_loop`, weak fairness of `Process`: the
steps of the process itself, with the library noticing the shutdown flag; neither a
request nor a signal is presumed to come.

## 4. Findings

Each is a run whose property is violated by what the code does; `PROJECT.json`
quotes the line of the repository that says otherwise.

* `ogr_nextfile`: `goto NextFile` reads the tile index without `TLOCK_OGR` and
  then releases the mutex, which another thread may hold.
* `remote_overwritten`: a WMS layer that is outside of the view still becomes the
  last connection type. After WMS, WFS and such a layer, a WMS layer is merged into
  the request of the WFS layer and replaces its URL.
* `formats_removed`: `msRemoveOutputFormat` counts down before it closes the gap, so
  that the last format is cut off and the removed one stays.

Further behaviours that differ from what the code means to do, which the modules show when a
configuration is changed as stated; the definitions are in the modules.

| Property | Change | What happens | Against |
|---|---|---|---|
| `AbandonedNeverUsed` of `PostGISLayer` | none, add it to `PostGISPool.cfg` | a connection that failed its reset still carries its thread, and the thread's next open is handed it | `src/mappostgis.cpp:2475`: "it can never be used again" |
| `RetrievesCached` of `LayerCursor` | `Drivers = {"mssql"}`, `FaultKinds = {"null"}` | the forward loop counts with a function that skips NULL geometries and returns another row or none | the result cache holds the row that was read |
| the same | "add" with PostGIS; "share" with MSSQL; "fail" with Oracle and four rows | a result added by `queryByIndex` replaces the rows; another layer's rows are fetched; row numbers move, the buffer does not | the same |
| `RemoveKeepsOrder` of `MapLayers` | none, add it to `MapLayers.cfg` | `msRemoveLayer` compares after decrementing; the layer behind the removed one loses its place | `src/mapobject.c:622`: "Adjust drawing order" |
| `IndexIsPosition` of `MapLayers` | none, add it to `MapLayers.cfg` | a layer inserted a second time is at two places and has the number of one of them (`src/mapobject.c:556`); a removal of either clears its `layer->map` | `src/mapserver.h:2221`: "Index of layer within parent map's layers array"; `src/mapscript/swiginc/map.i:99`: "Insert a copy of *layer*" |
| `MutualExclusion` of `ThreadLocks` | `NDEBUG = TRUE` | a thread that sees the first mutexes initialised uses one that is not | `src/mapthread.c`: the assertion in `msAcquireLock` |
| `RepeatNotInserted` of `ErrorList` | none, add it to `ErrorList.cfg` | the message as given is compared with the message as stored (`src/maperror.c:404`, `426`), so an error whose message holds a password is inserted each time it repeats, up to the limit | `src/maperror.c:403`: "Insert the error to the list if it is not the same as the previous error" |
| `SilentOnlyIfAnswered` of `RequestLoop` | none, add it to `RequestLoop.cfg` | a legend without classes and with a wide KEYSPACING has no height and fails without an error (`src/maplegend.c:690`); `msCGIWriteError` takes the empty list for a sign that all has been said, and the client is sent nothing | `src/mapservutil.c:76`: "either we have no error, or it was already reported by other means" |
| `FormatRestored` of `OutputFormats` | "embed" in `Careless` | a legend embedded into a vector map puts back the format that IMAGETYPE finds in the list, which need not be the current one, or none | `src/maplegend.c:968`: "restore format" |
| the same | "fail" in `Careless`, `Draws <- MCFailingDraws` | when that legend fails (`src/maplegend.c:961`) nothing is put back, and the map keeps the exchanged format without a reference | the same |
| `QueryRestored` of `OutputFormats` | "fail" in `Careless`, `Draws <- MCPlainDraws` | a query result whose drawing fails (`src/maptemplate.c:405`) leaves the map the format of the result | `src/maptemplate.c:407`: "restore format" |
| `HeldWhileReferenced` of `OutputFormats` | "embed" or "fail" in `Careless` | the counts that follow; and an image or a reference is left behind by a coverage that cannot be filled or saved and by a legend without memory (`src/mapwcs.cpp:3025`, `src/mapwcs.cpp:3063`, `src/maplegend.c`, `src/mapscale.c`) | counting of `msApplyOutputFormat` |

What the properties of `RequestLoop` and `RemoteLayers` had to allow, because the code
does it: the text of `loadParams` and a page of `checkWebScale` can be followed by
anything, headers or results by an error page, headers by an exception, an exception of
WMS by another one, and an exception by the index page (`MayFollow`); an empty legend ends a
request without a word; a JPEG loses its transparency in place; a box in
the image with FEATURENQUERY, or a document for WMS in mode OWS or WFS, makes a query
without a type; a buffer or scale without mapxy queries at the unset point; mapshape
is forgotten when imgxy or mapxy follows; errors outside of WMS lose their HTTP
status; a layer without a cookie may be merged into a request with one; merged layers
are painted beneath local layers in between.

Hazards seen and not covered by a property: the notice processor of a pooled PostGIS
connection keeps a pointer to the layer that made it (`src/mappostgis.cpp:2453`);
layers without CONNECTION bypass the pool and are never closed by it
(`src/mappool.c:190`); the flag of registered drivers is read outside of its lock
(`src/mapogr.cpp:1063`); a failing fetch of Oracle is the end of the rows
(`src/maporaclespatial.c:2603`); GDAL may interrupt sequential reading
(`src/mapogr.cpp:2912`); a failed insertion leaves a dangling spare slot
(`src/mapobject.c:549`);
`setLayerOrder` of Python accepts anything (`pyextend.i:268`); a script's error object
is freed by a reset (`src/maperror.c:267`); thread identifiers are reused
(`src/maperror.c:123`); `gbCurlInitialized` is not locked (`src/maphttp.c:450`).

## 5. Proofs

The theorems hold for all values of the constants that satisfy the named
assumptions, which say what the constants stand for:

* `PoolAssumption`, `PostGISAssumption`, `MapLayersAssumption`,
  `ThreadLocksAssumption`: distinct null values, positive allocation steps, functions
  with the right domains, a finite set of layers.
* `OgrAssumption`: the same, and that a layer has a tile index exactly if it has no
  connection.
* `RowsAssumption`, `LayerCursorAssumption`: the rows of queries are features, the
  drivers are among the four, the Oracle buffer has room for a row.
* `ErrorListAssumption`: there is a thread; the code for "no error" is none of those
  that are set.
* `RequestLoopAssumption`: requests and configurations are records of the right form.
* `RemoteAssumption`: maps are sequences of layers, of which only WMS layers are
  outside of the view, separate or essential, because only the code for WMS reads
  these settings.

Theorems in two modules have a hypothesis more. `LocksExclude` is about a
build with assertions. All theorems about
`RemoteLayers` are about maps in which no WMS layer outside of the view comes after a
WFS layer (`NoOutsideAfterWFS`): `remote_overwritten` is the counterexample without it.

`PostGISProofs`. `PoolInvariance` is `Spec => []PoolInv`; `TypeCorrect`,
`Exclusive`, `NeverUsedAfterClose` and `CountsExact` follow from it. None of these
properties is inductive by itself: that a connection is not closed under its user
needs exact counts; exact counts need that pooled connections are open and
pairwise different (`PoolOK`), so that a release finds the entry it means, and
that a layer holds a handle exactly between connecting and closing (`HandleOK`);
the holders of an entry belong to the thread and the data source it names
(`HolderOK`); a connection that is not, or not yet, in the table has a single
holder (`UnpooledOK`); only pooled connections carry abandoned references
(`AbandonedOK`); a sweep stays inside of the table, and the final one runs when
no layer holds a pooled connection (`SweepOK`, `FinalOK`). The proof has lemmas for what each
table operation does to entries (`RegisteredLemma`, `ClosedLemma`, `TakenLemma`,
`DroppedLemma`), for the cardinality of the set of holders (`HoldersTake`,
`HoldersGive`), and one per action.
`LifespansKept` adds to `PoolInv` that an entry without a reference was registered
with DEFER and that one registered with ALWAYS has one reference at most (`LifeInv`),
which a registration, a hit, a release and the entry that a close moves into the hole
must each keep. `LeaseKept` is `Spec => LeaseSpec`, the refinement of `ConnLease`, step
by step: connecting is `Open` of a new handle; a hit is `Share`, inside of a thread because of
`HolderOK`; a release is `Leave` or `LeaveAndClose`, the latter only when the count, which is
exact, says that nobody else uses the handle; a sweep is `Close`; the other steps
change nothing that users see.

`OgrLayerProofs`. `OgrInvariance` is `Spec => []OgrInv`, with four parts. `ShapeInv`
says for each place in a call which data set the layer has in its hand, in its file and
in its tile. `LocksInv` says that a thread is in one call, that the owner of a mutex is at a place
where it holds it, and the converse, which for `TLOCK_OGR` holds only in the build without the
jump behind the lock; `SectionsLocked`, for that build, and `LocksOrdered` follow. `PoolInv` is about
data sets: entries are different and open, counts are the numbers of users, a data set
that is being closed is still in the table and has no reference, an entry without
reference is kept for good or is being closed, a data set outside of the pool has one
layer (the lemmas on the table and on holders are the same ones). The last three are needed because the callback of the pool waits for
`TLOCK_OGR` between the decision to close and the close, while another thread holding
`TLOCK_OGR` goes on; `NeverDestroyedInUse` and `UnusedAreClosed` follow.
`DatasetsStayApart` follows too: an entry in use names the thread of its users, and a data
set outside of the table has one layer.

`LayerCursorProofs`. `CursorInvariant` is `Spec => []CursorInv`, where `CursorInv` says
for each driver how its private counters relate to the rows of the query and to the
result cache. While rows are read (`ReadingAt`) the driver holds the rows of the
query, stands at the row delivered last, and the cache holds rows of the query under
their positions (`FromQuery`). Afterwards the cache is that of the query whose rows the
driver still holds, or `queryByIndex` filled it and every result goes by
identifier (`ById`): a mixture would be retrieved by the wrong numbers. On top of
this, `PostGISInv` needs nothing; `OgrInv` says that the count of features
read is right or is -1, which forces a new start; `MssqlInv` that the
statement stands where `row_num` says, unless another layer may
have used it; `OracleInv` that the buffer begins at row `row_num - row` and ends within
the result, unless a fetch failed. `StyleInv` adds that the last feature is kept as long as
its shape. `DriversKeepContract` is the refinement of `ResultSet`, and it is proved together with
the invariant, action by action: each lemma about an action (`NewQueryRows`,
`AddResultRows`, ...) says both what it leaves and which step of the contract it is. That a
driver which skips rows of its own delivers the row that the contract means is
`ContractNextShape`: both take the first row that can be drawn behind
the one delivered last, the driver counting from its own position. The
Oracle driver skips whole blocks; that the block it arrives at contains the row is
arithmetic (`BlockBounds`). `OracleReadsInside` and `StyleIsOfShape` are parts of the
invariant; the first holds with failing fetches too, when the driver no longer
knows where its buffer begins but still stays inside of it. `ReissueReadsRight` is an action
property: a query without rows that cannot be drawn that is issued again does not
depend on where the shared statement was, and `FromQuery` says that the row under the
asked number is the cached one.

`MapLayersProofs`. `LayersInvariance` is `Spec => []LayersInv`, where `LayersInv` joins
types, `OrderIsPermutation`, `IndexNamesLayer` and `RefCountExact`. A layer may be at any
number of places, so that counting them is part of each step: an insertion moves the places
behind it and adds one, a removal moves them and takes one away (a bijection, with the
library's cardinality facts), and the number that is right before is right after, for it
moves with its place;
`LayersTyped`, `DrawnExactlyOnce`, `IndexRight` and `RefCountRight` follow. The types alone need
the permutation (a removal must find its entry), the permutation needs lemmas on
insertion, removal, exchange and appending (`PermInsert`, `PermRemove`, `PermSwap`,
`PermAppend`); that an order accepted by `setLayersDrawingOrder` is onto is the
pigeonhole principle (`PermOnto`, from the library's cardinality facts). The
removal that takes the entry n or n+1, whichever comes first, still leaves a
permutation; that it may exchange two layers is the finding above.
`InsertsKeepOrder` is an action property: from the invariant, a step that inserts leaves
the other layers in the drawing order they had, under the numbers that the insertion gave them.

`ThreadLocksProofs`. `InitialisedOnce` holds with and without assertions, from the
invariant `InitInv`: only the thread that holds `core_lock` counts, and a mutex
has been initialised exactly if it is below the counter or is the one being
counted. `LocksExclude` adds that only
initialised mutexes are waited for or held, and that a mutex that is held knows by
whom (`LocksInv`).

`ErrorListProofs`. `ListsInvariance` is `Spec => []ListsInv`; `OneEntryHolds`,
`HandleStaysOwn` and `ChainsStayInOrder` follow. The lock
protects single looks at the list only, so the invariant carries what a thread knows from one
look to the next: the list holds an entry once and the entries of different
threads (`ListInv`); what a thread has in its hand is its own entry, and it has set
nothing if it has none (`HandInv`); a chain is never longer than the count that limits it, even
when there was no memory for an element (`LengthInv`); its errors are in order and the
newest is the one set last, or older while one is being set (`ChainInv`). That
other threads move entries to the front of the list in between is a lemma on the
rearranged sequence.

`RemoteLayersProofs`. `RequestsInvariance` is about the first loop of `msDrawMap`, the
one that shares requests. That the layers named in a request agree with the one it was made
for (`AllFitting`), that none is named twice (`NamedOnce`, `NamedBefore`) and none is
forgotten (`AllNamed`) is not inductive without `Remembered`: the parameters in
`sLastWMSParams` are those of the last request whenever the next layer may be merged
by them, which is what a layer outside of the view breaks. `RequestsAsConfigured` and
`RequestsAreComplete` follow. `ImageInvariance` is about the other loops. Every layer
and the labels get a turn on one scale (`Turn`), and the state of the drawing is a
point on it (`Now`); everything in the image has a painter whose turn is
over (`AllPainted`), once (`PaintedOnce`) and in the order of turns (`PaintedInTurn`),
and every layer whose turn is over was painted, refused or empty (`AllHandled`).
`EssentialsDelivered`, `WantedPaintedOrRefused` and `PaintingInTurn` follow; they
use `RequestsInv` for the layers that are painted in the image of another one.

`RequestLoopProofs`. `ProcessInvariance` is `Spec => []ProcessInv`; `NothingIsKept` and
`ErrorsAreOwn` follow. `NothingKept` is not inductive: that a load leaves one map needs that there is
none before (`KeptInv` names the places without a map), and that the end of a request
leaves none needs that the count and the pointer agree. `OwnErrors` needs the same of
every place inside of a request (`OwnInv`) and that the list is empty when a request
arrives; what is put in front of the list or marked as reported stays a list of
errors of this request (`SetErrorOK`, `MarkedOK`). `AnswerInvariance` gives
`EveryRequestAnswered`: for each place, what may have been written so far
(`PlacesInv`), and that a request that failed was answered, has an error that will
be, or is one for a legend in a configuration with a wide KEYSPACING. What was written
and the errors change together at few steps, for which there are lemmas
(`ErrorKeeps`, `QuietFailKeeps`, `WebScaleAnswers`). That an error of a request that is
still worked on is not yet marked as reported is `UnmarkedInvariance`. `FormInvariance` gives `DefaultsGiveWay` and `QueriesAreDefined`: what the
parameters that were read say of `CoordSource` and `QueryCoordSource` in whatever order
they came (`SourceInv`), which modes reach the form (`ModeInv`), where the point of a
query is from (`PointInv`), and what is known of the query that is executed
(`ExecuteInv`).

Only model-checked, and why:

* `CallsReturn`, `DrawEnds`, `SignalEnds`: liveness rests on fairness, and so on
  ENABLED, which the prover does not treat.
* `HeldWhileReferenced` and `SettingsKept` of `OutputFormats`: a handler is a
  composition of operators over the whole heap, with folds over the list of formats,
  and what a fold computes for every list is an induction over data.
* The type invariant of `OutputFormats`, for the same reason.

## 6. Not modelled

Text and data transformations (map file parser, templates, OGC services, SQL),
floating point geometry, pixels and file formats, and vendored code: they have no
shared state of their own and are out of reach of an explicit-state checker.
Most lines of the repository are of these kinds: embedded fonts, the vendored
rasteriser and OpenGL headers, the generated lexer and parsers, and the XML writers of
the services together are far more than the code with state that several callers
share, so that the share of lines that a model can stand for is small.
Drivers' geometry decoding and attribute handling. The Windows variant of the
mutexes, the single-thread build of the error list, debug reports of the pool.
Of remote layers: proxies, authentication, the limit on the size of a download, the
requests for legends and feature information. Of requests: what the handlers compute,
`msCGIHandler`, the Windows build. Of formats: options and renderers.
`PROJECT.json` names every part and the reason under "components".

## 7. Plan

In the order of importance.

1. Done: pool and PostGIS, OGR locks, cursors of four drivers with their contract, map
   layers, mutexes, error list, remote layers and the FastCGI loop, each with proofs;
   output formats, model-checked.
2. Proofs: the counting of one call of `OutputFormats` at a time
   (`HeldWhileReferenced`), with the folds over lists taken apart into steps.
3. Per-thread state: `mapio.c` and `mapdebug.c` keep lists like the error list; ends
   of threads and reuse of identifiers, `msCleanup`.
4. Lists below a layer (`layerobject.c`, `classobject.c`) and a second map in
   `MapLayers`.
5. Projection contexts, plugin table, font cache, union layers.
6. Pure algorithms against reference definitions: quadtree search (`maptree.c`),
   hash table (`maphash.c`), bit array (`mapbits.c`).
7. Opening of MSSQL and Oracle layers over the pool.
