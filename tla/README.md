# TLA+ models of the oneseismic API

This directory holds TLA+ models of the oneseismic API query server. The
sources are under `src/`, and the behaviour it promises is in `spec.md`. The
models are checked with TLC. Every run is listed in `PROJECT.json` with its
module, its configuration, the properties it checks and the result it expects.
`PROJECT.json` also maps every definition to the source lines it models, lists
the mutants that show each property can fail, and lists the hazards of the
code.

## The system

A request reaches the server through gin:

1. The route table is set up in `cmd/query/main.go` (`setupApp`).
2. A public entry point such as `SlicePost` or `AttributesPost` binds the
   request (`parseGetRequest` / `parsePostRequest`) and calls a handler of
   `Endpoint`.
3. The handler runs `metadata`, `slice`, `fence` or `attributes`. These are
   the Go part of `internal/core/capi.cpp`, from line 498 on.

A handler does the following, in this order:

- It opens a connection.
- It computes the request's fingerprint and looks it up in the shared
  response cache. A hit is served only to a connection that
  `IsAuthorizedToRead`.
- It opens a `VDSHandle` (`NewVDSHandle`).
- It parses its arguments.
- It calls the C API twice: once for the metadata and once for the data.
- It stores the result in the cache and writes the response.

Any error aborts the handler through `abortOnError`. The error's type gives
the HTTP status: `InvalidArgument` gives 400, anything else gives 500.
`HttpRoutes.fence` is a second fence handler. It has no cache and gets its
data from a scheduler.

The attribute request is the part of the code that runs concurrently.
`VDSHandle.GetAttributes` (`core.go` 554-668) works in four steps:

1. It validates the attribute names, the window and the surface rows.
2. It asks `horizon_buffer_offsets` for the prefix-sum table `dataOffset`,
   which gives where each cell's vertical window lies in the horizon buffer.
3. It runs `fetchHorizon`. This is a pool of goroutines. The pool is bounded
   by a semaphore channel `guard` of capacity max(nrows/2, 1), and each
   goroutine reads one chunk of nrows cells. Results come back on the
   channel `errs`, whose capacity is hsize/chunkSize + 1.
4. It runs `calculateAttributes`. This starts up to 32 goroutines without a
   semaphore, each on ceil(hsize/32) cells. Every goroutine calls
   `C.attribute`, which writes one float per cell and attribute into a
   shared output buffer.

Both pools join by receiving one value per goroutine, and both return the
first error. The C++ core that computes the values (`cppapi`) is not under
`src/`.

## Modules

| Module | Models | State | Actions |
|---|---|---|---|
| `HorizonBuffer` | the `dataOffset` prefix sum and the horizon buffer size (`core.go` 621-641) | none; operators only | `OffsetAt` (RECURSIVE), the prefix sum; `Region`, the slots of a range of cells; `HorizonBufferSize` |
| `FetchHorizon` | `VDSHandle.fetchHorizon` (`core.go` 670-744) and `C.horizon` | loop variables, `guard` tokens, the `errs` queue, per-goroutine state, the set of buffer slots written, the result | `Spawn`, `SpawnDone`, `Collect`, `Return`; per goroutine `Horizon`, `SendErr`, `ReleaseGuard` |
| `CalculateAttributes` | `VDSHandle.calculateAttributes` (`core.go` 746-822) and `C.attribute` (`capi.cpp` 327-391) | loop variables, `errs`, per-goroutine ranges, the output slots written with fill, value or a value reduced from unfetched zeros; the horizon slots fetched, which it only reads | `Spawn`, `SpawnDone`, `Collect`, `Return`; per goroutine `Attribute`, `SendErr` |
| `GetAttributes` | `VDSHandle.GetAttributes` | the request's inputs, a stage, the response, and one instance each of `FetchHorizon` and `CalculateAttributes` over the same surface | `Prepare` (validation in code order), `Offsets`, `FetchStep`, `FetchReturned`, `AttributeStep`, `AttributesReturned` |
| `AttributesAbstract` | what an attribute request promises (spec.md 4.6, 7, 8) | inputs, response, maps | one atomic `Answer` |
| `ResponseCache` | the LRU cache of spec.md 4.7; `internal/cache` is not under `src/` | `lru` (keys, least recent first) and `store` | `Get`, `Set` with eviction |
| `LegacyHorizon` | the legacy `fetch_horizon` and `write_fillvalue` (`vds.cpp` 340-482), and `getHorizon`'s error conversion (`part_004` 371-375) | the surface, the cell the walk is at, the output index `i`, `noval_indicies`, the voxels requested, the buffer, the HTTP status | `NoValueCell` (fill or out of plane), `OutOfVertical` (the `runtime_error`), `InRangeCell` (the window loop), `Respond` (`read_samples` then `write_fillvalue`) |
| `LegacyRequest` | one request to the legacy Go package `vds` (`part_004`): `GetSlice`/`fetch_slice` (`vds.cpp` 133-159), `GetFence`/`fetch_fence` (`vds.cpp` 205-288) or `getHorizon`, composed with `LegacyHorizon` by `INSTANCE` | the request kind and its inputs (slice direction and cube unit, fence points in half-voxel units), the fence loop index, the voxel centres handed to `read_traces`, whether a slice was read, a step, the status; the horizon's variables | `Open` (the `DataHandle`), `UnitCheck` (`unit_validation`), `SetSlice`, `ReadSlice`, `FenceArgs` (the Go pair check and `&ccoordinates[0]`), `FencePoint` (`validate_boundary`, +0.5), `ReadTraces`, `Horizon` (a `LegacyHorizon` step) |
| `LegacyAbstract` | what a legacy request promises (spec.md 4.1, 4.3-4.5, 7), not code: the specification `LegacyRequest` refines | the request (kind, direction, unit, lineno, fence points, surface), the answer and the data it carries | `Answer`: 200 with the exact result for a legal request, 500 for any, 400 for an illegal one |
| `SurfaceInput` | the prologue of `VDSHandle.GetAttributes` (`core.go` 554-619) with `toCdata` and `toCRegularSurface` (`core.go` 301-356) | the surface rows, `above`/`below`, the names, a step counter, the C data of the surface being built, the data of every surface built, the C surfaces live and those whose `Close` is deferred, the status | `CheckNames` (`GetAttributeType` on each name, its switch over the lower-cased name), `CheckWindow`, `Dims` (the `Values[0]` index), `ToCdata`, `ToCSurface` (`&cdata[0]`, then `regular_surface_new`), `Return` (the rest of the function, any status), `AttributesPanic` (with no attribute names, a goroutine of `calculateAttributes` panics and the process exits) |
| `Configuration` | start-up in `cmd/query/main.go`: `parseopts`, the parse helpers, `main` up to the two `Run` calls | the environment (the trusted proxies as comma-separated segments, each an address with or without spaces around it), the flags, the parsed options, the main and metrics goroutines' steps, the ports bound | `Parseopts` (environment, then flags, then `--help`), `Start` (`SetTrustedProxies` on the list `parseAsListOfStrings` split and trimmed, the metrics goroutine), `RunApp`, `RunMetrics` |
| `Endpoint` | the handlers of `capi.cpp` 514-935, serving concurrent requests over one `ResponseCache` | per request: user, fingerprint, program counter, HTTP status, parts held, the C objects its `VDSHandle` holds and whether its `Close` is deferred; the cache | `Bind`, `ValidateWindow`, `Connect`, `Lookup`, `OpenHandle` (`NewVDSHandle`, then `defer handle.Close()`), `Parse`, `Shape`, `Meta`, `Data`, `SetAndWrite`, `WriteMetadata` |

Each `MC_*` module instantiates a model for TLC and gives its constants. The
`.cfg` files choose the specification, the properties and the bounds.

### How the models follow the code

- **Goroutines and channels.** A goroutine is an entry of `worker`, with a
  state (`running`, `sending`, `releasing`, `done`) and its own
  `[from, to)`. `from` and `to` are passed as arguments in the code, which
  is why each goroutine gets its own copy. A buffered channel is a counter
  (`guard`) or a sequence (`errs`). A send is enabled only while the
  channel is below its capacity, and a receive only while it is non-empty,
  as in Go.
- **Data is abstracted.** The floats a goroutine writes are modelled as the
  set of buffer slots it writes. An attribute value is `"fill"` or
  `"value"`: the fill value is written exactly when the cell owns no
  samples in the horizon buffer. Each C call has a nondeterministic
  outcome, `ok` or an error status.
- **Handlers.** A handler is the sequence `Steps(kind)` of its calls in code
  order. A request's `pc` indexes that sequence. Each step is one action
  whose guards are the code's checks. A failing step goes through `Abort`,
  which models `abortOnError` and `httpStatusCode`.
- **Composition.** `GetAttributes` includes both pools with
  `INSTANCE ... WITH`, renaming their variables. The goroutines of
  `fetchHorizon` keep running after it returns: they still take their
  `guard` token back while `calculateAttributes` runs.

## Runs

| Run | Checks | Bounds |
|---|---|---|
| `fetch_horizon` | `TypeOK`, `DisjointWrites`, `WritesInsideBuffer`, `JoinedOnReturn`, `AllOrNothing`, `Termination` | shapes 1x1, 2x3, 4x3; outcomes ok / bad_request / runtime; every fill pattern up to 6 cells, 4 representative patterns of the 12-cell surface |
| `calculate_attributes` | `TypeOK`, `NoEmptyRange`, `DisjointWrites`, `AllOrNothing`, `Termination` | pool bound 3 in place of 32; shapes of 1, 3, 4 and 5 cells; up to 2 attributes; every fill pattern |
| `get_attributes` | `AbstractSpec` (refinement) | shapes 1x2 and 2x2, every fill pattern, pool bound 3, up to 2 attributes, every C call may fail |
| `endpoint` | `TypeOK`, `OnlyAuthorizedRead`, `NoPartialResponses`, `InvalidRequestsRejected`, `NoHandleLeak`, `EveryRequestAnswered` | 2 concurrent requests, an authorized and an unauthorized user, every handler kind with valid and malformed arguments, every call may fail with 400 or 500; a 3-byte cache that holds one 2-byte entry, so a Set of another fingerprint evicts |
| `legacy` | `TypeOK`, `OutputAligned`, `RequestedInsideCube`, `SliceReadOnlyInItsDomain`, `FenceTracesInsideCube`, `ImplementsLegacyAbstract` | slices along inline, k, time, depth and sample on cubes in ms, m and unitless, with a valid or invalid lineno; fences of up to 2 points on a 2x2 cube, each point malformed or at half-voxel -2, -1, 2 or 3 on each axis (-1 and 3 are the edges -0.5 and 1.5: one is in, one is out); horizons of 3 cells on a vertical axis of 4 samples with a window of 1 above and 1 below, every cell fill, out of plane, or at depth 0-3; opening and reading may fail |
| `legacy_status` (violation) | `CallerFaultIsBadRequest` | as `legacy`, with reads that never fail |
| `surface_input` | `TypeOK`, `CSurfaceMatchesInput`, `NoSurfaceLeak` | attribute lists of no name or one of "min", "MIN", "rms", "minimum" and ""; surfaces of up to 2x2 cells (ragged, empty and with empty rows included) over the values -1 (the fill value), 1 and 3; windows -1, 0 and 2; every `regular_surface_new` may fail |
| `surface_empty` (violation) | `MalformedInputIsBadRequest` | as `surface_input` |
| `surface_fill` (violation) | `FillPatternPreserved` | as `surface_input`; value 1 shifted by -2 is the fill value |
| `configuration` | `TypeOK`, `ServesConfiguredPort`, `PanicsOnlyOnInvalidSetting`, `ServesWhenConfigValid` | each variable unset, text, or a numeral of 13, 14, 33 or 65 bits (the 33-bit one is 8080 modulo 2^32); `--port` absent, valid or 33-bit; metrics words "", "true", "yes"; trusted proxies unset, one address, one padded with spaces, a list "a, b", a bogus address, a lone space, and a trailing comma; `--metrics` and `--help` on and off |
| `configuration_ports` (violation) | `MetricsApartFromApi` | as `configuration` |

What the runs show:

- **fetchHorizon cannot deadlock** (`Termination`). The loop blocks on
  `guard` while goroutines block on `errs`. Because `errs` has one slot per
  chunk, every goroutine can send and release its token. The 2x3 shape
  makes this case happen: one token and three chunks. Its mutant sizes
  `errs` like the pool, and TLC then finds the deadlock.
- **The chunk arguments are needed** (`DisjointWrites`). Goroutines never
  write the same slot, because each takes `from` and `to` as arguments.
  Reading the loop variables instead (the mutant) makes two goroutines on
  the 4x3 shape write the same slots.
- **The buffer size is right** (`WritesInsideBuffer`). Every write lands
  inside the buffer allocated from `dataOffset[hsize] * 4`. This includes
  the all-fill surface, whose buffer is 1 byte and which no goroutine
  writes.
- **The joins wait for everyone** (`JoinedOnReturn`, `AllOrNothing`). Each
  pool returns only after every goroutine has reported. It returns all the
  data exactly when every chunk or range succeeded, and otherwise the error
  of a failed one.
  - A goroutine of `fetchHorizon` may still be taking its `guard` token
    back, and freeing its C context, after `fetchHorizon` has returned.
    TLC showed this. Neither step touches the buffer, so the property
    allows the `releasing` state.
- **The attribute ranges are never empty** (`NoEmptyRange`).
  `C.attribute` rejects an empty range with "No data to iterate over", and
  the ceil division means it never receives one. Truncating division
  (the mutant) yields empty ranges whenever hsize < 32. The model scales the
  bound down to 3, so that 1, 3, 4 and 5 cells fall below, on and above
  it.
- **GetAttributes implements the atomic request** (`AbstractSpec`).
  `GetAttributes`, with its interleaved pools, implements
  `AttributesAbstract` under a refinement mapping:
  - a malformed request is answered 400;
  - a valid request is answered either with an error and nothing else, or
    with `nAttributes` complete maps, with the fill value exactly where the
    surface has no window, and elsewhere a value reduced from the window
    `fetchHorizon` read.

  `C.attribute` reads the horizon buffer as it is when it runs: a cell
  whose window no goroutine of `fetchHorizon` wrote is reduced from the
  zeros of `make([]byte, ...)`. `CalculateAttributes` therefore reads the
  set of fetched slots, which `GetAttributes` maps to the slots written by
  its `FetchHorizon` instance. Dropping the error check after
  `fetchHorizon` (the mutant, `core.go` 653-655) lets a failed chunk's
  cells reach a 200, and TLC reports the refinement violated.
- **Only authorized users read data** (`OnlyAuthorizedRead`). This matters
  because the cache key leaves the credentials out, so an authorized
  user's request can fill the cache for an unauthorized one. It rests on
  two things: the `IsAuthorizedToRead` check on a hit, and `NewVDSHandle`
  failing without read access. `NewVDSHandle` may fail for an authorized
  user too, with either status.
- **No response is partial** (`NoPartialResponses`). A 200 response always
  carries metadata and data, and the cache never holds an entry built from
  a failed call.
- **Malformed requests never reach the cube's data**
  (`InvalidRequestsRejected`). Every handler opens the cube before it
  parses its arguments (`capi.cpp` 592-597, 625-632, 697-712), so a
  malformed request whose open fails is answered 500. Once the cube is
  open, the answer is 400. A malformed request never reaches a metadata
  or data call, and it is never served from the cache, though slice and
  fence look the cache up before they parse: only a request that passed
  every check fills the cache under its key. Mapping every error to 500
  (the mutant) breaks this.
- **No VDSHandle outlives its request** (`NoHandleLeak`). `NewVDSHandle`
  allocates a C context before it opens the cube. When the open fails, it
  frees the context itself. Once the open succeeds, the handler's deferred
  `Close` frees the datahandle and the context on every return path. That
  includes the attributes handler's cache hit, which comes after the open.
  Each handler, abort and write path ends holding nothing.
- **Every request is answered** (`EveryRequestAnswered`).
- **The C surfaces are the input** (`CSurfaceMatchesInput`). `toCdata`'s
  index arithmetic lays the rows out in row-major order, and its fill
  test leaves fill cells unshifted. This is checked against a flattening
  of the rows.
- **No C surface leaks** (`NoSurfaceLeak`). Whichever of the three
  `regular_surface_new` calls fails, and on the panic paths, every surface
  built has its `Close` deferred and is freed on return.
- **Finding: unchecked input panics** (`surface_empty`). A surface with
  no rows panics at `Values[0]` (`core.go:581`), one with empty rows at
  `&cdata[0]` (`core.go:338`). gin.Recovery answers 500, where spec.md 7
  calls malformed input a bad request. An empty attribute list is worse.
  It passes every check and reaches `calculateAttributes`, whose
  goroutines take `&cAttributes[0]` (`core.go:788`). A panic in a
  goroutine is outside gin.Recovery, so it ends the server. TLC's
  shortest counterexample is the empty surface. The crash state is
  reachable too: an invariant `pc # "crashed"` alone is violated by a
  one-cell surface with no attribute names.
- **Finding: a shifted value can become the fill value** (`surface_fill`).
  The top and bottom surfaces are the primary one shifted by -above and
  +below, except at fill cells (`core.go:321`). A populated cell whose
  shifted value equals the fill value then carries the fill value in the
  top or bottom surface. `docs/attribute.md` (lines 16-17) says a cell
  holding the fill value is treated as missing. The C code that does so
  (cppapi) is not under `src/`. Nothing in the code or the spec rules this
  out.
- **The configured port is served** (`ServesConfiguredPort`). A port
  number that does not fit in 32 bits is rejected, never truncated to
  another port: `parseAsUint32` and getopt both parse with width 32.
- **Start-up panics only on an unusable setting**
  (`PanicsOnlyOnInvalidSetting`). An unparsable `ONESEISMIC_API_METRICS`
  falls back to off instead. `ONESEISMIC_API_TRUSTED_PROXIES` written with
  spaces after its commas is usable, because `parseAsListOfStrings` trims
  each item. A lone space or a trailing comma leaves an empty item. That
  is a setting gin cannot use, and the process panics on it.
- **A usable configuration serves** (`ServesWhenConfigValid`). With every
  setting valid, `--help` absent and distinct ports, the API and, when
  metrics are on, `/metrics` are eventually served.
- **Finding: nothing keeps the two ports apart** (`configuration_ports`).
  The `--metrics-port` help text says metrics "are always hosted on a
  different port than the server itself". Nothing checks this. With equal
  ports the two apps race: `/metrics` silently fails, or `app.Run` returns
  and the process exits (`main.go:270`).
- **The legacy slice and fence read only inside the cube**
  (`SliceReadOnlyInItsDomain`, `FenceTracesInsideCube`). `unit_validation`'s
  tables admit exactly the units spec.md 4.1 gives each vertical domain,
  so `read_subvolume` is never reached for, say, a time slice of a depth
  cube. `validate_boundary` checks the transformed point against
  [-0.5, n - 0.5) before the +0.5 shift, so every position handed to
  `read_traces` lies in [0, n). The bounds include both edges.
- **The legacy horizon buffer is aligned with the surface**
  (`OutputAligned`, `RequestedInsideCube`). The V floats of cell x are
  cell x's own window, or the fill value exactly when the cell is fill or
  out of plane. Fill cells in any position hold no dummy voxel and shift no
  later window. No voxel outside the vertical axis is ever requested.
- **The legacy backend implements its abstract promise**
  (`ImplementsLegacyAbstract`). `LegacyAbstract` answers a request in one
  step: 200 only for a legal request, carrying exactly its result; 500 for
  any request; 400 only for an illegal one. The refinement mapping takes
  the abstract answer to `LegacyRequest`'s `Status` and the abstract output
  to what the Go wrapper copies out with `C.GoBytes`: the slice's axis, the
  positions handed to `read_traces`, or the horizon buffer. TLC checks that
  every behaviour of `LegacyRequest` is one of `LegacyAbstract`, and that
  each request is eventually answered. At 200 the fence traces are exactly
  the voxel centres of the points, in order. The horizon buffer is each
  cell's window, or the fill value. This is stronger than
  `FenceTracesInsideCube` and `OutputAligned` together.
- **Finding: the legacy path answers 500 where the spec says 400**
  (`legacy_status`, a violation run). The legacy backend signals every
  fault of the caller with `std::runtime_error`:
  - a window leaving the vertical axis (`vds.cpp:449`);
  - a slice direction its unit does not admit (`vds.cpp:147`);
  - a fence point off the cube (`vds.cpp:249`).
  The Go wrappers return the message as `errors.New` (`part_004` 211, 285,
  374), which is no `*vds.InvalidArgument`, so the status is 500.
  spec.md 4.1, 4.4, 4.5 and 7 call these bad requests. Only the Go-side
  pair check of `GetFence` gives 400.

Every property has a mutant in `PROJECT.json`: a plausible bug in the
mapped code for which TLC reports that property violated.

## Fairness

The liveness properties assume weak fairness of every goroutine's step and
of every handler's step. The code justifies this in three ways:

- The Go scheduler eventually runs every runnable goroutine.
- A goroutine blocked on a channel becomes runnable once the channel
  allows its operation, and in the models that operation stays enabled
  until it is taken.
- No handler step waits on another request: the cache's Get and Set are
  atomic under one mutex.

No strong fairness is needed.

`LegacyRequest` is sequential: each call returns or throws, so weak
fairness of its one process is the code running to the end. The abstract
`LegacyAbstract` has weak fairness of `Answer`. `Answer` is enabled exactly
while no answer has been given, since a 500 is always allowed. Under the
safety part, that fairness is therefore the same as `<>(answer # 0)`.
`ImplementsLegacyAbstract` checks the refinement in this form, because TLC
cannot evaluate `ENABLED` through a refinement mapping.

## What is not modelled

- **`cppapi`**, the C++ library that reads the cube and reduces windows, is
  not under `src/`. Its results are nondeterministic outcomes. The layout it
  gives the horizon buffer (the prefix sum) is modelled from spec.md 4.6 and
  marked `spec_modelled`.
- **`internal/cache`**, `MakeVdsConnection` and `IsAuthorizedToRead` are not
  under `src/`:
  - the cache is modelled from spec.md 4.7, and is checked only through
    what the handlers do with it: a property of the cache alone would check
    the model's own Get and Set, not the code;
  - a connection's authorization is a fixed set `Authorized`;
  - `NewVDSHandle` is assumed to fail without read access, as it does when
    OpenVDS cannot open the blob.
- **gin middleware** (logging, gzip, the request blocker, metrics) and the
  response encoding are not modelled.
- **Part of the legacy backend**, `internal/vds/vds.cpp` with its Go
  wrappers in `unnamed/part_004`, an older sequential version of the same
  API. Slice, fence and horizon are modelled (`LegacyRequest`,
  `LegacyHorizon`). The coordinate transforms are abstracted: a horizon
  cell is given as fill, out of plane, or a vertical voxel index, and a
  fence point as the half-voxel position it maps to. What
  `SubVolume::set_slice` accepts is an input, since it is not under
  `src/`. The metadata functions, `GetAttributes`/`calculate_attribute`
  and `SeismicHandle` are not modelled: they are sequential calls into
  OpenVDS whose only control flow is the same open-or-throw and
  conversion of the exception to 500.
- **Start-up configuration** is modelled up to the two `Run` calls
  (`Configuration`). The other string and list options (storage
  accounts, blocked IPs and user agents) only reach code outside `src/`.
  The `--metrics-port` and `--cache-size` flags override their variables
  the same way as `--port` and are not given. `--trusted-proxies` is not
  given either. Its list value is parsed by getopt, which is outside
  `src/`, and whether getopt appends to the list read from the
  environment or replaces it is not visible from this code.
- **`MetadataHandle`** and the CI, container and
  deployment files are not modelled. They are read once, hold no state, or
  are not run by the server.
- **Surfaces with an empty row or no rows** are outside the `Shapes` of
  `GetAttributes`; `SurfaceInput` covers them, as it covers empty
  attribute lists. Whether the request binding admits an empty list is
  decided by `AttributeRequest`'s tags, which are not under `src/`.

## Plan for further work

1. **A finer `Endpoint`.** Split the attributes handler's data step into
   the `GetAttributes` instance, so that the endpoint and the attribute
   pipeline are checked together.
2. **Three concurrent requests in `endpoint`.** With `Reqs = {1, 2, 3}`
   the run covers 1.6 million states in about four and a half minutes.
   That is too close to the time a run may take, and symmetry over the
   requests is unsound for its liveness property. A separate safety-only
   run with `SYMMETRY` would fit once a run slot is free.
3. **An empty legacy fence** (`part_004:276`) panics and is answered 500.
   `LegacyRequest` models the path. No property states what it should
   give, because neither the spec nor the code says.
