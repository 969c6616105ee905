----------------------------- MODULE Endpoint -----------------------------
(***************************************************************************)
(* The HTTP endpoint handlers (src/internal/core/capi.cpp 514-733, package *)
(* api) serving concurrent requests over one shared ResponseCache.         *)
(*                                                                         *)
(* Every request runs its handler in its own goroutine.  A handler is the  *)
(* sequence of steps of its kind, in the order of the code, each after     *)
(* bind (parseGetRequest / parsePostRequest of the public entry point):    *)
(*   metadata:   connect, handle, meta, write                              *)
(*   slice:      connect, lookup, handle, parse, meta, data, set           *)
(*   fence:      connect, lookup, handle, parse, meta, data, set           *)
(*   attributes: window, connect, handle, lookup, parse, meta, data, set   *)
(*   scheduled fence (HttpRoutes.fence, no cache):                         *)
(*               connect, handle, parse, shape, data, meta, write          *)
(* Any failing step ends the handler through abortOnError, whose status    *)
(* is httpStatusCode of the error.  A request is a fingerprint (the cache  *)
(* key, which leaves out the credentials) sent by a user whose SAS may or  *)
(* may not grant read access to the cube.                                  *)
(***************************************************************************)
EXTENDS Naturals, Sequences, SequencesExt, FiniteSets

CONSTANTS
    Users,          \* key holders
    Authorized,     \* the users whose credentials may read the cube
    Reqs,           \* the concurrent requests
    Keys,           \* request fingerprints
    KindOf(_),      \* metadata, slice, fence, attributes, scheduled_fence
    Invalid(_),     \* "none", or the check request k fails: body, window,
                    \* parse
    Size(_), Cap,   \* cache entry sizes and cache cap, in bytes
    ConnOutcomes,   \* what MakeVdsConnection may return
    CallOutcomes,   \* what a C call (metadata, slice, fence, ...) may return
    NoEntry         \* the cache's value for a key never set (a model value)

ASSUME Authorized \subseteq Users
ASSUME \A k \in Keys :
    KindOf(k) \in {"metadata", "slice", "fence", "attributes", "scheduled_fence"}

VARIABLES
    user, key,      \* who sent request r, and what it asks for
    pc,             \* index of the next step of r's handler; 0 when done
    status,         \* the HTTP status written for r, 0 before
    parts,          \* parts of the response r holds: "meta", "data"
    held,           \* the C objects r's VDSHandle holds: context, datahandle
    closeDeferred,  \* r's handler has run `defer handle.Close()`
    lru, store      \* the response cache

reqVars == <<user, key, pc, status, parts>>
handleVars == <<held, closeDeferred>>
vars == <<reqVars, handleVars, lru, store>>

Parts == {"meta", "data"}

\* What a 200 response of a handler of this kind carries.
FullBody(kind) == IF kind = "metadata" THEN {"meta"} ELSE Parts

Cache == INSTANCE ResponseCache WITH Entries <- SUBSET Parts

\* The steps of each handler, in code order.
Steps(kind) ==
    <<"bind">> \o
    CASE kind = "metadata"   -> <<"connect", "handle", "meta", "write">>
      [] kind = "attributes" -> <<"window", "connect", "handle", "lookup",
                                  "parse", "meta", "data", "set">>
      [] kind = "scheduled_fence" ->
                                <<"connect", "handle", "parse", "shape",
                                  "data", "meta", "write">>
      [] OTHER               -> <<"connect", "lookup", "handle", "parse",
                                  "meta", "data", "set">>

AtStep(r, s) ==
    /\ pc[r] # 0
    /\ Steps(KindOf(key[r]))[pc[r]] = s

\* Mutant: every error is reported as an internal error.
HttpStatusCodeAll500(err) == 500

\* httpStatusCode: an InvalidArgument is a bad request, anything else 500.
HttpStatusCode(err) == IF err = "bad_request" THEN 400 ELSE 500

\* Mutant: Close frees the datahandle but not the context.
CloseKeepContext(h) == h \cap {"context"}

\* VDSHandle.Close: datahandle_free, and the deferred context_free.
Close(h) == h \ {"datahandle", "context"}

\* The handler returns: the deferred handle.Close() runs, if registered.
RunDeferred(r) ==
    /\ held' = [held EXCEPT ![r] = IF closeDeferred[r] THEN Close(@) ELSE @]
    /\ UNCHANGED closeDeferred

\* abortOnError(ctx, err) with err # nil: the handler returns.
Abort(r, err) ==
    /\ status' = [status EXCEPT ![r] = HttpStatusCode(err)]
    /\ pc' = [pc EXCEPT ![r] = 0]
    /\ RunDeferred(r)

\* Go on to the next step of r's handler.
Continue(r) == pc' = [pc EXCEPT ![r] = pc[r] + 1] /\ UNCHANGED handleVars

\* Mutant: the handler goes on after writing (a `return` left out).
WriteNoReturn(r, body) ==
    /\ status' = [status EXCEPT ![r] = 200]
    /\ parts' = [parts EXCEPT ![r] = body]
    /\ pc' = [pc EXCEPT ![r] = pc[r] + 1]
    /\ UNCHANGED handleVars

\* writeResponse(ctx, metadata, data): 200 with the parts held.
Write(r, body) ==
    /\ status' = [status EXCEPT ![r] = 200]
    /\ parts' = [parts EXCEPT ![r] = body]
    /\ pc' = [pc EXCEPT ![r] = 0]
    /\ RunDeferred(r)

Init ==
    /\ user \in [Reqs -> Users]
    /\ key \in [Reqs -> Keys]
    /\ pc = [r \in Reqs |-> 1]
    /\ status = [r \in Reqs |-> 0]
    /\ parts = [r \in Reqs |-> {}]
    /\ held = [r \in Reqs |-> {}]
    /\ closeDeferred = [r \in Reqs |-> FALSE]
    /\ Cache!Init

---------------------------------------------------------------------------
(* Handler steps.                                                          *)

\* parseGetRequest / parsePostRequest: a body that does not unmarshal or
\* misses a required field is an InvalidArgument.
Bind(r) ==
    /\ AtStep(r, "bind")
    /\ IF Invalid(key[r]) = "body" THEN Abort(r, "bad_request")
       ELSE Continue(r) /\ UNCHANGED status
    /\ UNCHANGED <<user, key, parts, lru, store>>

\* attributes: validateVerticalWindow (above, below in [0, 250), stepsize
\* >= 0) before anything else.
ValidateWindow(r) ==
    /\ AtStep(r, "window")
    /\ IF Invalid(key[r]) = "window" THEN Abort(r, "bad_request")
       ELSE Continue(r) /\ UNCHANGED status
    /\ UNCHANGED <<user, key, parts, lru, store>>

\* e.MakeVdsConnection(request.Vds, request.Sas).
Connect(r) ==
    /\ AtStep(r, "connect")
    /\ \E o \in ConnOutcomes :
         IF o = "ok" THEN Continue(r) /\ UNCHANGED status ELSE Abort(r, o)
    /\ UNCHANGED <<user, key, parts, lru, store>>

\* Mutant: a cache hit is served without asking IsAuthorizedToRead.
LookupNoAuth(r) ==
    /\ AtStep(r, "lookup")
    /\ IF Cache!Hit(key[r])
       THEN Cache!Get(key[r]) /\ Write(r, store[key[r]])
       ELSE Continue(r) /\ UNCHANGED <<status, parts, lru, store>>
    /\ UNCHANGED <<user, key>>

\* Mutant: the handler returns on any cache hit, answered or not.
LookupReturnOnHit(r) ==
    /\ AtStep(r, "lookup")
    /\ IF Cache!Hit(key[r])
       THEN /\ Cache!Get(key[r])
            /\ IF user[r] \in Authorized
               THEN Write(r, store[key[r]])
               ELSE /\ pc' = [pc EXCEPT ![r] = 0] /\ RunDeferred(r)
                    /\ UNCHANGED <<status, parts>>
       ELSE Continue(r) /\ UNCHANGED <<status, parts, lru, store>>
    /\ UNCHANGED <<user, key>>

\* request.Hash() (which cannot fail on these structs), e.Cache.Get, and
\* the answer from the cache only if conn.IsAuthorizedToRead().  Get
\* makes the entry most recently used even when it is not served.
Lookup(r) ==
    /\ AtStep(r, "lookup")
    /\ IF Cache!Hit(key[r])
       THEN /\ Cache!Get(key[r])
            /\ IF user[r] \in Authorized
               THEN Write(r, store[key[r]])
               ELSE Continue(r) /\ UNCHANGED <<status, parts>>
       ELSE Continue(r) /\ UNCHANGED <<status, parts, lru, store>>
    /\ UNCHANGED <<user, key>>

\* Mutant: a failed datahandle_new leaves its context allocated.
NewVDSHandleLeakOnError(ok) == IF ok THEN {"context", "datahandle"} ELSE {"context"}

\* vds.NewVDSHandle: context_new, then datahandle_new; on an error the
\* context is freed (deferred) and nothing is returned.
NewVDSHandle(ok) == IF ok THEN {"context", "datahandle"} ELSE {}

\* handle, err := vds.NewVDSHandle(conn); abortOnError; defer
\* handle.Close().  datahandle_new may fail for any user (the cube is
\* missing, the storage is unreachable), with the status toError gives
\* the exception; without read access it always fails.
OpenHandle(r) ==
    /\ AtStep(r, "handle")
    /\ \E o \in IF user[r] \in Authorized THEN CallOutcomes
                 ELSE CallOutcomes \ {"ok"} :
         /\ held' = [held EXCEPT ![r] = NewVDSHandle(o = "ok")]
         /\ IF o = "ok"
            THEN /\ pc' = [pc EXCEPT ![r] = pc[r] + 1]
                 /\ closeDeferred' = [closeDeferred EXCEPT ![r] = TRUE]
                 /\ UNCHANGED status
            ELSE /\ status' = [status EXCEPT ![r] = HttpStatusCode(o)]
                 /\ pc' = [pc EXCEPT ![r] = 0]
                 /\ UNCHANGED closeDeferred
    /\ UNCHANGED <<user, key, parts, lru, store>>

\* GetAxis, GetCoordinateSystem / GetInterpolationMethod.
Parse(r) ==
    /\ AtStep(r, "parse")
    /\ IF Invalid(key[r]) = "parse" THEN Abort(r, "bad_request")
       ELSE Continue(r) /\ UNCHANGED status
    /\ UNCHANGED <<user, key, parts, lru, store>>

\* HttpRoutes.fence: handle.Shape(), needed by the scheduler.
Shape(r) ==
    /\ AtStep(r, "shape")
    /\ \E o \in CallOutcomes :
         IF o = "ok" THEN Continue(r) /\ UNCHANGED status ELSE Abort(r, o)
    /\ UNCHANGED <<user, key, parts, lru, store>>

\* Mutant: the error of the metadata call is not checked.
MetaIgnoreError(r) ==
    /\ AtStep(r, "meta")
    /\ \E o \in CallOutcomes :
         /\ parts' = IF o = "ok" THEN [parts EXCEPT ![r] = @ \cup {"meta"}]
                     ELSE parts
         /\ Continue(r) /\ UNCHANGED status
    /\ UNCHANGED <<user, key, lru, store>>

\* handle.GetMetadata / GetSliceMetadata / GetFenceMetadata /
\* GetAttributeMetadata.
Meta(r) ==
    /\ AtStep(r, "meta")
    /\ \E o \in CallOutcomes :
         IF o = "ok"
         THEN /\ parts' = [parts EXCEPT ![r] = @ \cup {"meta"}]
              /\ Continue(r) /\ UNCHANGED status
         ELSE Abort(r, o) /\ UNCHANGED parts
    /\ UNCHANGED <<user, key, lru, store>>

\* handle.GetSlice / GetFence / GetAttributes / h.scheduler.Fence.
Data(r) ==
    /\ AtStep(r, "data")
    /\ \E o \in CallOutcomes :
         IF o = "ok"
         THEN /\ parts' = [parts EXCEPT ![r] = @ \cup {"data"}]
              /\ Continue(r) /\ UNCHANGED status
         ELSE Abort(r, o) /\ UNCHANGED parts
    /\ UNCHANGED <<user, key, lru, store>>

\* e.Cache.Set(cacheKey, NewCacheEntry(data, metadata)); writeResponse.
SetAndWrite(r) ==
    /\ AtStep(r, "set")
    /\ Cache!Set(key[r], parts[r])
    /\ Write(r, parts[r])
    /\ UNCHANGED <<user, key>>

\* metadata: ctx.Data(http.StatusOK, ...); HttpRoutes.fence:
\* writeResponse.  Nothing is cached.
WriteMetadata(r) ==
    /\ AtStep(r, "write")
    /\ Write(r, parts[r])
    /\ UNCHANGED <<user, key, lru, store>>

\* One step of r's handler.
Step(r) ==
    \/ Bind(r) \/ ValidateWindow(r) \/ Connect(r) \/ Shape(r) \/ Lookup(r) \/ OpenHandle(r)
    \/ Parse(r) \/ Meta(r) \/ Data(r) \/ SetAndWrite(r) \/ WriteMetadata(r)

Next == \E r \in Reqs : Step(r)

\* gin serves every request in its own goroutine; the Go scheduler runs
\* each runnable one, and no step of a handler blocks.
Spec == Init /\ [][Next]_vars /\ \A r \in Reqs : WF_vars(Step(r))

---------------------------------------------------------------------------
(* Properties.                                                             *)

TypeOK ==
    /\ user \in [Reqs -> Users] /\ key \in [Reqs -> Keys]
    /\ \A r \in Reqs : pc[r] \in 0 .. Len(Steps(KindOf(key[r])))
    /\ status \in [Reqs -> {0, 200, 400, 500}]
    /\ parts \in [Reqs -> SUBSET Parts]
    /\ held \in [Reqs -> SUBSET {"context", "datahandle"}]
    /\ closeDeferred \in [Reqs -> BOOLEAN]
    /\ Cache!TypeOK

\* Only a user whose credentials may read the cube gets its data, though
\* the cache key leaves the credentials out and another user's request
\* may have filled the cache (the IsAuthorizedToRead check of a cache hit).
OnlyAuthorizedRead ==
    \A r \in Reqs : status[r] = 200 => user[r] \in Authorized

\* A response is never partial: every 200 carries the metadata and, but
\* for the metadata endpoint, the data, and the cache holds only such complete entries (spec.md 9:
\* the cache never stores partial entries).
NoPartialResponses ==
    /\ \A r \in Reqs : status[r] = 200 => parts[r] = FullBody(KindOf(key[r]))
    /\ \A k \in ToSet(lru) : store[k] = Parts

\* A malformed request (body, window, axis, coordinate system or
\* interpolation) never reaches a metadata or data call and never gets
\* data, not even from the cache another request filled; once its cube
\* is open, its answer is 400, never 500 or 200.  Every handler opens the
\* cube before it parses its arguments (so a failed open answers 500),
\* but checks them before GetMetadata, GetSlice, GetFence or the
\* scheduler, and httpStatusCode maps InvalidArgument to 400.
InvalidRequestsRejected ==
    \A r \in Reqs : Invalid(key[r]) # "none" =>
        /\ parts[r] = {}
        /\ closeDeferred[r] /\ status[r] # 0 => status[r] = 400

\* No C object of a VDSHandle outlives its request: whichever step of
\* whichever handler ends it (an error after the handle is open, a cache
\* hit in the attributes handler, which opens the handle before looking
\* up the cache, a failed open, a response written), the handler that
\* returns holds no context and no datahandle.
NoHandleLeak == \A r \in Reqs : pc[r] = 0 => held[r] = {}

\* Every request is eventually answered with a status.
EveryRequestAnswered == <>(\A r \in Reqs : status[r] # 0)
=============================================================================
