--------------------------- MODULE FetchHorizon ---------------------------
(***************************************************************************)
(* VDSHandle.fetchHorizon (src/internal/core/core.go 670-744).             *)
(*                                                                         *)
(* The calling goroutine splits the cells [0, hsize) of the surface into   *)
(* chunks of nrows cells.  For every chunk it first sends a token into the *)
(* buffered channel guard (capacity max(nrows/2, 1)), blocking while it is *)
(* full, then starts a goroutine that calls C.horizon on its chunk, which  *)
(* writes the chunk's windows into the shared horizon buffer at the slots  *)
(* dataOffset gives it, sends its error (or nil) into the buffered channel *)
(* errs (capacity hsize/chunkSize + 1) and finally takes a token back out  *)
(* of guard.  After the loop the caller receives nRoutines values from     *)
(* errs and returns the first error, or the buffer when there was none.    *)
(*                                                                         *)
(* The data read is abstracted away: a worker's effect on the buffer is    *)
(* the set of float slots it writes, and the outcome of C.horizon is a     *)
(* nondeterministic choice among Outcomes ("ok" or an error status).       *)
(***************************************************************************)
EXTENDS Naturals, Sequences, FiniteSets, FiniteSetsExt, HorizonBuffer

CONSTANTS
    Shapes,     \* the surface shapes <<nrows, ncols>> a request may have
    Outcomes,   \* what C.horizon may return for a chunk: "ok" or an error
    Patterns(_) \* the fill patterns (populated functions) a surface of
                \* hsize cells may have

ASSUME Shapes \subseteq (Nat \ {0}) \X (Nat \ {0})
ASSUME "ok" \in Outcomes

VARIABLES
    nrows, ncols,   \* shape of the request's surface
    populated,      \* populated[k]: cell k has a window (not fill, in bounds)
    pc,             \* where the calling goroutine is: spawn, collect, returned
    from, to,       \* the loop variables of the spawning loop
    nRoutines,      \* goroutines started so far
    guard,          \* tokens in the guard channel
    errs,           \* values buffered in the errs channel, oldest first
    worker,         \* worker[r]: state, chunk and outcome of goroutine r
    received,       \* loop counter i of the collecting loop
    firstErr,       \* computeErrors[0], or "none" while computeErrors is empty
    writes,         \* pairs <<r, s>>: goroutine r wrote float slot s
    result          \* what fetchHorizon returned: "none" before it returns

vars == <<nrows, ncols, populated, pc, from, to, nRoutines, guard, errs,
          worker, received, firstErr, writes, result>>

Max2(a, b) == IF a > b THEN a ELSE b
Min2(a, b) == IF a < b THEN a ELSE b

MaxShapeCells == Max({s[1] * s[2] : s \in Shapes})
Routines == 1 .. MaxShapeCells

hsize == nrows * ncols
dataOffset == DataOffset(populated, hsize)

\* maxConcurrentGoroutines, the capacity of guard (core.go 689-690).
MaxConcurrentGoroutines == Max2(nrows \div 2, 1)

\* chunkSize, the number of cells per goroutine (core.go 695).
ChunkSize == Max2(nrows, 1)

\* Mutant: errs sized like the guard pool.
ErrsCapOfPool == MaxConcurrentGoroutines

\* The capacity of errs (core.go 700).
ErrsCap == hsize \div ChunkSize + 1

WorkerStates == {"idle", "running", "sending", "releasing", "done"}
IdleWorker == [st |-> "idle", from |-> 0, to |-> 0, out |-> "ok"]

Init ==
    /\ \E s \in Shapes : nrows = s[1] /\ ncols = s[2]
    /\ populated \in Patterns(nrows * ncols)
    /\ pc = "spawn"
    /\ from = 0
    /\ to = 0 + Max2(nrows, 1)
    /\ nRoutines = 0
    /\ guard = 0
    /\ errs = <<>>
    /\ worker = [r \in Routines |-> IdleWorker]
    /\ received = 0
    /\ firstErr = "none"
    /\ writes = {}
    /\ result = "none"

---------------------------------------------------------------------------
(* The calling goroutine.                                                  *)

\* Mutant: the goroutine is started without taking a guard token first.
SpawnNoGuard ==
    /\ pc = "spawn"
    /\ from < hsize
    /\ guard' = guard + 1
    /\ worker' = [worker EXCEPT ![nRoutines + 1] =
                    [st |-> "running", from |-> from, to |-> to, out |-> "ok"]]
    /\ nRoutines' = nRoutines + 1
    /\ from' = from + ChunkSize
    /\ to' = Min2(to + ChunkSize, hsize)
    /\ UNCHANGED <<nrows, ncols, populated, pc, errs, received, firstErr,
                   writes, result>>

\* One iteration of `for from < hsize`: take a guard token (blocks while
\* guard is full), start goroutine nRoutines+1 on [from, to), advance.
Spawn ==
    /\ pc = "spawn"
    /\ from < hsize
    /\ guard < MaxConcurrentGoroutines
    /\ guard' = guard + 1
    /\ worker' = [worker EXCEPT ![nRoutines + 1] =
                    [st |-> "running", from |-> from, to |-> to, out |-> "ok"]]
    /\ nRoutines' = nRoutines + 1
    /\ from' = from + ChunkSize
    /\ to' = Min2(to + ChunkSize, hsize)
    /\ UNCHANGED <<nrows, ncols, populated, pc, errs, received, firstErr,
                   writes, result>>

\* The spawning loop ends once from >= hsize.
SpawnDone ==
    /\ pc = "spawn"
    /\ from >= hsize
    /\ pc' = "collect"
    /\ UNCHANGED <<nrows, ncols, populated, from, to, nRoutines, guard, errs,
                   worker, received, firstErr, writes, result>>

\* Mutant: return as soon as an error is received.
CollectReturnOnError ==
    /\ pc = "collect"
    /\ received < nRoutines
    /\ errs # <<>>
    /\ errs' = Tail(errs)
    /\ received' = received + 1
    /\ IF Head(errs) # "ok"
       THEN pc' = "returned" /\ result' = Head(errs) /\ firstErr' = Head(errs)
       ELSE UNCHANGED <<pc, result, firstErr>>
    /\ UNCHANGED <<nrows, ncols, populated, from, to, nRoutines, guard,
                   worker, writes>>

\* Mutant: the error variable is overwritten by every receive, nil included.
CollectKeepLast ==
    /\ pc = "collect"
    /\ received < nRoutines
    /\ errs # <<>>
    /\ errs' = Tail(errs)
    /\ received' = received + 1
    /\ firstErr' = IF Head(errs) # "ok" THEN Head(errs) ELSE "none"
    /\ UNCHANGED <<nrows, ncols, populated, pc, from, to, nRoutines, guard,
                   worker, writes, result>>

\* One iteration of the collecting loop: receive from errs (blocks while it
\* is empty) and append a non-nil error to computeErrors.
Collect ==
    /\ pc = "collect"
    /\ received < nRoutines
    /\ errs # <<>>
    /\ errs' = Tail(errs)
    /\ received' = received + 1
    /\ firstErr' = IF Head(errs) # "ok" /\ firstErr = "none"
                   THEN Head(errs) ELSE firstErr
    /\ UNCHANGED <<nrows, ncols, populated, pc, from, to, nRoutines, guard,
                   worker, writes, result>>

\* After nRoutines receives: return computeErrors[0], or the buffer.
Return ==
    /\ pc = "collect"
    /\ received = nRoutines
    /\ pc' = "returned"
    /\ result' = IF firstErr # "none" THEN firstErr ELSE "ok"
    /\ UNCHANGED <<nrows, ncols, populated, from, to, nRoutines, guard, errs,
                   worker, received, firstErr, writes>>

---------------------------------------------------------------------------
(* The goroutines started by Spawn.                                        *)

\* Mutant: the goroutine closes over the loop variables from and to instead
\* of taking them as arguments, and reads them when it runs.
HorizonSharedLoopVars(r) ==
    /\ worker[r].st = "running"
    /\ \E o \in Outcomes :
         /\ worker' = [worker EXCEPT ![r].st = "sending", ![r].out = o]
         /\ writes' = IF o = "ok"
                      THEN writes \cup ({r} \X Region(dataOffset, from, to))
                      ELSE writes
    /\ UNCHANGED <<nrows, ncols, populated, pc, from, to, nRoutines, guard,
                   errs, received, firstErr, result>>

\* C.horizon on the goroutine's own [from, to): on success the windows of
\* those cells are written to their slots of the shared buffer.
Horizon(r) ==
    /\ worker[r].st = "running"
    /\ \E o \in Outcomes :
         /\ worker' = [worker EXCEPT ![r].st = "sending", ![r].out = o]
         /\ writes' = IF o = "ok"
                      THEN writes \cup
                             ({r} \X Region(dataOffset, worker[r].from,
                                                        worker[r].to))
                      ELSE writes
    /\ UNCHANGED <<nrows, ncols, populated, pc, from, to, nRoutines, guard,
                   errs, received, firstErr, result>>

\* errs <- toError(...): blocks while errs is full.
SendErr(r) ==
    /\ worker[r].st = "sending"
    /\ Len(errs) < ErrsCap
    /\ errs' = Append(errs, worker[r].out)
    /\ worker' = [worker EXCEPT ![r].st = "releasing"]
    /\ UNCHANGED <<nrows, ncols, populated, pc, from, to, nRoutines, guard,
                   received, firstErr, writes, result>>

\* <-guard: give the token back.
ReleaseGuard(r) ==
    /\ worker[r].st = "releasing"
    /\ guard' = guard - 1
    /\ worker' = [worker EXCEPT ![r].st = "done"]
    /\ UNCHANGED <<nrows, ncols, populated, pc, from, to, nRoutines, errs,
                   received, firstErr, writes, result>>

Next ==
    \/ Spawn
    \/ SpawnDone
    \/ Collect
    \/ Return
    \/ \E r \in Routines : Horizon(r) \/ SendErr(r) \/ ReleaseGuard(r)

\* The Go scheduler eventually runs every runnable goroutine, and a sender
\* or receiver blocked on a channel proceeds once the channel allows it.
Fairness ==
    /\ WF_vars(Spawn) /\ WF_vars(SpawnDone) /\ WF_vars(Collect)
    /\ WF_vars(Return)
    /\ \A r \in Routines : WF_vars(Horizon(r)) /\ WF_vars(SendErr(r))
                           /\ WF_vars(ReleaseGuard(r))

Spec == Init /\ [][Next]_vars /\ Fairness

---------------------------------------------------------------------------
(* Properties.                                                             *)

Spawned == {r \in Routines : worker[r].st # "idle"}

TypeOK ==
    /\ <<nrows, ncols>> \in Shapes
    /\ populated \in [CellsOf(hsize) -> BOOLEAN]
    /\ pc \in {"spawn", "collect", "returned"}
    /\ from \in Nat /\ to \in 0 .. hsize
    /\ nRoutines \in 0 .. MaxShapeCells
    /\ guard \in 0 .. MaxConcurrentGoroutines
    /\ errs \in Seq(Outcomes) /\ Len(errs) <= ErrsCap
    /\ worker \in [Routines -> [st : WorkerStates, from : Nat, to : Nat,
                                out : Outcomes]]
    /\ received \in 0 .. nRoutines
    /\ firstErr \in Outcomes \cup {"none"}
    /\ writes \subseteq Routines \X Nat
    /\ result \in Outcomes \cup {"none"}

\* No data race on the shared buffer: no float slot is written by two of the
\* goroutines started by fetchHorizon.
DisjointWrites ==
    \A w1, w2 \in writes : w1[2] = w2[2] => w1[1] = w2[1]

\* Every write of a goroutine lands inside the Go slice allocated by
\* GetAttributes (dataOffset[hsize] * 4 bytes, or 1 byte when empty).
WritesInsideBuffer ==
    \A w \in writes : w[2] * 4 + 4 <= HorizonBufferSize(dataOffset, hsize)

\* fetchHorizon never returns while one of its goroutines may still write
\* into the buffer or has yet to report on errs.  (A goroutine may still be
\* taking its token out of guard and freeing its context after the return;
\* neither touches the buffer.)
JoinedOnReturn ==
    pc = "returned" =>
        \A r \in Spawned : worker[r].st \in {"releasing", "done"}

\* All or nothing: fetchHorizon returns the buffer exactly when every chunk
\* succeeded, and then every slot of every populated cell has been written;
\* otherwise it returns the error of one of the failed chunks.
AllOrNothing ==
    pc = "returned" =>
      /\ (result = "ok") <=> (\A r \in Spawned : worker[r].out = "ok")
      /\ result = "ok" => {w[2] : w \in writes} = Region(dataOffset, 0, hsize)
      /\ result # "ok" => \E r \in Spawned : worker[r].out = result

\* fetchHorizon always returns: no goroutine waits forever on guard or errs.
Termination == <>(pc = "returned")

=============================================================================
