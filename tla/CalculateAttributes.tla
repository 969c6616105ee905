------------------------ MODULE CalculateAttributes ------------------------
(***************************************************************************)
(* VDSHandle.calculateAttributes (src/internal/core/core.go 746-822) and   *)
(* the C entry point attribute (src/internal/core/capi.cpp 327-391).       *)
(*                                                                         *)
(* The calling goroutine cuts the cells [0, hsize) into ranges of          *)
(* windowsPerRoutine = ceil(hsize / maxConcurrency) cells and starts one   *)
(* goroutine per range, without a semaphore.  Each goroutine calls         *)
(* C.attribute, which rejects an empty range ("No data to iterate over")   *)
(* and otherwise writes, for every requested attribute i and every cell c  *)
(* of its range, the float at out + i * mapsize + c * 4: the fill value    *)
(* when the cell owns no window in the horizon buffer, the reduced window  *)
(* otherwise.  It then sends its error (or nil) on errs, a channel of      *)
(* capacity maxConcurrency.  The caller receives nRoutines values and      *)
(* returns the first error, or the nAttributes maps.                       *)
(*                                                                         *)
(* Output floats are abstracted to "fill" or "value"; an output slot is    *)
(* numbered i * hsize + c, its float index in the shared buffer.           *)
(***************************************************************************)
EXTENDS Naturals, Sequences, FiniteSets, FiniteSetsExt, HorizonBuffer

CONSTANTS
    Shapes,          \* the surface shapes <<nrows, ncols>> a request may have
    MaxAttributes,   \* the longest attribute list a request has in the model
    Outcomes,        \* what C.attribute may return for a range
    Patterns(_),     \* the fill patterns a surface of hsize cells may have
    MaxConcurrency   \* maxConcurrency, 32 in core.go 761

ASSUME Shapes \subseteq (Nat \ {0}) \X (Nat \ {0})
ASSUME MaxAttributes \in Nat \ {0}
ASSUME {"ok", "runtime"} \subseteq Outcomes
ASSUME MaxConcurrency \in Nat \ {0}

VARIABLES
    nrows, ncols,   \* shape of the request's surface
    populated,      \* populated[k]: cell k owns a window in the horizon
    nAttributes,    \* len(cAttributes)
    fetched,        \* the float slots of the horizon buffer holding samples
                    \* fetchHorizon read; calculateAttributes only reads it
    pc,             \* the calling goroutine: spawn, collect, returned
    from,           \* the loop variable from
    remaining,      \* the loop variable remaining
    nRoutines,      \* goroutines started so far
    errs,           \* values buffered in errs, oldest first
    worker,         \* worker[r]: state, range and outcome of goroutine r
    received,       \* loop counter of the collecting loop
    firstErr,       \* computeErrors[0], or "none"
    writes,         \* triples <<r, slot, v>>: goroutine r wrote v at slot
    result          \* what calculateAttributes returned, "none" before

vars == <<nrows, ncols, populated, nAttributes, fetched, pc, from, remaining,
          nRoutines, errs, worker, received, firstErr, writes, result>>

Min2(a, b) == IF a < b THEN a ELSE b

MaxShapeCells == Max({s[1] * s[2] : s \in Shapes})

\* Each goroutine covers at least one cell, so there are never more
\* goroutines than cells; the model stops spawning at this bound.
RoutineBound == MaxShapeCells
Routines == 1 .. RoutineBound

hsize == nrows * ncols
dataOffset == DataOffset(populated, hsize)

\* Mutant: integer division where the code rounds up.
WindowsPerRoutineFloor == hsize \div MaxConcurrency

\* windowsPerRoutine = int(math.Ceil(float64(hsize) / float64(32))).
WindowsPerRoutine == (hsize + MaxConcurrency - 1) \div MaxConcurrency

\* What cppapi::attributes writes for cell c: the fill value when the cell
\* owns no samples in the horizon buffer, else the window reduced from the
\* buffer as it is when C.attribute runs: the fetched samples, or the zeros
\* of make([]byte, ...) where fetchHorizon wrote nothing.
CellValue(c) ==
    CASE dataOffset[c + 1] = dataOffset[c]                -> "fill"
      [] Region(dataOffset, c, c + 1) \subseteq fetched    -> "value"
      [] OTHER                                             -> "unfetched"

\* The float slots of the output buffer goroutine r writes for [f, t).
OutputSlots(f, t) ==
    { <<i * hsize + c, CellValue(c)>> : i \in 0 .. nAttributes - 1, c \in f .. t - 1 }

\* make([]byte, mapsize * nAttributes), in floats.
OutputFloats == hsize * nAttributes

WorkerStates == {"idle", "running", "sending", "done"}
IdleWorker == [st |-> "idle", from |-> 0, to |-> 0, out |-> "ok"]

\* The request: its surface and its attribute list.
InitRequest ==
    /\ \E s \in Shapes : nrows = s[1] /\ ncols = s[2]
    /\ populated \in Patterns(nrows * ncols)
    /\ nAttributes \in 1 .. MaxAttributes

\* The pool before the loop.
InitPool ==
    /\ pc = "spawn"
    /\ from = 0
    /\ remaining = nrows * ncols
    /\ nRoutines = 0
    /\ errs = <<>>
    /\ worker = [r \in Routines |-> IdleWorker]
    /\ received = 0
    /\ firstErr = "none"
    /\ writes = {}
    /\ result = "none"

\* On its own, calculateAttributes runs on a buffer fetchHorizon filled.
Init ==
    /\ InitRequest
    /\ fetched = Region(dataOffset, 0, hsize)
    /\ InitPool

---------------------------------------------------------------------------
(* The calling goroutine.                                                  *)

\* Mutant: the loop never moves from on (`from = to` left out).
SpawnKeepFrom ==
    /\ pc = "spawn"
    /\ remaining > 0
    /\ nRoutines < RoutineBound
    /\ LET size == Min2(WindowsPerRoutine, remaining)
       IN  /\ worker' = [worker EXCEPT ![nRoutines + 1] =
                [st |-> "running", from |-> from, to |-> from + size,
                 out |-> "ok"]]
           /\ remaining' = remaining - size
    /\ nRoutines' = nRoutines + 1
    /\ UNCHANGED <<nrows, ncols, populated, nAttributes, fetched, pc, from, errs,
                   received, firstErr, writes, result>>

\* Mutant: every range takes windowsPerRoutine cells, past the end too.
SpawnNoMin ==
    /\ pc = "spawn"
    /\ remaining > 0
    /\ nRoutines < RoutineBound
    /\ worker' = [worker EXCEPT ![nRoutines + 1] =
            [st |-> "running", from |-> from, to |-> from + WindowsPerRoutine,
             out |-> "ok"]]
    /\ from' = from + WindowsPerRoutine
    /\ remaining' = remaining - WindowsPerRoutine
    /\ nRoutines' = nRoutines + 1
    /\ UNCHANGED <<nrows, ncols, populated, nAttributes, fetched, pc, errs, received,
                   firstErr, writes, result>>

\* One iteration of `for remaining > 0`: start a goroutine on
\* [from, from + min(windowsPerRoutine, remaining)).
Spawn ==
    /\ pc = "spawn"
    /\ remaining > 0
    /\ nRoutines < RoutineBound
    /\ LET size == Min2(WindowsPerRoutine, remaining)
       IN  /\ worker' = [worker EXCEPT ![nRoutines + 1] =
                [st |-> "running", from |-> from, to |-> from + size,
                 out |-> "ok"]]
           /\ from' = from + size
           /\ remaining' = remaining - size
    /\ nRoutines' = nRoutines + 1
    /\ UNCHANGED <<nrows, ncols, populated, nAttributes, fetched, pc, errs, received,
                   firstErr, writes, result>>

SpawnDone ==
    /\ pc = "spawn"
    /\ remaining <= 0
    /\ pc' = "collect"
    /\ UNCHANGED <<nrows, ncols, populated, nAttributes, fetched, from, remaining,
                   nRoutines, errs, worker, received, firstErr, writes, result>>

\* Mutant: the error variable is overwritten by every receive, nil included.
CollectKeepLast ==
    /\ pc = "collect"
    /\ received < nRoutines
    /\ errs # <<>>
    /\ errs' = Tail(errs)
    /\ received' = received + 1
    /\ firstErr' = IF Head(errs) # "ok" THEN Head(errs) ELSE "none"
    /\ UNCHANGED <<nrows, ncols, populated, nAttributes, fetched, pc, from, remaining,
                   nRoutines, worker, writes, result>>

\* Receive one value from errs, keeping the first non-nil one.
Collect ==
    /\ pc = "collect"
    /\ received < nRoutines
    /\ errs # <<>>
    /\ errs' = Tail(errs)
    /\ received' = received + 1
    /\ firstErr' = IF Head(errs) # "ok" /\ firstErr = "none"
                   THEN Head(errs) ELSE firstErr
    /\ UNCHANGED <<nrows, ncols, populated, nAttributes, fetched, pc, from, remaining,
                   nRoutines, worker, writes, result>>

\* Mutant: the collecting loop waits for one value more than was sent.
ReturnOneLate ==
    /\ pc = "collect"
    /\ received = nRoutines + 1
    /\ pc' = "returned"
    /\ result' = IF firstErr # "none" THEN firstErr ELSE "ok"
    /\ UNCHANGED <<nrows, ncols, populated, nAttributes, fetched, from, remaining,
                   nRoutines, errs, worker, received, firstErr, writes>>

\* Return computeErrors[0], or the maps sliced out of the buffer.
Return ==
    /\ pc = "collect"
    /\ received = nRoutines
    /\ pc' = "returned"
    /\ result' = IF firstErr # "none" THEN firstErr ELSE "ok"
    /\ UNCHANGED <<nrows, ncols, populated, nAttributes, fetched, from, remaining,
                   nRoutines, errs, worker, received, firstErr, writes>>

---------------------------------------------------------------------------
(* The goroutines.                                                         *)

\* C.attribute on [from, to): an empty range is a runtime error; otherwise
\* the call either writes every attribute of every cell of the range or
\* fails (reading the VDS metadata, an unknown attribute, ...).
Attribute(r) ==
    /\ worker[r].st = "running"
    /\ \E o \in IF worker[r].from >= worker[r].to THEN {"runtime"}
                ELSE Outcomes :
         /\ worker' = [worker EXCEPT ![r].st = "sending", ![r].out = o]
         /\ writes' = IF o = "ok"
                      THEN writes \cup
                             { <<r, w[1], w[2]>> :
                                 w \in OutputSlots(worker[r].from,
                                                   worker[r].to) }
                      ELSE writes
    /\ UNCHANGED <<nrows, ncols, populated, nAttributes, fetched, pc, from, remaining,
                   nRoutines, errs, received, firstErr, result>>

\* errs <- toError(cErr, cCtx), blocking while errs is full.
SendErr(r) ==
    /\ worker[r].st = "sending"
    /\ Len(errs) < MaxConcurrency
    /\ errs' = Append(errs, worker[r].out)
    /\ worker' = [worker EXCEPT ![r].st = "done"]
    /\ UNCHANGED <<nrows, ncols, populated, nAttributes, fetched, pc, from, remaining,
                   nRoutines, received, firstErr, writes, result>>

Next ==
    \/ Spawn
    \/ SpawnDone
    \/ Collect
    \/ Return
    \/ \E r \in Routines : Attribute(r) \/ SendErr(r)

\* Every runnable goroutine eventually runs (Go scheduler).
Fairness ==
    /\ WF_vars(Spawn) /\ WF_vars(SpawnDone) /\ WF_vars(Collect)
    /\ WF_vars(Return)
    /\ \A r \in Routines : WF_vars(Attribute(r)) /\ WF_vars(SendErr(r))

Spec == Init /\ [][Next]_vars /\ Fairness

---------------------------------------------------------------------------
(* Properties.                                                             *)

Spawned == {r \in Routines : worker[r].st # "idle"}

TypeOK ==
    /\ <<nrows, ncols>> \in Shapes
    /\ populated \in [CellsOf(hsize) -> BOOLEAN]
    /\ nAttributes \in 1 .. MaxAttributes
    /\ pc \in {"spawn", "collect", "returned"}
    /\ from \in 0 .. hsize /\ remaining \in 0 .. hsize
    /\ nRoutines \in 0 .. RoutineBound
    /\ errs \in Seq(Outcomes)
    /\ worker \in [Routines -> [st : WorkerStates, from : Nat, to : Nat,
                                out : Outcomes]]
    /\ received \in 0 .. nRoutines
    /\ firstErr \in Outcomes \cup {"none"}
    /\ writes \subseteq Routines \X Nat \X {"fill", "value", "unfetched"}
    /\ result \in Outcomes \cup {"none"}

\* No goroutine is handed an empty range, which C.attribute would reject
\* with a runtime error although the request is valid.
NoEmptyRange ==
    \A r \in Spawned : worker[r].from < worker[r].to

\* Goroutines write disjoint slots of the shared output buffer, and only
\* slots inside it.
DisjointWrites ==
    /\ \A w1, w2 \in writes : w1[2] = w2[2] => w1[1] = w2[1]
    /\ \A w \in writes : w[2] < OutputFloats

\* All or nothing: calculateAttributes returns the maps exactly when every
\* goroutine succeeded, and then every slot of every map was written, with
\* the fill value exactly for the cells that own no horizon window.
AllOrNothing ==
    pc = "returned" =>
      /\ (result = "ok") <=> (\A r \in Spawned : worker[r].out = "ok")
      /\ result = "ok" =>
           { <<w[2], w[3]>> : w \in writes } = OutputSlots(0, hsize)

\* calculateAttributes always returns.
Termination == <>(pc = "returned")

=============================================================================
