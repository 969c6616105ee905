--------------------------- MODULE GetAttributes ---------------------------
(***************************************************************************)
(* VDSHandle.GetAttributes (src/internal/core/core.go 554-668): the whole  *)
(* attribute request, composed of its validation, horizon_buffer_offsets,  *)
(* fetchHorizon (module FetchHorizon) and calculateAttributes (module      *)
(* CalculateAttributes).  Both pools are instances of their modules over   *)
(* the same surface; the goroutines of fetchHorizon keep running (taking   *)
(* their guard token back) while calculateAttributes already runs.         *)
(***************************************************************************)
EXTENDS Naturals, Sequences, FiniteSets, FiniteSetsExt, HorizonBuffer

CONSTANTS
    Shapes, Patterns(_), MaxAttributes, MaxConcurrency,
    FetchOutcomes,    \* what C.horizon may return for a chunk
    AttrOutcomes,     \* what C.attribute may return for a range
    OffsetOutcomes    \* what horizon_buffer_offsets may return

VARIABLES
    nrows, ncols, populated, nAttributes,
    namesValid, windowValid, rowsEqual,   \* the request's inputs
    stage,      \* prepare, offsets, fetch, attributes, done
    response,   \* what GetAttributes returned, "none" before
    fhPc, fhFrom, fhTo, fhN, fhGuard, fhErrs, fhWorker, fhReceived,
    fhFirstErr, fhWrites, fhResult,
    caPc, caFrom, caRemaining, caN, caErrs, caWorker, caReceived,
    caFirstErr, caWrites, caResult

fhVars == <<fhPc, fhFrom, fhTo, fhN, fhGuard, fhErrs, fhWorker, fhReceived,
            fhFirstErr, fhWrites, fhResult>>
caVars == <<caPc, caFrom, caRemaining, caN, caErrs, caWorker, caReceived,
            caFirstErr, caWrites, caResult>>
inputs == <<nrows, ncols, populated, nAttributes, namesValid, windowValid,
            rowsEqual>>
vars == <<inputs, stage, response, fhVars, caVars>>

FH == INSTANCE FetchHorizon
        WITH Outcomes <- FetchOutcomes,
             pc <- fhPc, from <- fhFrom, to <- fhTo, nRoutines <- fhN,
             guard <- fhGuard, errs <- fhErrs, worker <- fhWorker,
             received <- fhReceived, firstErr <- fhFirstErr,
             writes <- fhWrites, result <- fhResult

CA == INSTANCE CalculateAttributes
        WITH Outcomes <- AttrOutcomes,
             pc <- caPc, from <- caFrom, remaining <- caRemaining,
             nRoutines <- caN, errs <- caErrs, worker <- caWorker,
             received <- caReceived, firstErr <- caFirstErr,
             writes <- caWrites, result <- caResult,
             fetched <- {w[2] : w \in fhWrites}

Init ==
    /\ FH!Init
    /\ CA!InitRequest
    /\ CA!InitPool
    /\ namesValid \in BOOLEAN
    /\ windowValid \in BOOLEAN
    /\ rowsEqual \in BOOLEAN
    /\ stage = "prepare"
    /\ response = "none"

\* Return from GetAttributes with err.
Fail(err) == stage' = "done" /\ response' = err

\* The checks before any C call, in the order of the code: the attribute
\* names (GetAttributeType), above/below >= 0, then the three toCdata calls,
\* which all reject a surface whose rows differ in length.
Prepare ==
    /\ stage = "prepare"
    /\ IF ~namesValid \/ ~windowValid \/ ~rowsEqual
       THEN Fail("bad_request")
       ELSE stage' = "offsets" /\ UNCHANGED response
    /\ UNCHANGED <<inputs, fhVars, caVars>>

\* C.horizon_buffer_offsets fills dataOffset or fails.
Offsets ==
    /\ stage = "offsets"
    /\ \E o \in OffsetOutcomes :
         IF o = "ok" THEN stage' = "fetch" /\ UNCHANGED response
         ELSE Fail(o)
    /\ UNCHANGED <<inputs, fhVars, caVars>>

\* A step of fetchHorizon or of one of its goroutines.  The goroutines may
\* still take their guard token back after fetchHorizon has returned.
FetchStep ==
    /\ stage = "fetch" \/ fhPc = "returned"
    /\ FH!Next
    /\ UNCHANGED <<inputs, stage, response, caVars>>

\* Mutant: the error of fetchHorizon is dropped.
FetchReturnedIgnoreError ==
    /\ stage = "fetch"
    /\ fhPc = "returned"
    /\ stage' = "attributes"
    /\ UNCHANGED <<inputs, response, fhVars, caVars>>

\* fetchHorizon returned: stop on its error, else go on to the attributes.
FetchReturned ==
    /\ stage = "fetch"
    /\ fhPc = "returned"
    /\ IF fhResult = "ok" THEN stage' = "attributes" /\ UNCHANGED response
       ELSE Fail(fhResult)
    /\ UNCHANGED <<inputs, fhVars, caVars>>

\* A step of calculateAttributes or of one of its goroutines.
AttributeStep ==
    /\ stage = "attributes" \/ caPc = "returned"
    /\ UNCHANGED <<inputs, stage, response, fhVars>>
    /\ CA!Next

\* calculateAttributes returned: its result is the request's.
AttributesReturned ==
    /\ stage = "attributes"
    /\ caPc = "returned"
    /\ Fail(caResult)
    /\ UNCHANGED <<inputs, fhVars, caVars>>

Next ==
    \/ Prepare \/ Offsets \/ FetchReturned \/ AttributesReturned
    \/ FetchStep \/ AttributeStep

Spec ==
    /\ Init /\ [][Next]_vars
    /\ WF_vars(Prepare) /\ WF_vars(Offsets) /\ WF_vars(FetchReturned)
    /\ WF_vars(AttributesReturned)
    /\ WF_vars(FetchStep) /\ WF_vars(AttributeStep)

---------------------------------------------------------------------------
(* Properties.                                                             *)

\* GetAttributes implements the atomic request of AttributesAbstract: the
\* response appears in one step; a 200 carries every map, each cell the
\* fill value exactly where it owns no window and otherwise its window as
\* fetchHorizon read it, though both pools may fail chunk by chunk and
\* the goroutines of fetchHorizon still run when calculateAttributes
\* starts; every request is answered.
Abstract == INSTANCE AttributesAbstract
    WITH Errors <- (FetchOutcomes \cup AttrOutcomes \cup OffsetOutcomes)
                   \ {"ok"},
         response <- response,
         maps <- IF response = "ok" THEN {<<w[2], w[3]>> : w \in caWrites}
                 ELSE {}

AbstractSpec == Abstract!Spec

=============================================================================
