---------------------------- MODULE SurfaceInput ----------------------------
(***************************************************************************)
(* The prologue of VDSHandle.GetAttributes (src/internal/core/core.go      *)
(* 562-619): the attribute names, the window, the surface dimensions, and  *)
(* the three C surfaces built by toCdata and toCRegularSurface (core.go    *)
(* 301-356): the primary surface, the top one (shifted by -above) and the  *)
(* bottom one (shifted by +below).  Each surface built is closed by a      *)
(* deferred Close, which runs on every return and on a panic.  A panic     *)
(* (an index out of range) is answered 500 by gin.Recovery.  A panic in   *)
(* a goroutine that calculateAttributes spawns is not: it ends the        *)
(* process.                                                               *)
(*                                                                         *)
(* Surface values are small integers; the fill value is one of them.       *)
(***************************************************************************)
EXTENDS Integers, Sequences, SequencesExt, FiniteSets, TLC

CONSTANTS
    Values,         \* the numbers a surface cell may hold
    FillValue,      \* *surface.FillValue
    Windows,        \* the values above and below may take
    MaxRows,        \* the longest surface considered
    MaxCols,        \* the longest row considered
    MaxAttributes,  \* the longest attribute list considered
    Names,          \* the attribute names a request may hold
    CallOutcomes    \* what regular_surface_new may return

VARIABLES
    values,     \* primarySurface.Values, a sequence of rows
    above, below,
    names,      \* the attribute names of the request
    pc,         \* the step GetAttributes is at
    k,          \* the index in Order of the surface being built
    cdata,      \* the C data of the surface being built
    made,       \* made[s]: for each surface s built, the data handed to regular_surface_new for s
    live,       \* the C surfaces allocated and not freed
    deferred,   \* the surfaces whose Close is deferred
    status      \* the HTTP status of the request, 0 while it runs

vars == <<values, above, below, names, pc, k, cdata, made, live, deferred,
          status>>

\* The three surfaces in the order the code builds them.
Order == <<"primary", "top", "bottom">>

Shift(s) == CASE s = "primary" -> 0
              [] s = "top"     -> -above
              [] s = "bottom"  -> below

nrows == Len(values)
ncols == Len(values[1])

\* Mutant: the shift is applied to fill cells as well.
ShiftedAll(v, shift) == v + shift

\* A cell of toCdata(shift): fill cells keep the fill value.
Shifted(v, shift) == IF v = FillValue THEN v ELSE v + shift

\* toCdata(shift) on a surface whose rows have ncols elements: cell
\* cdata[i*ncols+j] is row i, column j.
Cdata(shift) ==
    [p \in 1 .. nrows * ncols |->
        Shifted(values[((p - 1) \div ncols) + 1][((p - 1) % ncols) + 1],
                shift)]

\* Every row has the length of row 0 (the check inside toCdata's loop).
RowsEqual == \A r \in 1 .. nrows : Len(values[r]) = ncols

\* toError: bad_request becomes an InvalidArgument (400); runtime and
\* nullptr errors an InternalError (500).
HttpStatus(o) == IF o = "bad_request" THEN 400 ELSE 500

\* Mutant: the Close of the top surface is never deferred.
DeferCloseSkipTop(d, s) == IF s = "top" THEN d ELSE d \cup {s}

\* defer cSurface.Close() after a surface is built.
DeferClose(d, s) == d \cup {s}

Init ==
    /\ values \in BoundedSeq(BoundedSeq(Values, MaxCols), MaxRows)
    /\ above \in Windows /\ below \in Windows
    /\ names \in BoundedSeq(Names, MaxAttributes)
    /\ pc = "names"
    /\ k = 1
    /\ cdata = <<>>
    /\ made = [s \in {} |-> <<>>]
    /\ live = {}
    /\ deferred = {}
    /\ status = 0

\* The deferred cRegularSurface.Close of each surface in d: a fresh
\* context, regular_surface_free; the error a deferred call returns is
\* dropped.
CloseSurfaces(l, d) == l \ d

\* Mutant: the error is recorded but the function does not return.
FinishNoReturn(st) ==
    /\ pc' = pc
    /\ status' = st
    /\ live' = CloseSurfaces(live, deferred)

\* Return from GetAttributes with status st; the deferred Closes run.
Finish(st) ==
    /\ pc' = "returned"
    /\ status' = st
    /\ live' = CloseSurfaces(live, deferred)

\* An attribute name is a word and its case: strings.ToLower gives the word.
ToLower(name) == name.word

\* The names GetAttributeType's switch knows (C.VALUE .. C.SUMNEG).
AttributeKinds == {"samplevalue", "min", "max", "maxabs", "mean", "meanabs",
                   "meanpos", "meanneg", "median", "rms", "var", "sd",
                   "sumpos", "sumneg"}

\* GetAttributeType: the attribute of a known name in any case; "" and
\* every other name is an InvalidArgument.
GetAttributeType(name) ==
    IF ToLower(name) \in AttributeKinds
    THEN [id |-> ToLower(name), err |-> FALSE]
    ELSE [id |-> "", err |-> TRUE]

\* GetAttributeType on each name: the first unknown name is returned.
CheckNames ==
    /\ pc = "names"
    /\ IF \E j \in DOMAIN names : GetAttributeType(names[j]).err
       THEN Finish(400)
       ELSE pc' = "window" /\ UNCHANGED <<status, live>>
    /\ UNCHANGED <<values, above, below, names, k, cdata, made, deferred>>

CheckWindow ==
    /\ pc = "window"
    /\ IF above < 0 \/ below < 0 THEN Finish(400)
       ELSE pc' = "dims" /\ UNCHANGED <<status, live>>
    /\ UNCHANGED <<values, above, below, names, k, cdata, made, deferred>>

\* len(primarySurface.Values[0]) panics on an empty surface.
Dims ==
    /\ pc = "dims"
    /\ IF nrows = 0 THEN Finish(500)
       ELSE pc' = "cdata" /\ UNCHANGED <<status, live>>
    /\ UNCHANGED <<values, above, below, names, k, cdata, made, deferred>>

\* toCdata(Shift(s)) for the k-th surface.
ToCdata ==
    /\ pc = "cdata"
    /\ IF RowsEqual
       THEN /\ cdata' = Cdata(Shift(Order[k]))
            /\ pc' = "csurface"
            /\ UNCHANGED <<status, live>>
       ELSE Finish(400) /\ UNCHANGED cdata
    /\ UNCHANGED <<values, above, below, names, k, made, deferred>>

\* toCRegularSurface: &cdata[0] panics on an empty row; regular_surface_new
\* may fail, and then nothing is allocated; else the surface is live and its
\* Close deferred.
ToCSurface ==
    /\ pc = "csurface"
    /\ IF cdata = <<>> THEN Finish(500) /\ UNCHANGED <<k, made, deferred>>
       ELSE \E o \in CallOutcomes :
              IF o # "ok" THEN Finish(HttpStatus(o))
                               /\ UNCHANGED <<k, made, deferred>>
              ELSE /\ made' = made @@ (Order[k] :> cdata)
                   /\ live' = live \cup {Order[k]}
                   /\ deferred' = DeferClose(deferred, Order[k])
                   /\ k' = IF k < Len(Order) THEN k + 1 ELSE k
                   /\ pc' = IF k < Len(Order) THEN "cdata" ELSE "ready"
                   /\ UNCHANGED status
    /\ UNCHANGED <<values, above, below, names, cdata>>

\* A goroutine of calculateAttributes takes &cAttributes[0] of an empty
\* cAttributes and panics outside gin.Recovery: the process exits and the
\* request is never answered.
AttributesPanic == pc' = "crashed" /\ UNCHANGED <<status, live>>

\* The rest of GetAttributes (module GetAttributes) returns with any
\* status.  With no attribute names, once horizon_buffer_offsets and
\* fetchHorizon succeed, calculateAttributes panics.
Return ==
    /\ pc = "ready"
    /\ \/ \E st \in {HttpStatus(o) : o \in CallOutcomes \ {"ok"}} : Finish(st)
       \/ names # <<>> /\ Finish(200)
       \/ names = <<>> /\ AttributesPanic
    /\ UNCHANGED <<values, above, below, names, k, cdata, made, deferred>>

Next == CheckNames \/ CheckWindow \/ Dims \/ ToCdata \/ ToCSurface \/ Return

Spec == Init /\ [][Next]_vars /\ WF_vars(Next)

---------------------------------------------------------------------------
(* Properties.                                                             *)

TypeOK ==
    /\ pc \in {"names", "window", "dims", "cdata", "csurface", "ready",
               "returned", "crashed"}
    /\ k \in 1 .. Len(Order)
    /\ live \subseteq ToSet(Order) /\ deferred \subseteq ToSet(Order)
    /\ status \in {0, 200, 400, 500}
    /\ (pc = "returned") = (status # 0)

\* Every C surface holds the input surface in row-major order, shifted by
\* its offset except where a cell is the fill value: toCdata's index
\* arithmetic and its fill test, checked against a flattening of the rows.
CSurfaceMatchesInput ==
    \A s \in DOMAIN made :
            made[s] = FlattenSeq([r \in 1 .. nrows |->
                         [j \in 1 .. Len(values[r]) |->
                            IF values[r][j] = FillValue THEN FillValue
                            ELSE values[r][j] + Shift(s)]])

\* No C surface outlives the request: whichever of the three allocations
\* fails, and on the panic paths, every surface allocated has been freed
\* when GetAttributes returns.
NoSurfaceLeak == pc = "returned" => live = {}

\* Input GetAttributes does not check is answered bad request (spec.md 7:
\* caller faults fail with bad request), not by a panic: a surface with no
\* rows or with empty rows is answered 400, and no attribute request (an
\* empty attribute list included) ends the process.
MalformedInputIsBadRequest ==
    /\ pc = "returned" /\ (nrows = 0 \/ values[1] = <<>>) => status = 400
    /\ pc # "crashed"

\* The top and bottom surfaces have the fill value in exactly the cells of
\* the primary surface (spec.md 4.6: the shift preserves fill cells, and a
\* cell is either populated or not).
FillPatternPreserved ==
    \A s \in DOMAIN made :
            \A p \in DOMAIN made[s] :
                (made[s][p] = FillValue) = (made["primary"][p] = FillValue)

=============================================================================
