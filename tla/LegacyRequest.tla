--------------------------- MODULE LegacyRequest ---------------------------
(***************************************************************************)
(* One request to the legacy package vds (src/unnamed/part_004): GetSlice, *)
(* GetFence or getHorizon, each calling the C entry point of the same name *)
(* in src/internal/vds/vds.cpp.  An entry point runs its fetch_ function  *)
(* in a try block and turns any exception into a response that carries    *)
(* the message; the Go wrapper returns that message as errors.New, which   *)
(* httpStatusCode maps to 500.  Only the checks made in Go return an       *)
(* InvalidArgument (400).  The horizon fetch is module LegacyHorizon.      *)
(*                                                                         *)
(* Horizontal positions are in half-voxel units (twice the coordinate), so *)
(* the bounds -0.5 and n - 0.5 of validate_boundary and the +0.5 shift to  *)
(* voxel centres are exact.  The coordinate transform (cppapi) is          *)
(* abstracted: a fence point is given by the IJ position it maps to.  What *)
(* SubVolume::set_slice accepts (not under src/) is an input, linenoOk.    *)
(***************************************************************************)
EXTENDS Integers, Sequences, SequencesExt

CONSTANTS
    Kinds,          \* the requests considered: "slice", "fence", "horizon"
    Directions,     \* the axis names a slice may ask for
    ZUnits,         \* the units the cube's vertical axis may have
    NInline,        \* samples on the inline axis (dimension 0)
    NCrossline,     \* samples on the crossline axis (dimension 1)
    Coords,         \* the half-voxel positions a fence point may map to
    MaxPoints,      \* the longest fence considered
    IoOutcomes,     \* what opening the cube and reading from it may do
    Malformed,      \* a fence point that is no [x y] pair (a model value)
    NCells, Above, Below, NSamples, Depths, Fill, Outside, Dummy

VARIABLES
    kind,           \* the request
    direction,      \* slice: the axis
    zunit,          \* slice: the cube's vertical unit
    linenoOk,       \* slice: set_slice accepts the lineno
    points,         \* fence: the coordinates, Malformed or [x, y]
    p,              \* fence: the point fetch_fence's loop is at
    traces,         \* fence: the coords handed to read_traces
    read,           \* slice: read_subvolume was called
    step,           \* where the slice or fence request is
    lstatus,        \* the HTTP status of a slice or fence request, 0 before
    surface, c, i, noval, samples, buffer, hpc, hstatus

lvars == <<kind, direction, zunit, linenoOk, points, p, traces, read, step,
           lstatus>>
hvars == <<surface, c, i, noval, samples, buffer, hpc, hstatus>>
vars == <<lvars, hvars>>

H == INSTANCE LegacyHorizon WITH pc <- hpc, status <- hstatus

\* OpenVDS::KnownUnitNames of unit_validation's lookup tables.
DepthUnits == {"m", "ft", "ftUS"}
TimeUnits == {"ms", "s"}
SampleUnits == {"unitless"}

\* Mutant: the TIME case looks the unit up in the depth table.
UnitValidationTimeAsDepth(ax, unit) ==
    CASE ax \in {"i", "j", "k", "inline", "crossline"} -> TRUE
      [] ax = "depth"  -> unit \in DepthUnits
      [] ax = "time"   -> unit \in DepthUnits
      [] ax = "sample" -> unit \in SampleUnits

\* unit_validation(ax, zunit): a vertical slice needs a unit of its domain.
UnitValidation(ax, unit) ==
    CASE ax \in {"i", "j", "k", "inline", "crossline"} -> TRUE
      [] ax = "depth"  -> unit \in DepthUnits
      [] ax = "time"   -> unit \in TimeUnits
      [] ax = "sample" -> unit \in SampleUnits

\* validate_boundary(voxel, axis): -0.5 <= x < nsamples - 0.5, in halves.
ValidateBoundary(x2, n) == ~(x2 < -1 \/ x2 >= 2 * n - 1)

\* Mutant: the bounds are checked after the +0.5 shift.
InBoundsShifted(pt) ==
    ValidateBoundary(pt.x + 1, NInline) /\ ValidateBoundary(pt.y + 1, NCrossline)

\* validate_boundary(0, inline_axis) and validate_boundary(1, crossline_axis).
InBounds(pt) ==
    ValidateBoundary(pt.x, NInline) /\ ValidateBoundary(pt.y, NCrossline)

\* Mutant: the +0.5 shift to the voxel centre is left out.
VoxelCentreNoShift(pt) == [x |-> pt.x, y |-> pt.y]

\* coordinate[0] += 0.5; coordinate[1] += 0.5.
VoxelCentre(pt) == [x |-> pt.x + 1, y |-> pt.y + 1]

\* An exception in fetch_*, returned by the Go wrapper as errors.New.
ErrorStatus == H!ErrorStatus

Fail(st) == step' = "error" /\ lstatus' = st

Init ==
    /\ kind \in Kinds
    /\ IF kind = "slice"
       THEN direction \in Directions /\ zunit \in ZUnits /\ linenoOk \in BOOLEAN
       ELSE /\ direction = CHOOSE d \in Directions : TRUE
            /\ zunit = CHOOSE u \in ZUnits : TRUE
            /\ linenoOk = TRUE
    /\ points \in IF kind = "fence"
                  THEN BoundedSeq([x : Coords, y : Coords] \cup {Malformed},
                                  MaxPoints)
                  ELSE {<<>>}
    /\ p = 1 /\ traces = <<>> /\ read = FALSE
    /\ step = CASE kind = "slice" -> "open" [] kind = "fence" -> "args"
                [] OTHER -> "horizon"
    /\ lstatus = 0
    /\ H!Init
    /\ kind # "horizon" => surface = [x \in H!Cells |-> Fill]

---------------------------------------------------------------------------
(* Slice: GetSlice -> slice -> fetch_slice.                                *)

\* DataHandle handle(url, credentials) and handle.get_metadata(): opening
\* the cube may throw (slice and fence alike).
Open ==
    /\ step = "open"
    /\ \E o \in IoOutcomes :
         IF o = "ok"
         THEN step' = (IF kind = "slice" THEN "unit" ELSE "point")
              /\ UNCHANGED lstatus
         ELSE Fail(ErrorStatus)
    /\ UNCHANGED <<kind, direction, zunit, linenoOk, points, p, traces, read,
                   hvars>>

\* fetch_slice: a direction the vertical unit does not admit throws
\* std::runtime_error("Unable to use ... on cube with depth units: ...").
UnitCheck ==
    /\ step = "unit"
    /\ IF UnitValidation(direction, zunit)
       THEN step' = "lineno" /\ UNCHANGED lstatus
       ELSE Fail(ErrorStatus)
    /\ UNCHANGED <<kind, direction, zunit, linenoOk, points, p, traces, read,
                   hvars>>

\* bounds.set_slice(axis, lineno, ...) throws on a lineno off the axis.
SetSlice ==
    /\ step = "lineno"
    /\ IF linenoOk THEN step' = "read" /\ UNCHANGED lstatus
       ELSE Fail(ErrorStatus)
    /\ UNCHANGED <<kind, direction, zunit, linenoOk, points, p, traces, read,
                   hvars>>

\* handle.read_subvolume, then to_response(data); GetSlice copies it out.
ReadSlice ==
    /\ step = "read"
    /\ read' = TRUE
    /\ \E o \in IoOutcomes :
         IF o = "ok" THEN step' = "done" /\ lstatus' = 200
         ELSE Fail(ErrorStatus)
    /\ UNCHANGED <<kind, direction, zunit, linenoOk, points, p, traces, hvars>>

---------------------------------------------------------------------------
(* Fence: GetFence -> fence -> fetch_fence.                                *)

\* GetFence's loop: a point that is no [x y] pair is an InvalidArgument;
\* then &ccoordinates[0] panics on a fence of no points (the panic is
\* answered 500 by gin.Recovery).
FenceArgs ==
    /\ step = "args"
    /\ CASE Malformed \in ToSet(points) -> Fail(400)
         [] points = <<>>               -> Fail(500)
         [] OTHER -> step' = "open" /\ UNCHANGED lstatus
    /\ UNCHANGED <<kind, direction, zunit, linenoOk, points, p, traces, read,
                   hvars>>

\* One iteration of fetch_fence's loop over the points: a point outside
\* the inline or crossline range throws std::runtime_error("Coordinate
\* ... is out of boundaries ..."); else its voxel centre goes to coords.
FencePoint ==
    /\ step = "point" /\ p <= Len(points)
    /\ IF InBounds(points[p])
       THEN /\ traces' = Append(traces, VoxelCentre(points[p]))
            /\ p' = p + 1
            /\ UNCHANGED <<step, lstatus>>
       ELSE Fail(ErrorStatus) /\ UNCHANGED <<traces, p>>
    /\ UNCHANGED <<kind, direction, zunit, linenoOk, points, read, hvars>>

\* handle.read_traces(coords, npoints), then to_response(data).
ReadTraces ==
    /\ step = "point" /\ p > Len(points)
    /\ \E o \in IoOutcomes :
         IF o = "ok" THEN step' = "done" /\ lstatus' = 200
         ELSE Fail(ErrorStatus)
    /\ UNCHANGED <<kind, direction, zunit, linenoOk, points, p, traces, read,
                   hvars>>

\* getHorizon -> horizon -> fetch_horizon (module LegacyHorizon).
Horizon == kind = "horizon" /\ H!Next /\ UNCHANGED lvars

Next == Open \/ UnitCheck \/ SetSlice \/ ReadSlice \/ FenceArgs \/ FencePoint
        \/ ReadTraces \/ Horizon

Spec == Init /\ [][Next]_vars /\ WF_vars(Next)

---------------------------------------------------------------------------
(* Properties.                                                             *)

\* The status of the request, whichever it is.
Status == IF kind = "horizon" THEN hstatus ELSE lstatus

TypeOK ==
    /\ step \in {"open", "unit", "lineno", "read", "args", "point", "done",
                 "error", "horizon"}
    /\ p \in 1 .. MaxPoints + 1
    /\ Len(traces) <= Len(points)
    /\ Status \in {0, 200, 400, 500}
    /\ H!TypeOK

\* spec.md 4.1: the vertical units each vertical domain admits; the other
\* directions ignore the unit.
DomainUnits == [time |-> {"ms", "s"}, depth |-> {"m", "ft", "ftUS"},
                sample |-> {"unitless"}]

LegalSlice(ax, unit) == ax \in DOMAIN DomainUnits => unit \in DomainUnits[ax]

\* fetch_slice reads a slice only in a domain the cube's vertical unit
\* admits (unit_validation's tables against spec.md 4.1).
SliceReadOnlyInItsDomain == read => LegalSlice(direction, zunit)

\* read_traces is only asked for voxel-centre positions inside the cube,
\* 0 <= x < nsamples on both horizontal axes: validate_boundary's half-open
\* bounds and the +0.5 shift after it, at the edges of the range.
FenceTracesInsideCube ==
    \A j \in 1 .. Len(traces) :
        /\ traces[j].x \in 0 .. 2 * NInline - 1
        /\ traces[j].y \in 0 .. 2 * NCrossline - 1

\* The output of the legacy horizon fetch is aligned with the surface, and
\* no voxel outside the vertical axis is read (module LegacyHorizon).
OutputAligned == H!OutputAligned
RequestedInsideCube == H!RequestedInsideCube

\* What the answer carries: the slice read along the axis, the coords
\* handed to read_traces, or the horizon buffer; nothing for an error.
Output ==
    IF Status # 200 THEN <<>>
    ELSE CASE kind = "slice" -> <<direction>>
           [] kind = "fence" -> traces
           [] OTHER -> buffer

Abstract == INSTANCE LegacyAbstract WITH answer <- Status, output <- Output

\* The legacy backend implements LegacyAbstract: a request is answered
\* exactly once, and eventually; only a legal one gets 200, and then with
\* the slice of its axis, the traces at the voxel centres of all its
\* points in order, or the horizon windows aligned with its cells; a legal
\* request fails only with 500.  This relates fetch_fence's loop,
\* validate_boundary and the +0.5 shift, and fetch_horizon's walk, to the
\* spec's definitions of the results.
ImplementsLegacyAbstract == Abstract!SafetySpec /\ Abstract!Answered

\* The caller's faults spec.md 7 lists that these requests can make: a
\* slice direction the vertical unit does not admit or a lineno off the
\* axis (4.1), a fence point that is no pair or lies outside
\* [-0.5, n - 0.5) (4.4), a vertical window that leaves the cube (4.5).
CallerFault ==
    CASE kind = "slice" -> ~LegalSlice(direction, zunit) \/ ~linenoOk
      [] kind = "fence" ->
           \E j \in 1 .. Len(points) :
               \/ points[j] = Malformed
               \/ points[j].x < -1 \/ points[j].x >= 2 * NInline - 1
               \/ points[j].y < -1 \/ points[j].y >= 2 * NCrossline - 1
      [] OTHER ->
           \E x \in H!Cells :
               surface[x] \in Depths
               /\ (surface[x] < Above \/ surface[x] + Below >= NSamples)

\* A legacy request that fails on a fault of the caller is answered 400
\* (spec.md 7: bad_request), when reading the cube itself never fails.
CallerFaultIsBadRequest == Status # 0 /\ CallerFault => Status = 400

=============================================================================
