--------------------------- MODULE LegacyHorizon ---------------------------
(***************************************************************************)
(* The legacy horizon fetch: fetch_horizon and write_fillvalue             *)
(* (src/internal/vds/vds.cpp 340-482), called by getHorizon                *)
(* (src/unnamed/part_004 316-378), which turns a C error into a Go error.  *)
(*                                                                         *)
(* The surface is walked in row-major order (the flat cell index c stands  *)
(* for the row/col loops).  Each cell is either the fill value, outside    *)
(* the inline/crossline range, or a depth given as its vertical voxel      *)
(* index k.  The window is Above samples above and Below samples below k   *)
(* (VerticalWindow after squeeze), V = Above + Below + 1 samples in all.   *)
(* A voxel is <<cell, depth>>; the amplitude read_samples gives for a      *)
(* voxel is modelled by the voxel itself, and the dummy voxel {0,...}      *)
(* that no-value positions keep by Dummy.                                *)
(***************************************************************************)
EXTENDS Naturals, Integers, Sequences, SequencesExt

CONSTANTS
    NCells,     \* surface.size() = nrows * ncols
    Above,      \* vertical.nsamples_above()
    Below,      \* vertical.nsamples_below()
    NSamples,   \* sample.nsamples(): the length of the vertical axis
    Depths,     \* the vertical voxel indices a surface value maps to
    Fill,       \* the fill value (a model value)
    Outside,    \* a cell out of the inline/crossline range (a model value)
    Dummy       \* the dummy voxel {0, 0, 0, 0, 0, 0} (a model value)

VARIABLES
    surface,    \* surface[c]: Fill, Outside or a depth in Depths
    c,          \* the cell the loop is at
    i,          \* the next position of the samples array
    noval,      \* noval_indicies
    samples,    \* the voxels handed to read_samples
    buffer,     \* the response buffer, empty until read
    pc,         \* "loop", "done" or "error"
    status      \* the HTTP status the request ends with, 0 before

vars == <<surface, c, i, noval, samples, buffer, pc, status>>

Cells == 0 .. NCells - 1

\* vertical.size()
V == Above + Below + 1

\* nsamples = surface.size() * vertical.size()
Slots == 0 .. NCells * V - 1

\* Mutant: the upper bound of inrange is dropped.
InRangeNoUpper(x) == 0 <= x

\* inrange(sample, x): 0 <= x < sample.nsamples()
InRange(x) == 0 <= x /\ x < NSamples

\* Mutant: the loop stops before bottom (`<` for `<=`).
DepthsOfExclusive(top, bottom) == top .. bottom - 1

\* Mutant: the loop runs one sample past bottom.
DepthsOfPastBottom(top, bottom) == top .. bottom + 1

\* The depths the loop `for (cur_depth = top; cur_depth <= bottom; ...)`
\* requests.
DepthsOf(top, bottom) == top .. bottom

\* The HTTP status of the error getHorizon returns when C.horizon fails:
\* errors.New(err) is no *vds.InvalidArgument, so httpStatusCode gives 500.
ErrorStatus == 500

Init ==
    /\ surface \in [Cells -> {Fill, Outside} \cup Depths]
    /\ c = 0
    /\ i = 0
    /\ noval = <<>>
    /\ samples = [j \in Slots |-> Dummy]
    /\ buffer = <<>>
    /\ pc = "loop"
    /\ status = 0

\* Mutant: a no-value cell is recorded but its positions are not skipped.
NoValueCellNoSkip ==
    /\ pc = "loop" /\ c < NCells
    /\ surface[c] \in {Fill, Outside}
    /\ noval' = Append(noval, i)
    /\ c' = c + 1
    /\ UNCHANGED <<surface, i, samples, buffer, pc, status>>

\* A fill-value cell or one out of the horizontal range: remember i and
\* skip the cell's V positions, which keep the dummy voxel.
NoValueCell ==
    /\ pc = "loop" /\ c < NCells
    /\ surface[c] \in {Fill, Outside}
    /\ noval' = Append(noval, i)
    /\ i' = i + V
    /\ c' = c + 1
    /\ UNCHANGED <<surface, samples, buffer, pc, status>>

\* A depth whose window leaves the vertical axis: the runtime_error ends
\* fetch_horizon; to_response(e) carries its message, which getHorizon
\* returns as errors.New.
OutOfVertical ==
    /\ pc = "loop" /\ c < NCells
    /\ surface[c] \in Depths
    /\ ~(InRange(surface[c] - Above) /\ InRange(surface[c] + Below))
    /\ pc' = "error"
    /\ status' = ErrorStatus
    /\ UNCHANGED <<surface, c, i, noval, samples, buffer>>

\* A depth inside the cube: request the voxels top .. bottom of the cell
\* at the next positions.
InRangeCell ==
    /\ pc = "loop" /\ c < NCells
    /\ surface[c] \in Depths
    /\ InRange(surface[c] - Above) /\ InRange(surface[c] + Below)
    /\ LET top   == surface[c] - Above
           depth == DepthsOf(top, surface[c] + Below)
           n     == Cardinality(depth)
       IN /\ samples' = [j \in Slots |->
                           IF j \in i .. i + n - 1 THEN <<c, top + (j - i)>>
                           ELSE samples[j]]
          /\ i' = i + n
    /\ c' = c + 1
    /\ UNCHANGED <<surface, noval, buffer, pc, status>>

\* The positions write_fillvalue overwrites: V floats from each noval index.
FillSlots == UNION {idx .. idx + V - 1 : idx \in ToSet(noval)}

\* After the walk: one read_samples over all positions, then
\* write_fillvalue, then the buffer is returned.
Respond ==
    /\ pc = "loop" /\ c = NCells
    /\ buffer' = [j \in Slots |->
                    IF j \in FillSlots THEN Fill ELSE samples[j]]
    /\ pc' = "done"
    /\ status' = 200
    /\ UNCHANGED <<surface, c, i, noval, samples>>

Next == NoValueCell \/ OutOfVertical \/ InRangeCell \/ Respond

Spec == Init /\ [][Next]_vars /\ WF_vars(Next)

---------------------------------------------------------------------------
(* Properties.                                                             *)

TypeOK ==
    /\ c \in 0 .. NCells
    /\ i \in 0 .. NCells * V
    /\ pc \in {"loop", "done", "error"}
    /\ status \in {0, 200, ErrorStatus}

\* The value of the V floats of output cell x: the fill value for a fill or
\* out-of-plane cell, else the samples top .. bottom of x itself.
Expected(x, o) ==
    IF surface[x] \in {Fill, Outside} THEN Fill
    ELSE <<x, surface[x] - Above + o>>

\* The output is aligned with the input surface (the comment at vds.cpp
\* 384-408): positions x*V .. x*V+V-1 of the buffer hold exactly cell x's
\* window, and the fill value exactly where the cell has no value.
OutputAligned ==
    pc = "done" =>
        \A x \in Cells, o \in 0 .. V - 1 : buffer[x * V + o] = Expected(x, o)

\* read_samples is never asked for a voxel outside the vertical axis: every
\* requested depth lies in 0 .. NSamples - 1.
RequestedInsideCube ==
    \A j \in Slots : samples[j] # Dummy => samples[j][2] \in 0 .. NSamples - 1

=============================================================================
