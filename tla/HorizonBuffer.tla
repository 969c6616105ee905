--------------------------- MODULE HorizonBuffer ---------------------------
(***************************************************************************)
(* Layout of the horizon buffer of an attribute request.                   *)
(*                                                                         *)
(* horizon_buffer_offsets (capi.cpp, delegating to cppapi, which is not    *)
(* part of src/) fills dataOffset[0..hsize] with a prefix sum: cell k of   *)
(* the surface owns the floats dataOffset[k] .. dataOffset[k+1]-1 of the   *)
(* horizon buffer, a window of WindowSize floats when the cell is          *)
(* populated and nothing when it is a fill / out-of-bounds cell.           *)
(* GetAttributes (core.go) then allocates dataOffset[hsize] * 4 bytes, or  *)
(* one byte when that is zero, because an empty Go slice has no &buf[0].   *)
(***************************************************************************)
EXTENDS Naturals

CONSTANT WindowSize   \* nsamples_above + 1 + nsamples_below of the window

ASSUME WindowSize \in Nat \ {0}

\* The cells of a surface of hsize = nrows * ncols values, row-major.
CellsOf(hsize) == 0 .. hsize - 1

\* Number of floats cell k contributes to the horizon buffer.
CellSize(populated, k) == IF populated[k] THEN WindowSize ELSE 0

RECURSIVE OffsetAt(_, _)

\* offsets[k] = number of floats owned by the cells before k.
OffsetAt(populated, k) ==
    IF k = 0 THEN 0
    ELSE OffsetAt(populated, k - 1) + CellSize(populated, k - 1)

\* The table horizon_buffer_offsets writes into dataOffset[0..hsize].
DataOffset(populated, hsize) == [k \in 0 .. hsize |-> OffsetAt(populated, k)]

\* The float slots of the buffer that the cells from .. to-1 own.
Region(off, from, to) == off[from] .. off[to] - 1

\* Mutant: the buffer is sized in floats instead of bytes.
HorizonBufferSizeInFloats(off, hsize) ==
    IF off[hsize] = 0 THEN 1 ELSE off[hsize]

\* Byte size GetAttributes gives the horizon buffer (core.go 637-641).
HorizonBufferSize(off, hsize) ==
    IF off[hsize] * 4 = 0 THEN 1 ELSE off[hsize] * 4

=============================================================================
