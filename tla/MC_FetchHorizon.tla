-------------------------- MODULE MC_FetchHorizon --------------------------
(* fetchHorizon instantiated for TLC.                                      *)
(*   <<2, 3>>: guard holds one token, three chunks queue behind it.        *)
(*   <<4, 3>>: two goroutines run at once over three chunks.               *)
(*   <<1, 1>>: a single cell, a single goroutine.                          *)
EXTENDS FetchHorizon

MCShapes == {<<1, 1>>, <<2, 3>>, <<4, 3>>}

\* C.horizon succeeds, or fails with a bad request (vertical window out of
\* the cube) or a runtime error (the read from the VDS failed).
MCOutcomes == {"ok", "bad_request", "runtime"}

\* Every fill pattern of the small surfaces; for the 12-cell surface the
\* all-populated, all-fill and two mixed patterns, which between them give
\* chunks with zero, some and all cells populated.
MCPatterns(h) ==
    IF h <= 6 THEN [CellsOf(h) -> BOOLEAN]
    ELSE { [k \in CellsOf(h) |-> TRUE],
           [k \in CellsOf(h) |-> FALSE],
           [k \in CellsOf(h) |-> k % 2 = 0],
           [k \in CellsOf(h) |-> k < 4 \/ k >= 9] }
=============================================================================
