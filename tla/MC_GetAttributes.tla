------------------------- MODULE MC_GetAttributes -------------------------
(* GetAttributes instantiated for TLC.  The shapes give fetchHorizon one   *)
(* and two chunks (nrows 1 and 2, a pool of one goroutine) and             *)
(* calculateAttributes, with a pool bound of 3, one goroutine per cell.    *)
(* Every fill pattern of these surfaces is enumerated; every C call can    *)
(* succeed or fail with a runtime error.                                   *)
EXTENDS GetAttributes

MCShapes == {<<1, 2>>, <<2, 2>>}
MCPatterns(h) == [CellsOf(h) -> BOOLEAN]
MCOutcomes == {"ok", "runtime"}
=============================================================================
