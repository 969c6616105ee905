---------------------- MODULE MC_CalculateAttributes ----------------------
(* calculateAttributes instantiated for TLC, with a pool bound of 3 in     *)
(* place of 32: the surfaces below then fall on either side of the bound   *)
(* as surfaces of 1, 32, 64 and 96+ cells do in the code.                  *)
(*   <<1, 1>>: fewer cells than the bound, one goroutine.                  *)
(*   <<1, 3>>: exactly the bound, one cell per goroutine.                  *)
(*   <<2, 2>>: above the bound, two goroutines of two cells.               *)
(*   <<1, 5>>: above the bound with a remainder: ranges of 2, 2 and 1.     *)
EXTENDS CalculateAttributes

MCShapes == {<<1, 1>>, <<1, 3>>, <<2, 2>>, <<1, 5>>}
MCOutcomes == {"ok", "runtime"}
MCPatterns(h) == [CellsOf(h) -> BOOLEAN]
=============================================================================
