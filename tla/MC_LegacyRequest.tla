------------------------- MODULE MC_LegacyRequest -------------------------
(* A 2 x 2 cube horizontally; fence points map to the positions -1 and   *)
(* -0.5 (below the lower bound, and on it: inside), 1 and 1.5 (inside, and *)
(* on the upper bound n - 0.5: outside), in half-voxel units -2, -1, 2, 3. *)
(* The horizon part is the cube of MC_LegacyHorizon: three cells on a      *)
(* vertical axis of four samples, a window of one above and one below.     *)
EXTENDS LegacyRequest

MCCoords == {-2, -1, 2, 3}
MCDepths == 0 .. 3

=============================================================================
