-------------------------- MODULE MC_SurfaceInput --------------------------
(* Surfaces of up to 2 x 2 cells over the values -1 (the fill value), 1    *)
(* and 3, with windows 0 and 2 (1 - 2 lands on the fill value) and -1.     *)
(* Attribute names "min", "MIN", "rms", "minimum" and "".                  *)
EXTENDS SurfaceInput

MCValues == {-1, 1, 3}
MCWindows == {-1, 0, 2}
MCFill == -1
MCNames == {[word |-> "min", upper |-> FALSE], [word |-> "min", upper |-> TRUE],
            [word |-> "rms", upper |-> FALSE],
            [word |-> "minimum", upper |-> FALSE],
            [word |-> "", upper |-> FALSE]}

=============================================================================
