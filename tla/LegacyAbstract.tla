-------------------------- MODULE LegacyAbstract --------------------------
(***************************************************************************)
(* What a request to the legacy backend promises (spec.md 4.1, 4.3, 4.4,   *)
(* 4.5 and 7), as one atomic answer.  A request is legal when a slice's    *)
(* direction suits the cube's vertical unit and its lineno lies on the     *)
(* axis, when every fence point is an [x y] pair inside [-0.5, n - 0.5) on *)
(* both horizontal axes, and when every vertical window of a horizon lies  *)
(* on the vertical axis.  A legal request is answered 200 with its result *)
(* or fails with a runtime error (500); an illegal one fails, 400 or 500,  *)
(* and never returns data.  Positions are in half-voxel units, as in       *)
(* LegacyRequest.                                                          *)
(***************************************************************************)
EXTENDS Integers, Sequences, SequencesExt

CONSTANTS
    Kinds, Directions, ZUnits, NInline, NCrossline, Coords, MaxPoints,
    Malformed, NCells, Above, Below, NSamples, Depths, Fill, Outside

VARIABLES
    kind, direction, zunit, linenoOk, points, surface,  \* the request
    answer,     \* the HTTP status, 0 before the answer
    output      \* what the answer carries: <<>> for an error

vars == <<kind, direction, zunit, linenoOk, points, surface, answer, output>>

\* spec.md 4.1: the vertical units each vertical domain admits.
DomainUnits == [time |-> {"ms", "s"}, depth |-> {"m", "ft", "ftUS"},
                sample |-> {"unitless"}]

\* spec.md 4.4: a point lies in [-0.5, n - 0.5) on both axes (in halves).
InCube(pt) == /\ pt.x \in -1 .. 2 * NInline - 2
              /\ pt.y \in -1 .. 2 * NCrossline - 2

Cells == 0 .. NCells - 1
V == Above + Below + 1
Slots == 0 .. NCells * V - 1

Legal ==
    CASE kind = "slice" ->
           /\ direction \in DOMAIN DomainUnits => zunit \in DomainUnits[direction]
           /\ linenoOk
      [] kind = "fence" ->
           \A j \in 1 .. Len(points) : points[j] # Malformed /\ InCube(points[j])
      [] OTHER ->
           \A x \in Cells : surface[x] \in Depths =>
               /\ surface[x] - Above >= 0
               /\ surface[x] + Below < NSamples

\* The data of a legal request: the slice along the axis asked for; the
\* trace at the voxel centre (+0.5) of each point, in order; for a horizon,
\* each cell's window of V samples, or V fill values where the cell is
\* fill or off the cube.
Result ==
    CASE kind = "slice" -> <<direction>>
      [] kind = "fence" ->
           [j \in 1 .. Len(points) |-> [x |-> points[j].x + 1,
                                         y |-> points[j].y + 1]]
      [] OTHER ->
           [j \in Slots |->
              LET x == j \div V IN
              IF surface[x] \in {Fill, Outside} THEN Fill
              ELSE <<x, surface[x] - Above + (j % V)>>]

Init ==
    /\ kind \in Kinds
    /\ IF kind = "slice"
       THEN direction \in Directions /\ zunit \in ZUnits /\ linenoOk \in BOOLEAN
       ELSE /\ direction = CHOOSE d \in Directions : TRUE
            /\ zunit = CHOOSE u \in ZUnits : TRUE
            /\ linenoOk = TRUE
    /\ points \in IF kind = "fence"
                  THEN BoundedSeq([x : Coords, y : Coords] \cup {Malformed},
                                  MaxPoints)
                  ELSE {<<>>}
    /\ surface \in IF kind = "horizon"
                   THEN [Cells -> {Fill, Outside} \cup Depths]
                   ELSE {[x \in Cells |-> Fill]}
    /\ answer = 0
    /\ output = <<>>

Answer ==
    /\ answer = 0
    /\ \/ Legal /\ answer' = 200 /\ output' = Result
       \/ answer' = 500 /\ output' = <<>>
       \/ ~Legal /\ answer' = 400 /\ output' = <<>>
    /\ UNCHANGED <<kind, direction, zunit, linenoOk, points, surface>>

Spec == Init /\ [][Answer]_vars /\ WF_vars(Answer)

\* Answer is enabled exactly while answer = 0 (a 500 is always allowed),
\* so under the safety part WF_vars(Answer) is the same as eventually
\* answering: Spec is SafetySpec /\ Answered, in a form whose refinement
\* TLC can check without evaluating ENABLED through a refinement mapping.
SafetySpec == Init /\ [][Answer]_vars
Answered == <>(answer # 0)

=============================================================================
