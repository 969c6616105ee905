\* A legacy request whose only fault is the caller's: opening and reading
\* the cube never fails.
CONSTANTS
    Kinds = {"slice", "fence", "horizon"}
    Directions = {"inline", "k", "time", "depth", "sample"}
    ZUnits = {"ms", "m", "unitless"}
    NInline = 2
    NCrossline = 2
    Coords <- MCCoords
    MaxPoints = 2
    IoOutcomes = {"ok"}
    Malformed = Malformed
    NCells = 3
    Above = 1
    Below = 1
    NSamples = 4
    Depths <- MCDepths
    Fill = Fill
    Outside = Outside
    Dummy = Dummy
SPECIFICATION Spec
INVARIANTS
    CallerFaultIsBadRequest
CHECK_DEADLOCK FALSE
