\* Every legacy request: slices in every direction kind over time, depth
\* and sample cubes, fences of up to two points at and across the edges of
\* the cube, surfaces of fill, out-of-plane and in- and out-of-range
\* cells; opening and reading the cube may fail.
CONSTANTS
    Kinds = {"slice", "fence", "horizon"}
    Directions = {"inline", "k", "time", "depth", "sample"}
    ZUnits = {"ms", "m", "unitless"}
    NInline = 2
    NCrossline = 2
    Coords <- MCCoords
    MaxPoints = 2
    IoOutcomes = {"ok", "fail"}
    Malformed = Malformed
    NCells = 3
    Above = 1
    Below = 1
    NSamples = 4
    Depths <- MCDepths
    Fill = Fill
    Outside = Outside
    Dummy = Dummy
SPECIFICATION Spec
INVARIANTS
    TypeOK
    OutputAligned
    RequestedInsideCube
    SliceReadOnlyInItsDomain
    FenceTracesInsideCube
PROPERTIES
    ImplementsLegacyAbstract
CHECK_DEADLOCK FALSE
