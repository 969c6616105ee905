CONSTANTS
    WindowSize = 1
    Shapes <- MCShapes
    Outcomes <- MCOutcomes
    Patterns <- MCPatterns
SPECIFICATION Spec
INVARIANTS
    TypeOK
    DisjointWrites
    WritesInsideBuffer
    JoinedOnReturn
    AllOrNothing
PROPERTIES
    Termination
CHECK_DEADLOCK FALSE
