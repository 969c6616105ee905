CONSTANTS
    WindowSize = 1
    MaxAttributes = 2
    MaxConcurrency = 3
    Shapes <- MCShapes
    Outcomes <- MCOutcomes
    Patterns <- MCPatterns
SPECIFICATION Spec
INVARIANTS
    TypeOK
    NoEmptyRange
    DisjointWrites
    AllOrNothing
PROPERTIES
    Termination
CHECK_DEADLOCK FALSE
