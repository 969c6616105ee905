CONSTANTS
    WindowSize = 1
    MaxAttributes = 2
    MaxConcurrency = 3
    Shapes <- MCShapes
    Patterns <- MCPatterns
    FetchOutcomes <- MCOutcomes
    AttrOutcomes <- MCOutcomes
    OffsetOutcomes <- MCOutcomes
SPECIFICATION Spec
PROPERTIES
    AbstractSpec
CHECK_DEADLOCK FALSE
