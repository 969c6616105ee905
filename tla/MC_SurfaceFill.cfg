CONSTANTS
    Values <- MCValues
    FillValue <- MCFill
    Windows <- MCWindows
    MaxRows = 2
    MaxCols = 2
    MaxAttributes = 1
    Names <- MCNames
    CallOutcomes = {"ok", "bad_request", "runtime"}
SPECIFICATION Spec
INVARIANTS
    FillPatternPreserved
CHECK_DEADLOCK FALSE
