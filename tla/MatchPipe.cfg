CONSTANTS
    Prims = {"0", "1", "2", "3"}
    Names = {"a", "b", "x", "y", "length", "0", "1", "2", "3"}
    Index <- Positions
    Values <- AllValues
    MaxDepth = 3
    Patterns <- AllPatterns
    Guards = {"none", "1"}
    MaxClauses = 2
SPECIFICATION Spec
INVARIANTS MatchFirst PipeMatchesRecords
CHECK_DEADLOCK FALSE
