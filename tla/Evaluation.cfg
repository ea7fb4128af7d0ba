CONSTANTS
    Names = {"x", "handle"}
    Handler = "handle"
    Sources <- AllSources
    MaxLines = 3
    MaxFiles = 2
SPECIFICATION Spec
INVARIANTS ReplRemembers ExitStatus ServedByScript
PROPERTIES DeadUntilClear RunEnds
CHECK_DEADLOCK FALSE
