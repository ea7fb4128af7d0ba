\* The child specification of README.md:251.
CONSTANTS
    tree = tree
    first = first
    inner = inner
    last = last
    leaf = leaf
    Nodes = {tree, first, inner, last, leaf}
    Root = tree
    Specs <- ReadmeSpecs
    Strangers = {}
    MaxFaults = 0
SPECIFICATION Spec
INVARIANT ReadmeChildRuns
CHECK_DEADLOCK FALSE
