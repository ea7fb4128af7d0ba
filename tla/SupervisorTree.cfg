CONSTANTS
    tree = tree
    first = first
    inner = inner
    last = last
    leaf = leaf
    Nodes = {tree, first, inner, last, leaf}
    Root = tree
    Specs <- AllSpecs
    Strangers = {stranger}
    MaxFaults = 2
SPECIFICATION Spec
INVARIANTS TypeOK QuietMeansUp NoSurvivors NameFollows
PROPERTIES TemporaryStaysDown ChildComesBack TreeEndsWithOwner
CHECK_DEADLOCK FALSE
