-------------------------- MODULE MCSupervisorTree --------------------------
EXTENDS SupervisorTree
CONSTANTS tree, first, inner, last, leaf

Worker(has, name, restart) ==
    [type |-> None, name |-> name, strategy |-> None, restart |-> restart,
     maxRestarts |-> {}, has |-> has, children |-> <<>>]

Sup(name, strategy, restart, max, children) ==
    [type |-> "supervisor", name |-> name, strategy |-> strategy,
     restart |-> restart, maxRestarts |-> max, has |-> "start",
     children |-> children]

\* A named worker, a supervisor with a child of its own, and a last worker.
Tree(strategy, lastRestart, innerRestart, leafHas) ==
    [n \in Nodes |->
       CASE n = tree  -> Sup("tree", strategy, None, {2}, <<first, inner, last>>)
         [] n = first -> Worker("source", "a", "transient")
         [] n = inner -> Sup(None, None, innerRestart, {0}, <<leaf>>)
         [] n = last  -> Worker("module", None, lastRestart)
         [] n = leaf  -> Worker(leafHas, None, "sometimes")]

AllSpecs ==
    {Tree(x, r, i, h) : x \in {"one_for_all", "rest_for_one", "simple"},
                        r \in {"temporary", "permanent"},
                        i \in {"transient", "permanent"},
                        h \in {"source", "class"}}

ReadmeSpecs == {[Tree("one_for_one", "permanent", None, "start")
                    EXCEPT ![tree].children = <<leaf>>, ![inner].children = <<>>]}
=============================================================================
