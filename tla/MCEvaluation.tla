---------------------------- MODULE MCEvaluation ----------------------------
EXTENDS Evaluation

Declares(s) == {n \in Names : s.decl[n] # "no"}
Constants(s) == {n \in Names : s.decl[n] = "const"}

\* Every source that declares at most one name and is not both a report and
\* a declaration, and scripts that declare two names; fields that make no
\* difference have one value.
AllSources ==
    {s \in Source :
        /\ s.imports => s.marked
        /\ \/ Declares(s) \in SUBSET {Handler} \/ Declares(s) = Names \ {Handler}
           \/ ~s.marked /\ s.does \in {"value", "throws"}
        /\ s.reached = Names \/ (s.reached \subseteq Constants(s) /\ s.reached # Constants(s))
        /\ s.marked \/ s.does \in {"value", "report", "syntax"} => s.reached = Names
        /\ s.callable \subseteq {Handler} \cap Declares(s)
        /\ s.does # "value" => s.callable = {}
        /\ s.does # "report" => s.failed = 0
        /\ s.does \in {"report", "syntax"} => Declares(s) = {}}
=============================================================================
