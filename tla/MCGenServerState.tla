-------------------------- MODULE MCGenServerState --------------------------
(* The values with which TLC checks GenServerState.                        *)
EXTENDS GenServerState

ErlInt(n)  == [int |-> n]
Num(n)  == [num |-> n]
List(s) == [list |-> s]
Arr(s)  == [arr |-> s]

\* Integers on both sides of every boundary: 4 is the first that does
\* not fit in 32 bits, 9 the first that a double does not hold, 18 is where
\* doubles are four apart, -34 does not fit in 64 bits.
Boundaries == {ErlInt(n) : n \in {-34, 1, 4, 9, 18}}

Scalars == {Bin(<<"a">>), [erl |-> "fraction"], [erl |-> "pid"]}

\* Nested terms: what is text inside what is not, and the other way round.
Compound ==
    {List(<<>>), List(<<ErlInt(1), Bin(<<"a">>)>>),
     List(<<Atom("nil"), List(<<ErlInt(0)>>), List(<<ErlInt(2)>>)>>),
     [tuple |-> <<Atom("ok"), [float |-> 1], List(<<>>)>>]}

\* A property that two keys name, and a key that names none.
MapTerms ==
    {MapOf([k \in {Bin(<<"items">>), Atom("items")} |->
               IF Is(k, "bin") THEN ErlInt(1) ELSE ErlInt(2)]),
     MapOf([k \in {Atom("error"), ErlInt(0)} |-> List(<<Bin(<<"a">>)>>)])}

AllRequests == Boundaries \cup Scalars \cup Compound \cup MapTerms
               \cup {serialize_pid}

\* Objects that become what stands for a pid, here and in Erlang.
PidLike(type, data) == Object([__beamjs_type |-> type, __beamjs_data |-> data])
Untame ==
    {PidLike(Arr(<<[str |-> <<"pid">>]>>), Num(1)),
     PidLike(PidLike([str |-> <<"pid">>], [str |-> <<"pid">>]), [str |-> PidData64.bin])}

AllValues ==
    {Prim(x) : x \in {"function", "bigint", "NaN"}}
    \cup {Arr(<<>>), Arr(<<Arr(<<[str |-> <<"a">>]>>)>>), Arr(<<Prim("null"), Arr(<<>>)>>),
          Object([items |-> Arr(<<>>)]),
          Object([stop |-> Prim("function"), items |-> Num(1)])}
    \cup Untame

AllNames ==
    {"reply", "noreply", "stop", "error", "state", "items", PidType, PidProp}
=============================================================================
