---------------------------- MODULE MCMatchPipe ----------------------------
EXTENDS MatchPipe

P(x)    == [prim |-> x]
Arr(s)  == [arr |-> s]
B(n)    == [bind |-> n]
Odd     == [guard |-> {P("1"), Arr(<<P("1")>>)}]
Obj(f)  == [obj |-> f]

Positions == <<"0", "1", "2", "3">>
Small     == {P("1"), P("2")}

AllValues ==
    [prim : {"0", "1", "2", "3"}] \cup {Arr(<<>>)} \cup {Arr(<<x>>) : x \in Small}
    \cup {Arr(<<P("1"), x>>) : x \in Small \cup {Arr(<<P("2")>>)}} \cup {Arr(<<Arr(<<P("2")>>)>>)}
    \cup {Obj([a |-> x]) : x \in Small \cup {Arr(<<P("1"), P("2")>>)}}
    \cup {Obj([a |-> P("1"), b |-> x]) : x \in Small}

Leaves == Small \cup {B("x"), Wild, Odd}

AllPatterns ==
    Leaves \cup {Arr(<<>>)} \cup {Arr(<<x>>) : x \in Leaves \cup {Rest}}
    \cup {Arr(<<x, y>>) : x \in {P("1"), B("x"), Rest}, y \in {B("x"), Wild, Rest}}
    \cup {Arr(<<B("y"), Rest, B("x")>>), Arr(<<B("x"), Arr(<<B("x")>>)>>)}
    \cup {Obj(<<>>), Obj(<<<<"length", P("1")>>>>), Obj(<<<<"a", Arr(<<B("x")>>)>>>>)}
    \cup {Obj(<<<<"a", x>>>>) : x \in Leaves \cup {Obj(<<<<"0", B("x")>>>>)}}
    \cup {Obj(<<<<"b", B("x")>>, <<"a", x>>>>) : x \in {B("x"), P("2")}}
=============================================================================
