---------------------------- MODULE TermConvert ----------------------------
(***************************************************************************)
(* The conversion of values between Erlang and JavaScript, term_convert.c. *)
(* The order of the tests is that of the code: a list that is an iolist is *)
(* taken for a binary before it is taken for a list.                       *)
(*                                                                         *)
(* The widths of integers are parameters, so that the boundaries can be    *)
(* had with small numbers.  Text is a sequence of tokens, a token being an *)
(* ASCII byte, a name, or U+FFFD.  The conversions recurse on the nesting  *)
(* of values, which MaxDepth bounds.                                       *)
(***************************************************************************)
EXTENDS Integers, Sequences, SequencesExt

CONSTANTS
    AsciiMax,   \* 127
    ByteMax,    \* 255
    Int32Max,   \* 2^31 - 1
    DoubleMax,  \* 2^53: above it a double does not hold every integer
    Int64Max,   \* 2^63 - 1
    MaxDepth,   \* bound on the nesting of values and terms, a leaf being 1
    Names       \* the names of properties

Power[k \in Nat] == IF k = 0 THEN 1 ELSE 2 * Power[k - 1]

ASSUME WidthAssumption ==
    /\ {AsciiMax, ByteMax, Int32Max, DoubleMax, Int64Max} \subseteq Nat
    /\ AsciiMax <= ByteMax /\ ByteMax < Int32Max
    /\ Int32Max < DoubleMax /\ DoubleMax < Int64Max
    /\ DoubleMax \in {Power[k] : k \in 0..DoubleMax}

ASSUME DepthAssumption == MaxDepth \in Nat \ {0}

Is(v, kind) == kind \in DOMAIN v

Prim(x) == [js |-> x]
Atom(a) == [atom |-> a]
Bin(s)  == [bin |-> s]

PidType == "__beamjs_type"
PidProp == "__beamjs_data"

ASSUME NamesAssumption == {PidType, PidProp} \subseteq Names /\ Names \subseteq STRING

\* The tokens named below are text (the provers do not see that of literals).
ASSUME TokenAssumption ==
    {"ascii", "U+FFFD", "true", "false", "undefined", "nil", "no_handler"} \subseteq STRING

\* A key of a map, of one token, or one that is no binary and no atom.
KeyOf(n) == Bin(<<n>>)
Keys     == {KeyOf(n) : n \in Names} \cup {Atom(n) : n \in Names} \cup {[int |-> 0]}

\* Objects have a value or Nothing under each name, maps under each key.
Nothing   == [none |-> TRUE]
Object(f) == [obj |-> [n \in Names |-> IF n \in DOMAIN f THEN f[n] ELSE Nothing]]
MapOf(f)  == [map |-> [k \in Keys |-> IF k \in DOMAIN f THEN f[k] ELSE Nothing]]

-----------------------------------------------------------------------------
(***************************************************************************)
(* Erlang terms: [int |-> n], [float |-> n] (a whole float), [erl |-> ..]  *)
(* ("pid": any pid, reference or function), [atom |-> name], [bin |->      *)
(* text], [tuple |-> terms], [list |-> terms], [map |-> f].                *)
(*                                                                         *)
(* JavaScript values: [num |-> n] (a whole number), [js |-> ..], [str |->  *)
(* text], [arr |-> values], [obj |-> f].                                   *)
(***************************************************************************)
Prims == {"null", "undefined", "true", "false", "fraction", "NaN", "bigint", "function"}

JsLeaf   == [num : Int] \cup [js : Prims] \cup [str : Seq(STRING)]
Objs(S)  == [obj : [Names -> S \cup {Nothing}]]

TermLeaf == [int : Int] \cup [float : Int] \cup [erl : {"fraction", "pid"}]
            \cup [atom : STRING] \cup [bin : Seq(STRING)]
Maps(S)  == [map : [Keys -> S \cup {Nothing}]]

\* The values and the terms of at most the given nesting.
JsOver(S)    == JsLeaf \cup [arr : Seq(S)] \cup Objs(S)
TermsOver(S) == TermLeaf \cup [tuple : Seq(S)] \cup [list : Seq(S)] \cup Maps(S)

Js[d \in Nat]    == IF d = 0 THEN {} ELSE JsOver(Js[d - 1])
Terms[d \in Nat] == IF d = 0 THEN {} ELSE TermsOver(Terms[d - 1])

-----------------------------------------------------------------------------
FitsIn(n, max) == -max - 1 <= n /\ n <= max

\* How far apart the doubles around n are, and the nearest one, to even.
Within(n, k) == n \in -(DoubleMax * Power[k])..(DoubleMax * Power[k])
Spacing(n) ==
    Power[CHOOSE k \in 0..Int64Max : Within(n, k) /\ \A j \in 0..(k - 1) : ~Within(n, j)]

ToDouble(n) ==
    LET s == Spacing(n)
        q == n \div s
        r == n % s
    IN  (IF 2 * r > s \/ (2 * r = s /\ q % 2 = 1) THEN q + 1 ELSE q) * s

\* JS_NewStringLen on a byte: a byte that is not UTF-8 by itself is replaced.
ByteToken(n) == IF n <= AsciiMax THEN "ascii" ELSE "U+FFFD"

\* What enif_inspect_iolist_as_binary accepts, of proper lists: bytes,
\* binaries and such lists, the empty list included.
IoListsOver(S) == [list : Seq([int : 0..ByteMax] \cup [bin : Seq(STRING)] \cup S)]

IoLists[d \in Nat] == IF d = 0 THEN {} ELSE IoListsOver(IoLists[d - 1])

\* Mutant: only lists that hold no lists are taken for text.
IsFlatIoList(t) == t \in IoLists[1]

\* Mutant: lists are never taken for text.
NoIoList(t) == FALSE

\* The test of erl_term_to_js.
TakenForText(t) == t \in IoLists[MaxDepth]

\* The contents of an iolist, as text; text gives those of its lists.
TextOver(text, t) ==
    FlattenSeq([i \in DOMAIN t.list |->
        LET e == t.list[i]
        IN  IF Is(e, "int") THEN <<ByteToken(e.int)>>
            ELSE IF Is(e, "bin") THEN e.bin ELSE text[e]])

Text[d \in Nat] ==
    IF d = 0 THEN <<>> ELSE [t \in IoLists[d] |-> TextOver(Text[d - 1], t)]

AtomToJs(a) ==
    CASE a \in {"true", "false", "undefined"} -> Prim(a)
      [] a \in {"nil", "null"}                -> Prim("null")
      [] OTHER                                -> [str |-> <<a>>]

IntToJs(n) ==
    IF FitsIn(n, Int32Max) THEN [num |-> n]
    ELSE IF FitsIn(n, Int64Max) THEN [num |-> ToDouble(n)]
    ELSE Prim("null")

\* What a property gets: atoms come first in a map, so the value of a
\* binary overwrites that of an atom; other keys are left out.
Entry(f, n) == IF f[KeyOf(n)] # Nothing THEN f[KeyOf(n)] ELSE f[Atom(n)]

\* conv on what is there.
Conv(conv, x) == IF x = Nothing THEN Nothing ELSE conv[x]

\* The body of erl_term_to_js; conv converts what t is made of.
JsOf(conv, t) ==
    CASE Is(t, "int")    -> IntToJs(t.int)
      [] Is(t, "float")  -> [num |-> t.float]
      [] Is(t, "atom")   -> AtomToJs(t.atom)
      [] Is(t, "bin")    -> [str |-> t.bin]
      [] TakenForText(t) -> [str |-> Text[MaxDepth][t]]
      [] Is(t, "tuple")  -> [arr |-> [i \in DOMAIN t.tuple |-> conv[t.tuple[i]]]]
      [] Is(t, "list") /\ ~TakenForText(t) ->
             [arr |-> [i \in DOMAIN t.list |-> conv[t.list[i]]]]
      [] Is(t, "map")    -> [obj |-> [n \in Names |-> Conv(conv, Entry(t.map, n))]]
      [] Is(t, "erl")    -> IF t.erl = "fraction" THEN Prim("fraction") ELSE Prim("null")

ToJs[d \in Nat] ==
    IF d = 0 THEN <<>> ELSE [t \in Terms[d] |-> JsOf(ToJs[d - 1], t)]

erl_term_to_js(t) == ToJs[MaxDepth][t]

\* The map that stands for a pid in JavaScript, and what is taken for one:
\* such a map, or a pid.
PidData64 == Bin(<<"base64 of a pid">>)

serialize_pid ==
    MapOf([k \in {KeyOf(PidType), KeyOf(PidProp)} |->
              IF k = KeyOf(PidType) THEN Bin(<<"pid">>) ELSE PidData64])

deserialize_pid(t) ==
    \/ t = [erl |-> "pid"]
    \/ Is(t, "map") /\ t.map[KeyOf(PidType)] = Bin(<<"pid">>) /\ t.map[KeyOf(PidProp)] = PidData64

\* An object made by serialize_pid.
IsPidObject(v) == v.obj[PidType] = [str |-> <<"pid">>]

PidData(v) == IF v.obj[PidProp] # Nothing THEN v.obj[PidProp] ELSE Prim("undefined")

PrimToErl(x) ==
    CASE x \in {"true", "false", "undefined"} -> Atom(x)
      [] x = "null"     -> Atom("nil")
      [] x = "fraction" -> [erl |-> "fraction"]
      [] x = "bigint"   -> Atom("undefined")
      [] x = "function" -> MapOf(<<>>)

\* Values that enif_make_double refuses nowhere, as it does NaN and
\* infinities; of a pid object only the data is converted.
SoundOver(S, V) ==
    (JsLeaf \ {Prim("NaN")}) \cup [arr : Seq(S)]
    \cup {v \in Objs(V) : IF IsPidObject(v) THEN PidData(v) \in S
                         ELSE v \in Objs(S)}

Sound[d \in Nat] == IF d = 0 THEN {} ELSE SoundOver(Sound[d - 1], Js[d - 1])

\* The NIF raises badarg.
Raises(v) == v \in Js[MaxDepth] \ Sound[MaxDepth]

\* The body of js_value_to_erl, for values that do not raise; a function is
\* an object without enumerable properties.
TermOf(conv, v) ==
    CASE Is(v, "js")  -> PrimToErl(v.js)
      [] Is(v, "num") -> IF FitsIn(v.num, Int32Max) THEN [int |-> v.num] ELSE [float |-> v.num]
      [] Is(v, "str") -> Bin(v.str)
      [] Is(v, "arr") -> [list |-> [i \in DOMAIN v.arr |-> conv[v.arr[i]]]]
      [] Is(v, "obj") -> IF IsPidObject(v) THEN conv[PidData(v)]
                         ELSE [map |-> [k \in Keys |-> IF Is(k, "bin") THEN Conv(conv, v.obj[k.bin[1]])
                                                     ELSE Nothing]]

ToErl[d \in Nat] ==
    IF d = 0 THEN <<>> ELSE [v \in Sound[d] |-> TermOf(ToErl[d - 1], v)]

js_value_to_erl(v) == ToErl[MaxDepth][v]
=============================================================================
