----------------------------- MODULE MatchPipe -----------------------------
(***************************************************************************)
(* Pattern matching: match of match.js, and Pipeline.match of pipe.js,     *)
(* which says that it integrates with beamjs:match and has a matchPattern  *)
(* of its own.  Both go through the clauses in order, with new bindings    *)
(* for each; they differ in the patterns they know.                        *)
(*                                                                         *)
(* Values: [prim |-> x], [arr |-> values], [obj |-> f], f a function on    *)
(* names.  Patterns: values, with [obj |-> pairs] for an object (its keys  *)
(* in their order), and [sym |-> "_"] or [sym |-> "REST"], [bind |-> name] *)
(* and [guard |-> the values the predicate accepts].                       *)
(***************************************************************************)
EXTENDS Naturals, Sequences, FiniteSetsExt

CONSTANTS
    Prims,     \* the primitive values
    Names,     \* the names of properties and of bindings
    Index,     \* the names of the positions of an array, "0" first
    Values,    \* the values that are matched, with their parts
    MaxDepth,  \* bound on the nesting of patterns, a leaf being 1
    Patterns,  \* the patterns of the clauses
    Guards,    \* the guards of clauses: "none", or the value x must have
    MaxClauses \* bound on the clauses

Is(v, kind) == kind \in DOMAIN v

MaxLen == Len(Index) - 1

\* The lengths of arrays are among the primitive values, the parts of a
\* value and the ends of an array are values.
ASSUME ValuesAssumption ==
    /\ Index \in Seq(Names \cap Prims) /\ Index # <<>>
    /\ [prim : Prims] \subseteq Values
    /\ \A v \in Values :
          \/ v \in [prim : Prims]
          \/ /\ Is(v, "arr") /\ v = [arr |-> v.arr]
             /\ v.arr \in Seq(Values) /\ Len(v.arr) <= MaxLen
             /\ \A k \in 1..(Len(v.arr) + 1) : [arr |-> SubSeq(v.arr, k, Len(v.arr))] \in Values
          \/ Is(v, "obj") /\ v = [obj |-> v.obj] /\ v.obj \in [DOMAIN v.obj -> Values]

Wild == [sym |-> "_"]
Rest == [sym |-> "REST"]

\* The patterns of at most the given nesting.
Lists(S) == {s \in Seq(S) : Len(s) <= MaxLen}
PatLeaf  == {Wild, Rest} \cup [bind : Names] \cup [guard : SUBSET Values] \cup [prim : Prims]
PatsOver(S) == PatLeaf \cup [arr : Lists(S)] \cup [obj : Lists(Names \X S)]

Pats[d \in Nat] == IF d = 0 THEN {} ELSE PatsOver(Pats[d - 1])

ASSUME MatchAssumption ==
    /\ MaxClauses \in Nat /\ MaxDepth \in Nat
    /\ Patterns \subseteq Pats[MaxDepth]

VARIABLES
    via,      \* "match" or "pipe"
    value,    \* the value
    clauses,  \* [pattern, guardFn] in their order
    i,        \* the clause that is tried
    todo,     \* the calls of matchPattern in progress, the innermost first
    bindings, \* the bindings of the clause that is tried
    out       \* what came of it: Pending, the clause and its bindings, Thrown

vars == <<via, value, clauses, i, todo, bindings, out>>

Pending == [clause |-> 0, bindings |-> <<>>]
Thrown  == [clause |-> MaxClauses + 1, bindings |-> <<>>]

\* Property access on an object or an array: indices, length, own names.
Keys(v) ==
    IF Is(v, "obj") THEN DOMAIN v.obj
    ELSE {Index[k] : k \in DOMAIN v.arr} \cup {"length"}
Get(v, key) ==
    IF Is(v, "obj") THEN v.obj[key]
    ELSE IF key = "length" THEN [prim |-> Index[Len(v.arr) + 1]]
    ELSE v.arr[CHOOSE k \in DOMAIN v.arr : Index[k] = key]

Bind(b, name, v) == [n \in DOMAIN b \cup {name} |-> IF n = name THEN v ELSE b[n]]

-----------------------------------------------------------------------------
(***************************************************************************)
(* The calls of matchPattern.  A call is for a value v and a pattern p; at *)
(* is 0 before its loop over elements or keys and the position in the loop *)
(* from then on.  A call that returns false makes its callers return false *)
(* and the next clause be tried, with new bindings; one that returns true  *)
(* lets its caller go on.                                                  *)
(***************************************************************************)
Call(v, p, at) == [v |-> v, p |-> p, at |-> at]

Attempt(k) == IF k <= Len(clauses) THEN <<Call(value, clauses[k].pattern, 0)>> ELSE <<>>

NextClause ==
    /\ i' = i + 1 /\ todo' = Attempt(i + 1) /\ bindings' = <<>>
    /\ UNCHANGED out

ReturnsTrue(b) ==
    /\ todo' = Tail(todo) /\ bindings' = b
    /\ UNCHANGED <<i, out>>

Returns(ok) == IF ok THEN ReturnsTrue(bindings) ELSE NextClause

\* One round of a loop: match the part, and come back for the next one.
Descends(c, v, p) ==
    /\ todo' = <<Call(v, p, 0), [c EXCEPT !.at = @ + 1]>> \o Tail(todo)
    /\ UNCHANGED <<i, bindings, out>>

EntersLoop(c) ==
    /\ todo' = <<[c EXCEPT !.at = 1]>> \o Tail(todo)
    /\ UNCHANGED <<i, bindings, out>>

\* The loop over Object.keys(pattern), its entries being pairs.
matchKeys(c, pairs) ==
    IF c.at > Len(pairs) THEN Returns(TRUE)
    ELSE IF pairs[c.at][1] \notin Keys(c.v) THEN Returns(FALSE)
    ELSE Descends(c, Get(c.v, pairs[c.at][1]), pairs[c.at][2])

-----------------------------------------------------------------------------
(***************************************************************************)
(* matchPattern of match.js.                                               *)
(***************************************************************************)
\* Mutant: a longer array matches too.
EndsLoosely(v, p) == TRUE

\* After the last element of the pattern.
EndsWith(v, p) == Len(v.arr) = Len(p.arr)

\* The loop over an array pattern; REST takes the remaining elements and
\* ends it, whatever follows.
matchElements(c, v, p) ==
    IF c.at > Len(p.arr) THEN Returns(EndsWith(v, p))
    ELSE IF p.arr[c.at] = Rest
    THEN ReturnsTrue(IF c.at < Len(p.arr) /\ Is(p.arr[c.at + 1], "bind")
                     THEN Bind(bindings, p.arr[c.at + 1].bind,
                               [arr |-> SubSeq(v.arr, c.at, Len(v.arr))])
                     ELSE bindings)
    ELSE IF c.at > Len(v.arr) THEN Returns(FALSE)
    ELSE Descends(c, v.arr[c.at], p.arr[c.at])

matchPattern(c, v, p) ==
    \/ Is(p, "sym") /\ Returns(p = Wild)
    \/ Is(p, "bind") /\ ReturnsTrue(Bind(bindings, p.bind, v))
    \/ Is(p, "guard") /\ Returns(v \in p.guard)
    \/ Is(p, "prim") /\ Returns(v = p)
    \/ Is(p, "arr") /\ c.at = 0 /\ IF Is(v, "arr") THEN EntersLoop(c) ELSE Returns(FALSE)
    \/ Is(p, "arr") /\ c.at > 0 /\ matchElements(c, v, p)
    \/ Is(p, "obj") /\ c.at = 0 /\ IF Is(v, "prim") THEN Returns(FALSE) ELSE EntersLoop(c)
    \/ Is(p, "obj") /\ c.at > 0 /\ matchKeys(c, p.obj)

(***************************************************************************)
(* matchPattern of pipe.js.  Symbols are compared, a guard is an object    *)
(* with the keys __type and predicate, which no value has, and an array is *)
(* an object whose keys are its indices.                                   *)
(***************************************************************************)
\* Mutant: the loop returns after the first key.
FirstPair(p) == IF Is(p, "obj") THEN SubSeq(p.obj, 1, Min({1, Len(p.obj)})) ELSE <<>>

Pairs(p) == IF Is(p, "obj") THEN p.obj ELSE [k \in DOMAIN p.arr |-> <<Index[k], p.arr[k]>>]

pipeMatchPattern(c, v, p) ==
    \/ (Is(p, "sym") \/ Is(p, "guard")) /\ Returns(FALSE)
    \/ Is(p, "bind") /\ ReturnsTrue(Bind(bindings, p.bind, v))
    \/ Is(p, "prim") /\ Returns(v = p)
    \/ /\ (Is(p, "arr") \/ Is(p, "obj")) /\ c.at = 0
       /\ IF Is(v, "prim") THEN Returns(FALSE) ELSE EntersLoop(c)
    \/ (Is(p, "arr") \/ Is(p, "obj")) /\ c.at > 0 /\ matchKeys(c, Pairs(p))

-----------------------------------------------------------------------------
(***************************************************************************)
(* The loop over the clauses.                                              *)
(***************************************************************************)
Init ==
    /\ via \in {"match", "pipe"}
    /\ value \in Values
    /\ \E n \in 0..MaxClauses :
          clauses \in [1..n -> [pattern : Patterns, guardFn : Guards]]
    /\ i = 1
    /\ todo = Attempt(1) /\ bindings = <<>>
    /\ out = Pending

Matching ==
    /\ out = Pending /\ todo # <<>>
    /\ LET c == Head(todo)
       IN  IF via = "match" THEN matchPattern(c, c.v, c.p) ELSE pipeMatchPattern(c, c.v, c.p)
    /\ UNCHANGED <<via, value, clauses>>

Passes(guardFn, b) ==
    guardFn = "none" \/ ("x" \in DOMAIN b /\ b["x"] = [prim |-> guardFn])

\* A clause that matches and whose guard passes is the result.
Decide ==
    IF Passes(clauses[i].guardFn, bindings)
    THEN out' = [clause |-> i, bindings |-> bindings] /\ UNCHANGED <<i, todo, bindings>>
    ELSE NextClause

Matched ==
    /\ out = Pending /\ todo = <<>> /\ i <= Len(clauses)
    /\ Decide
    /\ UNCHANGED <<via, value, clauses>>

NoClause ==
    /\ out = Pending /\ i > Len(clauses)
    /\ out' = Thrown
    /\ UNCHANGED <<via, value, clauses, i, todo, bindings>>

Next == Matching \/ Matched \/ NoClause

Spec == Init /\ [][Next]_vars

-----------------------------------------------------------------------------
(***************************************************************************)
(* Reference definitions: what it means that a value is an instance of a   *)
(* pattern, and which part of the value each name in the pattern stands    *)
(* for, in the order of the pattern; of two parts the later one counts.    *)
(***************************************************************************)
RestAt(p) == {k \in DOMAIN p.arr : p.arr[k] = Rest}
Fixed(p)  == IF RestAt(p) = {} THEN Len(p.arr) ELSE Min(RestAt(p)) - 1

InstanceOver(inst, v, p) ==
    \/ p = Wild \/ Is(p, "bind")
    \/ Is(p, "guard") /\ v \in p.guard
    \/ Is(p, "prim") /\ v = p
    \/ /\ Is(p, "arr") /\ Is(v, "arr")
       /\ IF RestAt(p) = {} THEN Len(v.arr) = Fixed(p) ELSE Len(v.arr) >= Fixed(p)
       /\ \A k \in 1..Fixed(p) : inst[p.arr[k]][v.arr[k]]
    \/ /\ Is(p, "obj") /\ ~Is(v, "prim")
       /\ \A k \in DOMAIN p.obj :
             p.obj[k][1] \in Keys(v) /\ inst[p.obj[k][2]][Get(v, p.obj[k][1])]

Instance[d \in Nat] ==
    IF d = 0 THEN <<>>
    ELSE [p \in Pats[d] |-> [v \in Values |-> InstanceOver(Instance[d - 1], v, p)]]

\* Of several bindings of a name the last one.
Latest(bs) ==
    [n \in UNION {DOMAIN bs[k] : k \in DOMAIN bs} |->
        bs[Max({k \in DOMAIN bs : n \in DOMAIN bs[k]})][n]]

One(name, v) == [n \in {name} |-> v]

RestBound(v, p) ==
    IF Fixed(p) + 1 < Len(p.arr) /\ Is(p.arr[Fixed(p) + 2], "bind")
    THEN One(p.arr[Fixed(p) + 2].bind, [arr |-> SubSeq(v.arr, Fixed(p) + 1, Len(v.arr))])
    ELSE <<>>

ByElement(bound, v, p) ==
    [k \in 1..(Fixed(p) + 1) |->
        IF k <= Fixed(p) THEN bound[p.arr[k]][v.arr[k]] ELSE RestBound(v, p)]
ByKey(bound, v, p) ==
    [k \in DOMAIN p.obj |-> bound[p.obj[k][2]][Get(v, p.obj[k][1])]]

BoundOver(bound, v, p) ==
    CASE Is(p, "bind") -> One(p.bind, v)
      [] Is(p, "arr")  -> Latest(ByElement(bound, v, p))
      [] Is(p, "obj")  -> Latest(ByKey(bound, v, p))
      [] OTHER         -> <<>>

Bound[d \in Nat] ==
    IF d = 0 THEN <<>>
    ELSE [p \in Pats[d] |-> [v \in Values |-> BoundOver(Bound[d - 1], v, p)]]

\* The clause cs[k] takes the value, and the clause that decides.
Applies(cs, k) ==
    /\ Instance[MaxDepth][cs[k].pattern][value]
    /\ Passes(cs[k].guardFn, Bound[MaxDepth][cs[k].pattern][value])

Expected(cs) ==
    LET S == {k \in DOMAIN cs : Applies(cs, k)}
    IN  IF S = {} THEN Thrown
        ELSE [clause |-> Min(S), bindings |-> Bound[MaxDepth][cs[Min(S)].pattern][value]]

\* match.js:19: the result is that of the first clause whose pattern the
\* value is an instance of and whose guard passes, with the parts of the
\* value its names stand for; bindings that a failed clause left do not
\* show.  It throws exactly if there is none.
MatchFirst == out # Pending /\ via = "match" => out = Expected(clauses)

(***************************************************************************)
(* The patterns both matchers know: names, primitives, and objects of      *)
(* those, at every nesting.                                                *)
(***************************************************************************)
CommonOver(S) == [bind : Names] \cup [prim : Prims] \cup [obj : Lists(Names \X S)]

Common[d \in Nat] == IF d = 0 THEN {} ELSE CommonOver(Common[d - 1])

\* pipe.js:65: on clauses of names, primitives and objects Pipeline.match
\* decides as match does, the clause and its bindings, on whatever value,
\* arrays and their properties included.
PipeMatchesRecords ==
    /\ out # Pending /\ via = "pipe"
    /\ \A k \in DOMAIN clauses : clauses[k].pattern \in Common[MaxDepth]
    => out = Expected(clauses)
=============================================================================
