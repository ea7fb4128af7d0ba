-------------------------- MODULE MatchPipeProofs --------------------------
(***************************************************************************)
(* Proofs about MatchPipe, for every set of values, patterns of any        *)
(* nesting and any number of clauses: match takes the first clause that    *)
(* applies, and so does Pipeline.match on names, primitives and objects.   *)
(***************************************************************************)
EXTENDS MatchPipe, TLAPS, SequenceTheorems

(***************************************************************************)
(* Patterns as pipe reads them: symbols and guards match nothing, and an   *)
(* array is an object, its length left open.                               *)
(***************************************************************************)
Never == [guard |-> {}]

OpenedOver(opened, p) ==
    CASE Is(p, "sym") \/ Is(p, "guard") -> Never
      [] Is(p, "arr") -> [obj |-> [k \in DOMAIN p.arr |-> <<Index[k], opened[p.arr[k]]>>]]
      [] Is(p, "obj") -> [obj |-> [k \in DOMAIN p.obj |-> <<p.obj[k][1], opened[p.obj[k][2]]>>]]
      [] OTHER        -> p

Opened[d \in Nat] ==
    IF d = 0 THEN <<>> ELSE [p \in Pats[d] |-> OpenedOver(Opened[d - 1], p)]

(***************************************************************************)
(* The recursive functions by their steps.                                 *)
(***************************************************************************)
PatsStep(n, S)     == PatsOver(S)
InstanceStep(n, f) == [p \in Pats[n + 1] |-> [v \in Values |-> InstanceOver(f, v, p)]]
BoundStep(n, f)    == [p \in Pats[n + 1] |-> [v \in Values |-> BoundOver(f, v, p)]]
OpenedStep(n, f)   == [p \in Pats[n + 1] |-> OpenedOver(f, p)]
CommonStep(n, S)   == CommonOver(S)

OfPats     == INSTANCE Recursion WITH Base <- {}, Step <- PatsStep
OfInstance == INSTANCE Recursion WITH Base <- <<>>, Step <- InstanceStep
OfBound    == INSTANCE Recursion WITH Base <- <<>>, Step <- BoundStep
OfOpened   == INSTANCE Recursion WITH Base <- <<>>, Step <- OpenedStep
OfCommon   == INSTANCE Recursion WITH Base <- {}, Step <- CommonStep

LEMMA PatsEq == Pats[0] = {} /\ \A d \in Nat : Pats[d + 1] = PatsOver(Pats[d])
<1>1. Pats = OfPats!Rec
  BY DEF Pats, OfPats!Rec, PatsStep
<1> QED BY <1>1, OfPats!RecEquations DEF PatsStep

LEMMA CommonEq == Common[0] = {} /\ \A d \in Nat : Common[d + 1] = CommonOver(Common[d])
<1>1. Common = OfCommon!Rec
  BY DEF Common, OfCommon!Rec, CommonStep
<1> QED BY <1>1, OfCommon!RecEquations DEF CommonStep

LEMMA InstanceEq ==
    \A d \in Nat : Instance[d + 1] =
        [p \in Pats[d + 1] |-> [v \in Values |-> InstanceOver(Instance[d], v, p)]]
<1>1. Instance = OfInstance!Rec
  <2>1. \A d \in Nat : d # 0 => (d - 1) + 1 = d
    OBVIOUS
  <2> QED BY <2>1 DEF Instance, OfInstance!Rec, InstanceStep
<1> QED BY <1>1, OfInstance!RecEquations DEF InstanceStep

LEMMA BoundEq ==
    \A d \in Nat : Bound[d + 1] =
        [p \in Pats[d + 1] |-> [v \in Values |-> BoundOver(Bound[d], v, p)]]
<1>1. Bound = OfBound!Rec
  <2>1. \A d \in Nat : d # 0 => (d - 1) + 1 = d
    OBVIOUS
  <2> QED BY <2>1 DEF Bound, OfBound!Rec, BoundStep
<1> QED BY <1>1, OfBound!RecEquations DEF BoundStep

LEMMA OpenedEq ==
    \A d \in Nat : Opened[d + 1] = [p \in Pats[d + 1] |-> OpenedOver(Opened[d], p)]
<1>1. Opened = OfOpened!Rec
  <2>1. \A d \in Nat : d # 0 => (d - 1) + 1 = d
    OBVIOUS
  <2> QED BY <2>1 DEF Opened, OfOpened!Rec, OpenedStep
<1> QED BY <1>1, OfOpened!RecEquations DEF OpenedStep

\* Induction over the nesting.
LEMMA AllDepths ==
    ASSUME NEW T, 0 \in T, \A d \in Nat : d \in T => d + 1 \in T
    PROVE  \A d \in Nat : d \in T
BY OfPats!AllNat

-----------------------------------------------------------------------------
(***************************************************************************)
(* Patterns by their kinds.                                                *)
(***************************************************************************)
LEMMA ListsMono ==
    ASSUME NEW S, NEW T, S \subseteq T
    PROVE  Lists(S) \subseteq Lists(T)
BY DEF Lists

LEMMA PatKinds ==
    ASSUME NEW S, NEW p \in PatsOver(S)
    PROVE  \/ (p = Wild \/ p = Rest) /\ DOMAIN p = {"sym"}
           \/ p \in [bind : Names] /\ DOMAIN p = {"bind"}
           \/ p \in [guard : SUBSET Values] /\ DOMAIN p = {"guard"}
           \/ p \in [prim : Prims] /\ DOMAIN p = {"prim"}
           \/ p \in [arr : Lists(S)] /\ DOMAIN p = {"arr"} /\ p.arr \in Seq(S)
           \/ p \in [obj : Lists(Names \X S)] /\ DOMAIN p = {"obj"} /\ p.obj \in Seq(Names \X S)
<1>1. CASE p \in {Wild, Rest}
  BY <1>1 DEF Wild, Rest
<1>2. CASE p \in [bind : Names] \cup [guard : SUBSET Values] \cup [prim : Prims]
  BY <1>2
<1>3. CASE p \in [arr : Lists(S)]
  BY <1>3 DEF Lists
<1>4. CASE p \in [obj : Lists(Names \X S)]
  BY <1>4 DEF Lists
<1> QED BY <1>1, <1>2, <1>3, <1>4 DEF PatsOver, PatLeaf

LEMMA PatsMono == \A d \in Nat : Pats[d] \subseteq Pats[d + 1]
<1> DEFINE T == {d \in Nat : Pats[d] \subseteq Pats[d + 1]}
<1>1. 0 \in T
  BY PatsEq
<1>2. ASSUME NEW d \in Nat, d \in T PROVE d + 1 \in T
  <2>1. Lists(Pats[d]) \subseteq Lists(Pats[d + 1])
    BY <1>2, ListsMono
  <2>2. Lists(Names \X Pats[d]) \subseteq Lists(Names \X Pats[d + 1])
    <3>1. Names \X Pats[d] \subseteq Names \X Pats[d + 1]
      BY <1>2
    <3> QED BY <3>1, ListsMono
  <2>3. PatsOver(Pats[d]) \subseteq PatsOver(Pats[d + 1])
    BY <2>1, <2>2 DEF PatsOver
  <2> QED BY <2>3, PatsEq, d + 1 \in Nat
<1> HIDE DEF T
<1>3. \A d \in Nat : d \in T
  BY <1>1, <1>2, AllDepths
<1> QED BY <1>3 DEF T

\* The first REST of an array pattern, and the elements before it.
LEMMA FixedFacts ==
    ASSUME NEW S, NEW p, p.arr \in Seq(S)
    PROVE  /\ Fixed(p) \in Nat /\ Fixed(p) <= Len(p.arr)
           /\ \A k \in 1..Fixed(p) : k \in DOMAIN p.arr /\ p.arr[k] # Rest
           /\ RestAt(p) = {} => Fixed(p) = Len(p.arr)
           /\ RestAt(p) # {} => Fixed(p) < Len(p.arr) /\ p.arr[Fixed(p) + 1] = Rest
<1>0. Len(p.arr) \in Nat /\ DOMAIN p.arr = 1..Len(p.arr)
  OBVIOUS
<1>1. CASE RestAt(p) = {}
  <2>1. Fixed(p) = Len(p.arr)
    BY <1>1 DEF Fixed
  <2> QED BY <1>0, <1>1, <2>1 DEF RestAt
<1>2. CASE RestAt(p) # {}
  <2>1. RestAt(p) \subseteq Nat
    BY <1>0 DEF RestAt
  <2>2. \E m \in RestAt(p) : \A k \in RestAt(p) : m <= k
    BY <1>2, <2>1, OfPats!LeastNat
  <2>3. Min(RestAt(p)) \in RestAt(p) /\ \A k \in RestAt(p) : Min(RestAt(p)) <= k
    BY <2>2 DEF Min
  <2> DEFINE m == Min(RestAt(p))
  <2>4. m \in 1..Len(p.arr) /\ p.arr[m] = Rest
    BY <1>0, <2>3 DEF RestAt
  <2>5. Fixed(p) = m - 1
    BY <1>2 DEF Fixed
  <2> HIDE DEF m
  <2>6. ASSUME NEW k \in 1..Fixed(p) PROVE k \in DOMAIN p.arr /\ p.arr[k] # Rest
    <3>1. k \in DOMAIN p.arr /\ ~(m <= k)
      BY <1>0, <2>4, <2>5
    <3> QED BY <3>1, <2>3 DEF m, RestAt
  <2>7. m - 1 \in Nat /\ (m - 1) + 1 = m /\ m - 1 < Len(p.arr)
    BY <1>0, <2>4
  <2> QED BY <1>0, <1>2, <2>4, <2>5, <2>6, <2>7
<1> QED BY <1>1, <1>2

-----------------------------------------------------------------------------
(***************************************************************************)
(* What the definitions say of a pattern does not depend on the nesting    *)
(* that is allowed: they hold of MaxDepth itself.                          *)
(***************************************************************************)
LEMMA InstanceKinds ==
    ASSUME NEW f, NEW v, NEW p
    PROVE  /\ DOMAIN p = {"sym"} => (InstanceOver(f, v, p) <=> p = Wild)
           /\ DOMAIN p = {"bind"} => InstanceOver(f, v, p)
           /\ DOMAIN p = {"guard"} => (InstanceOver(f, v, p) <=> v \in p.guard)
           /\ DOMAIN p = {"prim"} => (InstanceOver(f, v, p) <=> v = p)
           /\ DOMAIN p = {"arr"} => (InstanceOver(f, v, p) <=>
                 /\ Is(v, "arr")
                 /\ IF RestAt(p) = {} THEN Len(v.arr) = Fixed(p) ELSE Len(v.arr) >= Fixed(p)
                 /\ \A k \in 1..Fixed(p) : f[p.arr[k]][v.arr[k]])
           /\ DOMAIN p = {"obj"} => (InstanceOver(f, v, p) <=>
                 /\ ~Is(v, "prim")
                 /\ \A k \in DOMAIN p.obj :
                       p.obj[k][1] \in Keys(v) /\ f[p.obj[k][2]][Get(v, p.obj[k][1])])
<1>0. DOMAIN Wild = {"sym"}
  BY DEF Wild
<1>1. ASSUME DOMAIN p = {"sym"} PROVE InstanceOver(f, v, p) <=> p = Wild
  BY <1>1 DEF InstanceOver, Is
<1>2. ASSUME DOMAIN p = {"bind"} PROVE InstanceOver(f, v, p)
  BY <1>2 DEF InstanceOver, Is
<1>3. ASSUME DOMAIN p = {"guard"} PROVE InstanceOver(f, v, p) <=> v \in p.guard
  BY <1>0, <1>3 DEF InstanceOver, Is
<1>4. ASSUME DOMAIN p = {"prim"} PROVE InstanceOver(f, v, p) <=> v = p
  BY <1>0, <1>4 DEF InstanceOver, Is
<1>5. ASSUME DOMAIN p = {"arr"}
      PROVE  InstanceOver(f, v, p) <=>
                 /\ Is(v, "arr")
                 /\ IF RestAt(p) = {} THEN Len(v.arr) = Fixed(p) ELSE Len(v.arr) >= Fixed(p)
                 /\ \A k \in 1..Fixed(p) : f[p.arr[k]][v.arr[k]]
  <2>1. p # Wild /\ ~Is(p, "bind") /\ ~Is(p, "guard") /\ ~Is(p, "prim") /\ ~Is(p, "obj") /\ Is(p, "arr")
    BY <1>0, <1>5 DEF Is
  <2> QED BY <2>1 DEF InstanceOver
<1>6. ASSUME DOMAIN p = {"obj"}
      PROVE  InstanceOver(f, v, p) <=>
                 /\ ~Is(v, "prim")
                 /\ \A k \in DOMAIN p.obj :
                       p.obj[k][1] \in Keys(v) /\ f[p.obj[k][2]][Get(v, p.obj[k][1])]
  <2>1. p # Wild /\ ~Is(p, "bind") /\ ~Is(p, "guard") /\ ~Is(p, "prim") /\ ~Is(p, "arr") /\ Is(p, "obj")
    BY <1>0, <1>6 DEF Is
  <2> QED BY <2>1 DEF InstanceOver
<1> QED BY <1>1, <1>2, <1>3, <1>4, <1>5, <1>6

LEMMA BoundKinds ==
    ASSUME NEW f, NEW v, NEW p
    PROVE  /\ DOMAIN p \in {{"sym"}, {"guard"}, {"prim"}} => BoundOver(f, v, p) = <<>>
           /\ DOMAIN p = {"bind"} => BoundOver(f, v, p) = One(p.bind, v)
           /\ DOMAIN p = {"arr"} => BoundOver(f, v, p) = Latest(ByElement(f, v, p))
           /\ DOMAIN p = {"obj"} => BoundOver(f, v, p) = Latest(ByKey(f, v, p))
<1>1. ASSUME DOMAIN p \in {{"sym"}, {"guard"}, {"prim"}} PROVE BoundOver(f, v, p) = <<>>
  <2>1. ~Is(p, "bind") /\ ~Is(p, "arr") /\ ~Is(p, "obj")
    BY <1>1 DEF Is
  <2> QED BY <2>1 DEF BoundOver
<1>2. ASSUME DOMAIN p = {"bind"} PROVE BoundOver(f, v, p) = One(p.bind, v)
  BY <1>2 DEF BoundOver, Is
<1>3. ASSUME DOMAIN p = {"arr"}
      PROVE  BoundOver(f, v, p) = Latest(ByElement(f, v, p))
  <2>1. ~Is(p, "bind") /\ Is(p, "arr") /\ ~Is(p, "obj")
    BY <1>3 DEF Is
  <2> QED BY <2>1 DEF BoundOver
<1>4. ASSUME DOMAIN p = {"obj"}
      PROVE  BoundOver(f, v, p) = Latest(ByKey(f, v, p))
  <2>1. ~Is(p, "bind") /\ ~Is(p, "arr") /\ Is(p, "obj")
    BY <1>4 DEF Is
  <2> QED BY <2>1 DEF BoundOver
<1> QED BY <1>1, <1>2, <1>3, <1>4

LEMMA OpenedKinds ==
    ASSUME NEW f, NEW p
    PROVE  /\ DOMAIN p \in {{"sym"}, {"guard"}} => OpenedOver(f, p) = Never
           /\ DOMAIN p \in {{"bind"}, {"prim"}} => OpenedOver(f, p) = p
           /\ DOMAIN p = {"arr"} =>
                 OpenedOver(f, p) = [obj |-> [k \in DOMAIN p.arr |-> <<Index[k], f[p.arr[k]]>>]]
           /\ DOMAIN p = {"obj"} =>
                 OpenedOver(f, p) = [obj |-> [k \in DOMAIN p.obj |-> <<p.obj[k][1], f[p.obj[k][2]]>>]]
<1>1. ASSUME DOMAIN p \in {{"sym"}, {"guard"}} PROVE OpenedOver(f, p) = Never
  <2>1. (Is(p, "sym") \/ Is(p, "guard")) /\ ~Is(p, "arr") /\ ~Is(p, "obj")
    BY <1>1 DEF Is
  <2> QED BY <2>1 DEF OpenedOver
<1>2. ASSUME DOMAIN p \in {{"bind"}, {"prim"}} PROVE OpenedOver(f, p) = p
  <2>1. ~Is(p, "sym") /\ ~Is(p, "guard") /\ ~Is(p, "arr") /\ ~Is(p, "obj")
    BY <1>2 DEF Is
  <2> QED BY <2>1 DEF OpenedOver
<1>3. ASSUME DOMAIN p = {"arr"}
      PROVE  OpenedOver(f, p) = [obj |-> [k \in DOMAIN p.arr |-> <<Index[k], f[p.arr[k]]>>]]
  <2>1. ~Is(p, "sym") /\ ~Is(p, "guard") /\ Is(p, "arr") /\ ~Is(p, "obj")
    BY <1>3 DEF Is
  <2> QED BY <2>1 DEF OpenedOver
<1>4. ASSUME DOMAIN p = {"obj"}
      PROVE  OpenedOver(f, p) = [obj |-> [k \in DOMAIN p.obj |-> <<p.obj[k][1], f[p.obj[k][2]]>>]]
  <2>1. ~Is(p, "sym") /\ ~Is(p, "guard") /\ ~Is(p, "arr") /\ Is(p, "obj")
    BY <1>4 DEF Is
  <2> QED BY <2>1 DEF OpenedOver
<1> QED BY <1>1, <1>2, <1>3, <1>4

\* The parts of a pattern decide, whatever else the functions say.
LEMMA SameParts ==
    ASSUME NEW S, NEW p \in PatsOver(S), NEW f, NEW g, \A q \in S : f[q] = g[q]
    PROVE  /\ \A v : InstanceOver(f, v, p) <=> InstanceOver(g, v, p)
           /\ \A v : BoundOver(f, v, p) = BoundOver(g, v, p)
           /\ OpenedOver(f, p) = OpenedOver(g, p)
<1>1. CASE DOMAIN p \in {{"sym"}, {"bind"}, {"guard"}, {"prim"}}
  <2>1. \A v : InstanceOver(f, v, p) <=> InstanceOver(g, v, p)
    BY <1>1, InstanceKinds
  <2>2. ASSUME NEW v PROVE BoundOver(f, v, p) = BoundOver(g, v, p)
    BY <1>1, BoundKinds
  <2>3. OpenedOver(f, p) = OpenedOver(g, p)
    BY <1>1, OpenedKinds
  <2> QED BY <2>1, <2>2, <2>3
<1>2. CASE DOMAIN p = {"arr"} /\ p.arr \in Seq(S)
  <2>1. \A k \in DOMAIN p.arr : f[p.arr[k]] = g[p.arr[k]]
    BY <1>2
  <2>2. \A k \in 1..Fixed(p) : f[p.arr[k]] = g[p.arr[k]]
    BY <1>2, <2>1, FixedFacts
  <2>3. Fixed(p) \in Nat
    BY <1>2, FixedFacts
  <2>4. ASSUME NEW v PROVE InstanceOver(f, v, p) <=> InstanceOver(g, v, p)
    <3>1. (\A k \in 1..Fixed(p) : f[p.arr[k]][v.arr[k]]) <=> (\A k \in 1..Fixed(p) : g[p.arr[k]][v.arr[k]])
      BY <2>2
    <3> QED BY <3>1, <1>2, InstanceKinds
  <2>5. ASSUME NEW v PROVE BoundOver(f, v, p) = BoundOver(g, v, p)
    <3>1. \A k \in 1..(Fixed(p) + 1) : k <= Fixed(p) => k \in 1..Fixed(p)
      BY <2>3
    <3>2. ByElement(f, v, p) = ByElement(g, v, p)
      BY <2>2, <3>1 DEF ByElement
    <3>3. BoundOver(f, v, p) = Latest(ByElement(f, v, p)) /\ BoundOver(g, v, p) = Latest(ByElement(g, v, p))
      BY <1>2, BoundKinds
    <3> QED BY <3>2, <3>3
  <2>6. OpenedOver(f, p) = OpenedOver(g, p)
    <3>1. [k \in DOMAIN p.arr |-> <<Index[k], f[p.arr[k]]>>] =
          [k \in DOMAIN p.arr |-> <<Index[k], g[p.arr[k]]>>]
      BY <2>1
    <3> QED BY <1>2, <3>1 DEF OpenedOver, Is
  <2> QED BY <2>4, <2>5, <2>6
<1>3. CASE DOMAIN p = {"obj"} /\ p.obj \in Seq(Names \X S)
  <2>1. \A k \in DOMAIN p.obj : f[p.obj[k][2]] = g[p.obj[k][2]]
    BY <1>3
  <2>4. ASSUME NEW v PROVE InstanceOver(f, v, p) <=> InstanceOver(g, v, p)
    <3>1. (\A k \in DOMAIN p.obj : p.obj[k][1] \in Keys(v) /\ f[p.obj[k][2]][Get(v, p.obj[k][1])])
          <=> (\A k \in DOMAIN p.obj : p.obj[k][1] \in Keys(v) /\ g[p.obj[k][2]][Get(v, p.obj[k][1])])
      BY <2>1
    <3> QED BY <3>1, <1>3, InstanceKinds
  <2>5. ASSUME NEW v PROVE BoundOver(f, v, p) = BoundOver(g, v, p)
    <3>2. ByKey(f, v, p) = ByKey(g, v, p)
      BY <2>1 DEF ByKey
    <3>3. BoundOver(f, v, p) = Latest(ByKey(f, v, p)) /\ BoundOver(g, v, p) = Latest(ByKey(g, v, p))
      BY <1>3, BoundKinds
    <3> QED BY <3>2, <3>3
  <2>6. OpenedOver(f, p) = OpenedOver(g, p)
    <3>1. [k \in DOMAIN p.obj |-> <<p.obj[k][1], f[p.obj[k][2]]>>] =
          [k \in DOMAIN p.obj |-> <<p.obj[k][1], g[p.obj[k][2]]>>]
      BY <2>1
    <3> QED BY <1>3, <3>1 DEF OpenedOver, Is
  <2> QED BY <2>4, <2>5, <2>6
<1> QED BY <1>1, <1>2, <1>3, PatKinds

LEMMA InstanceBoolean ==
    ASSUME NEW f, NEW v, NEW p
    PROVE  InstanceOver(f, v, p) \in BOOLEAN
BY DEF InstanceOver

LEMMA Stable ==
    \A d \in Nat : \A p \in Pats[d] :
        /\ Instance[d + 1][p] = Instance[d][p]
        /\ Bound[d + 1][p] = Bound[d][p]
        /\ Opened[d + 1][p] = Opened[d][p]
<1> DEFINE T == {d \in Nat : \A p \in Pats[d] :
                    /\ Instance[d + 1][p] = Instance[d][p]
                    /\ Bound[d + 1][p] = Bound[d][p]
                    /\ Opened[d + 1][p] = Opened[d][p]}
<1>1. 0 \in T
  BY PatsEq
<1>2. ASSUME NEW d \in Nat, d \in T PROVE d + 1 \in T
  <2> SUFFICES ASSUME NEW p \in Pats[d + 1]
               PROVE  /\ Instance[(d + 1) + 1][p] = Instance[d + 1][p]
                      /\ Bound[(d + 1) + 1][p] = Bound[d + 1][p]
                      /\ Opened[(d + 1) + 1][p] = Opened[d + 1][p]
    OBVIOUS
  <2>1. p \in PatsOver(Pats[d]) /\ p \in Pats[(d + 1) + 1] /\ d + 1 \in Nat
    BY PatsEq, PatsMono
  <2>2. \A q \in Pats[d] : Instance[d + 1][q] = Instance[d][q]
    BY <1>2
  <2>3. \A q \in Pats[d] : Bound[d + 1][q] = Bound[d][q]
    BY <1>2
  <2>4. \A q \in Pats[d] : Opened[d + 1][q] = Opened[d][q]
    BY <1>2
  <2>5. Instance[(d + 1) + 1][p] = Instance[d + 1][p]
    <3>1. \A v : InstanceOver(Instance[d + 1], v, p) <=> InstanceOver(Instance[d], v, p)
      BY <2>1, <2>2, SameParts
    <3>2. Instance[d + 1][p] = [v \in Values |-> InstanceOver(Instance[d], v, p)]
      BY InstanceEq
    <3>3. Instance[(d + 1) + 1][p] = [v \in Values |-> InstanceOver(Instance[d + 1], v, p)]
      BY <2>1, InstanceEq
    <3>4. \A v : InstanceOver(Instance[d + 1], v, p) = InstanceOver(Instance[d], v, p)
      <4> SUFFICES ASSUME NEW v
                   PROVE  InstanceOver(Instance[d + 1], v, p) = InstanceOver(Instance[d], v, p)
        OBVIOUS
      <4>1. InstanceOver(Instance[d + 1], v, p) \in BOOLEAN /\ InstanceOver(Instance[d], v, p) \in BOOLEAN
        BY InstanceBoolean
      <4> QED BY <3>1, <4>1
    <3> QED BY <3>2, <3>3, <3>4
  <2>6. Bound[(d + 1) + 1][p] = Bound[d + 1][p]
    <3>1. \A v : BoundOver(Bound[d + 1], v, p) = BoundOver(Bound[d], v, p)
      BY <2>1, <2>3, SameParts
    <3>2. Bound[d + 1][p] = [v \in Values |-> BoundOver(Bound[d], v, p)]
      BY BoundEq
    <3>3. Bound[(d + 1) + 1][p] = [v \in Values |-> BoundOver(Bound[d + 1], v, p)]
      BY <2>1, BoundEq
    <3> QED BY <3>1, <3>2, <3>3
  <2>7. Opened[(d + 1) + 1][p] = Opened[d + 1][p]
    <3>1. OpenedOver(Opened[d + 1], p) = OpenedOver(Opened[d], p)
      BY <2>1, <2>4, SameParts
    <3>2. Opened[d + 1][p] = OpenedOver(Opened[d], p)
      BY OpenedEq
    <3>3. Opened[(d + 1) + 1][p] = OpenedOver(Opened[d + 1], p)
      BY <2>1, OpenedEq
    <3> QED BY <3>1, <3>2, <3>3
  <2> QED BY <2>5, <2>6, <2>7
<1> HIDE DEF T
<1>3. \A d \in Nat : d \in T
  BY <1>1, <1>2, AllDepths
<1> QED BY <1>3 DEF T

\* A pattern as pipe reads it is a pattern.
LEMMA OpenedType == \A d \in Nat : \A p \in Pats[d] : Opened[d][p] \in Pats[d]
<1> DEFINE T == {d \in Nat : \A p \in Pats[d] : Opened[d][p] \in Pats[d]}
<1>1. 0 \in T
  BY PatsEq
<1>2. ASSUME NEW d \in Nat, d \in T PROVE d + 1 \in T
  <2> SUFFICES ASSUME NEW p \in Pats[d + 1] PROVE Opened[d + 1][p] \in Pats[d + 1]
    OBVIOUS
  <2> DEFINE f == Opened[d]
             S == Pats[d]
  <2>1. p \in PatsOver(S) /\ Pats[d + 1] = PatsOver(S) /\ Opened[d + 1][p] = OpenedOver(f, p)
    BY PatsEq, OpenedEq
  <2>2. \A q \in S : f[q] \in S
    BY <1>2
  <2> HIDE DEF f, S
  <2>3. CASE DOMAIN p \in {{"sym"}, {"guard"}}
    <3>1. Never \in [guard : SUBSET Values]
      BY DEF Never
    <3>2. OpenedOver(f, p) = Never
      BY <2>3, OpenedKinds
    <3> QED BY <2>1, <3>1, <3>2 DEF PatsOver, PatLeaf
  <2>4. CASE DOMAIN p \in {{"bind"}, {"prim"}}
    BY <2>1, <2>4, OpenedKinds
  <2>5. CASE DOMAIN p = {"arr"} /\ p \in [arr : Lists(S)]
    <3> DEFINE s == [k \in DOMAIN p.arr |-> <<Index[k], f[p.arr[k]]>>]
    <3>1. p.arr \in Seq(S) /\ Len(p.arr) <= MaxLen
      BY <2>5 DEF Lists
    <3>2. \A k \in DOMAIN p.arr : Index[k] \in Names
      BY <3>1, ValuesAssumption DEF MaxLen
    <3>3. s \in Seq(Names \X S) /\ Len(s) = Len(p.arr)
      <4>1. \A k \in 1..Len(p.arr) : <<Index[k], f[p.arr[k]]>> \in Names \X S
        BY <2>2, <3>1, <3>2
      <4>2. DOMAIN p.arr = 1..Len(p.arr) /\ Len(p.arr) \in Nat
        BY <3>1
      <4> QED BY <4>1, <4>2
    <3>4. s \in Lists(Names \X S)
      <4> HIDE DEF s
      <4> QED BY <3>1, <3>3 DEF Lists
    <3>5. OpenedOver(f, p) = [obj |-> s]
      BY <2>5 DEF OpenedOver, Is
    <3> HIDE DEF s
    <3>6. [obj |-> s] \in [obj : Lists(Names \X S)]
      BY <3>4
    <3> QED BY <2>1, <3>5, <3>6 DEF PatsOver
  <2>6. CASE DOMAIN p = {"obj"} /\ p \in [obj : Lists(Names \X S)]
    <3> DEFINE s == [k \in DOMAIN p.obj |-> <<p.obj[k][1], f[p.obj[k][2]]>>]
    <3>1. p.obj \in Seq(Names \X S) /\ Len(p.obj) <= MaxLen
      BY <2>6 DEF Lists
    <3>3. s \in Seq(Names \X S) /\ Len(s) = Len(p.obj)
      <4>1. \A k \in 1..Len(p.obj) : <<p.obj[k][1], f[p.obj[k][2]]>> \in Names \X S
        BY <2>2, <3>1
      <4>2. DOMAIN p.obj = 1..Len(p.obj) /\ Len(p.obj) \in Nat
        BY <3>1
      <4> QED BY <4>1, <4>2
    <3>4. s \in Lists(Names \X S)
      <4> HIDE DEF s
      <4> QED BY <3>1, <3>3 DEF Lists
    <3>5. OpenedOver(f, p) = [obj |-> s]
      BY <2>6 DEF OpenedOver, Is
    <3> HIDE DEF s
    <3>6. [obj |-> s] \in [obj : Lists(Names \X S)]
      BY <3>4
    <3> QED BY <2>1, <3>5, <3>6 DEF PatsOver
  <2> QED BY <2>1, <2>3, <2>4, <2>5, <2>6, PatKinds
<1> HIDE DEF T
<1>3. \A d \in Nat : d \in T
  BY <1>1, <1>2, AllDepths
<1> QED BY <1>3 DEF T

\* Pipe reads names, primitives and objects of those as they are.
LEMMA CommonOpened ==
    \A d \in Nat : \A p \in Common[d] : p \in Pats[d] /\ Opened[d][p] = p
<1> DEFINE T == {d \in Nat : \A p \in Common[d] : p \in Pats[d] /\ Opened[d][p] = p}
<1>1. 0 \in T
  BY CommonEq
<1>2. ASSUME NEW d \in Nat, d \in T PROVE d + 1 \in T
  <2> SUFFICES ASSUME NEW p \in Common[d + 1]
               PROVE  p \in Pats[d + 1] /\ Opened[d + 1][p] = p
    OBVIOUS
  <2> DEFINE f == Opened[d]
             S == Pats[d]
             C == Common[d]
  <2>1. /\ p \in CommonOver(C) /\ Pats[d + 1] = PatsOver(S)
        /\ p \in PatsOver(S) => Opened[d + 1][p] = OpenedOver(f, p)
    BY PatsEq, OpenedEq, CommonEq
  <2>2. C \subseteq S /\ \A q \in C : f[q] = q
    BY <1>2
  <2> HIDE DEF f, S, C
  <2>3. CASE p \in [bind : Names] \cup [prim : Prims]
    <3>1. p \in PatsOver(S)
      BY <2>3 DEF PatsOver, PatLeaf
    <3>2. DOMAIN p \in {{"bind"}, {"prim"}}
      BY <2>3
    <3> QED BY <2>1, <3>1, <3>2, OpenedKinds
  <2>4. CASE p \in [obj : Lists(Names \X C)]
    <3>1. Names \X C \subseteq Names \X S
      BY <2>2
    <3>2. Lists(Names \X C) \subseteq Lists(Names \X S)
      BY <3>1, ListsMono
    <3>3. p \in PatsOver(S)
      BY <2>4, <3>2 DEF PatsOver
    <3> DEFINE s == [k \in DOMAIN p.obj |-> <<p.obj[k][1], f[p.obj[k][2]]>>]
    <3>4. DOMAIN p = {"obj"} /\ p = [obj |-> p.obj] /\ p.obj \in Seq(Names \X C)
      BY <2>4 DEF Lists
    <3>5. \A k \in DOMAIN p.obj : p.obj[k] \in Names \X C
      BY <3>4
    <3>6. \A k \in DOMAIN p.obj : p.obj[k] = <<p.obj[k][1], f[p.obj[k][2]]>>
      BY <2>2, <3>5
    <3>7. p.obj = [k \in DOMAIN p.obj |-> p.obj[k]]
      BY <3>4
    <3>8. p.obj = s
      BY <3>6, <3>7
    <3>9. OpenedOver(f, p) = [obj |-> s]
      BY <3>4 DEF OpenedOver, Is
    <3> HIDE DEF s
    <3> QED BY <2>1, <3>3, <3>4, <3>8, <3>9
  <2> QED BY <2>1, <2>3, <2>4 DEF CommonOver
<1> HIDE DEF T
<1>3. \A d \in Nat : d \in T
  BY <1>1, <1>2, AllDepths
<1> QED BY <1>3 DEF T

AllPats   == Pats[MaxDepth]
Inst(p)   == Instance[MaxDepth][p]
BoundBy(p) == Bound[MaxDepth][p]
Open(p)   == Opened[MaxDepth][p]

\* The definitions, of all patterns, with their parts among them.
LEMMA AtMaxDepth ==
    ASSUME NEW p \in AllPats
    PROVE  /\ p \in PatsOver(AllPats)
           /\ \A v \in Values : Inst(p)[v] <=> InstanceOver(Instance[MaxDepth], v, p)
           /\ \A v \in Values : BoundBy(p)[v] = BoundOver(Bound[MaxDepth], v, p)
           /\ Open(p) = OpenedOver(Opened[MaxDepth], p)
           /\ Open(p) \in AllPats
<1> DEFINE d == MaxDepth - 1
<1>1. d \in Nat /\ d + 1 = MaxDepth /\ MaxDepth \in Nat
  BY MatchAssumption, PatsEq DEF AllPats
<1> HIDE DEF d
<1>2. p \in Pats[d + 1] /\ p \in PatsOver(Pats[d])
  BY <1>1, PatsEq DEF AllPats
<1>3. p \in PatsOver(AllPats)
  <2>1. p \in Pats[MaxDepth + 1]
    BY <1>1, PatsMono DEF AllPats
  <2> QED BY <1>1, <2>1, PatsEq DEF AllPats
<1>4. \A v : InstanceOver(Instance[d + 1], v, p) <=> InstanceOver(Instance[d], v, p)
  <2>1. \A q \in Pats[d] : Instance[d + 1][q] = Instance[d][q]
    BY <1>1, Stable
  <2> QED BY <1>2, <2>1, SameParts
<1>5. \A v : BoundOver(Bound[d + 1], v, p) = BoundOver(Bound[d], v, p)
  <2>1. \A q \in Pats[d] : Bound[d + 1][q] = Bound[d][q]
    BY <1>1, Stable
  <2> QED BY <1>2, <2>1, SameParts
<1>6. OpenedOver(Opened[d + 1], p) = OpenedOver(Opened[d], p)
  <2>1. \A q \in Pats[d] : Opened[d + 1][q] = Opened[d][q]
    BY <1>1, Stable
  <2> QED BY <1>2, <2>1, SameParts
<1>7. ASSUME NEW v \in Values PROVE Inst(p)[v] <=> InstanceOver(Instance[MaxDepth], v, p)
  <2>1. Instance[d + 1][p] = [w \in Values |-> InstanceOver(Instance[d], w, p)]
    <3>1. Instance[d + 1] = [q \in Pats[d + 1] |-> [w \in Values |-> InstanceOver(Instance[d], w, q)]]
      BY <1>1, InstanceEq
    <3> QED BY <1>2, <3>1
  <2>2. Instance[d + 1][p][v] <=> InstanceOver(Instance[d], v, p)
    BY <2>1
  <2> QED BY <1>1, <1>4, <2>2 DEF Inst
<1>8. ASSUME NEW v \in Values PROVE BoundBy(p)[v] = BoundOver(Bound[MaxDepth], v, p)
  <2>1. Bound[d + 1][p] = [w \in Values |-> BoundOver(Bound[d], w, p)]
    <3>1. Bound[d + 1] = [q \in Pats[d + 1] |-> [w \in Values |-> BoundOver(Bound[d], w, q)]]
      BY <1>1, BoundEq
    <3> QED BY <1>2, <3>1
  <2>2. Bound[d + 1][p][v] = BoundOver(Bound[d], v, p)
    BY <2>1
  <2> QED BY <1>1, <1>5, <2>2 DEF BoundBy
<1>9. Open(p) = OpenedOver(Opened[MaxDepth], p)
  <2>1. Opened[d + 1][p] = OpenedOver(Opened[d], p)
    BY <1>1, <1>2, OpenedEq
  <2> QED BY <1>1, <1>6, <2>1 DEF Open
<1>10. Open(p) \in AllPats
  BY <1>1, OpenedType DEF Open, AllPats
<1> QED BY <1>3, <1>7, <1>8, <1>9, <1>10

-----------------------------------------------------------------------------
(***************************************************************************)
(* Bindings one after the other.                                           *)
(***************************************************************************)
Over(f, g) == [n \in DOMAIN f \cup DOMAIN g |-> IF n \in DOMAIN g THEN g[n] ELSE f[n]]

LEMMA OverAssoc == \A f, g, h : Over(Over(f, g), h) = Over(f, Over(g, h))
<1> SUFFICES ASSUME NEW f, NEW g, NEW h PROVE Over(Over(f, g), h) = Over(f, Over(g, h))
  OBVIOUS
<1>1. DOMAIN Over(Over(f, g), h) = DOMAIN f \cup DOMAIN g \cup DOMAIN h
  BY DEF Over
<1>2. DOMAIN Over(f, Over(g, h)) = DOMAIN f \cup DOMAIN g \cup DOMAIN h
  BY DEF Over
<1>3. \A n \in DOMAIN f \cup DOMAIN g \cup DOMAIN h : Over(Over(f, g), h)[n] = Over(f, Over(g, h))[n]
  BY DEF Over
<1>4. Over(Over(f, g), h) = [n \in DOMAIN Over(Over(f, g), h) |-> Over(Over(f, g), h)[n]]
  BY DEF Over
<1>5. Over(f, Over(g, h)) = [n \in DOMAIN Over(f, Over(g, h)) |-> Over(f, Over(g, h))[n]]
  BY DEF Over
<1> QED BY <1>1, <1>2, <1>3, <1>4, <1>5

LEMMA MaxOfSome ==
    ASSUME NEW a \in Nat, NEW b \in Nat, NEW S, S \subseteq a..b, S # {}
    PROVE  Max(S) \in S /\ \A k \in S : k <= Max(S)
<1> DEFINE R == {b - k : k \in S}
<1>1. R \subseteq Nat /\ R # {}
  <2>1. \A k \in S : b - k \in Nat
    <3>1. \A k \in a..b : b - k \in Nat
      OBVIOUS
    <3> QED BY <3>1
  <2>2. PICK k \in S : TRUE
    OBVIOUS
  <2>3. b - k \in R
    OBVIOUS
  <2> QED BY <2>1, <2>3
<1>2. PICK r \in R : \A q \in R : r <= q
  <2> HIDE DEF R
  <2> QED BY <1>1, OfPats!LeastNat
<1>3. PICK m \in S : r = b - m
  BY <1>2
<1>4. ASSUME NEW k \in S PROVE m >= k
  <2>1. r <= b - k /\ k \in Nat /\ m \in Nat
    BY <1>2
  <2> QED BY <1>3, <2>1
<1>5. \E x \in S : \A y \in S : x >= y
  BY <1>4
<1>6. Max(S) \in S /\ \A y \in S : Max(S) >= y
  BY <1>5 DEF Max
<1> QED BY <1>6

\* A name is bound by the last one that binds it.
LEMMA LatestIs ==
    ASSUME NEW a \in Nat, NEW b \in Nat, NEW bs, DOMAIN bs = a..b,
           NEW n, NEW k \in a..b, n \in DOMAIN bs[k],
           \A j \in a..b : n \in DOMAIN bs[j] => j <= k
    PROVE  n \in DOMAIN Latest(bs) /\ Latest(bs)[n] = bs[k][n]
<1> DEFINE S == {j \in DOMAIN bs : n \in DOMAIN bs[j]}
<1>1. S \subseteq a..b /\ S # {} /\ k \in S
  OBVIOUS
<1>2. \A j \in S : j <= k
  OBVIOUS
<1>3. n \in UNION {DOMAIN bs[j] : j \in DOMAIN bs}
  OBVIOUS
<1>4. n \in DOMAIN Latest(bs) /\ Latest(bs)[n] = bs[Max(S)][n]
  BY <1>3 DEF Latest
<1> HIDE DEF S
<1>5. Max(S) \in S /\ k <= Max(S)
  BY <1>1, MaxOfSome
<1>6. Max(S) = k
  <2>1. Max(S) \in a..b /\ Max(S) <= k
    BY <1>1, <1>2, <1>5
  <2>2. Max(S) \in Nat /\ k \in Nat
    BY <2>1
  <2> QED BY <1>5, <2>1, <2>2
<1> QED BY <1>4, <1>6

LEMMA LatestHas ==
    ASSUME NEW a \in Nat, NEW b \in Nat, NEW bs, DOMAIN bs = a..b,
           NEW n \in DOMAIN Latest(bs)
    PROVE  \E k \in a..b : n \in DOMAIN bs[k] /\ \A j \in a..b : n \in DOMAIN bs[j] => j <= k
<1> DEFINE S == {j \in DOMAIN bs : n \in DOMAIN bs[j]}
<1>1. S \subseteq a..b
  OBVIOUS
<1>2. S # {}
  BY DEF Latest
<1>3. \A j \in a..b : n \in DOMAIN bs[j] => j \in S
  OBVIOUS
<1>4. \A j \in S : n \in DOMAIN bs[j]
  OBVIOUS
<1> HIDE DEF S
<1>5. Max(S) \in S /\ \A k \in S : k <= Max(S)
  BY <1>1, <1>2, MaxOfSome
<1> QED BY <1>1, <1>3, <1>4, <1>5

\* The first bindings, and over them the others.
LEMMA LatestFirst ==
    ASSUME NEW m \in Nat, NEW n \in Nat, NEW bs, DOMAIN bs = m..n, m <= n,
           NEW a \in Nat, NEW b \in Nat, NEW s, DOMAIN s = a..b, b - a = (n - m) - 1,
           \A k \in a..b : s[k] = bs[((k - a) + m) + 1]
    PROVE  Latest(bs) = Over(bs[m], Latest(s))
<1>0. m \in m..n
  OBVIOUS
<1>1. \A k \in a..b : ((k - a) + m) + 1 \in m..n /\ ((k - a) + m) + 1 # m
  OBVIOUS
<1>2. ASSUME NEW x \in DOMAIN Latest(s)
      PROVE  x \in DOMAIN Latest(bs) /\ Latest(bs)[x] = Latest(s)[x]
  <2>1. PICK k \in a..b : x \in DOMAIN s[k] /\ \A j \in a..b : x \in DOMAIN s[j] => j <= k
    BY LatestHas
  <2>2. Latest(s)[x] = s[k][x]
    BY <2>1, LatestIs
  <2> DEFINE l == ((k - a) + m) + 1
  <2>3. l \in m..n /\ s[k] = bs[l]
    BY <1>1
  <2>4. ASSUME NEW j \in m..n, x \in DOMAIN bs[j] PROVE j <= l
    <3>1. CASE j = m
      BY <2>3, <3>1
    <3>2. CASE j # m
      <4> DEFINE i0 == ((j - m) - 1) + a
      <4>1. i0 \in a..b /\ ((i0 - a) + m) + 1 = j
        BY <3>2
      <4>2. s[i0] = bs[j]
        BY <4>1
      <4>3. i0 <= k
        BY <2>1, <2>4, <4>1, <4>2
      <4> QED BY <4>3
    <3> QED BY <3>1, <3>2
  <2> HIDE DEF l
  <2>5. x \in DOMAIN Latest(bs) /\ Latest(bs)[x] = bs[l][x]
    <3>1. x \in DOMAIN bs[l] /\ \A j \in m..n : x \in DOMAIN bs[j] => j <= l
      BY <2>1, <2>3, <2>4
    <3>2. l \in m..n
      BY <2>3
    <3> HIDE DEF l
    <3> QED BY ONLY m \in Nat, n \in Nat, DOMAIN bs = m..n, <3>1, <3>2, LatestIs
  <2> QED BY <2>2, <2>3, <2>5
<1>3. ASSUME NEW x, x \notin DOMAIN Latest(s), x \in DOMAIN bs[m]
      PROVE  x \in DOMAIN Latest(bs) /\ Latest(bs)[x] = bs[m][x]
  <2>1. ASSUME NEW j \in m..n, x \in DOMAIN bs[j] PROVE j <= m
    <3>1. SUFFICES ASSUME j # m PROVE FALSE
      OBVIOUS
    <3> DEFINE i0 == ((j - m) - 1) + a
    <3>2. i0 \in a..b /\ ((i0 - a) + m) + 1 = j
      BY <3>1
    <3>3. s[i0] = bs[j]
      BY <3>2
    <3>4. x \in DOMAIN Latest(s)
      BY <2>1, <3>2, <3>3 DEF Latest
    <3> QED BY <1>3, <3>4
  <2>2. \A j \in m..n : x \in DOMAIN bs[j] => j <= m
    BY <2>1
  <2> QED BY <1>0, <1>3, <2>2, LatestIs
<1>4. ASSUME NEW x \in DOMAIN Latest(bs), x \notin DOMAIN Latest(s) PROVE x \in DOMAIN bs[m]
  <2>1. PICK j \in m..n : x \in DOMAIN bs[j]
    BY LatestHas
  <2>2. CASE j = m
    BY <2>1, <2>2
  <2>3. CASE j # m
    <3> DEFINE i0 == ((j - m) - 1) + a
    <3>2. i0 \in a..b /\ ((i0 - a) + m) + 1 = j
      BY <2>3
    <3>3. s[i0] = bs[j]
      BY <3>2
    <3>4. x \in DOMAIN Latest(s)
      BY <2>1, <3>2, <3>3 DEF Latest
    <3> QED BY <1>4, <3>4
  <2> QED BY <2>2, <2>3
<1> DEFINE R == Over(bs[m], Latest(s))
<1>5. DOMAIN Latest(bs) = DOMAIN bs[m] \cup DOMAIN Latest(s)
  BY <1>2, <1>3, <1>4
<1>6. R = [x \in DOMAIN bs[m] \cup DOMAIN Latest(s) |->
              IF x \in DOMAIN Latest(s) THEN Latest(s)[x] ELSE bs[m][x]]
  BY DEF Over
<1>7. \A x \in DOMAIN Latest(bs) : Latest(bs)[x] = IF x \in DOMAIN Latest(s) THEN Latest(s)[x] ELSE bs[m][x]
  BY <1>2, <1>3, <1>4
<1>8. Latest(bs) = [x \in DOMAIN Latest(bs) |-> Latest(bs)[x]]
  BY DEF Latest
<1> QED BY <1>5, <1>6, <1>7, <1>8

LEMMA LatestOfNone ==
    ASSUME NEW bs, DOMAIN bs = {}
    PROVE  DOMAIN Latest(bs) = {}
BY DEF Latest

LEMMA OverNone ==
    ASSUME NEW f, NEW g, DOMAIN g = {}, f = [n \in DOMAIN f |-> f[n]]
    PROVE  Over(f, g) = f
BY DEF Over

LEMMA NoneOver ==
    ASSUME NEW f, NEW g, DOMAIN f = {}, g = [n \in DOMAIN g |-> g[n]]
    PROVE  Over(f, g) = g
BY DEF Over

-----------------------------------------------------------------------------
(***************************************************************************)
(* What is left of a call: the parts of the pattern from a position on.    *)
(***************************************************************************)
Span(bs, m, n) == [k \in m..n |-> bs[k]]

Elements(q, v) == ByElement(Bound[MaxDepth], v, q)
Entries(q, v)  == ByKey(Bound[MaxDepth], v, q)

GoodKey(q, v, k) == q.obj[k][1] \in Keys(v) /\ Inst(q.obj[k][2])[Get(v, q.obj[k][1])]

LongEnough(q, v) == IF RestAt(q) = {} THEN Len(v.arr) = Fixed(q) ELSE Len(v.arr) >= Fixed(q)

GoodFrom(q, v, at) ==
    IF at = 0 THEN Inst(q)[v]
    ELSE IF Is(q, "arr")
    THEN LongEnough(q, v) /\ \A k \in at..Fixed(q) : Inst(q.arr[k])[v.arr[k]]
    ELSE \A k \in at..Len(q.obj) : GoodKey(q, v, k)

NamesFrom(q, v, at) ==
    IF at = 0 THEN BoundBy(q)[v]
    ELSE IF Is(q, "arr") THEN Latest(Span(Elements(q, v), at, Fixed(q) + 1))
    ELSE Latest(Span(Entries(q, v), at, Len(q.obj)))

LEMMA SpanFirst ==
    ASSUME NEW bs, NEW m \in Nat, NEW n \in Nat, m <= n
    PROVE  Latest(Span(bs, m, n)) = Over(bs[m], Latest(Span(bs, m + 1, n)))
<1>1. DOMAIN Span(bs, m, n) = m..n /\ Span(bs, m, n)[m] = bs[m]
  BY DEF Span
<1>2. DOMAIN Span(bs, m + 1, n) = (m + 1)..n
  BY DEF Span
<1>3. \A k \in (m + 1)..n : Span(bs, m + 1, n)[k] = Span(bs, m, n)[((k - (m + 1)) + m) + 1]
  <2>1. \A k \in (m + 1)..n : ((k - (m + 1)) + m) + 1 = k /\ k \in m..n
    OBVIOUS
  <2> QED BY <2>1 DEF Span
<1>4. n - (m + 1) = (n - m) - 1 /\ m + 1 \in Nat
  OBVIOUS
<1> HIDE DEF Span
<1> QED BY <1>1, <1>2, <1>3, <1>4, LatestFirst

LEMMA ElementRound ==
    ASSUME NEW q \in AllPats, DOMAIN q = {"arr"}, NEW v, NEW k \in 1..Fixed(q)
    PROVE  /\ GoodFrom(q, v, k) <=> Inst(q.arr[k])[v.arr[k]] /\ GoodFrom(q, v, k + 1)
           /\ NamesFrom(q, v, k) = Over(BoundBy(q.arr[k])[v.arr[k]], NamesFrom(q, v, k + 1))
<1>1. q.arr \in Seq(AllPats) /\ Is(q, "arr")
  BY AtMaxDepth, PatKinds DEF Is
<1>2. Fixed(q) \in Nat
  BY <1>1, FixedFacts
<1>3. k \in Nat /\ k # 0 /\ k + 1 # 0 /\ k <= Fixed(q) /\ k <= Fixed(q) + 1 /\ Fixed(q) + 1 \in Nat
  BY <1>2
<1>4. GoodFrom(q, v, k) <=> Inst(q.arr[k])[v.arr[k]] /\ GoodFrom(q, v, k + 1)
  <2>1. \A j : j \in k..Fixed(q) <=> j = k \/ j \in (k + 1)..Fixed(q)
    BY <1>2, <1>3
  <2> QED BY <1>1, <1>3, <2>1 DEF GoodFrom
<1>5. Elements(q, v)[k] = BoundBy(q.arr[k])[v.arr[k]]
  <2>1. k \in 1..(Fixed(q) + 1)
    BY <1>2
  <2> QED BY <1>3, <2>1 DEF Elements, ByElement, BoundBy
<1>6. Latest(Span(Elements(q, v), k, Fixed(q) + 1)) =
          Over(Elements(q, v)[k], Latest(Span(Elements(q, v), k + 1, Fixed(q) + 1)))
  BY <1>3, SpanFirst
<1> QED BY <1>1, <1>3, <1>4, <1>5, <1>6 DEF NamesFrom

LEMMA ElementEnd ==
    ASSUME NEW q \in AllPats, DOMAIN q = {"arr"}, NEW v
    PROVE  /\ GoodFrom(q, v, Fixed(q) + 1) <=> LongEnough(q, v)
           /\ NamesFrom(q, v, Fixed(q) + 1) = RestBound(v, q)
<1>1. q.arr \in Seq(AllPats) /\ Is(q, "arr")
  BY AtMaxDepth, PatKinds DEF Is
<1> DEFINE m == Fixed(q) + 1
<1>2. Fixed(q) \in Nat /\ m \in Nat /\ m # 0 /\ m <= m /\ ~(m <= Fixed(q)) /\ m \in 1..m
  BY <1>1, FixedFacts
<1>3. Elements(q, v)[m] = RestBound(v, q)
  BY <1>2 DEF Elements, ByElement
<1>4. Latest(Span(Elements(q, v), m, m)) = Over(Elements(q, v)[m], Latest(Span(Elements(q, v), m + 1, m)))
  BY <1>2, SpanFirst
<1>5. DOMAIN Latest(Span(Elements(q, v), m + 1, m)) = {}
  <2>1. (m + 1)..m = {}
    BY <1>2
  <2>2. DOMAIN Span(Elements(q, v), m + 1, m) = {}
    BY <2>1 DEF Span
  <2> QED BY <2>2, LatestOfNone
<1>6. RestBound(v, q) = [n \in DOMAIN RestBound(v, q) |-> RestBound(v, q)[n]]
  <2>1. \A a, w : One(a, w) = [n \in DOMAIN One(a, w) |-> One(a, w)[n]]
    BY DEF One
  <2>2. <<>> = [n \in DOMAIN <<>> |-> <<>>[n]]
    OBVIOUS
  <2>3. RestBound(v, q) = <<>> \/ \E a, w : RestBound(v, q) = One(a, w)
    BY DEF RestBound
  <2> QED BY <2>1, <2>2, <2>3
<1>7. Over(RestBound(v, q), Latest(Span(Elements(q, v), m + 1, m))) = RestBound(v, q)
  BY <1>5, <1>6, OverNone
<1>8. GoodFrom(q, v, m) <=> LongEnough(q, v)
  <2>1. m..Fixed(q) = {}
    BY <1>2
  <2> QED BY <1>1, <1>2, <2>1 DEF GoodFrom
<1>9. NamesFrom(q, v, m) = Latest(Span(Elements(q, v), m, m))
  BY <1>1, <1>2 DEF NamesFrom
<1> QED BY <1>3, <1>4, <1>7, <1>8, <1>9

LEMMA ElementStart ==
    ASSUME NEW q \in AllPats, DOMAIN q = {"arr"}, NEW v \in Values
    PROVE  /\ GoodFrom(q, v, 0) <=> Is(v, "arr") /\ GoodFrom(q, v, 1)
           /\ NamesFrom(q, v, 0) = NamesFrom(q, v, 1)
<1>1. q.arr \in Seq(AllPats) /\ Is(q, "arr")
  BY AtMaxDepth, PatKinds DEF Is
<1>2. Inst(q)[v] <=> Is(v, "arr") /\ LongEnough(q, v) /\ \A k \in 1..Fixed(q) : Inst(q.arr[k])[v.arr[k]]
  BY AtMaxDepth, InstanceKinds DEF LongEnough, Inst
<1>3. BoundBy(q)[v] = Latest(Elements(q, v))
  BY AtMaxDepth, BoundKinds DEF Elements
<1>4. Span(Elements(q, v), 1, Fixed(q) + 1) = Elements(q, v)
  BY DEF Span, Elements, ByElement
<1> QED BY <1>1, <1>2, <1>3, <1>4 DEF GoodFrom, NamesFrom

LEMMA KeyRound ==
    ASSUME NEW q \in AllPats, DOMAIN q = {"obj"}, NEW v, NEW k \in 1..Len(q.obj)
    PROVE  /\ GoodFrom(q, v, k) <=> GoodKey(q, v, k) /\ GoodFrom(q, v, k + 1)
           /\ NamesFrom(q, v, k) =
                 Over(BoundBy(q.obj[k][2])[Get(v, q.obj[k][1])], NamesFrom(q, v, k + 1))
<1>1. q.obj \in Seq(Names \X AllPats) /\ ~Is(q, "arr")
  BY AtMaxDepth, PatKinds DEF Is
<1>2. Len(q.obj) \in Nat /\ DOMAIN q.obj = 1..Len(q.obj)
  BY <1>1
<1>3. k \in Nat /\ k # 0 /\ k + 1 # 0 /\ k <= Len(q.obj)
  BY <1>2
<1>4. GoodFrom(q, v, k) <=> GoodKey(q, v, k) /\ GoodFrom(q, v, k + 1)
  <2>1. \A j : j \in k..Len(q.obj) <=> j = k \/ j \in (k + 1)..Len(q.obj)
    BY <1>2, <1>3
  <2> QED BY <1>1, <1>3, <2>1 DEF GoodFrom
<1>5. Entries(q, v)[k] = BoundBy(q.obj[k][2])[Get(v, q.obj[k][1])]
  BY <1>2 DEF Entries, ByKey, BoundBy
<1>6. Latest(Span(Entries(q, v), k, Len(q.obj))) =
          Over(Entries(q, v)[k], Latest(Span(Entries(q, v), k + 1, Len(q.obj))))
  BY <1>2, <1>3, SpanFirst
<1> QED BY <1>1, <1>3, <1>4, <1>5, <1>6 DEF NamesFrom

LEMMA KeyEnd ==
    ASSUME NEW q \in AllPats, DOMAIN q = {"obj"}, NEW v
    PROVE  /\ GoodFrom(q, v, Len(q.obj) + 1)
           /\ DOMAIN NamesFrom(q, v, Len(q.obj) + 1) = {}
<1>1. q.obj \in Seq(Names \X AllPats) /\ ~Is(q, "arr")
  BY AtMaxDepth, PatKinds DEF Is
<1> DEFINE m == Len(q.obj) + 1
<1>2. m # 0 /\ m..Len(q.obj) = {}
  BY <1>1
<1>3. DOMAIN Span(Entries(q, v), m, Len(q.obj)) = {}
  BY <1>2 DEF Span
<1>4. DOMAIN Latest(Span(Entries(q, v), m, Len(q.obj))) = {}
  BY <1>3, LatestOfNone
<1> QED BY <1>1, <1>2, <1>4 DEF GoodFrom, NamesFrom

LEMMA KeyStart ==
    ASSUME NEW q \in AllPats, DOMAIN q = {"obj"}, NEW v \in Values
    PROVE  /\ GoodFrom(q, v, 0) <=> ~Is(v, "prim") /\ GoodFrom(q, v, 1)
           /\ NamesFrom(q, v, 0) = NamesFrom(q, v, 1)
<1>1. q.obj \in Seq(Names \X AllPats) /\ ~Is(q, "arr")
  BY AtMaxDepth, PatKinds DEF Is
<1>2. DOMAIN q.obj = 1..Len(q.obj)
  BY <1>1
<1>3. Inst(q)[v] <=> ~Is(v, "prim") /\ \A k \in DOMAIN q.obj : GoodKey(q, v, k)
  BY AtMaxDepth, InstanceKinds DEF GoodKey, Inst
<1>4. BoundBy(q)[v] = Latest(Entries(q, v))
  BY AtMaxDepth, BoundKinds DEF Entries
<1>5. Span(Entries(q, v), 1, Len(q.obj)) = Entries(q, v)
  BY <1>2 DEF Span, Entries, ByKey
<1> QED BY <1>1, <1>2, <1>3, <1>4, <1>5 DEF GoodFrom, NamesFrom

LEMMA LeafCall ==
    ASSUME NEW q \in AllPats, NEW v \in Values
    PROVE  /\ DOMAIN q = {"sym"} => (GoodFrom(q, v, 0) <=> q = Wild)
           /\ DOMAIN q = {"bind"} => GoodFrom(q, v, 0) /\ NamesFrom(q, v, 0) = One(q.bind, v)
           /\ DOMAIN q = {"guard"} => (GoodFrom(q, v, 0) <=> v \in q.guard)
           /\ DOMAIN q = {"prim"} => (GoodFrom(q, v, 0) <=> v = q)
           /\ DOMAIN q \in {{"sym"}, {"guard"}, {"prim"}} => NamesFrom(q, v, 0) = <<>>
<1>1. GoodFrom(q, v, 0) <=> InstanceOver(Instance[MaxDepth], v, q)
  BY AtMaxDepth DEF GoodFrom
<1>2. NamesFrom(q, v, 0) = BoundOver(Bound[MaxDepth], v, q)
  BY AtMaxDepth DEF NamesFrom
<1> QED BY <1>1, <1>2, InstanceKinds, BoundKinds

\* Bindings are functions.
LEMMA NamesAreFunction ==
    ASSUME NEW q \in AllPats, NEW v \in Values
    PROVE  BoundBy(q)[v] = [n \in DOMAIN BoundBy(q)[v] |-> BoundBy(q)[v][n]]
<1>1. BoundBy(q)[v] = BoundOver(Bound[MaxDepth], v, q)
  BY AtMaxDepth
<1>2. \A a, w : One(a, w) = [n \in DOMAIN One(a, w) |-> One(a, w)[n]]
  BY DEF One
<1>3. \A bs : Latest(bs) = [n \in DOMAIN Latest(bs) |-> Latest(bs)[n]]
  BY DEF Latest
<1>4. <<>> = [n \in DOMAIN <<>> |-> <<>>[n]]
  OBVIOUS
<1>5. \/ BoundBy(q)[v] = <<>>
      \/ \E a, w : BoundBy(q)[v] = One(a, w)
      \/ \E bs : BoundBy(q)[v] = Latest(bs)
  <2>1. DOMAIN q \in {{"sym"}, {"bind"}, {"guard"}, {"prim"}, {"arr"}, {"obj"}}
    BY AtMaxDepth, PatKinds
  <2> DEFINE f == Bound[MaxDepth]
  <2> HIDE DEF f
  <2>2. BoundBy(q)[v] = BoundOver(f, v, q)
    BY <1>1 DEF f
  <2>3. CASE DOMAIN q \in {{"sym"}, {"guard"}, {"prim"}}
    BY <2>2, <2>3, BoundKinds
  <2>4. CASE DOMAIN q = {"bind"}
    BY <2>2, <2>4, BoundKinds
  <2>5. CASE DOMAIN q = {"arr"}
    <3>1. BoundOver(f, v, q) = Latest(ByElement(f, v, q))
      BY <2>5, BoundKinds
    <3> QED BY <2>2, <3>1
  <2>6. CASE DOMAIN q = {"obj"}
    <3>1. BoundOver(f, v, q) = Latest(ByKey(f, v, q))
      BY <2>6, BoundKinds
    <3> QED BY <2>2, <3>1
  <2> QED BY <2>1, <2>3, <2>4, <2>5, <2>6
<1> QED BY <1>2, <1>3, <1>4, <1>5

\* The parts of a value are values.
LEMMA ValueParts ==
    ASSUME NEW v \in Values
    PROVE  /\ DOMAIN v \in {{"prim"}, {"arr"}, {"obj"}}
           /\ Is(v, "arr") => /\ v.arr \in Seq(Values)
                              /\ \A k \in 1..Len(v.arr) : v.arr[k] \in Values
           /\ ~Is(v, "prim") => \A key \in Keys(v) : Get(v, key) \in Values
<1>1. CASE v \in [prim : Prims]
  BY <1>1 DEF Is
<1>2. CASE /\ v = [arr |-> v.arr]
           /\ v.arr \in Seq(Values) /\ Len(v.arr) <= MaxLen
  <2>1. DOMAIN v = {"arr"}
    BY <1>2
  <2>2. ASSUME NEW key \in Keys(v) PROVE Get(v, key) \in Values
    <3>1. ~Is(v, "obj")
      BY <2>1 DEF Is
    <3>2. CASE key = "length"
      <4>1. Len(v.arr) + 1 \in 1..Len(Index)
        BY <1>2, ValuesAssumption DEF MaxLen
      <4>2. Index[Len(v.arr) + 1] \in Prims
        BY <4>1, ValuesAssumption
      <4>3. [prim |-> Index[Len(v.arr) + 1]] \in Values
        BY <4>2, ValuesAssumption
      <4> QED BY <3>1, <3>2, <4>3 DEF Get
    <3>3. CASE key # "length"
      <4>1. \E k \in DOMAIN v.arr : Index[k] = key
        BY <2>2, <3>1, <3>3 DEF Keys
      <4>2. (CHOOSE k \in DOMAIN v.arr : Index[k] = key) \in DOMAIN v.arr
        BY <4>1
      <4>3. \A k \in DOMAIN v.arr : v.arr[k] \in Values
        BY <1>2
      <4> QED BY <3>1, <3>3, <4>2, <4>3 DEF Get
    <3> QED BY <3>2, <3>3
  <2> QED BY <1>2, <2>1, <2>2
<1>3. CASE v = [obj |-> v.obj] /\ v.obj \in [DOMAIN v.obj -> Values]
  <2>1. DOMAIN v = {"obj"}
    BY <1>3
  <2>2. Is(v, "obj") /\ ~Is(v, "arr")
    BY <2>1 DEF Is
  <2> QED BY <1>3, <2>1, <2>2 DEF Keys, Get
<1> QED BY <1>1, <1>2, <1>3, ValuesAssumption

-----------------------------------------------------------------------------
(***************************************************************************)
(* The calls in progress.                                                  *)
(***************************************************************************)
\* A pattern as match and as pipe read it.
SeenBy(w, p) == IF w = "pipe" THEN Open(p) ELSE p

Calls == [v : Values, p : AllPats, at : Nat]

GoodOf(w, c)  == GoodFrom(SeenBy(w, c.p), c.v, c.at)
NamesOf(w, c) == NamesFrom(SeenBy(w, c.p), c.v, c.at)

AllGood(w, td) == \A k \in DOMAIN td : GoodOf(w, td[k])
Gather(w, td)  == [k \in DOMAIN td |-> NamesOf(w, td[k])]

\* The value is an instance of q exactly if all that is left to be looked
\* at is good, and then what is bound and what is left give its bindings.
Progress(w, q, v, td, b) ==
    /\ Inst(q)[v] <=> AllGood(w, td)
    /\ AllGood(w, td) => BoundBy(q)[v] = Over(b, Latest(Gather(w, td)))

LEMMA ConsFacts ==
    ASSUME NEW S, NEW x \in S, NEW t \in Seq(S)
    PROVE  /\ <<x>> \o t \in Seq(S) /\ <<x>> \o t # <<>>
           /\ Head(<<x>> \o t) = x /\ Tail(<<x>> \o t) = t
<1>1. <<x>> \o t \in Seq(S) /\ Len(<<x>> \o t) = Len(t) + 1
  OBVIOUS
<1>2. (<<x>> \o t)[1] = x
  OBVIOUS
<1>3. Tail(<<x>> \o t) = t
  OBVIOUS
<1> QED BY <1>1, <1>2, <1>3

LEMMA PairOfCalls ==
    ASSUME NEW c \in Calls, NEW d \in Calls
    PROVE  <<c>> \in Seq(Calls) /\ <<d>> \in Seq(Calls) /\ <<c>> \o <<d>> = <<c, d>>
<1> DEFINE s == <<c>> \o <<d>>
           t == <<c, d>>
<1>1. <<c>> \in Seq(Calls) /\ <<d>> \in Seq(Calls) /\ t \in Seq(Calls)
  OBVIOUS
<1>2. Len(<<c>>) = 1 /\ Len(<<d>>) = 1 /\ Len(t) = 2 /\ <<c>>[1] = c /\ <<d>>[1] = d /\ t[1] = c /\ t[2] = d
  OBVIOUS
<1>3. s \in Seq(Calls) /\ Len(s) = 2 /\ s[1] = c /\ s[2] = d
  BY <1>1, <1>2, ConcatProperties
<1> HIDE DEF s, t
<1>4. s = t
  BY <1>1, <1>2, <1>3, SeqEqual
<1> QED BY <1>1, <1>4 DEF s, t

LEMMA FirstCall ==
    ASSUME NEW w, NEW td \in Seq(Calls), td # <<>>
    PROVE  /\ Head(td) \in Calls /\ Tail(td) \in Seq(Calls)
           /\ AllGood(w, td) <=> GoodOf(w, Head(td)) /\ AllGood(w, Tail(td))
           /\ Latest(Gather(w, td)) = Over(NamesOf(w, Head(td)), Latest(Gather(w, Tail(td))))
<1>1. Head(td) \in Calls /\ Tail(td) \in Seq(Calls) /\ Head(td) = td[1]
  OBVIOUS
<1> DEFINE n == Len(td)
<1>2. n \in Nat /\ 1 <= n /\ DOMAIN td = 1..n
  OBVIOUS
<1>3. DOMAIN Tail(td) = 1..(n - 1) /\ \A k \in 1..(n - 1) : Tail(td)[k] = td[k + 1]
  OBVIOUS
<1> HIDE DEF n
<1>4. AllGood(w, td) <=> GoodOf(w, Head(td)) /\ AllGood(w, Tail(td))
  <2>1. \A k \in 1..n : k = 1 \/ (k - 1 \in 1..(n - 1) /\ (k - 1) + 1 = k)
    BY <1>2
  <2>2. \A k \in 1..(n - 1) : k + 1 \in 1..n
    BY <1>2
  <2>3. 1 \in 1..n
    BY <1>2
  <2>4. ASSUME AllGood(w, td) PROVE GoodOf(w, Head(td)) /\ AllGood(w, Tail(td))
    BY <1>1, <1>2, <1>3, <2>2, <2>3, <2>4 DEF AllGood
  <2>5. ASSUME GoodOf(w, Head(td)), AllGood(w, Tail(td)) PROVE AllGood(w, td)
    <3> SUFFICES ASSUME NEW k \in 1..n PROVE GoodOf(w, td[k])
      BY <1>2 DEF AllGood
    <3>1. CASE k = 1
      BY <1>1, <2>5, <3>1
    <3>2. CASE k - 1 \in 1..(n - 1) /\ (k - 1) + 1 = k
      <4>1. Tail(td)[k - 1] = td[k]
        BY <1>3, <3>2
      <4> QED BY <1>3, <2>5, <3>2, <4>1 DEF AllGood
    <3> QED BY <2>1, <3>1, <3>2
  <2> QED BY <2>4, <2>5
<1>5. DOMAIN Gather(w, td) = 1..n /\ DOMAIN Gather(w, Tail(td)) = 1..(n - 1)
  BY <1>2, <1>3 DEF Gather
<1>6. Gather(w, td)[1] = NamesOf(w, Head(td))
  BY <1>1, <1>2 DEF Gather
<1>7. \A k \in 1..(n - 1) : Gather(w, Tail(td))[k] = Gather(w, td)[((k - 1) + 1) + 1]
  <2>1. \A k \in 1..(n - 1) : ((k - 1) + 1) + 1 = k + 1 /\ k + 1 \in 1..n
    BY <1>2
  <2> QED BY <1>2, <1>3, <2>1 DEF Gather
<1>8. n - 1 \in Nat /\ (n - 1) - 1 = (n - 1) - 1
  BY <1>2
<1>9. Latest(Gather(w, td)) = Over(Gather(w, td)[1], Latest(Gather(w, Tail(td))))
  BY <1>2, <1>5, <1>7, <1>8, LatestFirst
<1> QED BY <1>1, <1>4, <1>6, <1>9

LEMMA ProgressStart ==
    ASSUME NEW w, NEW p \in AllPats, NEW v \in Values
    PROVE  Progress(w, SeenBy(w, p), v, <<Call(v, p, 0)>>, <<>>)
<1> DEFINE td == <<Call(v, p, 0)>>
           q == SeenBy(w, p)
<1>1. Call(v, p, 0) \in Calls
  BY DEF Call, Calls
<1>2. td \in Seq(Calls) /\ td # <<>> /\ Head(td) = Call(v, p, 0) /\ Tail(td) = <<>>
  BY <1>1
<1>3. q \in AllPats
  BY AtMaxDepth DEF SeenBy
<1>4. GoodOf(w, Call(v, p, 0)) <=> Inst(q)[v]
  BY DEF GoodOf, Call, GoodFrom
<1>5. NamesOf(w, Call(v, p, 0)) = BoundBy(q)[v]
  BY DEF NamesOf, Call, NamesFrom
<1>6. AllGood(w, <<>>) /\ DOMAIN Gather(w, <<>>) = {}
  BY DEF AllGood, Gather
<1>7. DOMAIN Latest(Gather(w, <<>>)) = {}
  BY <1>6, LatestOfNone
<1> HIDE DEF td, q
<1>8. /\ AllGood(w, td) <=> GoodOf(w, Head(td)) /\ AllGood(w, Tail(td))
      /\ Latest(Gather(w, td)) = Over(NamesOf(w, Head(td)), Latest(Gather(w, Tail(td))))
  BY <1>2, FirstCall
<1>9. BoundBy(q)[v] = [n \in DOMAIN BoundBy(q)[v] |-> BoundBy(q)[v][n]]
  BY <1>3, NamesAreFunction
<1>10. Latest(Gather(w, td)) = BoundBy(q)[v]
  BY <1>2, <1>5, <1>7, <1>8, <1>9, OverNone
<1>11. Over(<<>>, BoundBy(q)[v]) = BoundBy(q)[v]
  BY <1>9, NoneOver
<1>12. Progress(w, q, v, td, <<>>)
  BY <1>2, <1>4, <1>6, <1>8, <1>10, <1>11 DEF Progress
<1> QED BY <1>12 DEF td, q

LEMMA ProgressPop ==
    ASSUME NEW w, NEW q, NEW v, NEW td \in Seq(Calls), td # <<>>, NEW b,
           Progress(w, q, v, td, b), GoodOf(w, Head(td))
    PROVE  Progress(w, q, v, Tail(td), Over(b, NamesOf(w, Head(td))))
<1>1. /\ AllGood(w, td) <=> GoodOf(w, Head(td)) /\ AllGood(w, Tail(td))
      /\ Latest(Gather(w, td)) = Over(NamesOf(w, Head(td)), Latest(Gather(w, Tail(td))))
  BY FirstCall
<1>2. Over(b, Over(NamesOf(w, Head(td)), Latest(Gather(w, Tail(td))))) =
      Over(Over(b, NamesOf(w, Head(td))), Latest(Gather(w, Tail(td))))
  BY OverAssoc
<1> QED BY <1>1, <1>2 DEF Progress

LEMMA ProgressTurn ==
    ASSUME NEW w, NEW q, NEW v, NEW td \in Seq(Calls), td # <<>>, NEW b,
           Progress(w, q, v, td, b), NEW c \in Calls,
           GoodOf(w, c) <=> GoodOf(w, Head(td)),
           NamesOf(w, c) = NamesOf(w, Head(td))
    PROVE  Progress(w, q, v, <<c>> \o Tail(td), b)
<1> DEFINE te == <<c>> \o Tail(td)
<1>1. /\ Tail(td) \in Seq(Calls)
      /\ AllGood(w, td) <=> GoodOf(w, Head(td)) /\ AllGood(w, Tail(td))
      /\ Latest(Gather(w, td)) = Over(NamesOf(w, Head(td)), Latest(Gather(w, Tail(td))))
  BY FirstCall
<1>2. te \in Seq(Calls) /\ te # <<>> /\ Head(te) = c /\ Tail(te) = Tail(td)
  BY <1>1, ConsFacts
<1> HIDE DEF te
<1>3. /\ AllGood(w, te) <=> GoodOf(w, Head(te)) /\ AllGood(w, Tail(te))
      /\ Latest(Gather(w, te)) = Over(NamesOf(w, Head(te)), Latest(Gather(w, Tail(te))))
  BY <1>2, FirstCall
<1>4. Progress(w, q, v, te, b)
  BY <1>1, <1>2, <1>3 DEF Progress
<1> QED BY <1>4 DEF te

LEMMA ProgressDescend ==
    ASSUME NEW w, NEW q, NEW v, NEW td \in Seq(Calls), td # <<>>, NEW b,
           Progress(w, q, v, td, b), NEW c \in Calls, NEW d \in Calls,
           GoodOf(w, Head(td)) <=> GoodOf(w, c) /\ GoodOf(w, d),
           NamesOf(w, Head(td)) = Over(NamesOf(w, c), NamesOf(w, d))
    PROVE  Progress(w, q, v, <<c, d>> \o Tail(td), b)
<1> DEFINE te == <<d>> \o Tail(td)
           tf == <<c>> \o te
<1>1. /\ Tail(td) \in Seq(Calls)
      /\ AllGood(w, td) <=> GoodOf(w, Head(td)) /\ AllGood(w, Tail(td))
      /\ Latest(Gather(w, td)) = Over(NamesOf(w, Head(td)), Latest(Gather(w, Tail(td))))
  BY FirstCall
<1>2. te \in Seq(Calls) /\ te # <<>> /\ Head(te) = d /\ Tail(te) = Tail(td)
  BY <1>1, ConsFacts
<1>3. tf = <<c, d>> \o Tail(td)
  <2>1. <<c>> \in Seq(Calls) /\ <<d>> \in Seq(Calls) /\ <<c>> \o <<d>> = <<c, d>>
    BY PairOfCalls
  <2>2. (<<c>> \o <<d>>) \o Tail(td) = <<c>> \o (<<d>> \o Tail(td))
    BY <1>1, <2>1, ConcatAssociative
  <2> QED BY <2>1, <2>2
<1> HIDE DEF te
<1>4. tf \in Seq(Calls) /\ tf # <<>> /\ Head(tf) = c /\ Tail(tf) = te
  BY <1>2, ConsFacts
<1> HIDE DEF tf
<1>5. /\ AllGood(w, te) <=> GoodOf(w, Head(te)) /\ AllGood(w, Tail(te))
      /\ Latest(Gather(w, te)) = Over(NamesOf(w, Head(te)), Latest(Gather(w, Tail(te))))
  BY <1>2, FirstCall
<1>6. /\ AllGood(w, tf) <=> GoodOf(w, Head(tf)) /\ AllGood(w, Tail(tf))
      /\ Latest(Gather(w, tf)) = Over(NamesOf(w, Head(tf)), Latest(Gather(w, Tail(tf))))
  BY <1>4, FirstCall
<1>7. Over(Over(NamesOf(w, c), NamesOf(w, d)), Latest(Gather(w, Tail(td)))) =
      Over(NamesOf(w, c), Over(NamesOf(w, d), Latest(Gather(w, Tail(td)))))
  BY OverAssoc
<1>8. AllGood(w, tf) <=> AllGood(w, td)
  BY <1>1, <1>2, <1>4, <1>5, <1>6
<1>9. Latest(Gather(w, tf)) = Latest(Gather(w, td))
  BY <1>1, <1>2, <1>4, <1>5, <1>6, <1>7
<1>10. Progress(w, q, v, tf, b)
  BY <1>8, <1>9 DEF Progress
<1> QED BY <1>3, <1>10

LEMMA ProgressEnd ==
    ASSUME NEW w, NEW q, NEW v, NEW b, b = [n \in DOMAIN b |-> b[n]],
           Progress(w, q, v, <<>>, b)
    PROVE  Inst(q)[v] /\ BoundBy(q)[v] = b
<1>1. AllGood(w, <<>>) /\ DOMAIN Gather(w, <<>>) = {}
  BY DEF AllGood, Gather
<1>2. DOMAIN Latest(Gather(w, <<>>)) = {}
  BY <1>1, LatestOfNone
<1>3. Over(b, Latest(Gather(w, <<>>))) = b
  BY <1>2, OverNone
<1> QED BY <1>1, <1>3 DEF Progress

-----------------------------------------------------------------------------
(***************************************************************************)
(* The inductive invariant.                                                *)
(***************************************************************************)
SeenClauses ==
    [k \in DOMAIN clauses |-> [pattern |-> SeenBy(via, clauses[k].pattern),
                               guardFn |-> clauses[k].guardFn]]

\* Where a call can be in its loop.
InLoop(w, c) ==
    \/ c.at = 0
    \/ /\ w = "match" /\ DOMAIN c.p = {"arr"} /\ Is(c.v, "arr")
       /\ c.at <= Fixed(c.p) + 1 /\ c.at <= Len(c.v.arr) + 1
    \/ /\ DOMAIN SeenBy(w, c.p) = {"obj"} /\ ~Is(c.v, "prim")
       /\ c.at <= Len(SeenBy(w, c.p).obj) + 1

Shape ==
    /\ via \in {"match", "pipe"} /\ value \in Values
    /\ clauses \in Seq([pattern : Patterns, guardFn : Guards])
    /\ i \in 1..(Len(clauses) + 1)
    /\ todo \in Seq(Calls) /\ \A k \in DOMAIN todo : InLoop(via, todo[k])
    /\ todo # <<>> => i <= Len(clauses)
    /\ bindings = [n \in DOMAIN bindings |-> bindings[n]]

\* The clauses before the one that is tried do not apply.
Earlier == out = Pending => \A k \in 1..(i - 1) : ~Applies(SeenClauses, k)

Current ==
    out = Pending /\ i <= Len(clauses) =>
        Progress(via, SeenBy(via, clauses[i].pattern), value, todo, bindings)

Decided == out # Pending => out = Expected(SeenClauses)

MatchInv == Shape /\ Earlier /\ Current /\ Decided

LEMMA ExpectedFirst ==
    ASSUME NEW cs, NEW n \in Nat, DOMAIN cs = 1..n, NEW k \in 1..n, Applies(cs, k),
           \A j \in 1..(k - 1) : ~Applies(cs, j)
    PROVE  Expected(cs) = [clause |-> k, bindings |-> BoundBy(cs[k].pattern)[value]]
<1> DEFINE S == {j \in DOMAIN cs : Applies(cs, j)}
<1>1. k \in S /\ S \subseteq Nat /\ S # {}
  OBVIOUS
<1>2. ASSUME NEW j \in S PROVE k <= j
  <2>1. j \in 1..n /\ Applies(cs, j)
    OBVIOUS
  <2>2. j \in 1..(k - 1) \/ k <= j
    BY <2>1
  <2> QED BY <2>1, <2>2
<1> HIDE DEF S
<1>3. Min(S) \in S /\ \A j \in S : Min(S) <= j
  BY <1>1, <1>2 DEF Min
<1>4. Min(S) = k
  <2>1. Min(S) <= k /\ k <= Min(S) /\ Min(S) \in Nat /\ k \in Nat
    BY <1>1, <1>2, <1>3
  <2> QED BY <2>1
<1> QED BY <1>1, <1>4 DEF Expected, S, BoundBy

LEMMA ExpectedNone ==
    ASSUME NEW cs, \A k \in DOMAIN cs : ~Applies(cs, k)
    PROVE  Expected(cs) = Thrown
BY DEF Expected

LEMMA SeenType ==
    ASSUME NEW w, NEW p \in AllPats
    PROVE  SeenBy(w, p) \in AllPats
BY AtMaxDepth DEF SeenBy

\* The clause in hand does not apply: the next one is tried.
LEMMA NextKeeps ==
    ASSUME MatchInv, out = Pending, i <= Len(clauses), ~Applies(SeenClauses, i),
           NextClause, UNCHANGED <<via, value, clauses>>
    PROVE  MatchInv'
<1>1. /\ via \in {"match", "pipe"} /\ value \in Values
      /\ clauses \in Seq([pattern : Patterns, guardFn : Guards])
      /\ i \in 1..(Len(clauses) + 1)
  BY DEF MatchInv, Shape
<1>2. Len(clauses) \in Nat /\ i \in Nat /\ i + 1 \in 1..(Len(clauses) + 1) /\ (i + 1) - 1 = i
  BY <1>1
<1>3. i' = i + 1 /\ todo' = Attempt(i + 1) /\ bindings' = <<>> /\ out' = out
  BY DEF NextClause
<1>4. SeenClauses' = SeenClauses /\ \A k : Applies(SeenClauses, k)' <=> Applies(SeenClauses, k)
  <2>1. SeenClauses' = SeenClauses
    BY DEF SeenClauses, SeenBy
  <2> QED BY <2>1 DEF Applies
<1>5. ASSUME i + 1 <= Len(clauses)
      PROVE  /\ clauses[i + 1].pattern \in AllPats
             /\ todo' = <<Call(value, clauses[i + 1].pattern, 0)>>
  <2>1. i + 1 \in 1..Len(clauses)
    BY <1>2, <1>5
  <2>2. clauses[i + 1] \in [pattern : Patterns, guardFn : Guards]
    BY <1>1, <2>1, ElementOfSeq
  <2> QED BY <1>3, <1>5, <2>2, MatchAssumption DEF Attempt, AllPats
<1>6. Shape'
  <2>1. CASE i + 1 <= Len(clauses)
    <3> DEFINE c == Call(value, clauses[i + 1].pattern, 0)
    <3>1. c \in Calls /\ c.at = 0
      BY <1>1, <1>5, <2>1 DEF Call, Calls
    <3>2. todo' = <<c>>
      BY <1>5, <2>1
    <3> HIDE DEF c
    <3>3. todo' \in Seq(Calls) /\ \A k \in DOMAIN todo' : todo'[k] = c
      BY <3>1, <3>2
    <3> QED BY <1>1, <1>2, <1>3, <2>1, <3>1, <3>3 DEF Shape, InLoop
  <2>2. CASE ~(i + 1 <= Len(clauses))
    <3>1. todo' = <<>> /\ todo' \in Seq(Calls)
      BY <1>3, <2>2 DEF Attempt
    <3>2. \A k \in DOMAIN todo' : InLoop(via, todo'[k])
      BY <3>1
    <3>3. bindings' = [n \in DOMAIN bindings' |-> bindings'[n]]
      BY <1>3
    <3>4. i' \in 1..(Len(clauses') + 1)
      BY <1>2, <1>3
    <3> QED BY <1>1, <3>1, <3>2, <3>3, <3>4 DEF Shape
  <2> QED BY <2>1, <2>2
<1>7. Earlier'
  <2> SUFFICES ASSUME NEW k \in 1..i PROVE ~Applies(SeenClauses, k)
    BY <1>2, <1>3, <1>4 DEF Earlier
  <2>1. CASE k = i
    BY <2>1
  <2>2. CASE k # i
    <3>1. k \in 1..(i - 1)
      BY <1>2, <2>2
    <3> QED BY <3>1 DEF MatchInv, Earlier
  <2> QED BY <2>1, <2>2
<1>8. Current'
  <2> SUFFICES ASSUME i + 1 <= Len(clauses)
               PROVE  Progress(via, SeenBy(via, clauses[i + 1].pattern), value, todo', <<>>)
    BY <1>3 DEF Current
  <2>1. /\ clauses[i + 1].pattern \in AllPats
        /\ todo' = <<Call(value, clauses[i + 1].pattern, 0)>>
    BY <1>5
  <2> QED BY <1>1, <2>1, ProgressStart
<1>9. Decided'
  BY <1>3 DEF Decided
<1> QED BY <1>6, <1>7, <1>8, <1>9 DEF MatchInv

-----------------------------------------------------------------------------
(***************************************************************************)
(* The ways a call goes on.                                                *)
(***************************************************************************)
InCall == MatchInv /\ out = Pending /\ todo # <<>> /\ UNCHANGED <<via, value, clauses>>

LEMMA InCallFacts ==
    ASSUME InCall
    PROVE  /\ via \in {"match", "pipe"} /\ todo \in Seq(Calls) /\ Head(todo) \in Calls
           /\ Tail(todo) \in Seq(Calls)
           /\ InLoop(via, Head(todo)) /\ \A k \in DOMAIN Tail(todo) : InLoop(via, Tail(todo)[k])
           /\ i <= Len(clauses) /\ i \in DOMAIN clauses
           /\ Progress(via, SeenBy(via, clauses[i].pattern), value, todo, bindings)
           /\ bindings = [n \in DOMAIN bindings |-> bindings[n]]
<1>1. Shape /\ Current /\ out = Pending /\ todo # <<>>
  BY DEF InCall, MatchInv
<1>2. todo \in Seq(Calls) /\ clauses \in Seq([pattern : Patterns, guardFn : Guards])
      /\ i \in 1..(Len(clauses) + 1) /\ i <= Len(clauses)
  BY <1>1 DEF Shape
<1>3. Head(todo) \in Calls /\ Tail(todo) \in Seq(Calls) /\ Head(todo) = todo[1] /\ 1 \in DOMAIN todo
  BY <1>1, <1>2
<1>4. ASSUME NEW k \in DOMAIN Tail(todo) PROVE InLoop(via, Tail(todo)[k])
  <2>1. k + 1 \in DOMAIN todo /\ Tail(todo)[k] = todo[k + 1]
    BY <1>1, <1>2
  <2> QED BY <1>1, <2>1 DEF Shape
<1>5. InLoop(via, Head(todo))
  BY <1>1, <1>3 DEF Shape
<1>6. i \in DOMAIN clauses
  BY <1>2
<1> QED BY <1>1, <1>2, <1>3, <1>4, <1>5, <1>6 DEF Shape, Current

\* What holds after a step that stays with the clause.
LEMMA StaysKeeps ==
    ASSUME InCall, i' = i, out' = out, todo' \in Seq(Calls),
           \A k \in DOMAIN todo' : InLoop(via, todo'[k]),
           bindings' = [n \in DOMAIN bindings' |-> bindings'[n]],
           Progress(via, SeenBy(via, clauses[i].pattern), value, todo', bindings')
    PROVE  MatchInv'
<1>1. MatchInv /\ out = Pending /\ UNCHANGED <<via, value, clauses>>
  BY DEF InCall
<1>2. SeenClauses' = SeenClauses /\ \A k : Applies(SeenClauses, k)' <=> Applies(SeenClauses, k)
  <2>1. SeenClauses' = SeenClauses
    BY <1>1 DEF SeenClauses, SeenBy
  <2> QED BY <1>1, <2>1 DEF Applies
<1>3. i <= Len(clauses)
  BY InCallFacts
<1>4. Shape'
  BY <1>1, <1>3 DEF MatchInv, Shape
<1>5. Earlier'
  BY <1>1, <1>2 DEF MatchInv, Earlier
<1>6. Current'
  BY <1>1 DEF Current
<1>7. Decided'
  BY <1>1 DEF Decided
<1> QED BY <1>4, <1>5, <1>6, <1>7 DEF MatchInv

LEMMA ReturnsTrueKeeps ==
    ASSUME InCall, NEW b, ReturnsTrue(b), GoodOf(via, Head(todo)),
           b = Over(bindings, NamesOf(via, Head(todo)))
    PROVE  MatchInv'
<1>1. todo' = Tail(todo) /\ bindings' = b /\ i' = i /\ out' = out
  BY DEF ReturnsTrue
<1>2. todo # <<>>
  BY DEF InCall
<1>3. Progress(via, SeenBy(via, clauses[i].pattern), value, Tail(todo), b)
  BY <1>2, InCallFacts, ProgressPop
<1>4. b = [n \in DOMAIN b |-> b[n]]
  BY DEF Over
<1>5. Tail(todo) \in Seq(Calls) /\ \A k \in DOMAIN Tail(todo) : InLoop(via, Tail(todo)[k])
  BY InCallFacts
<1> QED BY <1>1, <1>3, <1>4, <1>5, StaysKeeps

LEMMA FailKeeps ==
    ASSUME InCall, NextClause, ~GoodOf(via, Head(todo))
    PROVE  MatchInv'
<1>1. MatchInv /\ out = Pending /\ todo # <<>> /\ UNCHANGED <<via, value, clauses>>
  BY DEF InCall
<1>2. ~AllGood(via, todo)
  BY <1>1, InCallFacts, FirstCall
<1>3. ~Inst(SeenBy(via, clauses[i].pattern))[value]
  BY <1>2, InCallFacts DEF Progress
<1>4. ~Applies(SeenClauses, i)
  BY <1>3, InCallFacts DEF Applies, SeenClauses, Inst
<1> QED BY <1>1, <1>4, InCallFacts, NextKeeps

LEMMA ReturnsKeeps ==
    ASSUME InCall, NEW ok, Returns(ok), GoodOf(via, Head(todo)) <=> ok,
           ok => DOMAIN NamesOf(via, Head(todo)) = {}
    PROVE  MatchInv'
<1>1. CASE ok
  <2>1. bindings = Over(bindings, NamesOf(via, Head(todo)))
    BY <1>1, InCallFacts, OverNone
  <2>2. ReturnsTrue(bindings)
    BY <1>1 DEF Returns
  <2> QED BY <1>1, <2>1, <2>2, ReturnsTrueKeeps
<1>2. CASE ~ok
  BY <1>2, FailKeeps DEF Returns
<1> QED BY <1>1, <1>2

LEMMA BindKeeps ==
    ASSUME InCall, NEW n, NEW v, ReturnsTrue(Bind(bindings, n, v)), GoodOf(via, Head(todo)),
           NamesOf(via, Head(todo)) = One(n, v)
    PROVE  MatchInv'
<1>1. Bind(bindings, n, v) = Over(bindings, One(n, v))
  BY DEF Bind, Over, One
<1> QED BY <1>1, ReturnsTrueKeeps

\* All the calls of a longer list are in their loops if the new ones are.
LEMMA ConsInLoop ==
    ASSUME NEW w, NEW c \in Calls, NEW t \in Seq(Calls), InLoop(w, c),
           \A k \in DOMAIN t : InLoop(w, t[k])
    PROVE  \A k \in DOMAIN (<<c>> \o t) : InLoop(w, (<<c>> \o t)[k])
<1> SUFFICES ASSUME NEW k \in DOMAIN (<<c>> \o t) PROVE InLoop(w, (<<c>> \o t)[k])
  OBVIOUS
<1>1. k = 1 \/ (k - 1 \in DOMAIN t /\ (<<c>> \o t)[k] = t[k - 1])
  OBVIOUS
<1>2. (<<c>> \o t)[1] = c
  OBVIOUS
<1> QED BY <1>1, <1>2

LEMMA EntersKeeps ==
    ASSUME InCall, NEW c \in Calls, c = Head(todo), EntersLoop(c),
           GoodOf(via, [c EXCEPT !.at = 1]) <=> GoodOf(via, c),
           NamesOf(via, [c EXCEPT !.at = 1]) = NamesOf(via, c),
           InLoop(via, [c EXCEPT !.at = 1])
    PROVE  MatchInv'
<1> DEFINE d == [c EXCEPT !.at = 1]
<1>1. d \in Calls
  BY DEF Calls
<1>2. todo' = <<d>> \o Tail(todo) /\ bindings' = bindings /\ i' = i /\ out' = out
  BY DEF EntersLoop
<1>3. todo # <<>>
  BY DEF InCall
<1> HIDE DEF d
<1>4. Progress(via, SeenBy(via, clauses[i].pattern), value, <<d>> \o Tail(todo), bindings)
  BY <1>1, <1>3, InCallFacts, ProgressTurn DEF d
<1>5. <<d>> \o Tail(todo) \in Seq(Calls)
  BY <1>1, InCallFacts, ConsFacts
<1>6. \A k \in DOMAIN (<<d>> \o Tail(todo)) : InLoop(via, (<<d>> \o Tail(todo))[k])
  BY <1>1, InCallFacts, ConsInLoop DEF d
<1> QED BY <1>2, <1>4, <1>5, <1>6, InCallFacts, StaysKeeps

LEMMA DescendsKeeps ==
    ASSUME InCall, NEW c \in Calls, c = Head(todo), NEW v \in Values, NEW p \in AllPats,
           Descends(c, v, p), InLoop(via, [c EXCEPT !.at = @ + 1]),
           GoodOf(via, c) <=> GoodOf(via, Call(v, p, 0)) /\ GoodOf(via, [c EXCEPT !.at = @ + 1]),
           NamesOf(via, c) = Over(NamesOf(via, Call(v, p, 0)), NamesOf(via, [c EXCEPT !.at = @ + 1]))
    PROVE  MatchInv'
<1> DEFINE d == [c EXCEPT !.at = @ + 1]
           e == Call(v, p, 0)
           t == Tail(todo)
<1>1. d \in Calls /\ e \in Calls /\ InLoop(via, e)
  BY DEF Calls, Call, InLoop
<1>2. todo' = <<e, d>> \o t /\ bindings' = bindings /\ i' = i /\ out' = out
  BY DEF Descends
<1>3. todo # <<>>
  BY DEF InCall
<1> HIDE DEF d, e
<1>4. Progress(via, SeenBy(via, clauses[i].pattern), value, <<e, d>> \o t, bindings)
  BY <1>1, <1>3, InCallFacts, ProgressDescend DEF d, e
<1>5. t \in Seq(Calls) /\ \A k \in DOMAIN t : InLoop(via, t[k])
  BY InCallFacts
<1> HIDE DEF t
<1>6. <<e, d>> \o t = <<e>> \o (<<d>> \o t)
  <2>1. <<e>> \in Seq(Calls) /\ <<d>> \in Seq(Calls) /\ <<e>> \o <<d>> = <<e, d>>
    BY <1>1, PairOfCalls
  <2> QED BY <1>5, <2>1, ConcatAssociative
<1> DEFINE u == <<d>> \o t
<1>7. u \in Seq(Calls) /\ \A k \in DOMAIN u : InLoop(via, u[k])
  <2>1. u \in Seq(Calls)
    BY <1>1, <1>5, ConsFacts
  <2> QED BY <1>1, <1>5, <2>1, ConsInLoop DEF d
<1> HIDE DEF u
<1>8. <<e>> \o u \in Seq(Calls) /\ \A k \in DOMAIN (<<e>> \o u) : InLoop(via, (<<e>> \o u)[k])
  <2>1. <<e>> \o u \in Seq(Calls)
    BY <1>1, <1>7, ConsFacts
  <2> QED BY <1>1, <1>7, <2>1, ConsInLoop
<1>9. todo' = <<e>> \o u
  BY <1>2, <1>6 DEF u
<1>10. Progress(via, SeenBy(via, clauses[i].pattern), value, todo', bindings)
  BY <1>2, <1>4
<1> QED BY <1>2, <1>8, <1>9, <1>10, InCallFacts, StaysKeeps

-----------------------------------------------------------------------------
(***************************************************************************)
(* The loops.                                                              *)
(***************************************************************************)
LEMMA KeysKeep ==
    ASSUME InCall, NEW c \in Calls, c = Head(todo), c.at # 0,
           NEW q \in AllPats, q = SeenBy(via, c.p), DOMAIN q = {"obj"},
           ~Is(c.v, "prim"), c.at <= Len(q.obj) + 1,
           NEW pairs \in Seq(Names \X AllPats), Len(pairs) = Len(q.obj),
           \A k \in 1..Len(pairs) : /\ q.obj[k][1] = pairs[k][1]
                                    /\ q.obj[k][2] = SeenBy(via, pairs[k][2]),
           matchKeys(c, pairs)
    PROVE  MatchInv'
<1> DEFINE k == c.at
<1>1. c.v \in Values /\ k \in Nat /\ k # 0
  BY DEF Calls
<1>2. GoodOf(via, c) = GoodFrom(q, c.v, k) /\ NamesOf(via, c) = NamesFrom(q, c.v, k)
  BY DEF GoodOf, NamesOf
<1>3. Len(pairs) \in Nat
  OBVIOUS
<1> HIDE DEF k
<1>4. CASE k > Len(pairs)
  <2>1. k = Len(q.obj) + 1
    BY <1>1, <1>3, <1>4 DEF k
  <2>2. GoodOf(via, c) /\ DOMAIN NamesOf(via, c) = {}
    BY <1>2, <2>1, KeyEnd
  <2>3. Returns(TRUE)
    BY <1>4 DEF matchKeys, k
  <2> QED BY <2>2, <2>3, ReturnsKeeps
<1>5. CASE ~(k > Len(pairs))
  <2>1. k \in 1..Len(pairs) /\ k \in 1..Len(q.obj)
    BY <1>1, <1>3, <1>5
  <2>2. /\ GoodFrom(q, c.v, k) <=> GoodKey(q, c.v, k) /\ GoodFrom(q, c.v, k + 1)
        /\ NamesFrom(q, c.v, k) =
              Over(BoundBy(q.obj[k][2])[Get(c.v, q.obj[k][1])], NamesFrom(q, c.v, k + 1))
    BY <2>1, KeyRound
  <2> DEFINE name == pairs[k][1]
             p == pairs[k][2]
  <2>3. q.obj[k][1] = name /\ q.obj[k][2] = SeenBy(via, p) /\ p \in AllPats
    BY <2>1
  <2> HIDE DEF name, p
  <2>4. CASE name \notin Keys(c.v)
    <3>1. ~GoodOf(via, c)
      BY <1>2, <2>2, <2>3, <2>4 DEF GoodKey
    <3>2. Returns(FALSE)
      BY <1>5, <2>4 DEF matchKeys, k, name
    <3> QED BY <3>1, <3>2, ReturnsKeeps
  <2>5. CASE name \in Keys(c.v)
    <3> DEFINE v == Get(c.v, name)
               d == [c EXCEPT !.at = @ + 1]
    <3>1. v \in Values
      BY <1>1, <2>5, ValueParts
    <3>2. Descends(c, v, p)
      BY <1>5, <2>5 DEF matchKeys, k, name, p
    <3>3. d.at = k + 1 /\ d.v = c.v /\ d.p = c.p
      BY DEF Calls, k
    <3>4. GoodOf(via, Call(v, p, 0)) <=> Inst(SeenBy(via, p))[v]
      BY DEF GoodOf, Call, GoodFrom
    <3>5. NamesOf(via, Call(v, p, 0)) = BoundBy(SeenBy(via, p))[v]
      BY DEF NamesOf, Call, NamesFrom
    <3> HIDE DEF d
    <3>6. (GoodOf(via, d) <=> GoodFrom(q, c.v, k + 1)) /\ NamesOf(via, d) = NamesFrom(q, c.v, k + 1)
      BY <3>3 DEF GoodOf, NamesOf
    <3>7. GoodOf(via, c) <=> GoodOf(via, Call(v, p, 0)) /\ GoodOf(via, d)
      BY <1>2, <2>2, <2>3, <2>5, <3>4, <3>6 DEF GoodKey
    <3>8. NamesOf(via, c) = Over(NamesOf(via, Call(v, p, 0)), NamesOf(via, d))
      BY <1>2, <2>2, <2>3, <3>5, <3>6
    <3>9. InLoop(via, d)
      <4>1. k + 1 <= Len(q.obj) + 1
        BY <2>1
      <4> QED BY <3>3, <4>1 DEF InLoop
    <3> HIDE DEF v
    <3> QED BY <2>3, <3>1, <3>2, <3>7, <3>8, <3>9, DescendsKeeps DEF d
  <2> QED BY <2>4, <2>5
<1> QED BY <1>4, <1>5

LEMMA PatternKinds ==
    ASSUME NEW p \in AllPats
    PROVE  /\ DOMAIN p \in {{"sym"}, {"bind"}, {"guard"}, {"prim"}, {"arr"}, {"obj"}}
           /\ DOMAIN p = {"sym"} => p = Wild \/ p = Rest
           /\ DOMAIN p = {"arr"} => p.arr \in Seq(AllPats) /\ Len(p.arr) <= MaxLen
           /\ DOMAIN p = {"obj"} => p.obj \in Seq(Names \X AllPats)
<1>1. p \in PatsOver(AllPats)
  BY AtMaxDepth
<1>2. \A l : l \in Lists(AllPats) => Len(l) <= MaxLen
  BY DEF Lists
<1>3. \/ (p = Wild \/ p = Rest) /\ DOMAIN p = {"sym"}
      \/ p \in [bind : Names] /\ DOMAIN p = {"bind"}
      \/ p \in [guard : SUBSET Values] /\ DOMAIN p = {"guard"}
      \/ p \in [prim : Prims] /\ DOMAIN p = {"prim"}
      \/ p \in [arr : Lists(AllPats)] /\ DOMAIN p = {"arr"} /\ p.arr \in Seq(AllPats)
      \/ p \in [obj : Lists(Names \X AllPats)] /\ DOMAIN p = {"obj"} /\ p.obj \in Seq(Names \X AllPats)
  BY <1>1, PatKinds
<1> QED BY <1>2, <1>3

LEMMA ElementsKeep ==
    ASSUME InCall, NEW c \in Calls, c = Head(todo), via = "match", c.at # 0,
           DOMAIN c.p = {"arr"}, Is(c.v, "arr"),
           c.at <= Fixed(c.p) + 1, c.at <= Len(c.v.arr) + 1,
           matchElements(c, c.v, c.p)
    PROVE  MatchInv'
<1> DEFINE k == c.at
           p == c.p
           v == c.v
<1>1. v \in Values /\ p \in AllPats /\ k \in Nat /\ k # 0
  BY DEF Calls
<1>2. p.arr \in Seq(AllPats) /\ Is(p, "arr")
  <2> HIDE DEF p
  <2>1. DOMAIN p = {"arr"}
    BY DEF p
  <2> QED BY <1>1, <2>1, PatternKinds DEF Is
<1>3. v.arr \in Seq(Values) /\ Len(v.arr) \in Nat /\ \A j \in 1..Len(v.arr) : v.arr[j] \in Values
  BY <1>1, ValueParts
<1>4. SeenBy(via, p) = p
  BY DEF SeenBy
<1>5. GoodOf(via, c) = GoodFrom(p, v, k) /\ NamesOf(via, c) = NamesFrom(p, v, k)
  BY <1>4 DEF GoodOf, NamesOf
<1>6. matchElements(c, v, p) /\ DOMAIN p = {"arr"} /\ k <= Fixed(p) + 1 /\ k <= Len(v.arr) + 1
  OBVIOUS
<1>7. k = c.at /\ p = c.p /\ v = c.v
  OBVIOUS
<1> HIDE DEF k, p, v
<1>8. /\ Fixed(p) \in Nat /\ Fixed(p) <= Len(p.arr)
      /\ \A j \in 1..Fixed(p) : j \in DOMAIN p.arr /\ p.arr[j] # Rest
      /\ RestAt(p) = {} => Fixed(p) = Len(p.arr)
      /\ RestAt(p) # {} => Fixed(p) < Len(p.arr) /\ p.arr[Fixed(p) + 1] = Rest
  BY <1>2, FixedFacts
<1>9. Len(p.arr) \in Nat
  BY <1>2
<1>10. /\ GoodFrom(p, v, Fixed(p) + 1) <=> LongEnough(p, v)
       /\ NamesFrom(p, v, Fixed(p) + 1) = RestBound(v, p)
  BY <1>1, <1>6, ElementEnd
<1>11. CASE k > Len(p.arr)
  <2>1. Fixed(p) = Len(p.arr) /\ k = Fixed(p) + 1 /\ RestAt(p) = {}
    BY <1>1, <1>6, <1>8, <1>9, <1>11
  <2>2. GoodOf(via, c) <=> EndsWith(v, p)
    BY <1>5, <1>10, <2>1 DEF LongEnough, EndsWith
  <2>3. DOMAIN NamesOf(via, c) = {}
    <3>1. ~(Fixed(p) + 1 < Len(p.arr))
      BY <1>9, <2>1
    <3>2. RestBound(v, p) = <<>>
      BY <3>1 DEF RestBound
    <3> QED BY <1>5, <1>10, <2>1, <3>2
  <2>4. Returns(EndsWith(v, p))
    BY <1>6, <1>7, <1>11 DEF matchElements
  <2> QED BY <2>2, <2>3, <2>4, ReturnsKeeps
<1>12. CASE ~(k > Len(p.arr)) /\ p.arr[k] = Rest
  <2>1. k = Fixed(p) + 1
    BY <1>1, <1>6, <1>8, <1>12
  <2>2. RestAt(p) # {}
    <3>1. k \in DOMAIN p.arr
      BY <1>1, <1>2, <1>9, <1>12
    <3> QED BY <1>12, <3>1 DEF RestAt
  <2>3. GoodOf(via, c)
    <3>1. Len(v.arr) >= Fixed(p)
      BY <1>3, <1>6, <1>8, <2>1
    <3> QED BY <1>5, <1>10, <2>1, <2>2, <3>1 DEF LongEnough
  <2>4. NamesOf(via, c) = RestBound(v, p)
    BY <1>5, <1>10, <2>1
  <2>5. Fixed(p) + 2 = k + 1
    BY <1>8, <2>1
  <2>6. CASE k < Len(p.arr) /\ Is(p.arr[k + 1], "bind")
    <3> DEFINE n == p.arr[k + 1].bind
               w == [arr |-> SubSeq(v.arr, k, Len(v.arr))]
    <3>1. ReturnsTrue(Bind(bindings, n, w))
      BY <1>6, <1>7, <1>12, <2>6 DEF matchElements
    <3>2. NamesOf(via, c) = One(n, w)
      BY <2>1, <2>4, <2>5, <2>6 DEF RestBound
    <3> HIDE DEF n, w
    <3> QED BY <2>3, <3>1, <3>2, BindKeeps
  <2>7. CASE ~(k < Len(p.arr) /\ Is(p.arr[k + 1], "bind"))
    <3>1. ReturnsTrue(bindings)
      BY <1>6, <1>7, <1>12, <2>7 DEF matchElements
    <3>2. DOMAIN NamesOf(via, c) = {}
      BY <2>1, <2>4, <2>5, <2>7 DEF RestBound
    <3>3. bindings = Over(bindings, NamesOf(via, c))
      BY <3>2, InCallFacts, OverNone
    <3> QED BY <2>3, <3>1, <3>3, ReturnsTrueKeeps
  <2> QED BY <2>6, <2>7
<1>13. CASE ~(k > Len(p.arr)) /\ p.arr[k] # Rest
  <2>1. k \in 1..Fixed(p)
    <3>1. k # Fixed(p) + 1
      BY <1>8, <1>9, <1>13
    <3> QED BY <1>1, <1>6, <1>8, <3>1
  <2>2. CASE k > Len(v.arr)
    <3>1. Len(v.arr) < Fixed(p)
      BY <1>3, <1>8, <2>1, <2>2
    <3>2. ~LongEnough(p, v)
      BY <1>3, <1>8, <3>1 DEF LongEnough
    <3>3. ~GoodOf(via, c)
      BY <1>1, <1>2, <1>5, <3>2 DEF GoodFrom
    <3>4. Returns(FALSE)
      BY <1>6, <1>7, <1>13, <2>2 DEF matchElements
    <3> QED BY <3>3, <3>4, ReturnsKeeps
  <2>3. CASE ~(k > Len(v.arr))
    <3> DEFINE x == v.arr[k]
               r == p.arr[k]
               d == [c EXCEPT !.at = @ + 1]
    <3>1. x \in Values /\ r \in AllPats
      BY <1>1, <1>2, <1>3, <1>8, <2>1, <2>3
    <3>2. Descends(c, x, r)
      BY <1>6, <1>7, <1>13, <2>3 DEF matchElements
    <3>3. d.at = k + 1 /\ d.v = v /\ d.p = p
      BY <1>7 DEF Calls
    <3>4. GoodOf(via, Call(x, r, 0)) <=> Inst(r)[x]
      BY DEF GoodOf, Call, GoodFrom, SeenBy
    <3>5. NamesOf(via, Call(x, r, 0)) = BoundBy(r)[x]
      BY DEF NamesOf, Call, NamesFrom, SeenBy
    <3>6. /\ GoodFrom(p, v, k) <=> Inst(p.arr[k])[v.arr[k]] /\ GoodFrom(p, v, k + 1)
          /\ NamesFrom(p, v, k) = Over(BoundBy(p.arr[k])[v.arr[k]], NamesFrom(p, v, k + 1))
      BY <1>1, <1>6, <2>1, ElementRound
    <3> HIDE DEF d
    <3>7. (GoodOf(via, d) <=> GoodFrom(p, v, k + 1)) /\ NamesOf(via, d) = NamesFrom(p, v, k + 1)
      BY <1>4, <3>3 DEF GoodOf, NamesOf
    <3>8. GoodOf(via, c) <=> GoodOf(via, Call(x, r, 0)) /\ GoodOf(via, d)
      BY <1>5, <3>4, <3>6, <3>7
    <3>9. NamesOf(via, c) = Over(NamesOf(via, Call(x, r, 0)), NamesOf(via, d))
      BY <1>5, <3>5, <3>6, <3>7
    <3>10. InLoop(via, d)
      <4>1. k + 1 <= Fixed(p) + 1 /\ k + 1 <= Len(v.arr) + 1
        BY <1>1, <1>3, <1>8, <2>1, <2>3
      <4> QED BY <1>6, <1>7, <3>3, <4>1 DEF InLoop
    <3> HIDE DEF x, r
    <3> QED BY <3>1, <3>2, <3>8, <3>9, <3>10, DescendsKeeps DEF d
  <2> QED BY <2>2, <2>3
<1> QED BY <1>11, <1>12, <1>13

LEMMA KeysStartKeep ==
    ASSUME InCall, NEW c \in Calls, c = Head(todo), c.at = 0,
           NEW q \in AllPats, q = SeenBy(via, c.p), DOMAIN q = {"obj"},
           IF Is(c.v, "prim") THEN Returns(FALSE) ELSE EntersLoop(c)
    PROVE  MatchInv'
<1> DEFINE d == [c EXCEPT !.at = 1]
<1>1. d.at = 1 /\ d.v = c.v /\ d.p = c.p /\ c.v \in Values
  BY DEF Calls
<1>2. (GoodOf(via, c) <=> GoodFrom(q, c.v, 0)) /\ NamesOf(via, c) = NamesFrom(q, c.v, 0)
  BY DEF GoodOf, NamesOf
<1>3. /\ GoodFrom(q, c.v, 0) <=> ~Is(c.v, "prim") /\ GoodFrom(q, c.v, 1)
      /\ NamesFrom(q, c.v, 0) = NamesFrom(q, c.v, 1)
  BY <1>1, KeyStart
<1> HIDE DEF d
<1>4. (GoodOf(via, d) <=> GoodFrom(q, c.v, 1)) /\ NamesOf(via, d) = NamesFrom(q, c.v, 1)
  BY <1>1 DEF GoodOf, NamesOf
<1>5. CASE Is(c.v, "prim")
  BY <1>2, <1>3, <1>5, ReturnsKeeps
<1>6. CASE ~Is(c.v, "prim")
  <2>1. InLoop(via, d)
    <3>1. q.obj \in Seq(Names \X AllPats)
      BY PatternKinds
    <3>2. 1 <= Len(q.obj) + 1
      BY <3>1
    <3> QED BY <1>1, <1>6, <3>2 DEF InLoop
  <2>2. EntersLoop(c)
    BY <1>6
  <2>3. (GoodOf(via, d) <=> GoodOf(via, c)) /\ NamesOf(via, d) = NamesOf(via, c)
    BY <1>2, <1>3, <1>4, <1>6
  <2> QED BY <2>1, <2>2, <2>3, EntersKeeps DEF d
<1> QED BY <1>5, <1>6

LEMMA ElementsStartKeep ==
    ASSUME InCall, NEW c \in Calls, c = Head(todo), c.at = 0, via = "match", DOMAIN c.p = {"arr"},
           IF Is(c.v, "arr") THEN EntersLoop(c) ELSE Returns(FALSE)
    PROVE  MatchInv'
<1> DEFINE d == [c EXCEPT !.at = 1]
<1>1. d.at = 1 /\ d.v = c.v /\ d.p = c.p /\ c.v \in Values /\ c.p \in AllPats
  BY DEF Calls
<1>2. (GoodOf(via, c) <=> GoodFrom(c.p, c.v, 0)) /\ NamesOf(via, c) = NamesFrom(c.p, c.v, 0)
  BY DEF GoodOf, NamesOf, SeenBy
<1>3. /\ GoodFrom(c.p, c.v, 0) <=> Is(c.v, "arr") /\ GoodFrom(c.p, c.v, 1)
      /\ NamesFrom(c.p, c.v, 0) = NamesFrom(c.p, c.v, 1)
  <2> DEFINE p == c.p
  <2>1. p \in AllPats /\ DOMAIN p = {"arr"}
    BY <1>1
  <2> HIDE DEF p
  <2>2. /\ GoodFrom(p, c.v, 0) <=> Is(c.v, "arr") /\ GoodFrom(p, c.v, 1)
        /\ NamesFrom(p, c.v, 0) = NamesFrom(p, c.v, 1)
    BY <1>1, <2>1, ElementStart
  <2> QED BY <2>2 DEF p
<1> HIDE DEF d
<1>4. (GoodOf(via, d) <=> GoodFrom(c.p, c.v, 1)) /\ NamesOf(via, d) = NamesFrom(c.p, c.v, 1)
  BY <1>1 DEF GoodOf, NamesOf, SeenBy
<1>5. CASE ~Is(c.v, "arr")
  BY <1>2, <1>3, <1>5, ReturnsKeeps
<1>6. CASE Is(c.v, "arr")
  <2>1. InLoop(via, d)
    <3>1. c.p.arr \in Seq(AllPats) /\ c.v.arr \in Seq(Values)
      BY <1>1, <1>6, PatternKinds, ValueParts
    <3>2. 1 <= Fixed(c.p) + 1 /\ 1 <= Len(c.v.arr) + 1
      <4>1. Fixed(c.p) \in Nat
        BY <3>1, FixedFacts
      <4> QED BY <3>1, <4>1
    <3> QED BY <1>1, <1>6, <3>2 DEF InLoop
  <2>2. EntersLoop(c)
    BY <1>6
  <2>3. (GoodOf(via, d) <=> GoodOf(via, c)) /\ NamesOf(via, d) = NamesOf(via, c)
    BY <1>2, <1>3, <1>4, <1>6
  <2> QED BY <2>1, <2>2, <2>3, EntersKeeps DEF d
<1> QED BY <1>5, <1>6

-----------------------------------------------------------------------------
(***************************************************************************)
(* A step of matchPattern, of match.js and of pipe.js.                     *)
(***************************************************************************)
LEMMA MatchPatternKeeps ==
    ASSUME InCall, via = "match", NEW c \in Calls, c = Head(todo), matchPattern(c, c.v, c.p)
    PROVE  MatchInv'
<1> DEFINE p == c.p
           v == c.v
<1>1. v \in Values /\ p \in AllPats /\ c.at \in Nat
  BY DEF Calls
<1>2. matchPattern(c, v, p) /\ v = c.v /\ p = c.p
  OBVIOUS
<1>3. SeenBy(via, p) = p
  BY DEF SeenBy
<1> HIDE DEF p, v
<1>4. (GoodOf(via, c) <=> GoodFrom(p, v, c.at)) /\ NamesOf(via, c) = NamesFrom(p, v, c.at)
  BY <1>2, <1>3 DEF GoodOf, NamesOf
<1>5. \/ c.at = 0
      \/ /\ DOMAIN p = {"arr"} /\ Is(v, "arr")
         /\ c.at <= Fixed(p) + 1 /\ c.at <= Len(v.arr) + 1
      \/ /\ DOMAIN p = {"obj"} /\ ~Is(v, "prim") /\ c.at <= Len(p.obj) + 1
  <2>1. InLoop(via, c)
    BY InCallFacts
  <2> QED BY <1>2, <1>3, <2>1 DEF InLoop
<1>6. CASE DOMAIN p = {"sym"}
  <2> DEFINE ok == p = Wild
  <2>1. Returns(ok) /\ c.at = 0
    BY <1>2, <1>5, <1>6 DEF matchPattern, Is
  <2>2. (GoodOf(via, c) <=> ok) /\ NamesOf(via, c) = <<>>
    BY <1>1, <1>4, <1>6, <2>1, LeafCall
  <2> HIDE DEF ok
  <2> QED BY <2>1, <2>2, ReturnsKeeps
<1>7. CASE DOMAIN p = {"bind"}
  <2>1. ReturnsTrue(Bind(bindings, p.bind, v)) /\ c.at = 0
    BY <1>2, <1>5, <1>7 DEF matchPattern, Is
  <2>2. GoodOf(via, c) /\ NamesOf(via, c) = One(p.bind, v)
    BY <1>1, <1>4, <1>7, <2>1, LeafCall
  <2> QED BY <2>1, <2>2, BindKeeps
<1>8. CASE DOMAIN p = {"guard"}
  <2> DEFINE ok == v \in p.guard
  <2>1. Returns(ok) /\ c.at = 0
    BY <1>2, <1>5, <1>8 DEF matchPattern, Is
  <2>2. (GoodOf(via, c) <=> ok) /\ NamesOf(via, c) = <<>>
    BY <1>1, <1>4, <1>8, <2>1, LeafCall
  <2> HIDE DEF ok
  <2> QED BY <2>1, <2>2, ReturnsKeeps
<1>9. CASE DOMAIN p = {"prim"}
  <2> DEFINE ok == v = p
  <2>1. Returns(ok) /\ c.at = 0
    BY <1>2, <1>5, <1>9 DEF matchPattern, Is
  <2>2. (GoodOf(via, c) <=> ok) /\ NamesOf(via, c) = <<>>
    BY <1>1, <1>4, <1>9, <2>1, LeafCall
  <2> HIDE DEF ok
  <2> QED BY <2>1, <2>2, ReturnsKeeps
<1>10. CASE DOMAIN p = {"arr"}
  <2>1. \/ c.at = 0 /\ IF Is(v, "arr") THEN EntersLoop(c) ELSE Returns(FALSE)
        \/ c.at > 0 /\ matchElements(c, v, p)
    BY <1>2, <1>10 DEF matchPattern, Is
  <2>2. CASE c.at = 0
    <3>1. IF Is(c.v, "arr") THEN EntersLoop(c) ELSE Returns(FALSE)
      <4>1. ~(c.at > 0) /\ v = c.v
        BY <1>2, <2>2
      <4> QED BY <2>1, <4>1
    <3> QED BY <1>2, <1>10, <2>2, <3>1, ElementsStartKeep
  <2>3. CASE c.at # 0
    <3>1. matchElements(c, v, p)
      BY <2>1, <2>3
    <3>2. Is(v, "arr") /\ c.at <= Fixed(p) + 1 /\ c.at <= Len(v.arr) + 1
      BY <1>5, <1>10, <2>3
    <3> QED BY <1>2, <1>10, <2>3, <3>1, <3>2, ElementsKeep
  <2> QED BY <2>2, <2>3
<1>11. CASE DOMAIN p = {"obj"}
  <2>1. \/ c.at = 0 /\ IF Is(v, "prim") THEN Returns(FALSE) ELSE EntersLoop(c)
        \/ c.at > 0 /\ matchKeys(c, p.obj)
    BY <1>2, <1>11 DEF matchPattern, Is
  <2>2. CASE c.at = 0
    <3>1. IF Is(c.v, "prim") THEN Returns(FALSE) ELSE EntersLoop(c)
      <4>1. ~(c.at > 0) /\ v = c.v
        BY <1>2, <2>2
      <4> QED BY <2>1, <4>1
    <3> QED BY <1>1, <1>2, <1>3, <1>11, <2>2, <3>1, KeysStartKeep
  <2>3. CASE c.at # 0
    <3>1. matchKeys(c, p.obj)
      BY <2>1, <2>3
    <3>2. ~Is(v, "prim") /\ c.at <= Len(p.obj) + 1
      BY <1>5, <1>11, <2>3
    <3>3. p.obj \in Seq(Names \X AllPats)
      BY <1>1, <1>11, PatternKinds
    <3>4. \A r : SeenBy(via, r) = r
      BY DEF SeenBy
    <3> DEFINE pairs == p.obj
    <3>5. /\ pairs \in Seq(Names \X AllPats) /\ Len(pairs) = Len(p.obj) /\ matchKeys(c, pairs)
          /\ \A k \in 1..Len(pairs) : /\ p.obj[k][1] = pairs[k][1]
                                      /\ p.obj[k][2] = SeenBy(via, pairs[k][2])
      BY <3>1, <3>3, <3>4
    <3>6. p = SeenBy(via, c.p) /\ ~Is(c.v, "prim")
      BY <1>2, <1>3, <3>2
    <3> HIDE DEF pairs
    <3> QED BY <1>1, <1>11, <2>3, <3>2, <3>5, <3>6, KeysKeep
  <2> QED BY <2>2, <2>3
<1> QED BY <1>1, <1>6, <1>7, <1>8, <1>9, <1>10, <1>11, PatternKinds

\* An array or an object, as pipe reads it.
LEMMA OpenedPairs ==
    ASSUME NEW p \in AllPats, DOMAIN p \in {{"arr"}, {"obj"}}
    PROVE  /\ DOMAIN Open(p) = {"obj"}
           /\ Pairs(p) \in Seq(Names \X AllPats) /\ Len(Pairs(p)) = Len(Open(p).obj)
           /\ \A k \in 1..Len(Pairs(p)) : /\ Open(p).obj[k][1] = Pairs(p)[k][1]
                                          /\ Open(p).obj[k][2] = Open(Pairs(p)[k][2])
<1>1. Open(p) = OpenedOver(Opened[MaxDepth], p) /\ Open(p) \in AllPats
  BY AtMaxDepth
<1>2. CASE DOMAIN p = {"arr"}
  <2> DEFINE s == [k \in DOMAIN p.arr |-> <<Index[k], p.arr[k]>>]
             t == [k \in DOMAIN p.arr |-> <<Index[k], Open(p.arr[k])>>]
             n == Len(p.arr)
  <2>1. p.arr \in Seq(AllPats) /\ n \in Nat /\ n <= MaxLen /\ DOMAIN p.arr = 1..n
    BY <1>2, PatternKinds
  <2>2. Pairs(p) = s
    BY <1>2 DEF Pairs, Is
  <2>3. Open(p) = [obj |-> t]
    BY <1>1, <1>2, OpenedKinds DEF Open
  <2>4. \A k \in 1..n : Index[k] \in Names
    <3>1. \A k \in 1..n : k \in 1..Len(Index)
      BY <2>1, ValuesAssumption DEF MaxLen
    <3> QED BY <3>1, ValuesAssumption
  <2>5. \A k \in 1..n : p.arr[k] \in AllPats
    BY <2>1
  <2>6. s \in Seq(Names \X AllPats) /\ Len(s) = n
    BY <2>1, <2>4, <2>5
  <2>7. DOMAIN t = 1..n
    BY <2>1
  <2>8. t \in Seq(Names \X AllPats)
    <3>1. DOMAIN Open(p) = {"obj"} /\ Open(p).obj = t
      BY <2>3
    <3> QED BY <1>1, <3>1, PatternKinds
  <2>9. Len(t) = n
    BY <2>1, <2>7, <2>8
  <2>10. \A k \in 1..n : t[k][1] = s[k][1] /\ t[k][2] = Open(s[k][2])
    BY <2>1
  <2>11. DOMAIN Open(p) = {"obj"} /\ Open(p).obj = t
    BY <2>3
  <2> HIDE DEF s, t, n
  <2> QED BY <2>2, <2>6, <2>9, <2>10, <2>11
<1>3. CASE DOMAIN p = {"obj"}
  <2> DEFINE s == p.obj
             t == [k \in DOMAIN p.obj |-> <<p.obj[k][1], Open(p.obj[k][2])>>]
             n == Len(p.obj)
  <2>1. s \in Seq(Names \X AllPats) /\ n \in Nat /\ DOMAIN s = 1..n /\ Len(s) = n
    BY <1>3, PatternKinds
  <2>2. Pairs(p) = s
    BY <1>3 DEF Pairs, Is
  <2>3. Open(p) = [obj |-> t]
    BY <1>1, <1>3, OpenedKinds DEF Open
  <2>4. DOMAIN t = 1..n
    BY <2>1
  <2>5. t \in Seq(Names \X AllPats)
    <3>1. DOMAIN Open(p) = {"obj"} /\ Open(p).obj = t
      BY <2>3
    <3> QED BY <1>1, <3>1, PatternKinds
  <2>6. Len(t) = n
    BY <2>1, <2>4, <2>5
  <2>7. \A k \in 1..n : t[k][1] = s[k][1] /\ t[k][2] = Open(s[k][2])
    BY <2>1
  <2>8. DOMAIN Open(p) = {"obj"} /\ Open(p).obj = t
    BY <2>3
  <2> HIDE DEF s, t, n
  <2> QED BY <2>1, <2>2, <2>6, <2>7, <2>8
<1> QED BY <1>2, <1>3

LEMMA PipePatternKeeps ==
    ASSUME InCall, via = "pipe", NEW c \in Calls, c = Head(todo), pipeMatchPattern(c, c.v, c.p)
    PROVE  MatchInv'
<1> DEFINE p == c.p
           v == c.v
           q == Open(p)
<1>1. v \in Values /\ p \in AllPats /\ c.at \in Nat
  BY DEF Calls
<1>2. pipeMatchPattern(c, v, p) /\ v = c.v /\ p = c.p
  OBVIOUS
<1> HIDE DEF p, v
<1>3. SeenBy(via, p) = q /\ q \in AllPats /\ q = OpenedOver(Opened[MaxDepth], p)
  BY <1>1, AtMaxDepth DEF SeenBy
<1>4. q = Open(p)
  OBVIOUS
<1> HIDE DEF q
<1>5. (GoodOf(via, c) <=> GoodFrom(q, v, c.at)) /\ NamesOf(via, c) = NamesFrom(q, v, c.at)
  BY <1>2, <1>3 DEF GoodOf, NamesOf
<1>6. c.at = 0 \/ (DOMAIN q = {"obj"} /\ ~Is(v, "prim") /\ c.at <= Len(q.obj) + 1)
  <2>1. InLoop(via, c)
    BY InCallFacts
  <2> QED BY <1>2, <1>3, <2>1 DEF InLoop
<1>7. CASE DOMAIN p \in {{"sym"}, {"guard"}}
  <2>1. q = Never /\ DOMAIN q = {"guard"} /\ q.guard = {}
    BY <1>3, <1>7, OpenedKinds DEF Never
  <2>2. c.at = 0
    BY <1>6, <2>1
  <2>3. Returns(FALSE)
    BY <1>2, <1>7 DEF pipeMatchPattern, Is
  <2>4. ~GoodOf(via, c)
    BY <1>1, <1>3, <1>5, <2>1, <2>2, LeafCall
  <2> QED BY <2>3, <2>4, ReturnsKeeps
<1>8. CASE DOMAIN p = {"bind"}
  <2>1. q = p
    BY <1>3, <1>8, OpenedKinds
  <2>2. ReturnsTrue(Bind(bindings, p.bind, v)) /\ c.at = 0
    BY <1>2, <1>6, <1>8, <2>1 DEF pipeMatchPattern, Is
  <2>3. GoodOf(via, c) /\ NamesOf(via, c) = One(p.bind, v)
    BY <1>1, <1>5, <1>8, <2>1, <2>2, LeafCall
  <2> QED BY <2>2, <2>3, BindKeeps
<1>9. CASE DOMAIN p = {"prim"}
  <2> DEFINE ok == v = p
  <2>1. q = p
    BY <1>3, <1>9, OpenedKinds
  <2>2. Returns(ok) /\ c.at = 0
    BY <1>2, <1>6, <1>9, <2>1 DEF pipeMatchPattern, Is
  <2>3. (GoodOf(via, c) <=> ok) /\ NamesOf(via, c) = <<>>
    BY <1>1, <1>5, <1>9, <2>1, <2>2, LeafCall
  <2> HIDE DEF ok
  <2> QED BY <2>2, <2>3, ReturnsKeeps
<1>10. CASE DOMAIN p \in {{"arr"}, {"obj"}}
  <2>1. \/ c.at = 0 /\ IF Is(v, "prim") THEN Returns(FALSE) ELSE EntersLoop(c)
        \/ c.at > 0 /\ matchKeys(c, Pairs(p))
    BY <1>2, <1>10 DEF pipeMatchPattern, Is
  <2> DEFINE pairs == Pairs(p)
  <2>2. /\ DOMAIN q = {"obj"}
        /\ pairs \in Seq(Names \X AllPats) /\ Len(pairs) = Len(q.obj)
        /\ \A k \in 1..Len(pairs) : /\ q.obj[k][1] = pairs[k][1]
                                    /\ q.obj[k][2] = Open(pairs[k][2])
    BY <1>1, <1>4, <1>10, OpenedPairs
  <2>3. q = SeenBy(via, c.p)
    BY <1>2, <1>3
  <2>4. CASE c.at = 0
    <3>1. IF Is(c.v, "prim") THEN Returns(FALSE) ELSE EntersLoop(c)
      <4>1. ~(c.at > 0) /\ v = c.v
        BY <1>2, <2>4
      <4> QED BY <2>1, <4>1
    <3> QED BY <1>3, <2>2, <2>3, <2>4, <3>1, KeysStartKeep
  <2>5. CASE c.at # 0
    <3>1. matchKeys(c, pairs)
      BY <2>1, <2>5
    <3>2. ~Is(c.v, "prim") /\ c.at <= Len(q.obj) + 1
      BY <1>2, <1>6, <2>5
    <3>3. \A r : Open(r) = SeenBy(via, r)
      BY DEF SeenBy
    <3>4. \A k \in 1..Len(pairs) : /\ q.obj[k][1] = pairs[k][1]
                                   /\ q.obj[k][2] = SeenBy(via, pairs[k][2])
      BY <2>2, <3>3
    <3> HIDE DEF pairs
    <3> QED BY <1>3, <2>2, <2>3, <2>5, <3>1, <3>2, <3>4, KeysKeep
  <2> QED BY <2>4, <2>5
<1> QED BY <1>1, <1>7, <1>8, <1>9, <1>10, PatternKinds

-----------------------------------------------------------------------------
(***************************************************************************)
(* The steps of the specification.                                         *)
(***************************************************************************)
LEMMA MatchingKeeps ==
    ASSUME MatchInv, Matching
    PROVE  MatchInv'
<1> DEFINE c == Head(todo)
<1>1. InCall
  BY DEF InCall, Matching
<1>2. c \in Calls /\ via \in {"match", "pipe"}
  BY <1>1, InCallFacts
<1>3. IF via = "match" THEN matchPattern(c, c.v, c.p) ELSE pipeMatchPattern(c, c.v, c.p)
  BY DEF Matching
<1>4. c = Head(todo)
  OBVIOUS
<1> HIDE DEF c
<1>5. CASE via = "match"
  BY <1>1, <1>2, <1>3, <1>4, <1>5, MatchPatternKeeps
<1>6. CASE via = "pipe"
  BY <1>1, <1>2, <1>3, <1>4, <1>6, PipePatternKeeps
<1> QED BY <1>2, <1>5, <1>6

\* All calls have returned true: the clause takes the value if its guard
\* passes.
LEMMA MatchedKeeps ==
    ASSUME MatchInv, Matched
    PROVE  MatchInv'
<1>1. /\ out = Pending /\ todo = <<>> /\ i <= Len(clauses) /\ Decide
      /\ UNCHANGED <<via, value, clauses>>
  BY DEF Matched
<1>2. /\ clauses \in Seq([pattern : Patterns, guardFn : Guards])
      /\ i \in 1..(Len(clauses) + 1) /\ bindings = [n \in DOMAIN bindings |-> bindings[n]]
  BY DEF MatchInv, Shape
<1> DEFINE n == Len(clauses)
           q == SeenBy(via, clauses[i].pattern)
<1>3. n \in Nat /\ i \in 1..n /\ DOMAIN clauses = 1..n /\ i \in Nat
  BY <1>1, <1>2
<1>4. Inst(q)[value] /\ BoundBy(q)[value] = bindings
  <2>1. Progress(via, q, value, <<>>, bindings)
    BY <1>1 DEF MatchInv, Current
  <2> HIDE DEF q
  <2> QED BY <1>2, <2>1, ProgressEnd
<1>5. DOMAIN SeenClauses = 1..n /\ SeenClauses[i] = [pattern |-> q, guardFn |-> clauses[i].guardFn]
  BY <1>3 DEF SeenClauses
<1>6. SeenClauses[i].pattern = q /\ SeenClauses[i].guardFn = clauses[i].guardFn
  BY <1>5
<1> HIDE DEF n, q
<1>7. Applies(SeenClauses, i) <=> Passes(clauses[i].guardFn, bindings)
  BY <1>4, <1>6 DEF Applies, Inst, BoundBy
<1>8. CASE Passes(clauses[i].guardFn, bindings)
  <2>1. out' = [clause |-> i, bindings |-> bindings] /\ UNCHANGED <<i, todo, bindings>>
    BY <1>1, <1>8 DEF Decide
  <2>2. \A k \in 1..(i - 1) : ~Applies(SeenClauses, k)
    BY <1>1 DEF MatchInv, Earlier
  <2>3. Expected(SeenClauses) = [clause |-> i, bindings |-> bindings]
    <3> DEFINE cs == SeenClauses
    <3>1. DOMAIN cs = 1..n /\ Applies(cs, i) /\ \A j \in 1..(i - 1) : ~Applies(cs, j)
      BY <1>5, <1>7, <1>8, <2>2
    <3>2. cs[i].pattern = q
      BY <1>6
    <3> HIDE DEF cs
    <3>3. Expected(cs) = [clause |-> i, bindings |-> BoundBy(cs[i].pattern)[value]]
      BY <1>3, <3>1, ExpectedFirst
    <3> QED BY <1>4, <3>2, <3>3 DEF cs
  <2>4. Expected(SeenClauses)' = Expected(SeenClauses)
    <3>1. SeenClauses' = SeenClauses
      BY <1>1 DEF SeenClauses, SeenBy
    <3> QED BY <1>1, <3>1 DEF Expected, Applies
  <2>5. out' # Pending
    <3>1. out'.clause = i /\ Pending.clause = 0
      BY <2>1 DEF Pending
    <3> QED BY <1>3, <3>1
  <2>6. Shape'
    BY <1>1, <2>1 DEF MatchInv, Shape
  <2> QED BY <2>1, <2>3, <2>4, <2>5, <2>6 DEF MatchInv, Earlier, Current, Decided
<1>9. CASE ~Passes(clauses[i].guardFn, bindings)
  <2>1. NextClause
    BY <1>1, <1>9 DEF Decide
  <2> QED BY <1>1, <1>7, <1>9, <2>1, NextKeeps
<1> QED BY <1>8, <1>9

LEMMA NoClauseKeeps ==
    ASSUME MatchInv, NoClause
    PROVE  MatchInv'
<1>1. /\ out = Pending /\ i > Len(clauses) /\ out' = Thrown
      /\ UNCHANGED <<via, value, clauses, i, todo, bindings>>
  BY DEF NoClause
<1>2. clauses \in Seq([pattern : Patterns, guardFn : Guards]) /\ i \in 1..(Len(clauses) + 1)
  BY DEF MatchInv, Shape
<1>3. DOMAIN SeenClauses = 1..(i - 1)
  BY <1>1, <1>2 DEF SeenClauses
<1>4. \A k \in DOMAIN SeenClauses : ~Applies(SeenClauses, k)
  BY <1>1, <1>3 DEF MatchInv, Earlier
<1>5. Expected(SeenClauses) = Thrown
  BY <1>4, ExpectedNone
<1>6. Expected(SeenClauses)' = Thrown
  <2>1. SeenClauses' = SeenClauses
    BY <1>1 DEF SeenClauses, SeenBy
  <2>2. Expected(SeenClauses)' = Expected(SeenClauses)
    BY <1>1, <2>1 DEF Expected, Applies
  <2> QED BY <1>5, <2>2
<1>7. out' # Pending
  <2>1. out'.clause = MaxClauses + 1 /\ Pending.clause = 0
    BY <1>1 DEF Thrown, Pending
  <2> QED BY <2>1, MatchAssumption
<1>8. Shape'
  BY <1>1 DEF MatchInv, Shape
<1> QED BY <1>1, <1>6, <1>7, <1>8 DEF MatchInv, Earlier, Current, Decided

LEMMA InitInv == Init => MatchInv
<1> SUFFICES ASSUME Init PROVE MatchInv
  OBVIOUS
<1>1. /\ via \in {"match", "pipe"} /\ value \in Values /\ i = 1
      /\ todo = Attempt(1) /\ bindings = <<>> /\ out = Pending
  BY DEF Init
<1>2. clauses \in Seq([pattern : Patterns, guardFn : Guards])
  <2>1. PICK n \in 0..MaxClauses : clauses \in [1..n -> [pattern : Patterns, guardFn : Guards]]
    BY DEF Init
  <2>2. n \in Nat
    BY <2>1, MatchAssumption
  <2> DEFINE S == [pattern : Patterns, guardFn : Guards]
  <2>3. clauses \in [1..n -> S]
    BY <2>1
  <2> HIDE DEF S
  <2>4. clauses \in Seq(S)
    BY <2>2, <2>3, SeqDef
  <2> QED BY <2>4 DEF S
<1>3. Len(clauses) \in Nat /\ i \in 1..(Len(clauses) + 1)
  BY <1>1, <1>2
<1>4. <<>> = [n \in DOMAIN <<>> |-> <<>>[n]]
  OBVIOUS
<1>5. CASE 1 <= Len(clauses)
  <2> DEFINE p == clauses[1].pattern
             c == Call(value, p, 0)
  <2>1. p \in AllPats
    <3>1. 1 \in 1..Len(clauses)
      BY <1>3, <1>5
    <3>2. clauses[1] \in [pattern : Patterns, guardFn : Guards]
      BY <1>2, <3>1, ElementOfSeq
    <3> QED BY <3>2, MatchAssumption DEF AllPats
  <2>2. todo = <<c>>
    BY <1>1, <1>5 DEF Attempt
  <2>3. c \in Calls /\ c.at = 0
    BY <1>1, <2>1 DEF Call, Calls
  <2>4. Progress(via, SeenBy(via, p), value, todo, bindings)
    BY <1>1, <2>1, <2>2, ProgressStart
  <2> HIDE DEF c
  <2>5. todo \in Seq(Calls) /\ \A k \in DOMAIN todo : todo[k] = c
    BY <2>2, <2>3
  <2>6. Shape
    BY <1>1, <1>2, <1>3, <1>4, <1>5, <2>3, <2>5 DEF Shape, InLoop
  <2> QED BY <1>1, <2>4, <2>6 DEF MatchInv, Earlier, Current, Decided
<1>6. CASE ~(1 <= Len(clauses))
  <2>1. todo = <<>> /\ todo \in Seq(Calls)
    BY <1>1, <1>6 DEF Attempt
  <2>2. Shape
    <3>1. \A k \in DOMAIN todo : InLoop(via, todo[k])
      BY <2>1
    <3>2. bindings = [n \in DOMAIN bindings |-> bindings[n]]
      BY <1>1, <1>4
    <3> QED BY <1>1, <1>2, <1>3, <2>1, <3>1, <3>2 DEF Shape
  <2> QED BY <1>1, <1>6, <2>2 DEF MatchInv, Earlier, Current, Decided
<1> QED BY <1>5, <1>6

\* The invariant: the clauses before the one that is tried do not apply,
\* and the calls of matchPattern in progress, with what they have bound so
\* far, are all that is left of the question whether the value is an
\* instance of the pattern in hand and of what its names stand for.
THEOREM MatchInvariant == Spec => []MatchInv
<1>1. MatchInv /\ [Next]_vars => MatchInv'
  <2> SUFFICES ASSUME MatchInv, [Next]_vars PROVE MatchInv'
    OBVIOUS
  <2>1. CASE Matching
    BY <2>1, MatchingKeeps
  <2>2. CASE Matched
    BY <2>2, MatchedKeeps
  <2>3. CASE NoClause
    BY <2>3, NoClauseKeeps
  <2>4. CASE UNCHANGED vars
    <3>1. SeenClauses' = SeenClauses
      BY <2>4 DEF vars, SeenClauses, SeenBy
    <3>2. \A k : Applies(SeenClauses, k)' <=> Applies(SeenClauses, k)
      BY <2>4, <3>1 DEF vars, Applies
    <3>3. Expected(SeenClauses)' = Expected(SeenClauses)
      BY <2>4, <3>1 DEF vars, Expected, Applies
    <3> QED BY <2>4, <3>1, <3>2, <3>3 DEF vars, MatchInv, Shape, Earlier, Current, Decided
  <2> QED BY <2>1, <2>2, <2>3, <2>4 DEF Next
<1> QED BY <1>1, InitInv, PTL DEF Spec

\* The clauses that are read as they are.
LEMMA SeenAsTheyAre ==
    ASSUME MatchInv, \A k \in DOMAIN clauses : SeenBy(via, clauses[k].pattern) = clauses[k].pattern
    PROVE  SeenClauses = clauses
<1> DEFINE S == [pattern : Patterns, guardFn : Guards]
<1>1. clauses \in Seq(S)
  BY DEF MatchInv, Shape
<1>2. \A c \in S : c = [pattern |-> c.pattern, guardFn |-> c.guardFn]
  OBVIOUS
<1> HIDE DEF S
<1>3. \A k \in DOMAIN clauses : clauses[k] \in S
  BY <1>1
<1>4. SeenClauses = [k \in DOMAIN clauses |-> clauses[k]]
  BY <1>2, <1>3 DEF SeenClauses
<1>5. clauses = [k \in DOMAIN clauses |-> clauses[k]]
  BY <1>1
<1> QED BY <1>4, <1>5

\* match.js:19, for any values, patterns of any nesting and any number of
\* clauses: match answers with the first clause that the value is an
\* instance of and whose guard passes, with the parts its names stand for.
THEOREM MatchTakesFirst == Spec => []MatchFirst
<1>1. ASSUME MatchInv PROVE MatchFirst
  <2> SUFFICES ASSUME out # Pending, via = "match" PROVE out = Expected(clauses)
    BY DEF MatchFirst
  <2>1. SeenClauses = clauses
    BY <1>1, SeenAsTheyAre DEF SeenBy
  <2> QED BY <1>1, <2>1 DEF MatchInv, Decided
<1> QED BY <1>1, MatchInvariant, PTL

\* pipe.js:65, for any values and any number of clauses whose patterns are
\* names, primitives and objects of those, of any nesting: Pipeline.match
\* decides as match does.
THEOREM PipeAgreesOnRecords == Spec => []PipeMatchesRecords
<1>1. ASSUME MatchInv PROVE PipeMatchesRecords
  <2> SUFFICES ASSUME out # Pending, via = "pipe",
                      \A k \in DOMAIN clauses : clauses[k].pattern \in Common[MaxDepth]
               PROVE  out = Expected(clauses)
    BY DEF PipeMatchesRecords
  <2>1. \A p \in Common[MaxDepth] : SeenBy(via, p) = p
    BY CommonOpened, MatchAssumption DEF SeenBy, Open
  <2>2. SeenClauses = clauses
    BY <1>1, <2>1, SeenAsTheyAre
  <2> QED BY <1>1, <2>2 DEF MatchInv, Decided
<1> QED BY <1>1, MatchInvariant, PTL
=============================================================================
