------------------------ MODULE GenServerStateProofs ------------------------
(***************************************************************************)
(* Proofs about GenServerState and the conversions it rests on: for every  *)
(* width of integers, every set of property names and every nesting, a     *)
(* state survives the way to Erlang and back exactly if it is plain, what  *)
(* came back stays, and no pid comes back.                                 *)
(***************************************************************************)
EXTENDS GenServerState, TLAPS, SequenceTheorems

(***************************************************************************)
(* The recursive functions by their steps.                                 *)
(***************************************************************************)
JsStep(n, S)     == JsOver(S)
TermsStep(n, S)  == TermsOver(S)
SoundStep(n, S)  == SoundOver(S, Js[n])
IoStep(n, S)     == IoListsOver(S)
TextStep(n, f)   == [t \in IoLists[n + 1] |-> TextOver(f, t)]
ToJsStep(n, f)   == [t \in Terms[n + 1] |-> JsOf(f, t)]
ToErlStep(n, f)  == [v \in Sound[n + 1] |-> TermOf(f, v)]
TextsStep(n, S)  == [arr : Seq([num : 0..ByteMax] \cup [str : Seq(STRING)] \cup S)]
PlainStep(n, S)  == PlainOver(S)
TameStep(n, S)   == TameOver(S)

OfJs    == INSTANCE Recursion WITH Base <- {}, Step <- JsStep
OfTerms == INSTANCE Recursion WITH Base <- {}, Step <- TermsStep
OfSound == INSTANCE Recursion WITH Base <- {}, Step <- SoundStep
OfIo    == INSTANCE Recursion WITH Base <- {}, Step <- IoStep
OfText  == INSTANCE Recursion WITH Base <- <<>>, Step <- TextStep
OfToJs  == INSTANCE Recursion WITH Base <- <<>>, Step <- ToJsStep
OfToErl == INSTANCE Recursion WITH Base <- <<>>, Step <- ToErlStep
OfTexts == INSTANCE Recursion WITH Base <- {}, Step <- TextsStep
OfPlain == INSTANCE Recursion WITH Base <- {}, Step <- PlainStep
OfTame  == INSTANCE Recursion WITH Base <- {}, Step <- TameStep

LEMMA JsEq == Js[0] = {} /\ \A d \in Nat : Js[d + 1] = JsOver(Js[d])
<1>1. Js = OfJs!Rec
  BY DEF Js, OfJs!Rec, JsStep
<1> QED BY <1>1, OfJs!RecEquations DEF JsStep

LEMMA TermsEq == Terms[0] = {} /\ \A d \in Nat : Terms[d + 1] = TermsOver(Terms[d])
<1>1. Terms = OfTerms!Rec
  BY DEF Terms, OfTerms!Rec, TermsStep
<1> QED BY <1>1, OfTerms!RecEquations DEF TermsStep

LEMMA SoundEq == Sound[0] = {} /\ \A d \in Nat : Sound[d + 1] = SoundOver(Sound[d], Js[d])
<1>1. Sound = OfSound!Rec
  BY DEF Sound, OfSound!Rec, SoundStep
<1> QED BY <1>1, OfSound!RecEquations DEF SoundStep

LEMMA IoEq == IoLists[0] = {} /\ \A d \in Nat : IoLists[d + 1] = IoListsOver(IoLists[d])
<1>1. IoLists = OfIo!Rec
  BY DEF IoLists, OfIo!Rec, IoStep
<1> QED BY <1>1, OfIo!RecEquations DEF IoStep

LEMMA TextsEq ==
    /\ Texts[0] = {}
    /\ \A d \in Nat : Texts[d + 1] = [arr : Seq([num : 0..ByteMax] \cup [str : Seq(STRING)] \cup Texts[d])]
<1>1. Texts = OfTexts!Rec
  BY DEF Texts, OfTexts!Rec, TextsStep
<1> QED BY <1>1, OfTexts!RecEquations DEF TextsStep

LEMMA PlainEq == Plain[0] = {} /\ \A d \in Nat : Plain[d + 1] = PlainOver(Plain[d])
<1>1. Plain = OfPlain!Rec
  BY DEF Plain, OfPlain!Rec, PlainStep
<1> QED BY <1>1, OfPlain!RecEquations DEF PlainStep

LEMMA TameEq == Tame[0] = {} /\ \A d \in Nat : Tame[d + 1] = TameOver(Tame[d])
<1>1. Tame = OfTame!Rec
  BY DEF Tame, OfTame!Rec, TameStep
<1> QED BY <1>1, OfTame!RecEquations DEF TameStep

LEMMA TextEq ==
    \A d \in Nat : Text[d + 1] = [t \in IoLists[d + 1] |-> TextOver(Text[d], t)]
<1>1. Text = OfText!Rec
  <2>1. \A d \in Nat : d # 0 => (d - 1) + 1 = d
    OBVIOUS
  <2> QED BY <2>1 DEF Text, OfText!Rec, TextStep
<1> QED BY <1>1, OfText!RecEquations DEF TextStep

LEMMA ToJsEq ==
    \A d \in Nat : ToJs[d + 1] = [t \in Terms[d + 1] |-> JsOf(ToJs[d], t)]
<1>1. ToJs = OfToJs!Rec
  <2>1. \A d \in Nat : d # 0 => (d - 1) + 1 = d
    OBVIOUS
  <2> QED BY <2>1 DEF ToJs, OfToJs!Rec, ToJsStep
<1> QED BY <1>1, OfToJs!RecEquations DEF ToJsStep

LEMMA ToErlEq ==
    \A d \in Nat : ToErl[d + 1] = [v \in Sound[d + 1] |-> TermOf(ToErl[d], v)]
<1>1. ToErl = OfToErl!Rec
  <2>1. \A d \in Nat : d # 0 => (d - 1) + 1 = d
    OBVIOUS
  <2> QED BY <2>1 DEF ToErl, OfToErl!Rec, ToErlStep
<1> QED BY <1>1, OfToErl!RecEquations DEF ToErlStep

\* Induction over the nesting.
LEMMA AllDepths ==
    ASSUME NEW T, 0 \in T, \A d \in Nat : d \in T => d + 1 \in T
    PROVE  \A d \in Nat : d \in T
BY OfJs!AllNat

-----------------------------------------------------------------------------
(***************************************************************************)
(* Values and terms by their kinds.                                        *)
(***************************************************************************)
LEMMA SeqMono ==
    ASSUME NEW S, NEW T, S \subseteq T
    PROVE  Seq(S) \subseteq Seq(T)
OBVIOUS

LEMMA JsKinds ==
    ASSUME NEW S, NEW v \in JsOver(S)
    PROVE  \/ v \in [num : Int] /\ DOMAIN v = {"num"}
           \/ v \in [js : Prims] /\ DOMAIN v = {"js"}
           \/ v \in [str : Seq(STRING)] /\ DOMAIN v = {"str"}
           \/ v \in [arr : Seq(S)] /\ DOMAIN v = {"arr"}
           \/ v \in Objs(S) /\ DOMAIN v = {"obj"}
BY DEF JsOver, JsLeaf, Objs

LEMMA TermKinds ==
    ASSUME NEW S, NEW t \in TermsOver(S)
    PROVE  \/ t \in [int : Int] /\ DOMAIN t = {"int"}
           \/ t \in [float : Int] /\ DOMAIN t = {"float"}
           \/ t \in [erl : {"fraction", "pid"}] /\ DOMAIN t = {"erl"}
           \/ t \in [atom : STRING] /\ DOMAIN t = {"atom"}
           \/ t \in [bin : Seq(STRING)] /\ DOMAIN t = {"bin"}
           \/ t \in [tuple : Seq(S)] /\ DOMAIN t = {"tuple"}
           \/ t \in [list : Seq(S)] /\ DOMAIN t = {"list"}
           \/ t \in Maps(S) /\ DOMAIN t = {"map"}
BY DEF TermsOver, TermLeaf, Maps

LEMMA ObjsMono ==
    ASSUME NEW S, NEW T, S \subseteq T
    PROVE  Objs(S) \subseteq Objs(T)
BY DEF Objs

LEMMA JsOverMono ==
    ASSUME NEW S, NEW T, S \subseteq T
    PROVE  JsOver(S) \subseteq JsOver(T)
<1>1. Seq(S) \subseteq Seq(T) /\ Objs(S) \subseteq Objs(T)
  BY SeqMono, ObjsMono
<1> QED BY <1>1 DEF JsOver

LEMMA TermsOverMono ==
    ASSUME NEW S, NEW T, S \subseteq T
    PROVE  TermsOver(S) \subseteq TermsOver(T)
<1>1. Seq(S) \subseteq Seq(T)
  BY SeqMono
<1>2. Maps(S) \subseteq Maps(T)
  BY DEF Maps
<1> QED BY <1>1, <1>2 DEF TermsOver

LEMMA SoundOverMono ==
    ASSUME NEW S, NEW T, NEW V, NEW W, S \subseteq T, V \subseteq W
    PROVE  SoundOver(S, V) \subseteq SoundOver(T, W)
<1>1. Seq(S) \subseteq Seq(T) /\ Objs(S) \subseteq Objs(T) /\ Objs(V) \subseteq Objs(W)
  BY SeqMono, ObjsMono
<1> QED BY <1>1 DEF SoundOver

\* What nests less is among what may nest more.
LEMMA JsMono == \A d \in Nat : Js[d] \subseteq Js[d + 1]
<1> DEFINE T == {d \in Nat : Js[d] \subseteq Js[d + 1]}
<1>1. 0 \in T
  BY JsEq
<1>2. ASSUME NEW d \in Nat, d \in T PROVE d + 1 \in T
  <2>1. JsOver(Js[d]) \subseteq JsOver(Js[d + 1])
    BY <1>2, JsOverMono
  <2> QED BY <2>1, JsEq, d + 1 \in Nat
<1> HIDE DEF T
<1>3. \A d \in Nat : d \in T
  BY <1>1, <1>2, AllDepths
<1> QED BY <1>3 DEF T

LEMMA TermsMono == \A d \in Nat : Terms[d] \subseteq Terms[d + 1]
<1> DEFINE T == {d \in Nat : Terms[d] \subseteq Terms[d + 1]}
<1>1. 0 \in T
  BY TermsEq
<1>2. ASSUME NEW d \in Nat, d \in T PROVE d + 1 \in T
  <2>1. TermsOver(Terms[d]) \subseteq TermsOver(Terms[d + 1])
    BY <1>2, TermsOverMono
  <2> QED BY <2>1, TermsEq, d + 1 \in Nat
<1> HIDE DEF T
<1>3. \A d \in Nat : d \in T
  BY <1>1, <1>2, AllDepths
<1> QED BY <1>3 DEF T

LEMMA SoundMono == \A d \in Nat : Sound[d] \subseteq Sound[d + 1]
<1> DEFINE T == {d \in Nat : Sound[d] \subseteq Sound[d + 1]}
<1>1. 0 \in T
  BY SoundEq
<1>2. ASSUME NEW d \in Nat, d \in T PROVE d + 1 \in T
  <2>1. SoundOver(Sound[d], Js[d]) \subseteq SoundOver(Sound[d + 1], Js[d + 1])
    BY <1>2, SoundOverMono, JsMono
  <2> QED BY <2>1, SoundEq, d + 1 \in Nat
<1> HIDE DEF T
<1>3. \A d \in Nat : d \in T
  BY <1>1, <1>2, AllDepths
<1> QED BY <1>3 DEF T

\* What does not raise is a value.
LEMMA SoundIsJs == \A d \in Nat : Sound[d] \subseteq Js[d]
<1> DEFINE T == {d \in Nat : Sound[d] \subseteq Js[d]}
<1>1. 0 \in T
  BY SoundEq
<1>2. ASSUME NEW d \in Nat, d \in T PROVE d + 1 \in T
  <2>1. Seq(Sound[d]) \subseteq Seq(Js[d])
    BY <1>2, SeqMono
  <2>2. SoundOver(Sound[d], Js[d]) \subseteq JsOver(Js[d])
    BY <2>1 DEF SoundOver, JsOver
  <2> QED BY <2>2, SoundEq, JsEq
<1> HIDE DEF T
<1>3. \A d \in Nat : d \in T
  BY <1>1, <1>2, AllDepths
<1> QED BY <1>3 DEF T

LEMMA SoundKinds ==
    ASSUME NEW S, NEW V, NEW v \in SoundOver(S, V)
    PROVE  \/ v \in [num : Int] /\ DOMAIN v = {"num"}
           \/ v \in [js : Prims \ {"NaN"}] /\ DOMAIN v = {"js"}
           \/ v \in [str : Seq(STRING)] /\ DOMAIN v = {"str"}
           \/ v \in [arr : Seq(S)] /\ DOMAIN v = {"arr"}
           \/ v \in Objs(V) /\ DOMAIN v = {"obj"} /\ IsPidObject(v) /\ PidData(v) \in S
           \/ v \in Objs(S) /\ DOMAIN v = {"obj"} /\ ~IsPidObject(v)
<1>1. CASE v \in JsLeaf \ {Prim("NaN")}
  BY <1>1 DEF JsLeaf, Prim
<1>2. CASE v \in [arr : Seq(S)]
  BY <1>2
<1>3. CASE v \in Objs(V) /\ IF IsPidObject(v) THEN PidData(v) \in S ELSE v \in Objs(S)
  BY <1>3 DEF Objs
<1> QED BY <1>1, <1>2, <1>3 DEF SoundOver

\* Nothing is neither a value nor a term.
LEMMA NothingApart == \A d \in Nat : Nothing \notin Js[d] /\ Nothing \notin Terms[d] /\ Nothing \notin Sound[d]
<1> SUFFICES ASSUME NEW d \in Nat, d # 0
             PROVE  Nothing \notin Js[d] /\ Nothing \notin Terms[d] /\ Nothing \notin Sound[d]
  BY JsEq, TermsEq, SoundEq
<1>1. d - 1 \in Nat /\ (d - 1) + 1 = d
  OBVIOUS
<1>2. DOMAIN Nothing = {"none"}
  BY DEF Nothing
<1>3. Js[d] = JsOver(Js[d - 1]) /\ Terms[d] = TermsOver(Terms[d - 1])
  BY <1>1, JsEq, TermsEq
<1>4. Nothing \notin Js[d]
  BY <1>2, <1>3, JsKinds
<1>5. Nothing \notin Terms[d]
  BY <1>2, <1>3, TermKinds
<1> QED BY <1>4, <1>5, SoundIsJs

\* The conversions, kind by kind.
LEMMA TermOfKinds ==
    ASSUME NEW conv, NEW v
    PROVE  /\ DOMAIN v = {"js"} => TermOf(conv, v) = PrimToErl(v.js)
           /\ DOMAIN v = {"num"} => TermOf(conv, v) = IF FitsIn(v.num, Int32Max)
                                                 THEN [int |-> v.num] ELSE [float |-> v.num]
           /\ DOMAIN v = {"str"} => TermOf(conv, v) = Bin(v.str)
           /\ DOMAIN v = {"arr"} => TermOf(conv, v) = [list |-> [i \in DOMAIN v.arr |-> conv[v.arr[i]]]]
           /\ DOMAIN v = {"obj"} /\ IsPidObject(v) => TermOf(conv, v) = conv[PidData(v)]
           /\ DOMAIN v = {"obj"} /\ ~IsPidObject(v) => TermOf(conv, v) =
                  [map |-> [k \in Keys |-> IF Is(k, "bin") THEN Conv(conv, v.obj[k.bin[1]])
                                           ELSE Nothing]]
<1>1. ASSUME DOMAIN v = {"js"} PROVE TermOf(conv, v) = PrimToErl(v.js)
  BY <1>1 DEF TermOf, Is
<1>2. ASSUME DOMAIN v = {"num"}
      PROVE TermOf(conv, v) = IF FitsIn(v.num, Int32Max) THEN [int |-> v.num] ELSE [float |-> v.num]
  BY <1>2 DEF TermOf, Is
<1>3. ASSUME DOMAIN v = {"str"} PROVE TermOf(conv, v) = Bin(v.str)
  BY <1>3 DEF TermOf, Is
<1>4. ASSUME DOMAIN v = {"arr"}
      PROVE TermOf(conv, v) = [list |-> [i \in DOMAIN v.arr |-> conv[v.arr[i]]]]
  BY <1>4 DEF TermOf, Is
<1>5. ASSUME DOMAIN v = {"obj"}
      PROVE TermOf(conv, v) =
              IF IsPidObject(v) THEN conv[PidData(v)]
              ELSE [map |-> [k \in Keys |-> IF Is(k, "bin") THEN Conv(conv, v.obj[k.bin[1]])
                                            ELSE Nothing]]
  BY <1>5 DEF TermOf, Is
<1> QED BY <1>1, <1>2, <1>3, <1>4, <1>5

LEMMA TakenIsList ==
    ASSUME NEW t, TakenForText(t)
    PROVE  DOMAIN t = {"list"}
<1>1. MaxDepth - 1 \in Nat /\ (MaxDepth - 1) + 1 = MaxDepth
  BY DepthAssumption
<1>2. IoLists[MaxDepth] = IoListsOver(IoLists[MaxDepth - 1])
  BY <1>1, IoEq
<1> QED BY <1>2 DEF TakenForText, IoListsOver

LEMMA JsOfKinds ==
    ASSUME NEW conv, NEW t
    PROVE  /\ DOMAIN t = {"int"} => JsOf(conv, t) = IntToJs(t.int)
           /\ DOMAIN t = {"float"} => JsOf(conv, t) = [num |-> t.float]
           /\ DOMAIN t = {"atom"} => JsOf(conv, t) = AtomToJs(t.atom)
           /\ DOMAIN t = {"bin"} => JsOf(conv, t) = [str |-> t.bin]
           /\ TakenForText(t) => JsOf(conv, t) = [str |-> Text[MaxDepth][t]]
           /\ DOMAIN t = {"tuple"} => JsOf(conv, t) = [arr |-> [i \in DOMAIN t.tuple |-> conv[t.tuple[i]]]]
           /\ DOMAIN t = {"list"} /\ ~TakenForText(t) =>
                  JsOf(conv, t) = [arr |-> [i \in DOMAIN t.list |-> conv[t.list[i]]]]
           /\ DOMAIN t = {"map"} => JsOf(conv, t) = [obj |-> [n \in Names |-> Conv(conv, Entry(t.map, n))]]
           /\ DOMAIN t = {"erl"} => JsOf(conv, t) =
                  IF t.erl = "fraction" THEN Prim("fraction") ELSE Prim("null")
<1>0. TakenForText(t) => DOMAIN t = {"list"}
  BY TakenIsList
<1>1. ASSUME DOMAIN t = {"int"} PROVE JsOf(conv, t) = IntToJs(t.int)
  BY <1>0, <1>1 DEF JsOf, Is
<1>2. ASSUME DOMAIN t = {"float"} PROVE JsOf(conv, t) = [num |-> t.float]
  BY <1>0, <1>2 DEF JsOf, Is
<1>3. ASSUME DOMAIN t = {"atom"} PROVE JsOf(conv, t) = AtomToJs(t.atom)
  BY <1>0, <1>3 DEF JsOf, Is
<1>4. ASSUME DOMAIN t = {"bin"} PROVE JsOf(conv, t) = [str |-> t.bin]
  BY <1>0, <1>4 DEF JsOf, Is
<1>5. ASSUME TakenForText(t) PROVE JsOf(conv, t) = [str |-> Text[MaxDepth][t]]
  BY <1>0, <1>5 DEF JsOf, Is
<1>6. ASSUME DOMAIN t = {"tuple"}
      PROVE JsOf(conv, t) = [arr |-> [i \in DOMAIN t.tuple |-> conv[t.tuple[i]]]]
  BY <1>0, <1>6 DEF JsOf, Is
<1>7. ASSUME DOMAIN t = {"list"}, ~TakenForText(t)
      PROVE JsOf(conv, t) = [arr |-> [i \in DOMAIN t.list |-> conv[t.list[i]]]]
  BY <1>0, <1>7 DEF JsOf, Is
<1>8. ASSUME DOMAIN t = {"map"}
      PROVE JsOf(conv, t) = [obj |-> [n \in Names |-> Conv(conv, Entry(t.map, n))]]
  BY <1>0, <1>8 DEF JsOf, Is
<1>9. ASSUME DOMAIN t = {"erl"}
      PROVE JsOf(conv, t) = IF t.erl = "fraction" THEN Prim("fraction") ELSE Prim("null")
  BY <1>0, <1>9 DEF JsOf, Is
<1> QED BY <1>1, <1>2, <1>3, <1>4, <1>5, <1>6, <1>7, <1>8, <1>9

-----------------------------------------------------------------------------
(***************************************************************************)
(* Text.                                                                   *)
(***************************************************************************)
LEMMA FlattenType ==
    ASSUME NEW T, NEW s \in Seq(Seq(T))
    PROVE  FlattenSeq(s) \in Seq(T)
<1>1. CASE Len(s) = 0
  <2>1. s = <<>>
    BY <1>1
  <2> QED BY <1>1, <2>1 DEF FlattenSeq
<1>2. CASE Len(s) # 0
  <2> DEFINE n == Len(s)
             Eq(g, m) == g = [i \in 1..m |-> IF i = 1 THEN s[i] ELSE g[i - 1] \o s[i]]
             f == CHOOSE g : Eq(g, n)
             E == {m \in Nat : m <= n => \E g : Eq(g, m)}
  <2>0. n \in Nat /\ n # 0 /\ \A i \in 1..n : s[i] \in Seq(T)
    BY <1>2
  <2>1. 0 \in E
    <3>1. Eq(<<>>, 0)
      OBVIOUS
    <3> QED BY <3>1
  <2>2. ASSUME NEW m \in Nat, m \in E PROVE m + 1 \in E
    <3>1. SUFFICES ASSUME m + 1 <= n PROVE \E g : Eq(g, m + 1)
      <4> HIDE DEF Eq, n
      <4> QED OBVIOUS
    <3>2. PICK g : Eq(g, m)
      <4> HIDE DEF Eq, n
      <4> QED BY <2>0, <2>2, <3>1
    <3> DEFINE h == [i \in 1..(m + 1) |-> IF i = 1 THEN s[i] ELSE g[i - 1] \o s[i]]
    <3>3. ASSUME NEW i \in 1..(m + 1), i # 1 PROVE h[i - 1] = g[i - 1]
      <4>1. i - 1 \in 1..m /\ i - 1 \in 1..(m + 1)
        BY <3>3
      <4>2. g[i - 1] = IF i - 1 = 1 THEN s[i - 1] ELSE g[(i - 1) - 1] \o s[i - 1]
        BY <3>2, <4>1
      <4> QED BY <4>1, <4>2
    <3>4. Eq(h, m + 1)
      BY <3>3
    <3> QED BY <3>4
  <2>3. \E g : Eq(g, n)
    <3> HIDE DEF Eq
    <3>1. \A m \in Nat : m \in E
      <4> HIDE DEF E
      <4> QED BY <2>1, <2>2, AllDepths
    <3> QED BY <2>0, <3>1
  <2>4. FlattenSeq(s) = f[n]
    BY <1>2 DEF FlattenSeq
  <2>5. Eq(f, n)
    <3> HIDE DEF Eq
    <3> QED BY <2>3
  <2> HIDE DEF f
  <2> DEFINE G == {m \in Nat : m + 1 <= n => f[m + 1] \in Seq(T)}
  <2>6. 0 \in G
    <3>1. 1 \in 1..n
      BY <2>0
    <3>2. f[1] = s[1]
      BY <2>5, <3>1
    <3> QED BY <2>0, <3>1, <3>2
  <2>7. ASSUME NEW m \in Nat, m \in G PROVE m + 1 \in G
    <3>1. SUFFICES ASSUME m + 2 <= n PROVE f[m + 2] \in Seq(T)
      OBVIOUS
    <3>2. m + 2 \in 1..n /\ m + 2 # 1 /\ (m + 2) - 1 = m + 1
      BY <3>1
    <3>3. f[m + 2] = f[(m + 2) - 1] \o s[m + 2]
      BY <2>5, <3>2
    <3>4. f[m + 1] \in Seq(T) /\ s[m + 2] \in Seq(T)
      BY <2>0, <2>7, <3>1, <3>2
    <3> QED BY <3>2, <3>3, <3>4
  <2>8. \A m \in Nat : m \in G
    <3> HIDE DEF G
    <3> QED BY <2>6, <2>7, AllDepths
  <2>9. n - 1 \in G /\ (n - 1) + 1 = n
    <3> HIDE DEF G, n
    <3> QED BY <2>0, <2>8
  <2> QED BY <2>4, <2>9
<1> QED BY <1>1, <1>2

\* The text of an iolist is text.
LEMMA TextType == \A d \in Nat : \A t \in IoLists[d] : Text[d][t] \in Seq(STRING)
<1> DEFINE T == {d \in Nat : \A t \in IoLists[d] : Text[d][t] \in Seq(STRING)}
<1>1. 0 \in T
  BY IoEq
<1>2. ASSUME NEW d \in Nat, d \in T PROVE d + 1 \in T
  <2>1. ASSUME NEW t \in IoLists[d + 1] PROVE Text[d + 1][t] \in Seq(STRING)
    <3>0. t \in [list : Seq([int : 0..ByteMax] \cup [bin : Seq(STRING)] \cup IoLists[d])]
      BY <2>1, IoEq DEF IoListsOver
    <3>1. t.list \in Seq([int : 0..ByteMax] \cup [bin : Seq(STRING)] \cup IoLists[d])
      BY <3>0
    <3> DEFINE el(e) == IF Is(e, "int") THEN <<ByteToken(e.int)>>
                        ELSE IF Is(e, "bin") THEN e.bin ELSE Text[d][e]
               x == [i \in DOMAIN t.list |-> el(t.list[i])]
    <3>2. ASSUME NEW e \in [int : 0..ByteMax] \cup [bin : Seq(STRING)] \cup IoLists[d]
          PROVE  el(e) \in Seq(STRING)
      <4>1. CASE e \in [int : 0..ByteMax]
        <5>1. Is(e, "int")
          BY <4>1 DEF Is
        <5>2. "ascii" \in STRING /\ "U+FFFD" \in STRING
          BY TokenAssumption
        <5>3. ByteToken(e.int) \in STRING
          BY <5>2 DEF ByteToken
        <5> QED BY <5>1, <5>3
      <4>2. CASE e \in [bin : Seq(STRING)]
        <5>1. ~Is(e, "int") /\ Is(e, "bin")
          BY <4>2 DEF Is
        <5> QED BY <4>2, <5>1
      <4>3. CASE e \in IoLists[d]
        <5>1. d # 0
          BY <4>3, IoEq
        <5>2. d - 1 \in Nat /\ (d - 1) + 1 = d
          BY <5>1
        <5>3. e \in IoListsOver(IoLists[d - 1])
          BY <4>3, <5>2, IoEq
        <5>4. ~Is(e, "int") /\ ~Is(e, "bin")
          BY <5>3 DEF Is, IoListsOver
        <5>5. Text[d][e] \in Seq(STRING)
          BY <1>2, <4>3
        <5> QED BY <5>4, <5>5
      <4> QED BY <4>1, <4>2, <4>3
    <3>3. \A i \in DOMAIN t.list : el(t.list[i]) \in Seq(STRING)
      <4> HIDE DEF el
      <4> QED BY <3>1, <3>2
    <3>4. x \in Seq(Seq(STRING))
      <4> HIDE DEF el
      <4>1. DOMAIN t.list = 1..Len(t.list) /\ Len(t.list) \in Nat
        BY <3>1
      <4>2. \A i \in 1..Len(t.list) : x[i] \in Seq(STRING)
        BY <3>3, <4>1
      <4> QED BY <3>3, <4>1, <4>2
    <3>5. Text[d + 1][t] = FlattenSeq(x)
      BY <2>1, TextEq DEF TextOver
    <3> HIDE DEF x
    <3> QED BY <3>4, <3>5, FlattenType
  <2> QED BY <2>1
<1> HIDE DEF T
<1>3. \A d \in Nat : d \in T
  BY <1>1, <1>2, AllDepths
<1> QED BY <1>3 DEF T

-----------------------------------------------------------------------------
(***************************************************************************)
(* The conversions give terms and values, of no greater nesting.           *)
(***************************************************************************)
LEMMA KeyFacts ==
    /\ \A n \in Names : /\ KeyOf(n) \in Keys /\ Is(KeyOf(n), "bin") /\ KeyOf(n).bin[1] = n
                        /\ Atom(n) \in Keys /\ ~Is(Atom(n), "bin")
    /\ \A k \in Keys : Is(k, "bin") => k.bin[1] \in Names
<1>1. \A n \in Names : Is(KeyOf(n), "bin") /\ KeyOf(n).bin[1] = n /\ ~Is(Atom(n), "bin")
  BY DEF KeyOf, Bin, Atom, Is
<1>2. ~Is([int |-> 0], "bin")
  BY DEF Is
<1>3. ASSUME NEW k \in Keys, Is(k, "bin") PROVE k.bin[1] \in Names
  <2>1. \/ \E n \in Names : k = KeyOf(n)
        \/ \E n \in Names : k = Atom(n)
        \/ k = [int |-> 0]
    BY DEF Keys
  <2> QED BY <1>1, <1>2, <1>3, <2>1
<1> QED BY <1>1, <1>3 DEF Keys

LEMMA PrimToErlKinds ==
    /\ \A x \in {"true", "false", "undefined"} : PrimToErl(x) = Atom(x)
    /\ PrimToErl("null") = Atom("nil")
    /\ PrimToErl("fraction") = [erl |-> "fraction"]
    /\ PrimToErl("bigint") = Atom("undefined")
    /\ PrimToErl("function") = MapOf(<<>>)
BY DEF PrimToErl

LEMMA AtomToJsKinds ==
    /\ \A a \in {"true", "false", "undefined"} : AtomToJs(a) = Prim(a)
    /\ \A a \in {"nil", "null"} : AtomToJs(a) = Prim("null")
    /\ \A a : a \notin {"true", "false", "undefined", "nil", "null"} => AtomToJs(a) = [str |-> <<a>>]
BY DEF AtomToJs

LEMMA EmptyMap == MapOf(<<>>) = [map |-> [k \in Keys |-> Nothing]]
<1>1. DOMAIN <<>> = {}
  OBVIOUS
<1> QED BY <1>1 DEF MapOf

LEMMA TermOfType ==
    ASSUME NEW S, NEW V, NEW T, NEW conv, NEW v \in SoundOver(S, V),
           \A x \in S : conv[x] \in T, T \subseteq TermsOver(T), Nothing \notin S
    PROVE  TermOf(conv, v) \in TermsOver(T)
<1>1. CASE v \in [num : Int] /\ DOMAIN v = {"num"}
  BY <1>1, TermOfKinds DEF TermsOver, TermLeaf
<1>2. CASE v \in [js : Prims \ {"NaN"}] /\ DOMAIN v = {"js"}
  <2>1. v.js \in Prims \ {"NaN"} /\ TermOf(conv, v) = PrimToErl(v.js)
    BY <1>2, TermOfKinds
  <2>2. \A a \in {"true", "false", "undefined", "nil"} : Atom(a) \in TermLeaf
    BY TokenAssumption DEF Atom, TermLeaf
  <2>3. [erl |-> "fraction"] \in TermLeaf
    BY DEF TermLeaf
  <2>4. MapOf(<<>>) \in Maps(T)
    BY EmptyMap DEF Maps
  <2>5. PrimToErl(v.js) \in TermLeaf \cup Maps(T)
    BY <2>1, <2>2, <2>3, <2>4, PrimToErlKinds DEF Prims
  <2> QED BY <2>1, <2>5 DEF TermsOver
<1>3. CASE v \in [str : Seq(STRING)] /\ DOMAIN v = {"str"}
  BY <1>3, TermOfKinds DEF TermsOver, TermLeaf, Bin
<1>4. CASE v \in [arr : Seq(S)] /\ DOMAIN v = {"arr"}
  <2>1. v.arr \in Seq(S)
    BY <1>4
  <2>2. [i \in DOMAIN v.arr |-> conv[v.arr[i]]] \in Seq(T)
    BY <2>1
  <2> QED BY <1>4, <2>2, TermOfKinds DEF TermsOver
<1>5. CASE v \in Objs(V) /\ DOMAIN v = {"obj"} /\ IsPidObject(v) /\ PidData(v) \in S
  BY <1>5, TermOfKinds
<1>6. CASE v \in Objs(S) /\ DOMAIN v = {"obj"} /\ ~IsPidObject(v)
  <2> DEFINE f == [k \in Keys |-> IF Is(k, "bin") THEN Conv(conv, v.obj[k.bin[1]]) ELSE Nothing]
  <2>1. \A n \in Names : v.obj[n] \in S \cup {Nothing}
    BY <1>6 DEF Objs
  <2>2. \A k \in Keys : f[k] \in T \cup {Nothing}
    BY <2>1, KeyFacts DEF Conv
  <2>3. TermOf(conv, v) = [map |-> f]
    BY <1>6, TermOfKinds
  <2>4. f \in [Keys -> T \cup {Nothing}]
    BY <2>2
  <2> HIDE DEF f
  <2> QED BY <2>3, <2>4 DEF TermsOver, Maps
<1> QED BY <1>1, <1>2, <1>3, <1>4, <1>5, <1>6, SoundKinds

\* js_value_to_erl gives a term.
LEMMA ToErlType == \A d \in Nat : \A v \in Sound[d] : ToErl[d][v] \in Terms[d]
<1> DEFINE T == {d \in Nat : \A v \in Sound[d] : ToErl[d][v] \in Terms[d]}
<1>1. 0 \in T
  BY SoundEq
<1>2. ASSUME NEW d \in Nat, d \in T PROVE d + 1 \in T
  <2>1. ASSUME NEW v \in Sound[d + 1] PROVE ToErl[d + 1][v] \in Terms[d + 1]
    <3>1. v \in SoundOver(Sound[d], Js[d]) /\ Terms[d + 1] = TermsOver(Terms[d])
      BY SoundEq, TermsEq
    <3>2. Terms[d] \subseteq TermsOver(Terms[d]) /\ Nothing \notin Sound[d]
      BY <3>1, TermsMono, NothingApart
    <3>3. \A x \in Sound[d] : ToErl[d][x] \in Terms[d]
      BY <1>2
    <3>4. TermOf(ToErl[d], v) \in TermsOver(Terms[d])
      BY <3>1, <3>2, <3>3, TermOfType
    <3> QED BY <3>1, <3>4, ToErlEq
  <2> QED BY <2>1
<1> HIDE DEF T
<1>3. \A d \in Nat : d \in T
  BY <1>1, <1>2, AllDepths
<1> QED BY <1>3 DEF T

PowerStep(n, p) == 2 * p

OfPower == INSTANCE Recursion WITH Base <- 1, Step <- PowerStep

LEMMA PowerEq == Power[0] = 1 /\ \A k \in Nat : Power[k + 1] = 2 * Power[k]
<1>1. Power = OfPower!Rec
  BY DEF Power, OfPower!Rec, PowerStep
<1> QED BY <1>1, OfPower!RecEquations DEF PowerStep

LEMMA PowerGrows == \A k \in Nat : Power[k] \in Nat /\ Power[k] > k
<1> DEFINE T == {k \in Nat : Power[k] \in Nat /\ Power[k] > k}
<1>1. 0 \in T
  BY PowerEq
<1>2. ASSUME NEW k \in Nat, k \in T PROVE k + 1 \in T
  <2>1. Power[k + 1] = 2 * Power[k] /\ Power[k] \in Nat /\ Power[k] > k /\ k + 1 \in Nat
    BY <1>2, PowerEq
  <2> QED BY <2>1
<1> HIDE DEF T
<1>3. \A k \in Nat : k \in T
  BY <1>1, <1>2, AllDepths
<1> QED BY <1>3 DEF T

\* Doubles are so far apart that one of the spacings covers every integer of
\* 64 bits.
LEMMA SpacingType ==
    ASSUME NEW n \in Int, FitsIn(n, Int64Max)
    PROVE  Spacing(n) \in Nat /\ Spacing(n) > 0
<1> DEFINE S == {k \in 0..Int64Max : Within(n, k)}
           m == Int64Max
<1>1. m \in Nat /\ DoubleMax \in Nat /\ DoubleMax >= 1 /\ m \in 0..Int64Max
  BY WidthAssumption
<1>2. Power[m] \in Nat /\ Power[m] >= m + 1
  BY <1>1, PowerGrows
<1>3. \A p \in Nat : DoubleMax * p \in Nat /\ DoubleMax * p >= p
  BY <1>1
<1>4. DoubleMax * Power[m] \in Nat /\ DoubleMax * Power[m] >= m + 1
  <2>1. DoubleMax * Power[m] \in Nat /\ DoubleMax * Power[m] >= Power[m]
    BY <1>2, <1>3
  <2> DEFINE x == DoubleMax * Power[m]
  <2> HIDE DEF x
  <2>2. x \in Nat /\ x >= Power[m]
    BY <2>1 DEF x
  <2>3. x \in Nat /\ x >= m + 1
    BY <1>1, <1>2, <2>2
  <2> QED BY <2>3 DEF x
<1>5. Within(n, m)
  <2> DEFINE x == DoubleMax * Power[m]
  <2> HIDE DEF x
  <2>1. x \in Nat /\ x >= m + 1
    BY <1>4 DEF x
  <2>2. -m - 1 <= n /\ n <= m
    BY DEF FitsIn
  <2>3. n \in -x..x
    BY <1>1, <2>1, <2>2
  <2> QED BY <2>3 DEF x, Within
<1>6. m \in S /\ S \subseteq Nat
  BY <1>1, <1>5
<1>7. \E k \in S : \A j \in S : k <= j
  <2> HIDE DEF S
  <2> QED BY <1>6, OfJs!LeastNat
<1>8. \E k \in 0..Int64Max : Within(n, k) /\ \A j \in 0..(k - 1) : ~Within(n, j)
  <2>1. PICK k \in S : \A j \in S : k <= j
    BY <1>7
  <2>2. k \in 0..Int64Max /\ Within(n, k) /\ k \in Nat
    BY <1>1
  <2>3. ASSUME NEW j \in 0..(k - 1) PROVE ~Within(n, j)
    <3>1. j \in 0..Int64Max /\ ~(k <= j)
      BY <1>1, <2>2
    <3> QED BY <2>1, <3>1
  <2> QED BY <2>2, <2>3
<1> DEFINE c == CHOOSE k \in 0..Int64Max : Within(n, k) /\ \A j \in 0..(k - 1) : ~Within(n, j)
<1>9. c \in Nat
  BY <1>1, <1>8
<1>10. Spacing(n) = Power[c]
  BY DEF Spacing
<1> HIDE DEF c
<1> QED BY <1>9, <1>10, PowerGrows

LEMMA IntToJsType == \A n \in Int : IntToJs(n) \in [num : Int] \cup {Prim("null")}
<1>1. ASSUME NEW n \in Int, FitsIn(n, Int64Max) PROVE ToDouble(n) \in Int
  <2> DEFINE s == Spacing(n)
             q == n \div s
  <2>1. s \in Nat /\ s > 0
    BY <1>1, SpacingType
  <2> HIDE DEF s
  <2>2. q \in Int /\ q + 1 \in Int
    BY <2>1
  <2> HIDE DEF q
  <2>3. q * s \in Int /\ (q + 1) * s \in Int
    BY <2>1, <2>2
  <2>4. ToDouble(n) = q * s \/ ToDouble(n) = (q + 1) * s
    BY DEF ToDouble, s, q
  <2> QED BY <2>3, <2>4
<1> QED BY <1>1 DEF IntToJs

\* A map gives an object; of two keys with the name it has one.
LEMMA EntryType ==
    ASSUME NEW T, NEW f \in [Keys -> T \cup {Nothing}], NEW n \in Names
    PROVE  Entry(f, n) \in T \cup {Nothing}
BY KeyFacts DEF Entry

LEMMA JsOfType ==
    ASSUME NEW S, NEW V, NEW T, NEW conv, NEW t \in TermsOver(T),
           \A x \in T : conv[x] \in S, S \subseteq V, Nothing \notin T,
           S # {} => Prim("undefined") \in S, Nothing \notin S
    PROVE  JsOf(conv, t) \in SoundOver(S, V)
<1>0. /\ [num : Int] \subseteq SoundOver(S, V)
      /\ [str : Seq(STRING)] \subseteq SoundOver(S, V)
      /\ \A x \in Prims \ {"NaN"} : Prim(x) \in SoundOver(S, V)
  BY DEF SoundOver, JsLeaf, Prim
<1>1. CASE t \in [int : Int] /\ DOMAIN t = {"int"}
  <2>1. IntToJs(t.int) \in [num : Int] \cup {Prim("null")}
    BY <1>1, IntToJsType
  <2> QED BY <1>0, <1>1, <2>1, JsOfKinds DEF Prims
<1>2. CASE t \in [float : Int] /\ DOMAIN t = {"float"}
  BY <1>0, <1>2, JsOfKinds
<1>3. CASE t \in [erl : {"fraction", "pid"}] /\ DOMAIN t = {"erl"}
  BY <1>0, <1>3, JsOfKinds DEF Prims
<1>4. CASE t \in [atom : STRING] /\ DOMAIN t = {"atom"}
  <2>1. AtomToJs(t.atom) \in SoundOver(S, V)
    <3>1. <<t.atom>> \in Seq(STRING)
      BY <1>4
    <3> QED BY <1>0, <3>1, AtomToJsKinds DEF Prims
  <2> QED BY <1>4, <2>1, JsOfKinds
<1>5. CASE t \in [bin : Seq(STRING)] /\ DOMAIN t = {"bin"}
  BY <1>0, <1>5, JsOfKinds
<1>6. CASE t \in [tuple : Seq(T)] /\ DOMAIN t = {"tuple"}
  <2>1. t.tuple \in Seq(T)
    BY <1>6
  <2>2. [i \in DOMAIN t.tuple |-> conv[t.tuple[i]]] \in Seq(S)
    BY <2>1
  <2> QED BY <1>6, <2>2, JsOfKinds DEF SoundOver
<1>7. CASE t \in [list : Seq(T)] /\ DOMAIN t = {"list"}
  <2>1. CASE TakenForText(t)
    <3>1. Text[MaxDepth][t] \in Seq(STRING)
      BY <2>1, TextType, DepthAssumption DEF TakenForText
    <3> QED BY <1>0, <2>1, <3>1, JsOfKinds
  <2>2. CASE ~TakenForText(t)
    <3>1. t.list \in Seq(T)
      BY <1>7
    <3>2. [i \in DOMAIN t.list |-> conv[t.list[i]]] \in Seq(S)
      BY <3>1
    <3> QED BY <1>7, <2>2, <3>2, JsOfKinds DEF SoundOver
  <2> QED BY <2>1, <2>2
<1>8. CASE t \in Maps(T) /\ DOMAIN t = {"map"}
  <2> DEFINE f == [n \in Names |-> Conv(conv, Entry(t.map, n))]
             v == [obj |-> f]
  <2>1. t.map \in [Keys -> T \cup {Nothing}]
    BY <1>8 DEF Maps
  <2>2. \A n \in Names : Entry(t.map, n) \in T \cup {Nothing}
    BY <2>1, EntryType
  <2>3. f \in [Names -> S \cup {Nothing}]
    BY <2>2 DEF Conv
  <2>4. JsOf(conv, t) = v
    BY <1>8, JsOfKinds
  <2> HIDE DEF f
  <2>5. v \in Objs(S) /\ v \in Objs(V)
    BY <2>3 DEF Objs
  <2>6. ASSUME IsPidObject(v) PROVE PidData(v) \in S
    <3>1. f[PidType] # Nothing
      BY <2>6 DEF IsPidObject, Nothing
    <3>2. f[PidType] \in S
      BY <2>3, <3>1, NamesAssumption
    <3>3. f[PidProp] \in S \cup {Nothing}
      BY <2>3, NamesAssumption
    <3> QED BY <3>2, <3>3 DEF PidData
  <2>7. v \in SoundOver(S, V)
    <3> HIDE DEF v
    <3> QED BY <2>5, <2>6 DEF SoundOver
  <2> QED BY <2>4, <2>7
<1> QED BY <1>1, <1>2, <1>3, <1>4, <1>5, <1>6, <1>7, <1>8, TermKinds

\* A leaf is a value at every nesting but none.
LEMMA LeafSound ==
    ASSUME NEW d \in Nat, d # 0, NEW v \in JsLeaf, v # Prim("NaN")
    PROVE  v \in Sound[d]
<1>1. d - 1 \in Nat /\ (d - 1) + 1 = d
  OBVIOUS
<1>2. Sound[d] = SoundOver(Sound[d - 1], Js[d - 1])
  BY <1>1, SoundEq
<1> QED BY <1>2 DEF SoundOver

\* erl_term_to_js gives a value, and one that does not raise.
LEMMA ToJsType == \A d \in Nat : \A t \in Terms[d] : ToJs[d][t] \in Sound[d]
<1> DEFINE T == {d \in Nat : \A t \in Terms[d] : ToJs[d][t] \in Sound[d]}
<1>1. 0 \in T
  BY TermsEq
<1>2. ASSUME NEW d \in Nat, d \in T PROVE d + 1 \in T
  <2>1. ASSUME NEW t \in Terms[d + 1] PROVE ToJs[d + 1][t] \in Sound[d + 1]
    <3>1. t \in TermsOver(Terms[d]) /\ Sound[d + 1] = SoundOver(Sound[d], Js[d])
      BY SoundEq, TermsEq
    <3>2. Nothing \notin Sound[d] /\ Nothing \notin Terms[d] /\ Sound[d] \subseteq Js[d]
      BY NothingApart, SoundIsJs
    <3>3. \A x \in Terms[d] : ToJs[d][x] \in Sound[d]
      BY <1>2
    <3>4. Sound[d] # {} => Prim("undefined") \in Sound[d]
      <4>1. Prim("undefined") \in JsLeaf /\ Prim("undefined") # Prim("NaN")
        BY DEF Prim, JsLeaf, Prims
      <4> QED BY <4>1, LeafSound, SoundEq
    <3>5. JsOf(ToJs[d], t) \in SoundOver(Sound[d], Js[d])
      BY <3>1, <3>2, <3>3, <3>4, JsOfType
    <3> QED BY <3>1, <3>5, ToJsEq
  <2> QED BY <2>1
<1> HIDE DEF T
<1>3. \A d \in Nat : d \in T
  BY <1>1, <1>2, AllDepths
<1> QED BY <1>3 DEF T

-----------------------------------------------------------------------------
(***************************************************************************)
(* What a conversion gives does not depend on the nesting it allows for.   *)
(***************************************************************************)
LEMMA TermOfLocal ==
    ASSUME NEW S, NEW V, NEW f, NEW g, NEW v \in SoundOver(S, V),
           \A x \in S : f[x] = g[x]
    PROVE  TermOf(f, v) = TermOf(g, v)
<1>1. CASE DOMAIN v \in {{"num"}, {"js"}, {"str"}}
  BY <1>1, TermOfKinds
<1>4. CASE v \in [arr : Seq(S)] /\ DOMAIN v = {"arr"}
  <2>1. v.arr \in Seq(S)
    BY <1>4
  <2>2. [i \in DOMAIN v.arr |-> f[v.arr[i]]] = [i \in DOMAIN v.arr |-> g[v.arr[i]]]
    BY <2>1
  <2> QED BY <1>4, <2>2, TermOfKinds
<1>5. CASE v \in Objs(V) /\ DOMAIN v = {"obj"} /\ IsPidObject(v) /\ PidData(v) \in S
  BY <1>5, TermOfKinds
<1>6. CASE v \in Objs(S) /\ DOMAIN v = {"obj"} /\ ~IsPidObject(v)
  <2> DEFINE m(c) == [k \in Keys |-> IF Is(k, "bin") THEN Conv(c, v.obj[k.bin[1]]) ELSE Nothing]
  <2>1. \A n \in Names : v.obj[n] \in S \cup {Nothing}
    BY <1>6 DEF Objs
  <2>2. \A k \in Keys : Is(k, "bin") => Conv(f, v.obj[k.bin[1]]) = Conv(g, v.obj[k.bin[1]])
    BY <2>1, KeyFacts DEF Conv
  <2>3. m(f) = m(g)
    BY <2>2
  <2>4. TermOf(f, v) = [map |-> m(f)] /\ TermOf(g, v) = [map |-> m(g)]
    BY <1>6, TermOfKinds
  <2> HIDE DEF m
  <2> QED BY <2>3, <2>4
<1> QED BY <1>1, <1>4, <1>5, <1>6, SoundKinds

LEMMA ToErlStable == \A d \in Nat : \A v \in Sound[d] : ToErl[d + 1][v] = ToErl[d][v]
<1> DEFINE T == {d \in Nat : \A v \in Sound[d] : ToErl[d + 1][v] = ToErl[d][v]}
<1>1. 0 \in T
  BY SoundEq
<1>2. ASSUME NEW d \in Nat, d \in T PROVE d + 1 \in T
  <2> DEFINE e == d + 1
  <2>0. e \in Nat /\ e = d + 1
    OBVIOUS
  <2> HIDE DEF e
  <2>1. ASSUME NEW v \in Sound[e] PROVE ToErl[e + 1][v] = ToErl[e][v]
    <3>1. v \in SoundOver(Sound[d], Js[d]) /\ v \in Sound[e + 1]
      BY <2>0, SoundEq, SoundMono
    <3>2. ToErl[e + 1][v] = TermOf(ToErl[e], v) /\ ToErl[e][v] = TermOf(ToErl[d], v)
      BY <2>0, <3>1, ToErlEq
    <3>3. \A x \in Sound[d] : ToErl[e][x] = ToErl[d][x]
      BY <1>2, <2>0
    <3>4. TermOf(ToErl[e], v) = TermOf(ToErl[d], v)
      BY <3>1, <3>3, TermOfLocal
    <3> QED BY <3>2, <3>4
  <2> QED BY <2>0, <2>1
<1> HIDE DEF T
<1>3. \A d \in Nat : d \in T
  BY <1>1, <1>2, AllDepths
<1> QED BY <1>3 DEF T

LEMMA JsOfLocal ==
    ASSUME NEW T, NEW f, NEW g, NEW t \in TermsOver(T), \A x \in T : f[x] = g[x]
    PROVE  JsOf(f, t) = JsOf(g, t)
<1>1. CASE DOMAIN t \in {{"int"}, {"float"}, {"erl"}, {"atom"}, {"bin"}}
  BY <1>1, JsOfKinds
<1>6. CASE t \in [tuple : Seq(T)] /\ DOMAIN t = {"tuple"}
  <2>1. t.tuple \in Seq(T)
    BY <1>6
  <2>2. [i \in DOMAIN t.tuple |-> f[t.tuple[i]]] = [i \in DOMAIN t.tuple |-> g[t.tuple[i]]]
    BY <2>1
  <2> QED BY <1>6, <2>2, JsOfKinds
<1>7. CASE t \in [list : Seq(T)] /\ DOMAIN t = {"list"}
  <2>1. t.list \in Seq(T)
    BY <1>7
  <2>2. [i \in DOMAIN t.list |-> f[t.list[i]]] = [i \in DOMAIN t.list |-> g[t.list[i]]]
    BY <2>1
  <2> QED BY <1>7, <2>2, JsOfKinds
<1>8. CASE t \in Maps(T) /\ DOMAIN t = {"map"}
  <2> DEFINE o(c) == [n \in Names |-> Conv(c, Entry(t.map, n))]
  <2>1. t.map \in [Keys -> T \cup {Nothing}]
    BY <1>8 DEF Maps
  <2>2. \A n \in Names : Entry(t.map, n) \in T \cup {Nothing}
    BY <2>1, EntryType
  <2>3. o(f) = o(g)
    BY <2>2 DEF Conv
  <2>4. JsOf(f, t) = [obj |-> o(f)] /\ JsOf(g, t) = [obj |-> o(g)]
    BY <1>8, JsOfKinds
  <2> HIDE DEF o
  <2> QED BY <2>3, <2>4
<1> QED BY <1>1, <1>6, <1>7, <1>8, TermKinds

LEMMA ToJsStable == \A d \in Nat : \A t \in Terms[d] : ToJs[d + 1][t] = ToJs[d][t]
<1> DEFINE T == {d \in Nat : \A t \in Terms[d] : ToJs[d + 1][t] = ToJs[d][t]}
<1>1. 0 \in T
  BY TermsEq
<1>2. ASSUME NEW d \in Nat, d \in T PROVE d + 1 \in T
  <2> DEFINE e == d + 1
  <2>0. e \in Nat /\ e = d + 1
    OBVIOUS
  <2> HIDE DEF e
  <2>1. ASSUME NEW t \in Terms[e] PROVE ToJs[e + 1][t] = ToJs[e][t]
    <3>1. t \in TermsOver(Terms[d]) /\ t \in Terms[e + 1]
      BY <2>0, TermsEq, TermsMono
    <3>2. ToJs[e + 1][t] = JsOf(ToJs[e], t) /\ ToJs[e][t] = JsOf(ToJs[d], t)
      BY <2>0, <3>1, ToJsEq
    <3>3. \A x \in Terms[d] : ToJs[e][x] = ToJs[d][x]
      BY <1>2, <2>0
    <3>4. JsOf(ToJs[e], t) = JsOf(ToJs[d], t)
      BY <3>1, <3>3, JsOfLocal
    <3> QED BY <3>2, <3>4
  <2> QED BY <2>0, <2>1
<1> HIDE DEF T
<1>3. \A d \in Nat : d \in T
  BY <1>1, <1>2, AllDepths
<1> QED BY <1>3 DEF T

-----------------------------------------------------------------------------
(***************************************************************************)
(* The way to Erlang and back.                                             *)
(***************************************************************************)
Trip(d, v) == ToJs[d][ToErl[d][v]]

LEMMA TripType ==
    ASSUME NEW d \in Nat, NEW v \in Sound[d]
    PROVE  ToErl[d][v] \in Terms[d] /\ Trip(d, v) \in Sound[d]
BY ToErlType, ToJsType DEF Trip

LEMMA TripUnfold ==
    ASSUME NEW d \in Nat, NEW v \in Sound[d + 1]
    PROVE  /\ ToErl[d + 1][v] = TermOf(ToErl[d], v)
           /\ ToErl[d + 1][v] \in Terms[d + 1]
           /\ Trip(d + 1, v) = JsOf(ToJs[d], TermOf(ToErl[d], v))
<1>1. d + 1 \in Nat
  OBVIOUS
<1>2. ToErl[d + 1][v] = TermOf(ToErl[d], v)
  BY ToErlEq
<1>3. ToErl[d + 1][v] \in Terms[d + 1]
  BY <1>1, ToErlType
<1>4. \A t \in Terms[d + 1] : ToJs[d + 1][t] = JsOf(ToJs[d], t)
  BY ToJsEq
<1>5. ToJs[d + 1][ToErl[d + 1][v]] = JsOf(ToJs[d], ToErl[d + 1][v])
  BY <1>3, <1>4
<1> QED BY <1>2, <1>3, <1>5 DEF Trip

LEMMA TripStable ==
    ASSUME NEW d \in Nat, NEW v \in Sound[d]
    PROVE  Trip(d + 1, v) = Trip(d, v)
<1>1. ToErl[d + 1][v] = ToErl[d][v] /\ ToErl[d][v] \in Terms[d]
  BY ToErlStable, ToErlType
<1> QED BY <1>1, ToJsStable DEF Trip

LEMMA TripNumStr ==
    ASSUME NEW d \in Nat, NEW v \in [num : Int] \cup [str : Seq(STRING)]
    PROVE  v \in Sound[d + 1] /\ Trip(d + 1, v) = v
<1>1. v \in Sound[d + 1]
  <2>1. v \in JsLeaf /\ v # Prim("NaN")
    BY DEF JsLeaf, Prim
  <2>2. d + 1 \in Nat /\ d + 1 # 0
    OBVIOUS
  <2> QED BY <2>1, <2>2, LeafSound
<1>2. CASE v \in [num : Int]
  <2>1. DOMAIN v = {"num"} /\ v = [num |-> v.num] /\ v.num \in Int
    BY <1>2
  <2>2. CASE FitsIn(v.num, Int32Max)
    <3>1. TermOf(ToErl[d], v) = [int |-> v.num]
      BY <2>1, <2>2, TermOfKinds
    <3>2. JsOf(ToJs[d], [int |-> v.num]) = IntToJs(v.num)
      BY JsOfKinds
    <3>3. IntToJs(v.num) = [num |-> v.num]
      BY <2>2 DEF IntToJs
    <3> QED BY <1>1, <2>1, <3>1, <3>2, <3>3, TripUnfold
  <2>3. CASE ~FitsIn(v.num, Int32Max)
    <3>1. TermOf(ToErl[d], v) = [float |-> v.num]
      BY <2>1, <2>3, TermOfKinds
    <3>2. JsOf(ToJs[d], [float |-> v.num]) = [num |-> v.num]
      BY JsOfKinds
    <3> QED BY <1>1, <2>1, <3>1, <3>2, TripUnfold
  <2> QED BY <2>2, <2>3
<1>3. CASE v \in [str : Seq(STRING)]
  <2>1. DOMAIN v = {"str"} /\ v = [str |-> v.str]
    BY <1>3
  <2>2. TermOf(ToErl[d], v) = Bin(v.str)
    BY <2>1, TermOfKinds
  <2>3. JsOf(ToJs[d], Bin(v.str)) = [str |-> v.str]
    BY JsOfKinds DEF Bin
  <2> QED BY <1>1, <2>1, <2>2, <2>3, TripUnfold
<1> QED BY <1>2, <1>3

LEMMA TripPrim ==
    ASSUME NEW d \in Nat, NEW x \in Prims \ {"NaN"}
    PROVE  /\ Prim(x) \in Sound[d + 1]
           /\ x \notin {"bigint", "function"} => Trip(d + 1, Prim(x)) = Prim(x)
           /\ x = "bigint" => Trip(d + 1, Prim(x)) = Prim("undefined")
           /\ x = "function" => Trip(d + 1, Prim(x)) = [obj |-> [n \in Names |-> Nothing]]
<1>1. Prim(x) \in Sound[d + 1]
  BY SoundEq DEF SoundOver, JsLeaf, Prim
<1>2. Trip(d + 1, Prim(x)) = JsOf(ToJs[d], PrimToErl(x))
  BY <1>1, TripUnfold, TermOfKinds DEF Prim
<1>3. \A a : JsOf(ToJs[d], Atom(a)) = AtomToJs(a)
  BY JsOfKinds DEF Atom
<1>4. CASE x \in {"true", "false", "undefined"}
  BY <1>1, <1>2, <1>3, <1>4, PrimToErlKinds, AtomToJsKinds
<1>5. CASE x = "null"
  BY <1>1, <1>2, <1>3, <1>5, PrimToErlKinds, AtomToJsKinds
<1>6. CASE x = "bigint"
  BY <1>1, <1>2, <1>3, <1>6, PrimToErlKinds, AtomToJsKinds
<1>7. CASE x = "fraction"
  <2>1. JsOf(ToJs[d], [erl |-> "fraction"]) = Prim("fraction")
    BY JsOfKinds
  <2> QED BY <1>1, <1>2, <1>7, <2>1, PrimToErlKinds
<1>8. CASE x = "function"
  <2> DEFINE m == [k \in Keys |-> Nothing]
  <2>1. \A n \in Names : Conv(ToJs[d], Entry(m, n)) = Nothing
    BY KeyFacts DEF Entry, Conv
  <2>2. JsOf(ToJs[d], [map |-> m]) = [obj |-> [n \in Names |-> Conv(ToJs[d], Entry(m, n))]]
    <3> HIDE DEF m
    <3> QED BY JsOfKinds
  <2>3. [n \in Names |-> Conv(ToJs[d], Entry(m, n))] = [n \in Names |-> Nothing]
    BY <2>1
  <2>4. PrimToErl("function") = [map |-> m]
    BY PrimToErlKinds, EmptyMap
  <2> HIDE DEF m
  <2> QED BY <1>1, <1>2, <1>8, <2>2, <2>3, <2>4
<1> QED BY <1>4, <1>5, <1>6, <1>7, <1>8 DEF Prims

LEMMA TripArr ==
    ASSUME NEW d \in Nat, NEW v \in [arr : Seq(Sound[d])]
    PROVE  /\ v \in Sound[d + 1]
           /\ ToErl[d + 1][v] = [list |-> [i \in DOMAIN v.arr |-> ToErl[d][v.arr[i]]]]
           /\ TakenForText(ToErl[d + 1][v]) =>
                  Trip(d + 1, v) = [str |-> Text[MaxDepth][ToErl[d + 1][v]]]
           /\ ~TakenForText(ToErl[d + 1][v]) =>
                  Trip(d + 1, v) = [arr |-> [i \in DOMAIN v.arr |-> Trip(d, v.arr[i])]]
<1>1. v \in Sound[d + 1] /\ DOMAIN v = {"arr"}
  BY SoundEq DEF SoundOver
<1> DEFINE l == [i \in DOMAIN v.arr |-> ToErl[d][v.arr[i]]]
           t == [list |-> l]
<1>2. ToErl[d + 1][v] = t /\ TermOf(ToErl[d], v) = t
  BY <1>1, TripUnfold, TermOfKinds
<1>3. DOMAIN t = {"list"} /\ t.list = l
  OBVIOUS
<1>4. DOMAIN l = DOMAIN v.arr /\ \A i \in DOMAIN v.arr : l[i] = ToErl[d][v.arr[i]]
  OBVIOUS
<1> HIDE DEF l, t
<1>5. TakenForText(t) => Trip(d + 1, v) = [str |-> Text[MaxDepth][t]]
  BY <1>1, <1>2, TripUnfold, JsOfKinds
<1>6. ~TakenForText(t) => Trip(d + 1, v) = [arr |-> [i \in DOMAIN l |-> ToJs[d][l[i]]]]
  BY <1>1, <1>2, <1>3, TripUnfold, JsOfKinds
<1>7. [i \in DOMAIN l |-> ToJs[d][l[i]]] = [i \in DOMAIN v.arr |-> Trip(d, v.arr[i])]
  BY <1>4 DEF Trip
<1> QED BY <1>1, <1>2, <1>5, <1>6, <1>7 DEF t, l

LEMMA TripPid ==
    ASSUME NEW d \in Nat, NEW v \in Sound[d + 1], DOMAIN v = {"obj"}, IsPidObject(v),
           PidData(v) \in Sound[d]
    PROVE  /\ ToErl[d + 1][v] = ToErl[d][PidData(v)]
           /\ Trip(d + 1, v) = Trip(d, PidData(v))
<1>1. ToErl[d + 1][v] = ToErl[d][PidData(v)]
  BY TripUnfold, TermOfKinds
<1>2. ToErl[d][PidData(v)] \in Terms[d]
  BY ToErlType
<1> QED BY <1>1, <1>2, ToJsStable DEF Trip

LEMMA TripObj ==
    ASSUME NEW d \in Nat, NEW v \in Sound[d + 1], v \in Objs(Sound[d]), DOMAIN v = {"obj"},
           ~IsPidObject(v)
    PROVE  /\ DOMAIN ToErl[d + 1][v] = {"map"}
           /\ \A n \in Names : ToErl[d + 1][v].map[KeyOf(n)] = Conv(ToErl[d], v.obj[n])
           /\ Trip(d + 1, v) =
                  [obj |-> [n \in Names |-> IF v.obj[n] = Nothing THEN Nothing ELSE Trip(d, v.obj[n])]]
<1> DEFINE m == [k \in Keys |-> IF Is(k, "bin") THEN Conv(ToErl[d], v.obj[k.bin[1]]) ELSE Nothing]
           t == [map |-> m]
<1>1. ToErl[d + 1][v] = t /\ TermOf(ToErl[d], v) = t
  BY TripUnfold, TermOfKinds
<1>2. ASSUME NEW n \in Names
      PROVE  m[KeyOf(n)] = Conv(ToErl[d], v.obj[n]) /\ m[Atom(n)] = Nothing
  BY KeyFacts
<1>3. DOMAIN t = {"map"} /\ t.map = m
  OBVIOUS
<1> HIDE DEF m, t
<1>4. ASSUME NEW n \in Names
      PROVE  Conv(ToJs[d], Entry(m, n)) = IF v.obj[n] = Nothing THEN Nothing ELSE Trip(d, v.obj[n])
  <2>1. CASE v.obj[n] = Nothing
    BY <1>2, <2>1 DEF Entry, Conv
  <2>2. CASE v.obj[n] # Nothing
    <3>1. v.obj[n] \in Sound[d]
      BY <2>2 DEF Objs
    <3>2. ToErl[d][v.obj[n]] # Nothing
      BY <3>1, ToErlType, NothingApart
    <3>3. Entry(m, n) = ToErl[d][v.obj[n]]
      BY <1>2, <2>2, <3>2 DEF Entry, Conv
    <3> QED BY <2>2, <3>2, <3>3 DEF Conv, Trip
  <2> QED BY <2>1, <2>2
<1>5. Trip(d + 1, v) = [obj |-> [n \in Names |-> Conv(ToJs[d], Entry(m, n))]]
  BY <1>1, <1>3, TripUnfold, JsOfKinds
<1>6. [n \in Names |-> Conv(ToJs[d], Entry(m, n))]
        = [n \in Names |-> IF v.obj[n] = Nothing THEN Nothing ELSE Trip(d, v.obj[n])]
  BY <1>4
<1> QED BY <1>1, <1>2, <1>3, <1>5, <1>6

-----------------------------------------------------------------------------
(***************************************************************************)
(* Which values survive.  A value of which every part survives is text in  *)
(* Erlang exactly if it is text by the reference definition.               *)
(***************************************************************************)
LEMMA SamePid == \A v : IsPidMap(v) <=> IsPidObject(v)
BY NamesAssumption DEF IsPidMap, IsPidObject, PidType

LEMMA PlainKinds ==
    ASSUME NEW S, NEW v \in PlainOver(S)
    PROVE  \/ v \in JsLeaf /\ v \notin {Prim(x) : x \in {"function", "bigint", "NaN"}}
              /\ DOMAIN v \in {{"num"}, {"js"}, {"str"}}
           \/ v \in [arr : Seq(S)] /\ DOMAIN v = {"arr"} /\ v \notin Texts[MaxDepth]
           \/ v \in Objs(S) /\ DOMAIN v = {"obj"} /\ ~IsPidObject(v)
<1>1. CASE v \in JsLeaf \ {Prim(x) : x \in {"function", "bigint", "NaN"}}
  BY <1>1 DEF JsLeaf
<1>2. CASE v \in [arr : Seq(S)] \ Texts[MaxDepth]
  BY <1>2
<1>3. CASE v \in Objs(S) /\ ~IsPidMap(v)
  BY <1>3, SamePid DEF Objs
<1> QED BY <1>1, <1>2, <1>3 DEF PlainOver

LEMMA IoIsList == \A k \in Nat : \A t \in IoLists[k] : DOMAIN t = {"list"}
<1> SUFFICES ASSUME NEW k \in Nat, NEW t \in IoLists[k] PROVE DOMAIN t = {"list"}
  OBVIOUS
<1>1. k # 0
  BY IoEq
<1>2. k - 1 \in Nat /\ (k - 1) + 1 = k
  BY <1>1
<1>3. t \in IoListsOver(IoLists[k - 1])
  BY <1>2, IoEq
<1> QED BY <1>3 DEF IoListsOver

LEMMA TextsIsArr == \A k \in Nat : \A v \in Texts[k] : DOMAIN v = {"arr"}
<1> SUFFICES ASSUME NEW k \in Nat, NEW v \in Texts[k] PROVE DOMAIN v = {"arr"}
  OBVIOUS
<1>1. k # 0
  BY TextsEq
<1>2. k - 1 \in Nat /\ (k - 1) + 1 = k
  BY <1>1
<1>3. v \in [arr : Seq([num : 0..ByteMax] \cup [str : Seq(STRING)] \cup Texts[k - 1])]
  BY <1>2, TextsEq
<1> QED BY <1>3

\* What may be in an iolist, and in an array that is text.
IoElems(k)   == [int : 0..ByteMax] \cup [bin : Seq(STRING)] \cup IoLists[k]
TextElems(k) == [num : 0..ByteMax] \cup [str : Seq(STRING)] \cup Texts[k]

\* An element that is no array, by its kind.
LEMMA LeafElems ==
    ASSUME NEW k \in Nat, NEW d \in Nat, NEW c \in Sound[d + 1], DOMAIN c # {"arr"},
           DOMAIN c = {"obj"} => ~IsPidObject(c)
    PROVE  ToErl[d + 1][c] \in IoElems(k) <=> c \in TextElems(k)
<1>0. c \in SoundOver(Sound[d], Js[d]) /\ ToErl[d + 1][c] = TermOf(ToErl[d], c)
  BY SoundEq, TripUnfold
<1> DEFINE t == ToErl[d + 1][c]
<1>1. ASSUME DOMAIN t \notin {{"int"}, {"bin"}, {"list"}}
      PROVE  t \notin IoElems(k)
  <2> HIDE DEF t
  <2> QED BY <1>1, IoIsList DEF IoElems
<1>2. ASSUME DOMAIN c \notin {{"num"}, {"str"}, {"arr"}}
      PROVE  c \notin TextElems(k)
  BY <1>2, TextsIsArr DEF TextElems
<1>3. CASE c \in [num : Int] /\ DOMAIN c = {"num"}
  <2>1. c \in TextElems(k) <=> c.num \in 0..ByteMax
    BY <1>3, TextsIsArr DEF TextElems
  <2>2. c.num \in 0..ByteMax => FitsIn(c.num, Int32Max)
    BY <1>3, WidthAssumption DEF FitsIn
  <2>3. CASE FitsIn(c.num, Int32Max)
    <3>1. t = [int |-> c.num]
      BY <1>0, <1>3, <2>3, TermOfKinds
    <3>2. DOMAIN t = {"int"} /\ t.int = c.num
      BY <3>1
    <3> HIDE DEF t
    <3>3. t \in IoElems(k) <=> c.num \in 0..ByteMax
      BY <3>1, <3>2, IoIsList DEF IoElems
    <3> QED BY <2>1, <3>3 DEF t
  <2>4. CASE ~FitsIn(c.num, Int32Max)
    <3>1. t = [float |-> c.num]
      BY <1>0, <1>3, <2>4, TermOfKinds
    <3>2. DOMAIN t = {"float"}
      BY <3>1
    <3> HIDE DEF t
    <3>3. t \notin IoElems(k)
      BY <1>1, <3>2
    <3> QED BY <2>1, <2>2, <2>4, <3>3 DEF t
  <2> QED BY <2>3, <2>4
<1>4. CASE c \in [js : Prims \ {"NaN"}] /\ DOMAIN c = {"js"}
  <2>1. t = PrimToErl(c.js) /\ c.js \in Prims \ {"NaN"}
    BY <1>0, <1>4, TermOfKinds
  <2>2. /\ \A a : DOMAIN Atom(a) = {"atom"}
        /\ DOMAIN [erl |-> "fraction"] = {"erl"}
        /\ DOMAIN MapOf(<<>>) = {"map"}
    BY DEF Atom, MapOf
  <2>3. DOMAIN t \in {{"atom"}, {"erl"}, {"map"}}
    <3> HIDE DEF t
    <3> QED BY <2>1, <2>2, PrimToErlKinds DEF Prims
  <2> HIDE DEF t
  <2>4. t \notin IoElems(k)
    BY <1>1, <2>3
  <2> QED BY <1>2, <1>4, <2>4 DEF t
<1>5. CASE c \in [str : Seq(STRING)] /\ DOMAIN c = {"str"}
  <2>1. t = Bin(c.str) /\ c.str \in Seq(STRING)
    BY <1>0, <1>5, TermOfKinds
  <2> QED BY <1>5, <2>1 DEF IoElems, TextElems, Bin
<1>6. CASE c \in Objs(Sound[d]) /\ DOMAIN c = {"obj"} /\ ~IsPidObject(c)
  <2>1. DOMAIN t = {"map"}
    BY <1>6, TripObj
  <2> HIDE DEF t
  <2>2. t \notin IoElems(k)
    BY <1>1, <2>1
  <2> QED BY <1>2, <1>6, <2>2 DEF t
<1> HIDE DEF t
<1> QED BY <1>0, <1>3, <1>4, <1>5, <1>6, SoundKinds

\* Arrays of values that survive.
PlainArrays(d) == [arr : Seq(Sound[d] \cap Plain[d])]

LEMMA TextIff ==
    \A k \in Nat : \A d \in Nat : \A v \in PlainArrays(d) :
        ToErl[d + 1][v] \in IoLists[k] <=> v \in Texts[k]
<1> DEFINE P(k) == \A d \in Nat : \A v \in PlainArrays(d) :
                       ToErl[d + 1][v] \in IoLists[k] <=> v \in Texts[k]
           T == {k \in Nat : P(k)}
<1>1. 0 \in T
  BY IoEq, TextsEq
<1>2. ASSUME NEW k \in Nat, k \in T PROVE k + 1 \in T
  <2>0. P(k)
    BY <1>2
  <2>1. ASSUME NEW d \in Nat, NEW c \in Sound[d] \cap Plain[d]
        PROVE  ToErl[d][c] \in IoElems(k) <=> c \in TextElems(k)
    <3>1. d # 0
      BY SoundEq
    <3>2. PICK e \in Nat : d = e + 1
      BY <3>1, d - 1 \in Nat, d = (d - 1) + 1
    <3>3. c \in SoundOver(Sound[e], Js[e]) /\ c \in PlainOver(Plain[e]) /\ c \in Sound[e + 1]
      BY <3>2, SoundEq, PlainEq
    <3>4. CASE DOMAIN c = {"arr"}
      <4>1. c \in [arr : Seq(Sound[e])]
        BY <3>3, <3>4, SoundKinds
      <4>2. c \in [arr : Seq(Plain[e])]
        BY <3>3, <3>4, PlainKinds
      <4>3. c.arr \in Seq(Sound[e] \cap Plain[e])
        BY <4>1, <4>2
      <4>4. c \in PlainArrays(e)
        BY <4>1, <4>3 DEF PlainArrays
      <4>5. ToErl[e + 1][c] \in IoLists[k] <=> c \in Texts[k]
        BY <2>0, <4>4
      <4>6. DOMAIN ToErl[e + 1][c] = {"list"}
        <5>1. ToErl[e + 1][c] = [list |-> [i \in DOMAIN c.arr |-> ToErl[e][c.arr[i]]]]
          BY <4>1, TripArr
        <5> QED BY <5>1
      <4>7. c \in TextElems(k) <=> c \in Texts[k]
        BY <3>4 DEF TextElems
      <4>8. ToErl[e + 1][c] \in IoElems(k) <=> ToErl[e + 1][c] \in IoLists[k]
        BY <4>6 DEF IoElems
      <4> QED BY <3>2, <4>5, <4>7, <4>8
    <3>5. CASE DOMAIN c # {"arr"}
      <4>1. DOMAIN c = {"obj"} => ~IsPidObject(c)
        BY <3>3, PlainKinds
      <4> QED BY <3>2, <3>3, <3>5, <4>1, LeafElems
    <3> QED BY <3>4, <3>5
  <2>2. ASSUME NEW d \in Nat, NEW v \in PlainArrays(d)
        PROVE  ToErl[d + 1][v] \in IoLists[k + 1] <=> v \in Texts[k + 1]
    <3>1. /\ v \in [arr : Seq(Sound[d])]
          /\ v.arr \in Seq(Sound[d] \cap Plain[d])
      BY DEF PlainArrays
    <3> DEFINE l == [i \in DOMAIN v.arr |-> ToErl[d][v.arr[i]]]
    <3>2. ToErl[d + 1][v] = [list |-> l]
      BY <3>1, TripArr
    <3>3. IoLists[k + 1] = [list : Seq(IoElems(k))] /\ Texts[k + 1] = [arr : Seq(TextElems(k))]
      BY IoEq, TextsEq DEF IoListsOver, IoElems, TextElems
    <3>4. DOMAIN v.arr = 1..Len(v.arr) /\ Len(v.arr) \in Nat
      BY <3>1
    <3>5. \A i \in 1..Len(v.arr) : l[i] \in IoElems(k) <=> v.arr[i] \in TextElems(k)
      BY <2>1, <3>1, <3>4
    <3>6. DOMAIN l = 1..Len(v.arr) /\ l = [i \in 1..Len(v.arr) |-> l[i]]
      BY <3>4
    <3> HIDE DEF l
    <3>7. l \in Seq(IoElems(k)) <=> \A i \in 1..Len(v.arr) : l[i] \in IoElems(k)
      <4>1. ASSUME l \in Seq(IoElems(k)), NEW i \in 1..Len(v.arr) PROVE l[i] \in IoElems(k)
        <5>1. i \in DOMAIN l
          BY <3>6
        <5> QED BY <4>1, <5>1
      <4>2. ASSUME \A i \in 1..Len(v.arr) : l[i] \in IoElems(k) PROVE l \in Seq(IoElems(k))
        <5>1. [i \in 1..Len(v.arr) |-> l[i]] \in Seq(IoElems(k))
          BY <3>4, <4>2
        <5> QED BY <3>6, <5>1
      <4> QED BY <4>1, <4>2
    <3>8. v.arr \in Seq(TextElems(k)) <=> \A i \in 1..Len(v.arr) : v.arr[i] \in TextElems(k)
      BY <3>1, <3>4
    <3>9. v \in [arr : Seq(TextElems(k))] <=> v.arr \in Seq(TextElems(k))
      BY <3>1
    <3> QED BY <3>2, <3>3, <3>5, <3>7, <3>8, <3>9
  <2> QED BY <2>2
<1> HIDE DEF T, P
<1>3. \A k \in Nat : k \in T
  BY <1>1, <1>2, AllDepths
<1> QED BY <1>3 DEF T, P

\* An array comes back as it was exactly if its elements do and it is not
\* text.
LEMMA ArrFixed ==
    ASSUME NEW d \in Nat, \A x \in Sound[d] : Trip(d, x) = x <=> x \in Plain[d],
           NEW v \in [arr : Seq(Sound[d])]
    PROVE  Trip(d + 1, v) = v <=> v \in Plain[d + 1]
<1>0. DOMAIN v = {"arr"} /\ v = [arr |-> v.arr] /\ v.arr \in Seq(Sound[d])
  OBVIOUS
<1>1. DOMAIN v.arr = 1..Len(v.arr) /\ Len(v.arr) \in Nat /\ \A i \in DOMAIN v.arr : v.arr[i] \in Sound[d]
  BY <1>0
<1>2. v \in Plain[d + 1] <=> v \in [arr : Seq(Plain[d])] /\ v \notin Texts[MaxDepth]
  <2>1. Plain[d + 1] = PlainOver(Plain[d])
    BY PlainEq
  <2>2. v \in PlainOver(Plain[d]) => v \in [arr : Seq(Plain[d])] /\ v \notin Texts[MaxDepth]
    BY <1>0, PlainKinds
  <2> QED BY <2>1, <2>2 DEF PlainOver
<1>3. ASSUME v \in [arr : Seq(Plain[d])]
      PROVE  TakenForText(ToErl[d + 1][v]) <=> v \in Texts[MaxDepth]
  <2>1. v.arr \in Seq(Sound[d] \cap Plain[d])
    BY <1>0, <1>3
  <2>2. v \in PlainArrays(d)
    BY <1>0, <2>1 DEF PlainArrays
  <2> QED BY <2>2, TextIff, DepthAssumption DEF TakenForText
<1>4. CASE TakenForText(ToErl[d + 1][v])
  <2>1. Trip(d + 1, v) = [str |-> Text[MaxDepth][ToErl[d + 1][v]]]
    BY <1>4, TripArr
  <2>2. DOMAIN Trip(d + 1, v) = {"str"}
    BY <2>1
  <2>3. Trip(d + 1, v) # v
    BY <1>0, <2>2
  <2> QED BY <1>2, <1>3, <1>4, <2>3
<1>5. CASE ~TakenForText(ToErl[d + 1][v])
  <2> DEFINE w == [i \in DOMAIN v.arr |-> Trip(d, v.arr[i])]
  <2>1. Trip(d + 1, v) = [arr |-> w]
    BY <1>5, TripArr
  <2>2. w = v.arr <=> \A i \in DOMAIN v.arr : Trip(d, v.arr[i]) = v.arr[i]
    BY <1>0
  <2> HIDE DEF w
  <2>3. Trip(d + 1, v) = v <=> w = v.arr
    BY <1>0, <2>1
  <2>4. (\A i \in DOMAIN v.arr : Trip(d, v.arr[i]) = v.arr[i])
          <=> \A i \in DOMAIN v.arr : v.arr[i] \in Plain[d]
    BY <1>1
  <2>5. (\A i \in DOMAIN v.arr : v.arr[i] \in Plain[d]) <=> v \in [arr : Seq(Plain[d])]
    BY <1>0, <1>1
  <2> QED BY <1>2, <1>3, <1>5, <2>2, <2>3, <2>4, <2>5
<1> QED BY <1>4, <1>5

\* An object that is not taken for a pid keeps its properties exactly if
\* they survive.
LEMMA ObjFixed ==
    ASSUME NEW d \in Nat, \A x \in Sound[d] : Trip(d, x) = x <=> x \in Plain[d],
           NEW v \in Sound[d + 1], v \in Objs(Sound[d]), DOMAIN v = {"obj"}, ~IsPidObject(v)
    PROVE  Trip(d + 1, v) = v <=> v \in Plain[d + 1]
<1> DEFINE w == [n \in Names |-> IF v.obj[n] = Nothing THEN Nothing ELSE Trip(d, v.obj[n])]
<1>1. Trip(d + 1, v) = [obj |-> w]
  BY TripObj
<1>2. v = [obj |-> v.obj] /\ v.obj \in [Names -> Sound[d] \cup {Nothing}]
  BY DEF Objs
<1>3. w = v.obj <=> \A n \in Names : v.obj[n] = Nothing \/ Trip(d, v.obj[n]) = v.obj[n]
  BY <1>2
<1> HIDE DEF w
<1>4. Trip(d + 1, v) = v <=> w = v.obj
  BY <1>1, <1>2
<1>5. (\A n \in Names : v.obj[n] = Nothing \/ Trip(d, v.obj[n]) = v.obj[n])
        <=> \A n \in Names : v.obj[n] \in Plain[d] \cup {Nothing}
  BY <1>2
<1>6. (\A n \in Names : v.obj[n] \in Plain[d] \cup {Nothing}) <=> v \in Objs(Plain[d])
  BY <1>2 DEF Objs
<1>7. v \in Plain[d + 1] <=> v \in Objs(Plain[d])
  <2>1. Plain[d + 1] = PlainOver(Plain[d])
    BY PlainEq
  <2>2. v \in PlainOver(Plain[d]) => v \in Objs(Plain[d])
    BY PlainKinds
  <2> QED BY <2>1, <2>2, SamePid DEF PlainOver
<1> QED BY <1>3, <1>4, <1>5, <1>6, <1>7

LEMMA LeafFixed ==
    ASSUME NEW d \in Nat, NEW v \in JsLeaf, v # Prim("NaN")
    PROVE  /\ Trip(d + 1, v) = v <=> v \in Plain[d + 1]
           /\ Trip(d + 1, v) = v \/ v \in {Prim("bigint"), Prim("function")}
<1>0. Plain[d + 1] = PlainOver(Plain[d])
  BY PlainEq
<1>1. CASE v \in [num : Int] \cup [str : Seq(STRING)]
  <2>1. v \notin {Prim(x) : x \in {"function", "bigint", "NaN"}}
    BY <1>1 DEF Prim
  <2>2. v \in Plain[d + 1]
    BY <1>0, <2>1 DEF PlainOver
  <2> QED BY <1>1, <2>2, TripNumStr
<1>2. CASE v \in [js : Prims]
  <2>1. v = Prim(v.js) /\ v.js \in Prims \ {"NaN"}
    BY <1>2 DEF Prim
  <2>2. \A x, y : Prim(x) = Prim(y) <=> x = y
    BY DEF Prim
  <2>3. DOMAIN v = {"js"}
    BY <1>2
  <2>4. v \in Plain[d + 1] <=> v.js \notin {"function", "bigint"}
    <3>1. v.js \in {"function", "bigint"} => v \in {Prim(x) : x \in {"function", "bigint", "NaN"}}
      BY <2>1
    <3>2. v.js \notin {"function", "bigint"} => v \notin {Prim(x) : x \in {"function", "bigint", "NaN"}}
      BY <2>1, <2>2
    <3>3. v \in Plain[d + 1] => v \notin {Prim(x) : x \in {"function", "bigint", "NaN"}}
      <4>1. {"js"} # {"arr"} /\ {"js"} # {"obj"}
        OBVIOUS
      <4>2. ASSUME v \in PlainOver(Plain[d])
            PROVE  v \notin {Prim(x) : x \in {"function", "bigint", "NaN"}}
        BY ONLY <2>3, <4>1, <4>2, PlainKinds
      <4> QED BY ONLY <1>0, <4>2
    <3> QED BY <1>0, <3>1, <3>2, <3>3 DEF PlainOver
  <2>5. CASE v.js \notin {"function", "bigint"}
    BY <2>1, <2>4, <2>5, TripPrim
  <2>6. CASE v.js = "bigint"
    <3>1. Trip(d + 1, v) = Prim("undefined")
      BY <2>1, <2>6, TripPrim
    <3> QED BY <2>1, <2>2, <2>4, <2>6, <3>1
  <2>7. CASE v.js = "function"
    <3>1. Trip(d + 1, v) = [obj |-> [n \in Names |-> Nothing]]
      BY <2>1, <2>7, TripPrim
    <3>2. Trip(d + 1, v) # v
      BY <2>3, <3>1
    <3> QED BY <2>1, <2>4, <2>7, <3>2
  <2> QED BY <2>5, <2>6, <2>7
<1> QED BY <1>1, <1>2 DEF JsLeaf

\* A value comes back as it was exactly if it is plain.  What is taken for a
\* pid comes back as what its data comes back as, which nests less.
LEMMA TripFixed == \A d \in Nat : \A v \in Sound[d] : Trip(d, v) = v <=> v \in Plain[d]
<1> DEFINE P(d) == \A v \in Sound[d] : Trip(d, v) = v <=> v \in Plain[d]
           T == {d \in Nat : P(d)}
<1>1. 0 \in T
  BY SoundEq
<1>2. ASSUME NEW d \in Nat, d \in T PROVE d + 1 \in T
  <2>0. P(d)
    BY <1>2
  <2>1. ASSUME NEW v \in Sound[d + 1] PROVE Trip(d + 1, v) = v <=> v \in Plain[d + 1]
    <3>0. v \in SoundOver(Sound[d], Js[d])
      BY SoundEq
    <3>1. CASE DOMAIN v \in {{"num"}, {"str"}, {"js"}}
      <4>1. v \in JsLeaf /\ v # Prim("NaN")
        BY <3>0, <3>1, SoundKinds DEF JsLeaf, Prim
      <4> QED BY <4>1, LeafFixed
    <3>2. CASE v \in [arr : Seq(Sound[d])]
      BY <2>0, <3>2, ArrFixed
    <3>3. CASE DOMAIN v = {"obj"} /\ IsPidObject(v) /\ PidData(v) \in Sound[d]
      <4>1. Trip(d + 1, v) = Trip(d, PidData(v)) /\ Trip(d, PidData(v)) \in Sound[d]
        BY <3>3, TripPid, TripType
      <4>2. v \notin Plain[d + 1]
        <5>1. Plain[d + 1] = PlainOver(Plain[d])
          BY PlainEq
        <5> QED BY <3>3, <5>1, PlainKinds
      <4>3. ASSUME Trip(d + 1, v) = v PROVE FALSE
        <5>1. v \in Sound[d]
          BY <4>1, <4>3
        <5>2. Trip(d, v) = v
          BY <4>3, <5>1, TripStable
        <5>3. v \in Plain[d] /\ d # 0
          BY <2>0, <5>1, <5>2, SoundEq
        <5>4. PICK e \in Nat : d = e + 1
          BY <5>3, d - 1 \in Nat, d = (d - 1) + 1
        <5>5. v \in PlainOver(Plain[e])
          BY <5>3, <5>4, PlainEq
        <5> QED BY <3>3, <5>5, PlainKinds
      <4> QED BY <4>2, <4>3
    <3>4. CASE v \in Objs(Sound[d]) /\ DOMAIN v = {"obj"} /\ ~IsPidObject(v)
      BY <2>0, <3>4, ObjFixed
    <3> QED BY <3>0, <3>1, <3>2, <3>3, <3>4, SoundKinds
  <2> QED BY <2>1
<1> HIDE DEF T, P
<1>3. \A d \in Nat : d \in T
  BY <1>1, <1>2, AllDepths
<1> QED BY <1>3 DEF T, P

-----------------------------------------------------------------------------
(***************************************************************************)
(* What came back stays.  The text that an array becomes, at whatever      *)
(* depth, does not make the arrays around it text: they were text before.  *)
(***************************************************************************)
\* An iolist of some nesting is one of its own nesting.
LEMMA IoShallow == \A j \in Nat : \A k \in Nat : \A t \in Terms[j] : t \in IoLists[k] => t \in IoLists[j]
<1> DEFINE P(j) == \A k \in Nat : \A t \in Terms[j] : t \in IoLists[k] => t \in IoLists[j]
           T == {j \in Nat : P(j)}
<1>1. 0 \in T
  BY TermsEq
<1>2. ASSUME NEW j \in Nat, j \in T PROVE j + 1 \in T
  <2>0. P(j)
    BY <1>2
  <2>1. ASSUME NEW k \in Nat, NEW t \in Terms[j + 1], t \in IoLists[k] PROVE t \in IoLists[j + 1]
    <3>1. k # 0
      BY <2>1, IoEq
    <3>2. PICK m \in Nat : k = m + 1
      BY <3>1, k - 1 \in Nat, k = (k - 1) + 1
    <3>3. t \in [list : Seq(IoElems(m))]
      BY <2>1, <3>2, IoEq DEF IoListsOver, IoElems
    <3>4. t \in TermsOver(Terms[j]) /\ DOMAIN t = {"list"}
      BY <2>1, <3>3, TermsEq
    <3>5. t \in [list : Seq(Terms[j])]
      BY <3>4, TermKinds
    <3>6. \A i \in DOMAIN t.list : t.list[i] \in IoElems(m) /\ t.list[i] \in Terms[j]
      BY <3>3, <3>5
    <3>7. \A i \in DOMAIN t.list : t.list[i] \in IoElems(j)
      BY <2>0, <3>6 DEF IoElems
    <3>8. t.list \in Seq(IoElems(j))
      BY <3>5, <3>7
    <3>9. t \in [list : Seq(IoElems(j))]
      BY <3>5, <3>8
    <3> QED BY <3>9, IoEq DEF IoListsOver, IoElems
  <2> QED BY <2>1
<1> HIDE DEF T, P
<1>3. \A j \in Nat : j \in T
  BY <1>1, <1>2, AllDepths
<1> QED BY <1>3 DEF T, P

LEMMA IoMono == \A j \in Nat : IoLists[j] \subseteq IoLists[j + 1]
<1> DEFINE T == {j \in Nat : IoLists[j] \subseteq IoLists[j + 1]}
<1>1. 0 \in T
  BY IoEq
<1>2. ASSUME NEW j \in Nat, j \in T PROVE j + 1 \in T
  <2>1. IoElems(j) \subseteq IoElems(j + 1)
    BY <1>2 DEF IoElems
  <2>2. Seq(IoElems(j)) \subseteq Seq(IoElems(j + 1))
    BY <2>1, SeqMono
  <2>3. [list : Seq(IoElems(j))] \subseteq [list : Seq(IoElems(j + 1))]
    BY <2>2
  <2> QED BY <2>3, IoEq, j + 1 \in Nat DEF IoListsOver, IoElems
<1> HIDE DEF T
<1>3. \A j \in Nat : j \in T
  BY <1>1, <1>2, AllDepths
<1> QED BY <1>3 DEF T

LEMMA IoUpTo == \A j \in Nat : j <= MaxDepth => IoLists[j] \subseteq IoLists[MaxDepth]
<1> SUFFICES ASSUME NEW j \in Nat, j <= MaxDepth PROVE IoLists[j] \subseteq IoLists[MaxDepth]
  OBVIOUS
<1> DEFINE T == {m \in Nat : IoLists[j] \subseteq IoLists[j + m]}
<1>1. 0 \in T
  OBVIOUS
<1>2. ASSUME NEW m \in Nat, m \in T PROVE m + 1 \in T
  <2>1. j + m \in Nat /\ (j + m) + 1 = j + (m + 1)
    OBVIOUS
  <2> QED BY <1>2, <2>1, IoMono
<1> HIDE DEF T
<1>3. \A m \in Nat : m \in T
  BY <1>1, <1>2, AllDepths
<1>4. MaxDepth - j \in Nat /\ j + (MaxDepth - j) = MaxDepth
  BY DepthAssumption
<1>5. IoLists[j] \subseteq IoLists[j + (MaxDepth - j)]
  BY <1>3, <1>4 DEF T
<1> QED BY <1>4, <1>5

LEMMA TextsMono == \A k \in Nat : Texts[k] \subseteq Texts[k + 1]
<1> DEFINE T == {k \in Nat : Texts[k] \subseteq Texts[k + 1]}
<1>1. 0 \in T
  BY TextsEq
<1>2. ASSUME NEW k \in Nat, k \in T PROVE k + 1 \in T
  <2>1. TextElems(k) \subseteq TextElems(k + 1)
    BY <1>2 DEF TextElems
  <2>2. Seq(TextElems(k)) \subseteq Seq(TextElems(k + 1))
    BY <2>1, SeqMono
  <2>3. [arr : Seq(TextElems(k))] \subseteq [arr : Seq(TextElems(k + 1))]
    BY <2>2
  <2> QED BY <2>3, TextsEq, k + 1 \in Nat DEF TextElems
<1> HIDE DEF T
<1>3. \A k \in Nat : k \in T
  BY <1>1, <1>2, AllDepths
<1> QED BY <1>3 DEF T

LEMMA PlainMono == \A d \in Nat : Plain[d] \subseteq Plain[d + 1]
<1> DEFINE T == {d \in Nat : Plain[d] \subseteq Plain[d + 1]}
<1>1. 0 \in T
  BY PlainEq
<1>2. ASSUME NEW d \in Nat, d \in T PROVE d + 1 \in T
  <2>1. Seq(Plain[d]) \subseteq Seq(Plain[d + 1]) /\ Objs(Plain[d]) \subseteq Objs(Plain[d + 1])
    BY <1>2, SeqMono, ObjsMono
  <2>2. PlainOver(Plain[d]) \subseteq PlainOver(Plain[d + 1])
    BY <2>1 DEF PlainOver
  <2> QED BY <2>2, PlainEq, d + 1 \in Nat
<1> HIDE DEF T
<1>3. \A d \in Nat : d \in T
  BY <1>1, <1>2, AllDepths
<1> QED BY <1>3 DEF T

\* What comes back as a byte or as text was a byte or text in Erlang.
LEMMA TripElem ==
    \A d \in Nat : \A c \in Sound[d] :
        Trip(d, c) \in [num : 0..ByteMax] \cup [str : Seq(STRING)] => ToErl[d][c] \in IoElems(MaxDepth)
<1> DEFINE Out == [num : 0..ByteMax] \cup [str : Seq(STRING)]
           P(d) == \A c \in Sound[d] : Trip(d, c) \in Out => ToErl[d][c] \in IoElems(MaxDepth)
           T == {d \in Nat : P(d)}
<1>0. \A x : x \in Out => DOMAIN x \in {{"num"}, {"str"}}
  OBVIOUS
<1>1. 0 \in T
  BY SoundEq
<1>2. ASSUME NEW d \in Nat, d \in T PROVE d + 1 \in T
  <2>0. P(d)
    BY <1>2
  <2>1. ASSUME NEW c \in Sound[d + 1], Trip(d + 1, c) \in Out
        PROVE  ToErl[d + 1][c] \in IoElems(MaxDepth)
    <3>0. c \in SoundOver(Sound[d], Js[d]) /\ DOMAIN Trip(d + 1, c) \in {{"num"}, {"str"}}
      BY <1>0, <2>1, SoundEq
    <3>1. CASE \/ c \in [num : Int] /\ DOMAIN c = {"num"}
               \/ c \in [str : Seq(STRING)] /\ DOMAIN c = {"str"}
      <4>1. Trip(d + 1, c) = c
        BY <3>1, TripNumStr
      <4>2. c \in TextElems(MaxDepth)
        BY <2>1, <4>1 DEF TextElems
      <4>3. DOMAIN c # {"arr"} /\ (DOMAIN c = {"obj"} => ~IsPidObject(c)) /\ MaxDepth \in Nat
        BY <3>1, DepthAssumption
      <4>4. ToErl[d + 1][c] \in IoElems(MaxDepth) <=> c \in TextElems(MaxDepth)
        BY <4>3, LeafElems
      <4> QED BY <4>2, <4>4
    <3>2. CASE c \in [js : Prims \ {"NaN"}] /\ DOMAIN c = {"js"}
      <4>1. c = Prim(c.js) /\ c.js \in Prims \ {"NaN"}
        BY <3>2 DEF Prim
      <4>2. Trip(d + 1, c) \in {c, Prim("undefined"), [obj |-> [n \in Names |-> Nothing]]}
        BY <4>1, TripPrim
      <4>3. DOMAIN Trip(d + 1, c) \in {{"js"}, {"obj"}}
        BY <3>2, <4>2 DEF Prim
      <4> QED BY <3>0, <4>3
    <3>3. CASE c \in [arr : Seq(Sound[d])]
      <4>1. CASE TakenForText(ToErl[d + 1][c])
        BY <4>1 DEF TakenForText, IoElems
      <4>2. CASE ~TakenForText(ToErl[d + 1][c])
        <5>1. Trip(d + 1, c) = [arr |-> [i \in DOMAIN c.arr |-> Trip(d, c.arr[i])]]
          BY <3>3, <4>2, TripArr
        <5>2. DOMAIN Trip(d + 1, c) = {"arr"}
          BY <5>1
        <5> QED BY <3>0, <5>2
      <4> QED BY <4>1, <4>2
    <3>4. CASE DOMAIN c = {"obj"} /\ IsPidObject(c) /\ PidData(c) \in Sound[d]
      BY <2>0, <2>1, <3>4, TripPid
    <3>5. CASE c \in Objs(Sound[d]) /\ DOMAIN c = {"obj"} /\ ~IsPidObject(c)
      <4> DEFINE w == [n \in Names |-> IF c.obj[n] = Nothing THEN Nothing ELSE Trip(d, c.obj[n])]
      <4>1. Trip(d + 1, c) = [obj |-> w]
        BY <3>5, TripObj
      <4>2. DOMAIN Trip(d + 1, c) = {"obj"}
        BY <4>1
      <4> QED BY <3>0, <4>2
    <3> QED BY <3>0, <3>1, <3>2, <3>3, <3>4, <3>5, SoundKinds
  <2> QED BY <2>1
<1> HIDE DEF T, P
<1>3. \A d \in Nat : d \in T
  BY <1>1, <1>2, AllDepths
<1> QED BY <1>3 DEF T, P

LEMMA TameKinds ==
    ASSUME NEW S, NEW v \in TameOver(S)
    PROVE  \/ v \in JsLeaf /\ DOMAIN v \in {{"num"}, {"js"}, {"str"}}
           \/ v \in [arr : Seq(S)] /\ DOMAIN v = {"arr"}
           \/ v \in Objs(S) /\ DOMAIN v = {"obj"} /\ v.obj[PidType] \in JsLeaf \cup {Nothing}
BY DEF TameOver, JsLeaf, Objs, PidType

\* What is taken for a pid has tame data, if it is tame.
LEMMA TameData ==
    ASSUME NEW d \in Nat, NEW v \in Tame[d + 1], DOMAIN v = {"obj"}, d # 0
    PROVE  PidData(v) \in Tame[d]
<1>1. v \in TameOver(Tame[d])
  BY TameEq
<1>2. v \in Objs(Tame[d])
  BY <1>1, TameKinds
<1>3. v.obj[PidProp] \in Tame[d] \cup {Nothing}
  BY <1>2, NamesAssumption DEF Objs
<1>4. PICK e \in Nat : d = e + 1
  BY d - 1 \in Nat, d = (d - 1) + 1
<1>5. Prim("undefined") \in Tame[d]
  BY <1>4, TameEq DEF TameOver, JsLeaf, Prim, Prims
<1> QED BY <1>3, <1>5 DEF PidData

LEMMA ArrPlain ==
    ASSUME NEW d \in Nat, d + 1 <= MaxDepth, NEW v \in [arr : Seq(Sound[d])],
           \A i \in DOMAIN v.arr : Trip(d, v.arr[i]) \in Plain[d]
    PROVE  Trip(d + 1, v) \in Plain[d + 1]
<1>0. v.arr \in Seq(Sound[d]) /\ Plain[d + 1] = PlainOver(Plain[d])
  BY PlainEq
<1>1. DOMAIN v.arr = 1..Len(v.arr) /\ Len(v.arr) \in Nat /\ \A i \in DOMAIN v.arr : v.arr[i] \in Sound[d]
  BY <1>0
<1>2. v \in Sound[d + 1] /\ d + 1 \in Nat
  <2>1. v \in Sound[d + 1]
    BY TripArr
  <2> QED BY <2>1
<1> DEFINE t == ToErl[d + 1][v]
<1>3. CASE TakenForText(t)
  <2>1. Text[MaxDepth][t] \in Seq(STRING)
    BY <1>3, TextType, DepthAssumption DEF TakenForText
  <2>2. Trip(d + 1, v) = [str |-> Text[MaxDepth][t]]
    BY <1>3, TripArr
  <2> HIDE DEF t
  <2>3. Trip(d + 1, v) \in JsLeaf /\ DOMAIN Trip(d + 1, v) = {"str"}
    BY <2>1, <2>2 DEF JsLeaf
  <2>4. \A x : DOMAIN Prim(x) = {"js"}
    BY DEF Prim
  <2> QED BY <1>0, <2>3, <2>4 DEF PlainOver
<1>4. CASE ~TakenForText(t)
  <2> DEFINE w == [i \in DOMAIN v.arr |-> Trip(d, v.arr[i])]
  <2>1. Trip(d + 1, v) = [arr |-> w]
    BY <1>4, TripArr
  <2>2. w \in Seq(Plain[d]) /\ DOMAIN w = DOMAIN v.arr
    BY <1>1
  <2>3. \A i \in DOMAIN v.arr : w[i] = Trip(d, v.arr[i]) /\ w[i] \in Plain[d]
    OBVIOUS
  <2> HIDE DEF w
  <2>4. ASSUME [arr |-> w] \in Texts[MaxDepth] PROVE FALSE
    <3>1. PICK m \in Nat : MaxDepth = m + 1
      BY DepthAssumption, MaxDepth - 1 \in Nat, MaxDepth = (MaxDepth - 1) + 1
    <3>2. [arr |-> w] \in [arr : Seq(TextElems(m))]
      BY <2>4, <3>1, TextsEq DEF TextElems
    <3>3. w \in Seq(TextElems(m))
      BY <3>2
    <3>4. ASSUME NEW i \in DOMAIN v.arr PROVE ToErl[d][v.arr[i]] \in IoElems(MaxDepth)
      <4>1. w[i] \in TextElems(m) /\ w[i] \in Plain[d] /\ w[i] = Trip(d, v.arr[i])
        BY <2>2, <2>3, <3>3
      <4>2. w[i] \notin Texts[m]
        <5>1. d # 0
          BY <4>1, PlainEq
        <5>2. PICK e \in Nat : d = e + 1
          BY <5>1, d - 1 \in Nat, d = (d - 1) + 1
        <5>3. w[i] \in PlainOver(Plain[e])
          BY <4>1, <5>2, PlainEq
        <5>4. w[i] \in Texts[m] => DOMAIN w[i] = {"arr"} /\ w[i] \in Texts[MaxDepth]
          BY <3>1, TextsIsArr, TextsMono
        <5> QED BY <5>3, <5>4, PlainKinds
      <4>3. Trip(d, v.arr[i]) \in [num : 0..ByteMax] \cup [str : Seq(STRING)]
        BY <4>1, <4>2 DEF TextElems
      <4> QED BY <1>1, <4>3, TripElem
    <3> DEFINE l == [i \in DOMAIN v.arr |-> ToErl[d][v.arr[i]]]
    <3>5. t = [list |-> l]
      BY TripArr
    <3>6. l \in Seq(IoElems(MaxDepth))
      BY <1>1, <3>4
    <3> HIDE DEF l
    <3>7. t \in IoLists[MaxDepth + 1]
      BY <3>5, <3>6, IoEq, DepthAssumption DEF IoListsOver, IoElems
    <3>8. t \in Terms[d + 1]
      BY <1>2, ToErlType
    <3> HIDE DEF t
    <3>9. t \in IoLists[d + 1]
      BY <1>2, <3>7, <3>8, IoShallow, DepthAssumption, MaxDepth + 1 \in Nat
    <3>10. t \in IoLists[MaxDepth]
      BY <1>2, <3>9, IoUpTo
    <3> QED BY <1>4, <3>10 DEF TakenForText
  <2>5. [arr |-> w] \in [arr : Seq(Plain[d])]
    BY <2>2
  <2> QED BY <1>0, <2>1, <2>4, <2>5 DEF PlainOver
<1> QED BY <1>3, <1>4

LEMMA NaNRaises == \A S, V : Prim("NaN") \notin SoundOver(S, V)
<1> SUFFICES ASSUME NEW S, NEW V, Prim("NaN") \in SoundOver(S, V) PROVE FALSE
  OBVIOUS
<1> DEFINE x == Prim("NaN")
<1>1. DOMAIN x = {"js"} /\ x \notin [js : Prims \ {"NaN"}] /\ x \in SoundOver(S, V)
  BY DEF Prim
<1> HIDE DEF x
<1> QED BY <1>1, SoundKinds

LEMMA ObjPlain ==
    ASSUME NEW d \in Nat, NEW v \in Sound[d + 1], v \in Objs(Sound[d]), DOMAIN v = {"obj"},
           ~IsPidObject(v), v.obj[PidType] \in JsLeaf \cup {Nothing},
           \A n \in Names : v.obj[n] # Nothing => Trip(d, v.obj[n]) \in Plain[d]
    PROVE  Trip(d + 1, v) \in Plain[d + 1]
<1> DEFINE w == [n \in Names |-> IF v.obj[n] = Nothing THEN Nothing ELSE Trip(d, v.obj[n])]
           u == [obj |-> w]
<1>1. Trip(d + 1, v) = u
  BY TripObj
<1>2. w \in [Names -> Plain[d] \cup {Nothing}]
  OBVIOUS
<1>3. w[PidType] = IF v.obj[PidType] = Nothing THEN Nothing ELSE Trip(d, v.obj[PidType])
  BY NamesAssumption
<1>4. u.obj = w
  OBVIOUS
<1> HIDE DEF w, u
<1>5. ASSUME IsPidObject(u) PROVE FALSE
  <2>1. w[PidType] = [str |-> <<"pid">>]
    BY <1>4, <1>5 DEF IsPidObject
  <2>2. v.obj[PidType] # Nothing
    <3>1. Nothing # [str |-> <<"pid">>]
      <4>1. DOMAIN Nothing = {"none"} /\ DOMAIN [str |-> <<"pid">>] = {"str"}
        BY DEF Nothing
      <4> QED BY <4>1
    <3> QED BY <1>3, <2>1, <3>1
  <2> DEFINE x == v.obj[PidType]
  <2>3. x \in JsLeaf /\ x \in Sound[d] /\ Trip(d, x) = [str |-> <<"pid">>]
    BY <1>3, <2>1, <2>2, NamesAssumption DEF Objs
  <2> HIDE DEF x
  <2>4. PICK e \in Nat : d = e + 1
    BY <2>3, SoundEq, d # 0 => d - 1 \in Nat /\ d = (d - 1) + 1
  <2>5. x # Prim("NaN")
    <3>1. x \in SoundOver(Sound[e], Js[e])
      BY <2>3, <2>4, SoundEq
    <3> QED BY <3>1, NaNRaises
  <2>6. Trip(e + 1, x) = x \/ x \in {Prim("bigint"), Prim("function")}
    BY <2>3, <2>5, LeafFixed
  <2>7. CASE Trip(e + 1, x) = x
    BY <2>3, <2>4, <2>7 DEF x, IsPidObject
  <2>8. CASE x \in {Prim("bigint"), Prim("function")}
    <3>1. Trip(e + 1, x) \in {Prim("undefined"), [obj |-> [n \in Names |-> Nothing]]}
      BY <2>8, TripPrim DEF Prims
    <3>2. DOMAIN Trip(e + 1, x) \in {{"js"}, {"obj"}}
      BY <3>1 DEF Prim
    <3>3. DOMAIN [str |-> <<"pid">>] = {"str"}
      OBVIOUS
    <3> QED BY <2>3, <2>4, <3>2, <3>3
  <2> QED BY <2>6, <2>7, <2>8
<1>6. u \in Objs(Plain[d])
  BY <1>2 DEF Objs, u
<1>7. u \in PlainOver(Plain[d])
  BY <1>5, <1>6, SamePid DEF PlainOver
<1> QED BY <1>1, <1>7, PlainEq

\* What comes back of a tame value is plain.
LEMMA TripPlain ==
    \A d \in Nat : d <= MaxDepth => \A v \in Sound[d] \cap Tame[d] : Trip(d, v) \in Plain[d]
<1> DEFINE P(d) == d <= MaxDepth => \A v \in Sound[d] \cap Tame[d] : Trip(d, v) \in Plain[d]
           T == {d \in Nat : P(d)}
<1>1. 0 \in T
  BY SoundEq
<1>2. ASSUME NEW d \in Nat, d \in T PROVE d + 1 \in T
  <2>0. P(d)
    BY <1>2
  <2>1. ASSUME d + 1 <= MaxDepth, NEW v \in Sound[d + 1] \cap Tame[d + 1]
        PROVE  Trip(d + 1, v) \in Plain[d + 1]
    <3>0. /\ v \in SoundOver(Sound[d], Js[d]) /\ v \in TameOver(Tame[d])
          /\ v \in Sound[d + 1] /\ v \in Tame[d + 1]
      BY SoundEq, TameEq
    <3>1. \A x \in Sound[d] \cap Tame[d] : Trip(d, x) \in Plain[d]
      BY <2>0, <2>1, DepthAssumption
    <3>2. CASE DOMAIN v \in {{"num"}, {"str"}, {"js"}}
      <4>1. v \in JsLeaf /\ v # Prim("NaN")
        BY <3>0, <3>2, SoundKinds DEF JsLeaf, Prim
      <4>2. CASE Trip(d + 1, v) = v
        BY <4>1, <4>2, LeafFixed
      <4>3. CASE v \in {Prim("bigint"), Prim("function")}
        <5>1. Trip(d + 1, v) \in {Prim("undefined"), [obj |-> [n \in Names |-> Nothing]]}
          BY <4>3, TripPrim DEF Prims
        <5>2. Prim("undefined") \in PlainOver(Plain[d])
          BY DEF PlainOver, JsLeaf, Prim, Prims
        <5>3. [obj |-> [n \in Names |-> Nothing]] \in PlainOver(Plain[d])
          <6> DEFINE o == [obj |-> [n \in Names |-> Nothing]]
          <6>1. o \in Objs(Plain[d])
            BY DEF Objs
          <6>2. o.obj[PidType] = Nothing
            BY NamesAssumption
          <6>3. Nothing # [str |-> <<"pid">>]
            <7>1. DOMAIN Nothing = {"none"} /\ DOMAIN [str |-> <<"pid">>] = {"str"}
              BY DEF Nothing
            <7> QED BY <7>1
          <6> HIDE DEF o
          <6>4. ~IsPidMap(o)
            BY <6>2, <6>3, SamePid DEF IsPidObject
          <6>5. o \in PlainOver(Plain[d])
            BY <6>1, <6>4 DEF PlainOver
          <6> QED BY <6>5 DEF o
        <5> QED BY <5>1, <5>2, <5>3, PlainEq
      <4> QED BY <4>1, <4>2, <4>3, LeafFixed
    <3>3. CASE DOMAIN v = {"arr"}
      <4>1. v \in [arr : Seq(Sound[d])]
        BY <3>0, <3>3, SoundKinds
      <4>2. v \in [arr : Seq(Tame[d])]
        BY <3>0, <3>3, TameKinds
      <4>3. \A i \in DOMAIN v.arr : v.arr[i] \in Sound[d] \cap Tame[d]
        BY <4>1, <4>2
      <4>4. \A i \in DOMAIN v.arr : Trip(d, v.arr[i]) \in Plain[d]
        BY <3>1, <4>3
      <4> QED BY <2>1, <4>1, <4>4, ArrPlain
    <3>4. CASE DOMAIN v = {"obj"} /\ IsPidObject(v) /\ PidData(v) \in Sound[d]
      <4>1. d # 0
        BY <3>4, SoundEq
      <4>2. PidData(v) \in Tame[d]
        BY <3>0, <3>4, <4>1, TameData
      <4>3. Trip(d, PidData(v)) \in Plain[d]
        BY <3>1, <3>4, <4>2
      <4>4. Trip(d + 1, v) = Trip(d, PidData(v))
        BY <3>0, <3>4, TripPid
      <4> QED BY <4>3, <4>4, PlainMono
    <3>5. CASE v \in Objs(Sound[d]) /\ DOMAIN v = {"obj"} /\ ~IsPidObject(v)
      <4>1. v \in Objs(Tame[d]) /\ v.obj[PidType] \in JsLeaf \cup {Nothing}
        BY <3>0, <3>5, TameKinds
      <4>2. \A n \in Names : v.obj[n] # Nothing => v.obj[n] \in Sound[d] \cap Tame[d]
        BY <3>5, <4>1 DEF Objs
      <4>3. \A n \in Names : v.obj[n] # Nothing => Trip(d, v.obj[n]) \in Plain[d]
        BY <3>1, <4>2
      <4> QED BY <3>0, <3>5, <4>1, <4>3, ObjPlain
    <3> QED BY <3>0, <3>2, <3>3, <3>4, <3>5, SoundKinds
  <2> QED BY <2>1
<1> HIDE DEF T, P
<1>3. \A d \in Nat : d \in T
  BY <1>1, <1>2, AllDepths
<1> QED BY <1>3 DEF T, P

-----------------------------------------------------------------------------
(***************************************************************************)
(* The invariant: the state and the request are values of the nesting the  *)
(* model allows for, and a state that was stored is what came back of the  *)
(* one the handler returned.                                               *)
(***************************************************************************)
StateInv ==
    /\ global \in Js[MaxDepth - 1]
    /\ pending \in Sound[MaxDepth] \cup {Nothing}
    /\ returned # Nothing => /\ returned \in Sound[MaxDepth]
                             /\ global = erl_term_to_js(js_value_to_erl(returned))

LEMMA DepthFacts ==
    /\ MaxDepth \in Nat /\ MaxDepth - 1 \in Nat /\ MaxDepth - 1 # 0
    /\ (MaxDepth - 1) + 1 = MaxDepth
    /\ Js[MaxDepth] = JsOver(Js[MaxDepth - 1])
    /\ Js[MaxDepth - 1] \subseteq Js[MaxDepth]
    /\ Sound[MaxDepth] = SoundOver(Sound[MaxDepth - 1], Js[MaxDepth - 1])
    /\ Sound[MaxDepth - 1] \subseteq Sound[MaxDepth]
    /\ JsLeaf \subseteq Js[MaxDepth - 1]
<1> DEFINE m == MaxDepth - 1
<1>1. MaxDepth \in Nat /\ m \in Nat /\ m # 0 /\ m + 1 = MaxDepth
  BY DepthAssumption, SizeAssumption
<1>2. m - 1 \in Nat /\ (m - 1) + 1 = m
  BY <1>1
<1> HIDE DEF m
<1>3. Js[m] = JsOver(Js[m - 1])
  BY <1>2, JsEq
<1>4. JsLeaf \subseteq Js[m]
  BY <1>3 DEF JsOver
<1>5. Js[m + 1] = JsOver(Js[m]) /\ Sound[m + 1] = SoundOver(Sound[m], Js[m])
  BY <1>1, JsEq, SoundEq
<1>6. Js[m] \subseteq Js[m + 1] /\ Sound[m] \subseteq Sound[m + 1]
  BY <1>1, JsMono, SoundMono
<1> QED BY <1>1, <1>4, <1>5, <1>6 DEF m

\* A request is a value that does not raise, of the nesting of the term.
LEMMA RequestType ==
    ASSUME NEW req \in Requests
    PROVE  erl_term_to_js(req) \in Sound[MaxDepth - 1]
<1> DEFINE m == MaxDepth - 1
<1>1. m \in Nat /\ m + 1 = MaxDepth
  BY DepthFacts
<1>2. req \in Terms[m]
  BY SizeAssumption
<1> HIDE DEF m
<1>3. ToJs[m + 1][req] = ToJs[m][req] /\ ToJs[m][req] \in Sound[m]
  BY <1>1, <1>2, ToJsStable, ToJsType
<1> QED BY <1>1, <1>3 DEF erl_term_to_js, m

LEMMA ObjectType ==
    ASSUME NEW S, NEW f, \A n \in DOMAIN f : f[n] \in S, PidType \notin DOMAIN f
    PROVE  Object(f) \in Objs(S) /\ Object(f).obj[PidType] = Nothing
BY NamesAssumption DEF Object, Objs

\* The results the model tries are values, and none is taken for a pid.
LEMMA ResultKinds ==
    ASSUME NEW g \in Js[MaxDepth - 1], NEW r \in Js[MaxDepth - 1], NEW v \in Results(g, r)
    PROVE  \/ v = Prim("undefined")
           \/ v \in Objs(Js[MaxDepth - 1]) /\ v.obj[PidType] = Nothing
<1> DEFINE S == Js[MaxDepth - 1]
           Ok(x) == x \in Objs(S) /\ x.obj[PidType] = Nothing
<1>1. \A s \in NewStates(g, r) : s \in S
  BY DEF NewStates
<1>2. Prim("true") \in S /\ [str |-> <<"no_handler">>] \in S
  <2>1. Prim("true") \in JsLeaf
    BY DEF Prim, JsLeaf, Prims
  <2>2. <<"no_handler">> \in Seq(STRING)
    BY TokenAssumption
  <2>3. [str |-> <<"no_handler">>] \in JsLeaf
    BY <2>2 DEF JsLeaf
  <2> QED BY <2>1, <2>3, DepthFacts
<1>3. \A s \in S : Ok(Object([reply |-> r, state |-> s]))
  <2> SUFFICES ASSUME NEW s \in S PROVE Ok(Object([reply |-> r, state |-> s]))
    OBVIOUS
  <2> DEFINE f == [reply |-> r, state |-> s]
  <2>1. (\A n \in DOMAIN f : f[n] \in S) /\ PidType \notin DOMAIN f
    BY DEF PidType
  <2> HIDE DEF f, S
  <2>2. Ok(Object(f))
    BY <2>1, ObjectType
  <2> QED BY <2>2 DEF f
<1>4. \A s \in S : Ok(Object([noreply |-> Prim("true"), state |-> s]))
  <2> SUFFICES ASSUME NEW s \in S PROVE Ok(Object([noreply |-> Prim("true"), state |-> s]))
    OBVIOUS
  <2> DEFINE f == [noreply |-> Prim("true"), state |-> s]
  <2>1. (\A n \in DOMAIN f : f[n] \in S) /\ PidType \notin DOMAIN f
    BY <1>2 DEF PidType
  <2> HIDE DEF f, S
  <2>2. Ok(Object(f))
    BY <2>1, ObjectType
  <2> QED BY <2>2 DEF f
<1>5. Ok(Object([stop |-> r, reply |-> r, state |-> g]))
  <2> DEFINE f == [stop |-> r, reply |-> r, state |-> g]
  <2>1. (\A n \in DOMAIN f : f[n] \in S) /\ PidType \notin DOMAIN f
    BY DEF PidType
  <2> HIDE DEF f, S
  <2>2. Ok(Object(f))
    BY <2>1, ObjectType
  <2> QED BY <2>2 DEF f
<1>6. Ok(Object([stop |-> r, reply |-> r]))
  <2> DEFINE f == [stop |-> r, reply |-> r]
  <2>1. (\A n \in DOMAIN f : f[n] \in S) /\ PidType \notin DOMAIN f
    BY DEF PidType
  <2> HIDE DEF f, S
  <2>2. Ok(Object(f))
    BY <2>1, ObjectType
  <2> QED BY <2>2 DEF f
<1>7. Ok(Object([stop |-> r]))
  <2> DEFINE f == [stop |-> r]
  <2>1. (\A n \in DOMAIN f : f[n] \in S) /\ PidType \notin DOMAIN f
    BY DEF PidType
  <2> HIDE DEF f, S
  <2>2. Ok(Object(f))
    BY <2>1, ObjectType
  <2> QED BY <2>2 DEF f
<1>8. Ok(Object([error |-> [str |-> <<"no_handler">>]]))
  <2> DEFINE f == [error |-> [str |-> <<"no_handler">>]]
  <2>1. (\A n \in DOMAIN f : f[n] \in S) /\ PidType \notin DOMAIN f
    BY <1>2 DEF PidType
  <2> HIDE DEF f, S
  <2>2. Ok(Object(f))
    BY <2>1, ObjectType
  <2> QED BY <2>2 DEF f
<1>9. \/ \E s \in NewStates(g, r) : v = Object([reply |-> r, state |-> s])
      \/ \E s \in NewStates(g, r) : v = Object([noreply |-> Prim("true"), state |-> s])
      \/ v \in {Object([stop |-> r, reply |-> r, state |-> g]),
                Object([stop |-> r, reply |-> r]), Object([stop |-> r]),
                Object([error |-> [str |-> <<"no_handler">>]]), Prim("undefined")}
  BY DEF Results
<1>10. v = Prim("undefined") \/ Ok(v)
  <2> HIDE DEF Ok, S
  <2> QED BY <1>1, <1>3, <1>4, <1>5, <1>6, <1>7, <1>8, <1>9
<1> QED BY <1>10

\* The state in a result that is converted does not raise either.
LEMMA ResultState ==
    ASSUME NEW g \in Js[MaxDepth - 1], NEW r \in Js[MaxDepth - 1], NEW v \in Results(g, r),
           ~Raises(v), ReplyResult(v) \/ NoReplyResult(v)
    PROVE  v.obj["state"] \in Sound[MaxDepth - 1]
<1>1. Is(v, "obj") /\ v.obj["state"] # Nothing
  BY DEF ReplyResult, NoReplyResult, HasKeys
<1>2. v # Prim("undefined")
  BY <1>1 DEF Prim, Is
<1>3. v \in Objs(Js[MaxDepth - 1]) /\ v.obj[PidType] = Nothing
  BY <1>2, ResultKinds
<1>4. DOMAIN v = {"obj"}
  BY <1>3 DEF Objs
<1>5. ~IsPidObject(v)
  <2>1. DOMAIN Nothing = {"none"} /\ DOMAIN [str |-> <<"pid">>] = {"str"}
    BY DEF Nothing
  <2>2. Nothing # [str |-> <<"pid">>]
    BY <2>1
  <2> QED BY <1>3, <2>2 DEF IsPidObject
<1>6. v \in Js[MaxDepth]
  BY <1>3, DepthFacts DEF JsOver
<1>7. v \in SoundOver(Sound[MaxDepth - 1], Js[MaxDepth - 1])
  BY <1>6, DepthFacts DEF Raises
<1>8. v \in Objs(Sound[MaxDepth - 1])
  BY <1>4, <1>5, <1>7, SoundKinds
<1> QED BY <1>1, <1>8, SizeAssumption DEF Objs

\* Storing a state that does not raise.
LEMMA StoreInv ==
    ASSUME NEW s \in Sound[MaxDepth - 1], Store(s),
           pending' \in Sound[MaxDepth] \cup {Nothing}
    PROVE  StateInv'
<1> DEFINE m == MaxDepth - 1
<1>1. m \in Nat /\ m + 1 = MaxDepth
  BY DepthFacts
<1>2. s \in Sound[m] /\ s \in Sound[MaxDepth]
  BY DepthFacts
<1>3. global' = Trip(MaxDepth, s) /\ returned' = s
  BY DEF Store, Trip, erl_term_to_js, js_value_to_erl
<1> HIDE DEF m
<1>4. Trip(m + 1, s) = Trip(m, s) /\ Trip(m, s) \in Sound[m]
  BY <1>1, <1>2, TripStable, TripType
<1>5. global' \in Js[m]
  BY <1>1, <1>3, <1>4, SoundIsJs
<1> QED BY <1>2, <1>3, <1>5 DEF StateInv, Trip, erl_term_to_js, js_value_to_erl, m

\* A handler that leaves nothing to store.
LEMMA LeaveInv ==
    ASSUME StateInv, NEW g \in InPlace(global), LeaveAs(g),
           pending' \in Sound[MaxDepth] \cup {Nothing}
    PROVE  StateInv'
<1>1. g = global \/ g \in Values
  BY DEF InPlace
<1>2. g \in Js[MaxDepth - 1]
  BY <1>1, SizeAssumption DEF StateInv
<1>3. global' = g /\ (returned' # Nothing => g = global /\ returned' = returned)
  BY DEF LeaveAs
<1> QED BY <1>2, <1>3 DEF StateInv

LEMMA EndsInv ==
    ASSUME Ends, pending' \in Sound[MaxDepth] \cup {Nothing}
    PROVE  StateInv'
<1>1. Prim("undefined") \in JsLeaf
  BY DEF Prim, JsLeaf, Prims
<1>2. global' \in Js[MaxDepth - 1] /\ returned' = Nothing
  BY <1>1, DepthFacts DEF Ends
<1> QED BY <1>2 DEF StateInv

LEMMA StateInvInit == Init => StateInv
BY SizeAssumption DEF Init, StateInv

LEMMA StateInvNext == StateInv /\ [Next]_vars => StateInv'
<1> SUFFICES ASSUME StateInv, [Next]_vars PROVE StateInv'
  OBVIOUS
<1>0. global \in Js[MaxDepth - 1]
  BY DEF StateInv
<1>1. ASSUME NEW req \in Requests, Deliver(req)
      PROVE  /\ erl_term_to_js(req) \in Js[MaxDepth - 1]
             /\ pending' \in Sound[MaxDepth] \cup {Nothing}
  BY <1>1, RequestType, SoundIsJs, DepthFacts DEF Deliver
<1>2. ASSUME NEW req \in Requests, NEW v \in Results(global, erl_term_to_js(req)),
             CallReturns(req, v)
      PROVE  StateInv'
  <2>1. Deliver(req)
    BY <1>2 DEF CallReturns
  <2>2. /\ erl_term_to_js(req) \in Js[MaxDepth - 1]
        /\ pending' \in Sound[MaxDepth] \cup {Nothing}
    BY <1>1, <2>1
  <2>3. \/ Ends
        \/ ~Raises(v) /\ (ReplyResult(v) \/ NoReplyResult(v)) /\ Store(v.obj["state"])
        \/ \E g \in InPlace(global) : LeaveAs(g)
    BY <1>2 DEF CallReturns
  <2>4. CASE Ends
    BY <2>2, <2>4, EndsInv
  <2>5. CASE ~Raises(v) /\ (ReplyResult(v) \/ NoReplyResult(v)) /\ Store(v.obj["state"])
    <3>1. v.obj["state"] \in Sound[MaxDepth - 1]
      BY <1>0, <2>2, <2>5, ResultState
    <3> QED BY <2>2, <2>5, <3>1, StoreInv
  <2>6. CASE \E g \in InPlace(global) : LeaveAs(g)
    BY <2>2, <2>6, LeaveInv
  <2> QED BY <2>3, <2>4, <2>5, <2>6
<1>3. ASSUME NEW req \in Requests, NEW v \in Results(global, erl_term_to_js(req)),
             CastReturns(req, v)
      PROVE  StateInv'
  <2>1. Deliver(req)
    BY <1>3 DEF CastReturns
  <2>2. /\ erl_term_to_js(req) \in Js[MaxDepth - 1]
        /\ pending' \in Sound[MaxDepth] \cup {Nothing}
    BY <1>1, <2>1
  <2>3. \/ Ends
        \/ ~Raises(v) /\ NoReplyResult(v) /\ Store(v.obj["state"])
        \/ \E g \in InPlace(global) : LeaveAs(g)
    BY <1>3 DEF CastReturns
  <2>4. CASE Ends
    BY <2>2, <2>4, EndsInv
  <2>5. CASE ~Raises(v) /\ NoReplyResult(v) /\ Store(v.obj["state"])
    <3>1. v.obj["state"] \in Sound[MaxDepth - 1]
      BY <1>0, <2>2, <2>5, ResultState
    <3> QED BY <2>2, <2>5, <3>1, StoreInv
  <2>6. CASE \E g \in InPlace(global) : LeaveAs(g)
    BY <2>2, <2>6, LeaveInv
  <2> QED BY <2>3, <2>4, <2>5, <2>6
<1>4. ASSUME NEW req \in Requests, Throws(req) PROVE StateInv'
  <2>1. Deliver(req) /\ (Ends \/ \E g \in InPlace(global) : LeaveAs(g))
    BY <1>4 DEF Throws
  <2>2. pending' \in Sound[MaxDepth] \cup {Nothing}
    BY <1>1, <2>1
  <2> QED BY <2>1, <2>2, EndsInv, LeaveInv
<1>5. CASE Restart
  BY <1>5, SizeAssumption DEF Restart, StateInv
<1>6. CASE UNCHANGED vars
  BY <1>6 DEF vars, StateInv
<1> QED BY <1>2, <1>3, <1>4, <1>5, <1>6 DEF Next

\* The states of the program, for every nesting: what a handler gets as its
\* request never raises, and a stored state is what came back of the one
\* returned.
THEOREM StateInvariant == Spec => []StateInv
BY StateInvInit, StateInvNext, PTL DEF Spec

\* The state the next handler gets is the one the last handler returned
\* exactly if that one is plain (beamjs_gen_server, set_global of the state).
THEOREM KeptIfPlainHolds == Spec => []KeptIfPlain
<1>1. StateInv => KeptIfPlain
  <2> SUFFICES ASSUME StateInv, returned # Nothing
               PROVE  global = returned <=> returned \in Plain[MaxDepth]
    BY DEF KeptIfPlain
  <2>1. returned \in Sound[MaxDepth] /\ global = Trip(MaxDepth, returned)
    BY DEF StateInv, Trip, erl_term_to_js, js_value_to_erl
  <2> QED BY <2>1, TripFixed, DepthFacts
<1> QED BY <1>1, StateInvariant, PTL

\* A state that was stored is not changed again by the conversion, unless it
\* is untame.
THEOREM SettledHolds == Spec => []Settled
<1>1. StateInv => Settled
  <2> SUFFICES ASSUME StateInv, returned # Nothing, returned \in Tame[MaxDepth]
               PROVE  erl_term_to_js(js_value_to_erl(global)) = global
    BY DEF Settled
  <2>1. returned \in Sound[MaxDepth] /\ global = Trip(MaxDepth, returned)
    BY DEF StateInv, Trip, erl_term_to_js, js_value_to_erl
  <2>2. global \in Sound[MaxDepth]
    BY <2>1, TripType, DepthFacts
  <2>3. MaxDepth <= MaxDepth
    BY DepthFacts
  <2>4. global \in Plain[MaxDepth]
    BY <2>1, <2>3, TripPlain, DepthFacts
  <2>5. Trip(MaxDepth, global) = global
    BY <2>2, <2>4, TripFixed, DepthFacts
  <2> QED BY <2>5 DEF Trip, erl_term_to_js, js_value_to_erl
<1> QED BY <1>1, StateInvariant, PTL
=============================================================================
