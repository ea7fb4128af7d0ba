------------------------ MODULE ModuleResolveProofs ------------------------
(***************************************************************************)
(* Proofs about ModuleResolve: for every file system, every name of the    *)
(* main source and every specifier, with any number of . and .. in them, a *)
(* relative import finds the file next to the main file where the code can *)
(* know where that is.                                                     *)
(***************************************************************************)
EXTENDS ModuleResolve, TLAPS, SequenceTheorems, WellFoundedInduction

\* The inductive invariant: what there is stays what there may be.
ResolveInv ==
    /\ main \in Mains /\ base \in Bases
    /\ files \subseteq Files
    /\ loads \in Nat

Segment == Seq(STRING)

\* A path without . and ..
Clean == {p \in Path : \A i \in DOMAIN p : ~Dot(p[i])}

-----------------------------------------------------------------------------
(* Induction over paths.                                                   *)

\* Every set of natural numbers that has a member has a least one.
LEMMA LeastNat ==
    ASSUME NEW T, T \subseteq Nat, T # {}
    PROVE  \E m \in T : \A k \in T : m <= k
<1> DEFINE R == OpToRel(<, Nat)
<1>1. IsWellFoundedOn(R, Nat)
  BY NatLessThanWellFounded
<1>2. \A x, y \in Nat : x < y => <<x, y>> \in R
  BY DEF OpToRel
<1> HIDE DEF R
<1>3. PICK m \in T : \A k \in T : ~(<<k, m>> \in R)
  BY <1>1, WFMin
<1>4. ASSUME NEW k \in T PROVE m <= k
  <2>1. m \in Nat /\ k \in Nat /\ ~(k < m)
    BY <1>2, <1>3
  <2> QED BY <2>1
<1> QED BY <1>4

\* A set of numbers that has 0 and the next of each has all numbers.
LEMMA AllNat ==
    ASSUME NEW T, 0 \in T, \A k \in Nat : k \in T => k + 1 \in T
    PROVE  Nat \subseteq T
<1> DEFINE Bad == Nat \ T
<1>1. ASSUME Bad # {} PROVE FALSE
  <2>1. Bad \subseteq Nat
    OBVIOUS
  <2>2. PICK m \in Bad : \A k \in Bad : m <= k
    BY <1>1, <2>1, LeastNat
  <2>3. m \in Nat /\ m # 0 /\ m \notin T
    BY <2>2
  <2>4. m - 1 \in Nat /\ (m - 1) + 1 = m /\ ~(m <= m - 1)
    BY <2>3
  <2>5. m - 1 \in T
    BY <2>2, <2>4
  <2> QED BY <2>3, <2>4, <2>5
<1> QED BY <1>1

\* A path with a segment is its front and its last segment.
LEMMA FrontLast ==
    ASSUME NEW x \in Path, x # <<>>
    PROVE  /\ Front(x) \in Path /\ Last(x) \in Segment
           /\ x = Append(Front(x), Last(x))
           /\ Len(x) \in Nat /\ Len(x) > 0 /\ Len(Front(x)) = Len(x) - 1
<1>0. x \in Seq(Segment) /\ Seq(Segment) = Path
  BY DEF Path, Segment
<1>1. Len(x) \in Nat /\ Len(x) > 0
  BY <1>0
<1>2. /\ SubSeq(x, 1, Len(x) - 1) \in Seq(Segment)
      /\ Len(SubSeq(x, 1, Len(x) - 1)) = Len(x) - 1
      /\ \A i \in 1..Len(x) - 1 : SubSeq(x, 1, Len(x) - 1)[i] = x[i]
  <2> DEFINE n == Len(x) - 1
  <2>1. n \in Int /\ 1 \in Int /\ n >= 0 /\ n - 1 + 1 = n /\ \A i \in 1..n : x[i] \in Segment
    BY <1>0, <1>1
  <2>2. \A i \in 1..n : 1 + i - 1 = i
    BY <2>1
  <2> HIDE DEF n
  <2>3. /\ SubSeq(x, 1, n) \in Seq(Segment)
        /\ Len(SubSeq(x, 1, n)) = IF 1 <= n THEN n - 1 + 1 ELSE 0
        /\ \A i \in 1..n - 1 + 1 : SubSeq(x, 1, n)[i] = x[1 + i - 1]
    BY <2>1, SubSeqProperties
  <2>4. Len(SubSeq(x, 1, n)) = n
    BY <2>1, <2>3
  <2>5. \A i \in 1..n : SubSeq(x, 1, n)[i] = x[i]
    BY <2>1, <2>2, <2>3
  <2> QED BY <2>3, <2>4, <2>5 DEF n
<1>3. x[Len(x)] \in Segment
  BY <1>0, <1>1
<1>4. /\ Front(x) \in Seq(Segment) /\ Last(x) \in Segment
      /\ Len(Front(x)) = Len(x) - 1 /\ Last(x) = x[Len(x)]
      /\ \A i \in 1..Len(x) - 1 : Front(x)[i] = x[i]
  BY <1>2, <1>3 DEF Front, Last
<1>5. x = Append(Front(x), Last(x))
  <2> DEFINE y == Append(Front(x), Last(x))
  <2>1. y \in Seq(Segment) /\ Len(y) = Len(x) /\ x \in Seq(Segment)
    BY <1>0, <1>1, <1>4
  <2>2. \A i \in 1..Len(x) : y[i] = x[i]
    BY <1>1, <1>4
  <2> HIDE DEF y
  <2>3. y = x
    BY <2>1, <2>2
  <2> QED BY <2>3 DEF y
<1> QED BY <1>0, <1>1, <1>4, <1>5

\* A set of paths that has the root and every path one segment below one of
\* its paths has every path.
LEMMA AllPaths ==
    ASSUME NEW T, <<>> \in T,
           \A x \in Path, s \in Segment : x \in T => Append(x, s) \in T
    PROVE  Path \subseteq T
<1> DEFINE N == {k \in Nat : \A x \in Path : Len(x) = k => x \in T}
<1>1. 0 \in N
  BY DEF Path
<1>2. ASSUME NEW k \in Nat, k \in N PROVE k + 1 \in N
  <2>1. ASSUME NEW x \in Path, Len(x) = k + 1 PROVE x \in T
    <3>1. x # <<>>
      BY <2>1 DEF Path
    <3>2. /\ Front(x) \in Path /\ Last(x) \in Segment
          /\ x = Append(Front(x), Last(x)) /\ Len(Front(x)) = Len(x) - 1
      BY <3>1, FrontLast
    <3>3. Len(Front(x)) = k
      BY <2>1, <3>2
    <3>4. Front(x) \in T
      BY <1>2, <3>2, <3>3
    <3> QED BY <3>2, <3>4
  <2> QED BY <2>1
<1>3. Nat \subseteq N
  <2> HIDE DEF N
  <2> QED BY <1>1, <1>2, AllNat
<1>4. ASSUME NEW x \in Path PROVE x \in T
  <2>1. Len(x) \in Nat
    BY DEF Path
  <2> QED BY <1>3, <2>1
<1> QED BY <1>4

-----------------------------------------------------------------------------
(* Path.expand.                                                            *)

\* The function by which Collapse goes down a path.
WalkStep(w, x, i) == IF i = 0 THEN <<>> ELSE Enter(w[i - 1], x[i])
WalkTo(w, x, n) == w = [i \in 0..n |-> WalkStep(w, x, i)]

\* What the function is at each place.
LEMMA WalkAt ==
    ASSUME NEW x, NEW n \in Nat, NEW w, WalkTo(w, x, n), NEW i \in 0..n
    PROVE  w[i] = WalkStep(w, x, i)
  BY DEF WalkTo

\* There is such a function.
LEMMA WalkExists ==
    ASSUME NEW x, NEW n \in Nat
    PROVE  \E w : WalkTo(w, x, n)
<1> DEFINE N == {k \in Nat : \E w : WalkTo(w, x, k)}
<1>1. 0 \in N
  <2> DEFINE f == [i \in 0..0 |-> <<>>]
  <2>1. WalkTo(f, x, 0)
    BY DEF WalkTo, WalkStep
  <2> QED BY <2>1
<1>2. ASSUME NEW k \in Nat, k \in N PROVE k + 1 \in N
  <2>1. PICK f : WalkTo(f, x, k)
    BY <1>2
  <2> DEFINE g == [i \in 0..k + 1 |-> IF i <= k THEN f[i] ELSE WalkStep(f, x, i)]
             h == [i \in 0..k + 1 |-> WalkStep(g, x, i)]
  <2>2. ASSUME NEW i \in 0..k + 1 PROVE g[i] = WalkStep(f, x, i)
    <3>1. CASE i <= k
      <4>1. i \in 0..k
        BY <3>1
      <4> QED BY <2>1, <3>1, <4>1, WalkAt
    <3>2. CASE ~(i <= k)
      BY <3>2
    <3> QED BY <3>1, <3>2
  <2>3. \A i \in 0..k : g[i] = f[i]
    OBVIOUS
  <2>4. g = [i \in 0..k + 1 |-> g[i]] /\ h = [i \in 0..k + 1 |-> h[i]]
    OBVIOUS
  <2>5. \A i \in 0..k + 1 : h[i] = WalkStep(g, x, i)
    OBVIOUS
  <2> HIDE DEF g, h
  <2>6. ASSUME NEW i \in 0..k + 1 PROVE WalkStep(f, x, i) = WalkStep(g, x, i)
    <3>1. i = 0 \/ i - 1 \in 0..k
      OBVIOUS
    <3> QED BY <2>3, <3>1 DEF WalkStep
  <2>7. g = h
    BY <2>2, <2>4, <2>5, <2>6
  <2>8. WalkTo(g, x, k + 1)
    BY <2>7 DEF WalkTo, h
  <2> QED BY <2>8
<1>3. Nat \subseteq N
  <2> HIDE DEF N
  <2> QED BY <1>1, <1>2, AllNat
<1> QED BY <1>3

\* Collapse is where the walk ends.
LEMMA CollapseWalks ==
    ASSUME NEW x, Len(x) \in Nat
    PROVE  \E w : WalkTo(w, x, Len(x)) /\ Collapse(x) = w[Len(x)]
<1> DEFINE path == CHOOSE f : f = [i \in 0..Len(x) |->
                        IF i = 0 THEN <<>> ELSE Enter(f[i - 1], x[i])]
<1>1. Collapse(x) = path[Len(x)]
  BY DEF Collapse
<1>2. WalkTo(path, x, Len(x))
  <2>1. PICK f : WalkTo(f, x, Len(x))
    BY WalkExists
  <2>2. f = [i \in 0..Len(x) |-> IF i = 0 THEN <<>> ELSE Enter(f[i - 1], x[i])]
    BY <2>1 DEF WalkTo, WalkStep
  <2>3. path = [i \in 0..Len(x) |-> IF i = 0 THEN <<>> ELSE Enter(path[i - 1], x[i])]
    BY <2>2
  <2> HIDE DEF path
  <2> QED BY <2>3 DEF WalkTo, WalkStep
<1> HIDE DEF path
<1> QED BY <1>1, <1>2

\* What Collapse is, segment by segment.
LEMMA CollapseRoot ==
    Collapse(<<>>) = <<>>
<1>1. Len(<<>>) = 0 /\ 0 \in Nat /\ 0 \in 0..0
  OBVIOUS
<1>2. PICK w : WalkTo(w, <<>>, 0) /\ Collapse(<<>>) = w[0]
  BY <1>1, CollapseWalks
<1>3. w[0] = WalkStep(w, <<>>, 0)
  BY <1>1, <1>2, WalkAt
<1> QED BY <1>2, <1>3 DEF WalkStep

LEMMA CollapseAppend ==
    ASSUME NEW x \in Path, NEW s \in Segment
    PROVE  Collapse(Append(x, s)) = Enter(Collapse(x), s)
<1> DEFINE y == Append(x, s)
           n == Len(x)
<1>1. /\ n \in Nat /\ Len(y) = n + 1 /\ y[n + 1] = s
      /\ \A i \in 1..n : y[i] = x[i]
  <2>1. x \in Seq(Segment)
    BY DEF Path, Segment
  <2> QED BY <2>1
<1> HIDE DEF y
<1>2. PICK u : WalkTo(u, x, n) /\ Collapse(x) = u[n]
  BY <1>1, CollapseWalks
<1>3. PICK w : WalkTo(w, y, n + 1) /\ Collapse(y) = w[n + 1]
  BY <1>1, CollapseWalks
<1> HIDE DEF n
<1> DEFINE N == {k \in Nat : k <= n => w[k] = u[k]}
<1>4. 0 \in N
  <2>1. 0 \in 0..n /\ 0 \in 0..n + 1 /\ n + 1 \in Nat
    BY <1>1
  <2>2. w[0] = WalkStep(w, y, 0) /\ u[0] = WalkStep(u, x, 0)
    BY <1>1, <1>2, <1>3, <2>1, WalkAt
  <2> QED BY <2>2 DEF WalkStep
<1>5. ASSUME NEW k \in Nat, k \in N PROVE k + 1 \in N
  <2>1. SUFFICES ASSUME k + 1 <= n PROVE w[k + 1] = u[k + 1]
    OBVIOUS
  <2>2. /\ k + 1 \in 0..n /\ k + 1 \in 0..n + 1 /\ n + 1 \in Nat /\ k + 1 \in 1..n
        /\ k <= n /\ k + 1 # 0 /\ (k + 1) - 1 = k
    BY <1>1, <2>1
  <2>3. w[k + 1] = WalkStep(w, y, k + 1) /\ u[k + 1] = WalkStep(u, x, k + 1)
    BY <1>1, <1>2, <1>3, <2>2, WalkAt
  <2>4. w[k] = u[k] /\ y[k + 1] = x[k + 1]
    BY <1>1, <1>5, <2>2
  <2> QED BY <2>2, <2>3, <2>4 DEF WalkStep
<1>6. Nat \subseteq N
  <2> HIDE DEF N
  <2> QED BY <1>4, <1>5, AllNat
<1>7. w[n] = u[n]
  BY <1>1, <1>6
<1>8. n + 1 \in 0..n + 1 /\ n + 1 \in Nat /\ n + 1 # 0 /\ (n + 1) - 1 = n
  BY <1>1
<1>9. w[n + 1] = WalkStep(w, y, n + 1)
  BY <1>3, <1>8, WalkAt
<1> QED BY <1>1, <1>2, <1>3, <1>7, <1>8, <1>9 DEF WalkStep, y

\* An expanded path is clean.
LEMMA CollapseClean ==
    ASSUME NEW x \in Path
    PROVE  Collapse(x) \in Clean
<1> DEFINE T == {y \in Path : Collapse(y) \in Clean}
<1>0. Path = Seq(Segment)
  BY DEF Path, Segment
<1>1. <<>> \in T
  <2>1. <<>> \in Clean
    BY <1>0 DEF Clean
  <2> QED BY <1>0, <2>1, CollapseRoot
<1>2. ASSUME NEW p \in Clean, NEW s \in Segment PROVE Enter(p, s) \in Clean
  <2>1. p \in Path /\ p \in Seq(Segment) /\ \A i \in DOMAIN p : ~Dot(p[i])
    BY <1>0 DEF Clean
  <2>2. CASE s # <<".">> /\ s # <<"..">>
    <3>1. Enter(p, s) = Append(p, s) /\ ~Dot(s)
      BY <2>2 DEF Enter, Dot
    <3>2. /\ Append(p, s) \in Seq(Segment)
          /\ \A i \in DOMAIN Append(p, s) :
                (i \in DOMAIN p /\ Append(p, s)[i] = p[i]) \/ Append(p, s)[i] = s
      BY <2>1
    <3> QED BY <1>0, <2>1, <3>1, <3>2 DEF Clean
  <2>3. CASE s = <<"..">> /\ p # <<>>
    <3>1. Enter(p, s) = Front(p)
      <4>1. s # <<".">>
        BY <2>3
      <4> QED BY <2>3, <4>1 DEF Enter
    <3>2. /\ Front(p) \in Path /\ Last(p) \in Segment /\ p = Append(Front(p), Last(p))
          /\ Len(p) \in Nat /\ Len(Front(p)) = Len(p) - 1
      BY <2>1, <2>3, FrontLast
    <3> DEFINE f == Front(p)
    <3>3. f \in Seq(Segment) /\ p = Append(f, Last(p))
      BY <1>0, <3>2
    <3> HIDE DEF f
    <3>4. \A i \in DOMAIN f : i \in DOMAIN p /\ p[i] = f[i]
      BY <2>1, <3>2, <3>3
    <3>5. f \in Clean
      BY <1>0, <2>1, <3>3, <3>4 DEF Clean
    <3> QED BY <3>1, <3>5 DEF f
  <2>4. CASE s = <<".">> \/ (s = <<"..">> /\ p = <<>>)
    BY <2>4 DEF Enter
  <2> QED BY <2>2, <2>3, <2>4
<1>3. ASSUME NEW y \in Path, NEW s \in Segment, y \in T PROVE Append(y, s) \in T
  <2>1. Append(y, s) \in Path
    BY <1>0
  <2>2. Collapse(Append(y, s)) = Enter(Collapse(y), s)
    BY CollapseAppend
  <2>3. Enter(Collapse(y), s) \in Clean
    BY <1>2, <1>3
  <2> QED BY <2>1, <2>2, <2>3
<1>4. Path \subseteq T
  <2> HIDE DEF T
  <2> QED BY <1>1, <1>3, AllPaths
<1> QED BY <1>4

\* A clean path is expanded to itself.
LEMMA CleanCollapse ==
    ASSUME NEW x \in Clean
    PROVE  Collapse(x) = x
<1> DEFINE T == {y \in Path : y \in Clean => Collapse(y) = y}
<1>0. Path = Seq(Segment)
  BY DEF Path, Segment
<1>1. <<>> \in T
  BY <1>0, CollapseRoot
<1>2. ASSUME NEW y \in Path, NEW s \in Segment, y \in T PROVE Append(y, s) \in T
  <2>1. Append(y, s) \in Path
    BY <1>0
  <2>2. ASSUME Append(y, s) \in Clean PROVE Collapse(Append(y, s)) = Append(y, s)
    <3>0. y \in Seq(Segment)
      BY <1>0
    <3>1. /\ \A i \in DOMAIN y : i \in DOMAIN Append(y, s) /\ Append(y, s)[i] = y[i]
          /\ Len(y) + 1 \in DOMAIN Append(y, s) /\ Append(y, s)[Len(y) + 1] = s
      BY <3>0
    <3>2. y \in Clean /\ ~Dot(s)
      BY <2>2, <3>1 DEF Clean
    <3>3. Collapse(y) = y
      BY <1>2, <3>2
    <3>4. Collapse(Append(y, s)) = Enter(y, s)
      BY <3>3, CollapseAppend
    <3> QED BY <3>2, <3>4 DEF Enter, Dot
  <2> QED BY <2>1, <2>2
<1>3. Path \subseteq T
  <2> HIDE DEF T
  <2> QED BY <1>1, <1>2, AllPaths
<1> QED BY <1>3 DEF Clean

\* Two ways to the same directory lead to the same place from there.
LEMMA CollapseJoin ==
    ASSUME NEW a \in Path, NEW b \in Path, Collapse(a) = Collapse(b), NEW y \in Path
    PROVE  Collapse(a \o y) = Collapse(b \o y)
<1> DEFINE T == {z \in Path : Collapse(a \o z) = Collapse(b \o z)}
<1>0. Path = Seq(Segment)
  BY DEF Path, Segment
<1>1. <<>> \in T
  <2>1. a \in Seq(Segment) /\ b \in Seq(Segment)
    BY <1>0
  <2>2. a \o <<>> = a /\ b \o <<>> = b
    BY <2>1
  <2> QED BY <1>0, <2>2
<1>2. ASSUME NEW z \in Path, NEW s \in Segment, z \in T PROVE Append(z, s) \in T
  <2>1. /\ a \in Seq(Segment) /\ b \in Seq(Segment) /\ z \in Seq(Segment)
    BY <1>0
  <2>2. /\ Append(z, s) \in Seq(Segment)
        /\ a \o z \in Seq(Segment) /\ b \o z \in Seq(Segment)
    BY <2>1
  <2>3. a \o Append(z, s) = Append(a \o z, s)
    BY <2>1
  <2>4. b \o Append(z, s) = Append(b \o z, s)
    BY <2>1
  <2>5. /\ Collapse(Append(a \o z, s)) = Enter(Collapse(a \o z), s)
        /\ Collapse(Append(b \o z, s)) = Enter(Collapse(b \o z), s)
    BY <1>0, <2>2, CollapseAppend
  <2> QED BY <1>0, <1>2, <2>2, <2>3, <2>4, <2>5
<1>3. Path \subseteq T
  <2> HIDE DEF T
  <2> QED BY <1>1, <1>2, AllPaths
<1> QED BY <1>3

\* Expanding the directory first makes no difference.
LEMMA CollapseTwice ==
    ASSUME NEW x \in Path, NEW y \in Path
    PROVE  Collapse(Collapse(x) \o y) = Collapse(x \o y)
<1>1. Collapse(x) \in Clean
  BY CollapseClean
<1>2. Collapse(x) \in Path /\ Collapse(Collapse(x)) = Collapse(x)
  BY <1>1, CleanCollapse DEF Clean
<1> QED BY <1>2, CollapseJoin

\* The directory of a file is the directory that its name gives.
LEMMA FrontCollapse ==
    ASSUME NEW x \in Path, x # <<>>, ~Dot(Last(x))
    PROVE  Front(Collapse(x)) = Collapse(Front(x))
<1> DEFINE f == Front(x)
           c == Collapse(f)
           s == Last(x)
<1>1. f \in Path /\ s \in Segment /\ x = Append(f, s)
  BY FrontLast
<1>2. c \in Path
  BY <1>1, CollapseClean DEF Clean
<1>3. Collapse(x) = Enter(c, s)
  BY <1>1, CollapseAppend
<1>4. Enter(c, s) = Append(c, s)
  BY DEF Enter, Dot
<1> HIDE DEF c, s
<1>5. Append(c, s) \in Path /\ Append(c, s) # <<>> /\ c \in Seq(Segment)
  <2>1. Path = Seq(Segment)
    BY DEF Path, Segment
  <2>2. c \in Seq(Segment)
    BY <1>2, <2>1
  <2>3. Append(c, s) \in Seq(Segment) /\ Append(c, s) # <<>>
    BY <1>1, <2>2
  <2> QED BY <2>1, <2>2, <2>3
<1>6. /\ Append(c, s) = Append(Front(Append(c, s)), Last(Append(c, s)))
      /\ Front(Append(c, s)) \in Seq(Segment)
  BY <1>5, FrontLast DEF Path, Segment
<1>7. \A d, e \in Seq(Segment) : \A t, v : Append(d, t) = Append(e, v) => d = e
  <2>1. ASSUME NEW d \in Seq(Segment), NEW e \in Seq(Segment), NEW t, NEW v,
               Append(d, t) = Append(e, v)
        PROVE  d = e
    <3>1. Len(d) = Len(e)
      BY <2>1
    <3>2. \A i \in 1..Len(d) : d[i] = e[i]
      <4>1. \A i \in 1..Len(d) : Append(d, t)[i] = d[i] /\ Append(e, v)[i] = e[i]
        BY <3>1
      <4> QED BY <2>1, <4>1
    <3> QED BY <3>1, <3>2
  <2> QED BY <2>1
<1>8. c = Front(Append(c, s))
  BY <1>5, <1>6, <1>7
<1> QED BY <1>3, <1>4, <1>8 DEF c

-----------------------------------------------------------------------------
(* The search.                                                             *)

\* What is found is on the list and in the set, and it is the only one.
LEMMA FirstInFacts ==
    ASSUME NEW S, NEW ps, NEW n \in Nat, DOMAIN ps = 1..n
    PROVE  /\ \A f \in FirstIn(S, ps) : f \in S /\ f \in ToSet(ps)
           /\ \A f, g \in FirstIn(S, ps) : f = g
           /\ FirstIn(S, ps) = {} => \A i \in 1..n : ps[i] \notin S
<1> DEFINE First(k) == k \in 1..n /\ ps[k] \in S /\ \A j \in 1..k - 1 : ps[j] \notin S
<1>1. \A f : f \in FirstIn(S, ps) <=> \E k \in 1..n : First(k) /\ f = ps[k]
  BY DEF FirstIn
<1>2. \A f \in FirstIn(S, ps) : f \in S /\ f \in ToSet(ps)
  BY <1>1 DEF ToSet
<1>3. \A k, l \in 1..n : First(k) /\ First(l) => k = l
  <2>1. ASSUME NEW k \in 1..n, NEW l \in 1..n, First(k), First(l) PROVE ~(k < l)
    <3>1. ASSUME k < l PROVE FALSE
      <4>1. k \in 1..l - 1
        BY <3>1
      <4> QED BY <2>1, <4>1
    <3> QED BY <3>1
  <2>2. \A k, l \in 1..n : ~(k < l) /\ ~(l < k) => k = l
    OBVIOUS
  <2> QED BY <2>1, <2>2
<1>4. ASSUME FirstIn(S, ps) = {}, NEW i \in 1..n, ps[i] \in S PROVE FALSE
  <2> DEFINE B == {k \in 1..n : ps[k] \in S}
  <2>1. B \subseteq Nat /\ i \in B
    BY <1>4
  <2>2. PICK m \in B : \A k \in B : m <= k
    BY <2>1, LeastNat
  <2>3. \A j \in 1..m - 1 : j \in 1..n /\ ~(m <= j)
    BY <2>2
  <2>4. First(m)
    BY <2>2, <2>3
  <2> QED BY <1>1, <1>4, <2>2, <2>4
<1> HIDE DEF First
<1>5. \A f, g \in FirstIn(S, ps) : f = g
  BY <1>1, <1>3
<1> QED BY <1>2, <1>4, <1>5

\* What is not on the first list is looked for on the second.
LEMMA FirstOfTwo ==
    ASSUME NEW S, NEW A, NEW a \in Seq(A), NEW b \in Seq(A)
    PROVE  FirstIn(S, a \o b) = IF FirstIn(S, a) # {} THEN FirstIn(S, a) ELSE FirstIn(S, b)
<1> DEFINE ab == a \o b
           n == Len(a)
           l == Len(b)
<1>1. /\ n \in Nat /\ l \in Nat /\ DOMAIN a = 1..n /\ DOMAIN b = 1..l /\ DOMAIN ab = 1..n + l
      /\ \A i \in 1..n : ab[i] = a[i]
      /\ \A i \in 1..l : ab[n + i] = b[i]
  OBVIOUS
<1> HIDE DEF ab, n, l
<1>2. /\ \A f : f \in FirstIn(S, a) <=> \E k \in 1..n :
               f = a[k] /\ a[k] \in S /\ \A j \in 1..k - 1 : a[j] \notin S
      /\ \A f : f \in FirstIn(S, b) <=> \E k \in 1..l :
               f = b[k] /\ b[k] \in S /\ \A j \in 1..k - 1 : b[j] \notin S
      /\ \A f : f \in FirstIn(S, ab) <=> \E k \in 1..n + l :
               f = ab[k] /\ ab[k] \in S /\ \A j \in 1..k - 1 : ab[j] \notin S
  BY <1>1 DEF FirstIn
<1>3. ASSUME FirstIn(S, a) # {} PROVE FirstIn(S, ab) = FirstIn(S, a)
  <2>1. FirstIn(S, a) \subseteq FirstIn(S, ab)
    <3>1. \A k \in 1..n : k \in 1..n + l /\ \A j \in 1..k - 1 : j \in 1..n
      BY <1>1
    <3> QED BY <1>1, <1>2, <3>1
  <2>2. \A f, g \in FirstIn(S, ab) : f = g
    <3>1. n + l \in Nat
      BY <1>1
    <3> QED BY <1>1, <3>1, FirstInFacts
  <2> QED BY <1>3, <2>1, <2>2
<1>4. ASSUME FirstIn(S, a) = {} PROVE FirstIn(S, ab) = FirstIn(S, b)
  <2>1. \A i \in 1..n : ab[i] \notin S
    <3>1. \A i \in 1..n : a[i] \notin S
      BY <1>1, <1>4, FirstInFacts
    <3> QED BY <1>1, <3>1
  <2>2. ASSUME NEW f \in FirstIn(S, ab) PROVE f \in FirstIn(S, b)
    <3>1. PICK k \in 1..n + l : f = ab[k] /\ ab[k] \in S /\ \A j \in 1..k - 1 : ab[j] \notin S
      BY <1>2, <2>2
    <3>2. k - n \in 1..l /\ n + (k - n) = k
      BY <1>1, <2>1, <3>1
    <3>3. ASSUME NEW j \in 1..(k - n) - 1 PROVE b[j] \notin S
      <4>1. j \in 1..l /\ n + j \in 1..k - 1
        BY <1>1, <3>2
      <4> QED BY <1>1, <3>1, <4>1
    <3>4. ab[k] = b[k - n]
      BY <1>1, <3>2
    <3> QED BY <1>2, <3>1, <3>2, <3>3, <3>4
  <2>3. ASSUME NEW f \in FirstIn(S, b) PROVE f \in FirstIn(S, ab)
    <3>1. PICK k \in 1..l : f = b[k] /\ b[k] \in S /\ \A j \in 1..k - 1 : b[j] \notin S
      BY <1>2, <2>3
    <3>2. n + k \in 1..n + l /\ ab[n + k] = b[k]
      BY <1>1
    <3>3. ASSUME NEW j \in 1..(n + k) - 1 PROVE ab[j] \notin S
      <4>1. CASE j <= n
        BY <1>1, <2>1, <4>1
      <4>2. CASE ~(j <= n)
        <5>1. j - n \in 1..k - 1 /\ j - n \in 1..l /\ n + (j - n) = j
          BY <1>1, <4>2
        <5> QED BY <1>1, <3>1, <5>1
      <4> QED BY <4>1, <4>2
    <3> QED BY <1>2, <3>1, <3>2, <3>3
  <2> QED BY <2>2, <2>3
<1> QED BY <1>3, <1>4 DEF ab

\* A search among files (F) and directories (the rest of E) that does not
\* end at a directory ends where a search among files does.
LEMMA FirstIsFile ==
    ASSUME NEW F, NEW E, F \subseteq E, NEW ps, NEW n \in Nat, DOMAIN ps = 1..n,
           FirstIn(E, ps) \subseteq F
    PROVE  FirstIn(F, ps) = FirstIn(E, ps)
<1>1. ASSUME NEW f \in FirstIn(E, ps) PROVE f \in FirstIn(F, ps)
  <2>1. PICK k \in 1..n : f = ps[k] /\ ps[k] \in E /\ \A j \in 1..k - 1 : ps[j] \notin E
    BY <1>1 DEF FirstIn
  <2>2. ps[k] \in F
    BY <1>1, <2>1
  <2> QED BY <2>1, <2>2 DEF FirstIn
<1>2. ASSUME FirstIn(E, ps) = {} PROVE FirstIn(F, ps) = {}
  <2>1. \A i \in 1..n : ps[i] \notin E
    BY <1>2, FirstInFacts
  <2> QED BY <2>1 DEF FirstIn
<1>3. \A f, g \in FirstIn(F, ps) : f = g
  BY FirstInFacts
<1> QED BY <1>1, <1>2, <1>3

-----------------------------------------------------------------------------
(* The invariant and the theorems.                                         *)

LEMMA InvInit ==
    Init => ResolveInv
  BY ResolveAssumption DEF Init, ResolveInv

LEMMA InvNext ==
    ResolveInv /\ [Next]_vars => ResolveInv'
<1> SUFFICES ASSUME ResolveInv, [Next]_vars PROVE ResolveInv'
  OBVIOUS
<1>1. ASSUME NEW n \in Imports, Import(n) PROVE ResolveInv'
  BY <1>1 DEF ResolveInv, Import
<1>2. ASSUME NEW f \in Files, WriteFile(f) PROVE ResolveInv'
  BY <1>2 DEF ResolveInv, WriteFile
<1>3. CASE UNCHANGED vars
  BY <1>3 DEF ResolveInv, vars
<1> QED BY <1>1, <1>2, <1>3 DEF Next

\* Of the main source only its name and base_dir matter, and they stay.
THEOREM ResolveInvariant == Spec => []ResolveInv
<1>1. Init => ResolveInv
  BY InvInit
<1>2. ResolveInv /\ [Next]_vars => ResolveInv'
  BY InvNext
<1> QED BY <1>1, <1>2, PTL DEF Spec

\* Where init knows the place of the main file, the two roads to an import,
\* the module name that beamjs_module_normalize makes and base_dir, lead
\* next to the main file.
LEMMA PlacedBeside ==
    ASSUME ResolveInv, Placed, NEW n \in Imports, IsRelative(n)
    PROVE  Expand(beamjs_module_normalize(main, n), BaseDir) = Beside(n)
<1> DEFINE m == beamjs_module_normalize(main, n)
           dir == Front(main.segs)
<1>0. Path = Seq(Segment)
  BY DEF Path, Segment
<1>1. /\ main.root \in {"abs", "rel"} /\ main.segs \in Path /\ main.segs # <<>>
      /\ ~Dot(Last(main.segs))
      /\ n.root = "rel" /\ n.segs \in Path
  <2>1. main \in Mains /\ main \in Name /\ n \in Name
    BY ResolveAssumption DEF ResolveInv
  <2>2. main.root # "beamjs" /\ main.segs # <<>> /\ ~Dot(Last(main.segs))
    BY <2>1, ResolveAssumption
  <2> QED BY <2>1, <2>2 DEF Name, IsRelative
<1>2. /\ dir \in Path /\ Last(main.segs) \in Segment /\ main.segs = Append(dir, Last(main.segs))
      /\ Len(main.segs) \in Nat /\ Len(main.segs) > 0 /\ Len(dir) = Len(main.segs) - 1
  BY <1>1, FrontLast
<1>3. Cwd \in Path
  BY ResolveAssumption
<1>4. base # {} => BaseDir \in Path
  BY ResolveAssumption DEF ResolveInv, BaseDir
<1>5. ASSUME NEW d \in Path, main.root = "rel"
      PROVE  Front(Expand(main, d)) = Collapse(d \o dir)
  <2> DEFINE x == d \o main.segs
  <2>1. /\ x \in Path /\ x # <<>> /\ Last(x) = Last(main.segs)
        /\ Front(x) = d \o dir /\ d \o dir \in Path
    <3> DEFINE s == Last(main.segs)
               z == d \o dir
    <3>1. d \in Seq(Segment) /\ dir \in Seq(Segment) /\ main.segs \in Seq(Segment)
      BY <1>0, <1>1, <1>2, <1>5
    <3>2. z \in Seq(Segment) /\ s \in Segment /\ main.segs = Append(dir, s)
      BY <1>2, <3>1
    <3> HIDE DEF s, dir
    <3>3. x = Append(z, s)
      BY <3>1, <3>2
    <3> HIDE DEF x, z
    <3>4. x \in Seq(Segment) /\ x # <<>> /\ Len(x) = Len(z) + 1 /\ x[Len(x)] = s
      BY <3>2, <3>3
    <3>5. /\ Front(x) \in Seq(Segment) /\ Len(Front(x)) = Len(x) - 1
          /\ x = Append(Front(x), Last(x))
      BY <1>0, <3>4, FrontLast
    <3>6. Len(Front(x)) = Len(z) /\ \A i \in 1..Len(z) : Front(x)[i] = z[i]
      <4>1. Len(Front(x)) = Len(z)
        BY <3>2, <3>4, <3>5
      <4>2. \A i \in 1..Len(z) : Append(Front(x), Last(x))[i] = Front(x)[i]
        BY <3>5, <4>1
      <4>3. \A i \in 1..Len(z) : Append(z, s)[i] = z[i]
        BY <3>2
      <4> QED BY <3>3, <3>5, <4>1, <4>2, <4>3
    <3>7. Front(x) = z
      BY <3>2, <3>5, <3>6
    <3> QED BY <1>0, <3>2, <3>4, <3>7 DEF Last, s, z
  <2>2. Expand(main, d) = Collapse(x)
    BY <1>5 DEF Expand
  <2> HIDE DEF x
  <2>3. Front(Collapse(x)) = Collapse(Front(x))
    BY <1>1, <2>1, FrontCollapse
  <2> QED BY <2>1, <2>2, <2>3
<1>6. ASSUME main.root = "abs", NEW d
      PROVE  Front(Expand(main, d)) = Collapse(dir)
  <2>1. Expand(main, d) = Collapse(main.segs)
    BY <1>6 DEF Expand
  <2> QED BY <1>1, <2>1, FrontCollapse
<1> HIDE DEF dir
<1>7. CASE Len(main.segs) > 1 /\ main.root = "abs"
  <2>1. m = [root |-> main.root, segs |-> dir \o n.segs]
    BY <1>7 DEF beamjs_module_normalize, dir
  <2>2. Expand(m, BaseDir) = Collapse(dir \o n.segs)
    BY <1>7, <2>1 DEF Expand
  <2>3. MainDir = Collapse(dir)
    BY <1>6, <1>7 DEF MainDir
  <2> QED BY <1>1, <1>2, <2>2, <2>3, CollapseTwice DEF Beside
<1>8. CASE Len(main.segs) > 1 /\ main.root # "abs"
  <2>0. base # {} /\ main.root = "rel" /\ BaseDir \in Path
    <3>1. base # {}
      BY <1>2, <1>8 DEF Placed
    <3> QED BY <1>1, <1>4, <1>8, <3>1
  <2>1. m = [root |-> main.root, segs |-> dir \o n.segs]
    BY <1>8 DEF beamjs_module_normalize, dir
  <2>2. Expand(m, BaseDir) = Collapse(BaseDir \o (dir \o n.segs))
    BY <1>8, <2>1 DEF Expand
  <2>3. MainDir = Collapse(BaseDir \o dir)
    BY <1>5, <2>0 DEF MainDir
  <2>4. BaseDir \in Seq(Segment) /\ dir \in Seq(Segment) /\ n.segs \in Seq(Segment)
    BY <1>0, <1>1, <1>2, <2>0
  <2>5. (BaseDir \o dir) \o n.segs = BaseDir \o (dir \o n.segs) /\ BaseDir \o dir \in Seq(Segment)
    <3>1. \A a, b, c \in Seq(Segment) : (a \o b) \o c = a \o (b \o c)
      BY ConcatAssociative
    <3>2. BaseDir \o dir \in Seq(Segment)
      BY <2>4
    <3> QED BY <2>4, <3>1, <3>2
  <2>6. Collapse(Collapse(BaseDir \o dir) \o n.segs) = Collapse((BaseDir \o dir) \o n.segs)
    BY <1>0, <1>1, <2>5, CollapseTwice
  <2> QED BY <2>2, <2>3, <2>5, <2>6 DEF Beside
<1>9. CASE ~(Len(main.segs) > 1)
  <2>1. m = n
    BY <1>9 DEF beamjs_module_normalize
  <2>2. Expand(m, BaseDir) = Collapse(BaseDir \o n.segs)
    BY <1>1, <2>1 DEF Expand
  <2>3. CASE base = {}
    <3>1. BaseDir = Front(Expand(main, Cwd)) /\ MainDir = Front(Expand(main, Cwd))
      BY <2>3 DEF BaseDir, MainDir
    <3> QED BY <2>2, <3>1 DEF Beside
  <2>4. CASE base # {}
    <3>1. main.root = "rel" /\ BaseDir \in Path
      BY <1>1, <1>4, <1>9, <2>4 DEF Placed
    <3>2. MainDir = Collapse(BaseDir \o dir)
      BY <1>5, <2>4, <3>1 DEF MainDir
    <3>3. dir \in Seq(Segment) /\ Len(dir) = 0 /\ BaseDir \in Seq(Segment)
      <4>1. dir \in Seq(Segment) /\ BaseDir \in Seq(Segment)
        BY <1>0, <1>2, <3>1
      <4>2. \A k \in Nat : k > 0 /\ ~(k > 1) => k - 1 = 0
        OBVIOUS
      <4>3. Len(dir) = 0
        BY <1>2, <1>9, <4>2
      <4> QED BY <4>1, <4>3
    <3>4. BaseDir \o dir = BaseDir
      BY <3>3
    <3> QED BY <1>1, <2>2, <3>1, <3>2, <3>4, CollapseTwice DEF Beside
  <2> QED BY <2>3, <2>4
<1> QED BY <1>7, <1>8, <1>9

\* No path is a file's and a directory's.
LEMMA FilesNotDirs ==
    ASSUME ResolveInv
    PROVE  files \cap Dirs(files) = {}
<1>1. Dirs(files) \subseteq Dirs(Files)
  BY DEF ResolveInv, Dirs
<1> QED BY <1>1, ResolveAssumption DEF ResolveInv

\* What resolve_and_load answers for a relative import of a main source
\* that init knows the place of.
LEMMA RelativeAnswer ==
    ASSUME ResolveInv, Placed, NEW n \in Imports, IsRelative(n), NEW m,
           m = beamjs_module_normalize(main, n), NEW r, r = resolve_and_load(m)
    PROVE  \/ Hidden(n) /\ r = Error
           \/ ~Hidden(n) /\ r \in {Ok(f) : f \in Meant(n)}
           \/ /\ ~Hidden(n) /\ Meant(n) = {}
              /\ \/ r = Error
                 \/ /\ Len(main.segs) > 1
                    /\ \E f \in ToSet(Packages(m)) \cap files : r = Ok(f)
<1> DEFINE C == Candidates(Beside(n))
           K == Packages(m)
           D == Dirs(files)
           A == ToSet(C) \cup ToSet(K)
<1>1. m.root # "beamjs"
  <2>1. main.root # "beamjs"
    BY ResolveAssumption DEF ResolveInv
  <2> QED BY <2>1 DEF beamjs_module_normalize, IsRelative
<1>2. Found(m) = FirstIn(files \cup D, C \o K)
  BY PlacedBeside DEF Found, FirstExisting
<1>3. DOMAIN C = 1..6 /\ 6 \in Nat /\ C \in Seq(ToSet(C))
  <2>1. \A a, b, c, d, e, f : DOMAIN <<a, b, c, d, e, f>> = 1..6
    OBVIOUS
  <2>2. \A a, b, c, d, e, f : <<a, b, c, d, e, f>> \in Seq({a, b, c, d, e, f})
    OBVIOUS
  <2>3. \A a, b, c, d, e, f : {a, b, c, d, e, f} = ToSet(<<a, b, c, d, e, f>>)
    BY <2>1 DEF ToSet
  <2>4. \E a, b, c, d, e, f : C = <<a, b, c, d, e, f>>
    BY DEF Candidates
  <2> HIDE DEF C
  <2>5. PICK a, b, c, d, e, f : C = <<a, b, c, d, e, f>>
    BY <2>4
  <2> DEFINE t == <<a, b, c, d, e, f>>
  <2>6. DOMAIN t = 1..6 /\ t \in Seq({a, b, c, d, e, f}) /\ {a, b, c, d, e, f} = ToSet(t)
    BY <2>1, <2>2, <2>3
  <2> HIDE DEF t
  <2> QED BY <2>5, <2>6 DEF t
<1>4. K \in Seq(ToSet(K))
  <2>1. \A a : <<a>> \in Seq({a}) /\ {a} = ToSet(<<a>>)
    BY DEF ToSet
  <2>2. <<>> \in Seq(ToSet(<<>>))
    OBVIOUS
  <2>3. K = <<>> \/ \E a : K = <<a>>
    BY DEF Packages
  <2> HIDE DEF K
  <2> QED BY <2>1, <2>2, <2>3
<1>5. C \in Seq(A) /\ K \in Seq(A)
  BY <1>3, <1>4
<1>6. files \cap D = {}
  BY FilesNotDirs
<1>7. Hidden(n) <=> FirstIn(files \cup D, C) \cap D # {}
  BY DEF Hidden
<1>8. Meant(n) = FirstIn(files, C)
  BY DEF Meant
<1>9. ~(Len(main.segs) > 1) => K = <<>>
  BY DEF beamjs_module_normalize, Packages, IsRelative, StartsWithDot
<1>10. r = IF Found(m) \cap files = {} THEN Error ELSE Ok(CHOOSE f \in Found(m) : TRUE)
  BY <1>1 DEF resolve_and_load
<1> HIDE DEF C, K, D, A
<1> DEFINE E == files \cup D
<1>11. Found(m) = IF FirstIn(E, C) # {} THEN FirstIn(E, C) ELSE FirstIn(E, K)
  <2>1. \A S : FirstIn(S, C \o K) = IF FirstIn(S, C) # {} THEN FirstIn(S, C) ELSE FirstIn(S, K)
    BY <1>5, FirstOfTwo
  <2> QED BY <1>2, <2>1
<1>12. \A f, g \in FirstIn(E, C) : f = g
  BY <1>3, FirstInFacts
<1>13. FirstIn(E, C) \subseteq files \cup D
  BY <1>3, FirstInFacts
<1>14. CASE Hidden(n)
  <2>1. Found(m) = FirstIn(E, C) /\ Found(m) \cap D # {}
    BY <1>7, <1>11, <1>14
  <2>2. Found(m) \cap files = {}
    BY <1>6, <1>12, <2>1
  <2> QED BY <1>10, <1>14, <2>2
<1>15. CASE ~Hidden(n)
  <2>1. FirstIn(E, C) \cap D = {}
    BY <1>7, <1>15
  <2>2. Meant(n) = FirstIn(E, C)
    <3>1. files \subseteq E /\ FirstIn(E, C) \subseteq files
      BY <1>13, <2>1
    <3>2. PICK k \in Nat : DOMAIN C = 1..k
      BY <1>3
    <3> HIDE DEF E
    <3>3. FirstIn(files, C) = FirstIn(E, C)
      BY ONLY <3>1, <3>2, FirstIsFile
    <3> QED BY <1>8, <3>3
  <2>3. CASE FirstIn(E, C) # {}
    <3>1. Found(m) = Meant(n) /\ Found(m) # {} /\ Found(m) \subseteq files
      BY <1>11, <1>13, <2>1, <2>2, <2>3
    <3>2. r = Ok(CHOOSE f \in Found(m) : TRUE) /\ (CHOOSE f \in Found(m) : TRUE) \in Meant(n)
      BY <1>10, <3>1
    <3> QED BY <1>15, <3>2
  <2>4. CASE FirstIn(E, C) = {} /\ Found(m) \cap files = {}
    BY <1>10, <1>15, <2>2, <2>4
  <2>5. CASE FirstIn(E, C) = {} /\ Found(m) \cap files # {}
    <3>1. Found(m) = FirstIn(E, K)
      BY <1>11, <2>5
    <3>2. DOMAIN K = 1..Len(K) /\ Len(K) \in Nat
      BY <1>4
    <3>3. /\ \A f \in Found(m) : f \in ToSet(K)
          /\ \A f, g \in Found(m) : f = g
      BY <3>1, <3>2, FirstInFacts
    <3>4. PICK f \in Found(m) : f \in files
      BY <2>5
    <3>5. r = Ok(f)
      <4>1. (CHOOSE g \in Found(m) : TRUE) = f
        BY <3>3, <3>4
      <4> QED BY <1>10, <2>5, <4>1
    <3>6. Len(main.segs) > 1
      <4>1. ToSet(K) # {}
        BY <3>3, <3>4
      <4>2. ToSet(<<>>) = {}
        BY DEF ToSet
      <4> QED BY <1>9, <4>1, <4>2
    <3> QED BY <1>15, <2>2, <2>5, <3>3, <3>4, <3>5, <3>6 DEF K
  <2> QED BY <2>3, <2>4, <2>5
<1> QED BY <1>14, <1>15

\* For every file system, main source and specifier: a relative import
\* finds the file next to the main file, in the order of
\* module_resolver.ex:58, where process.ex:74 knows where that is, unless a
\* directory hides it; if there is none it fails, or finds a package.
THEOREM ImportsFindNeighbours == Spec => FoundNextToMain
<1> DEFINE Answer(n) ==
      \/ Hidden(n) /\ last'.result = Error
      \/ ~Hidden(n) /\ last'.result \in {Ok(f) : f \in Meant(n)}
      \/ /\ ~Hidden(n) /\ Meant(n) = {}
         /\ \/ last'.result = Error
            \/ /\ Len(main.segs) > 1
               /\ \E f \in ToSet(Packages(beamjs_module_normalize(main, n))) \cap files :
                     last'.result = Ok(f)
           Good == \A n \in Imports : IsRelative(n) /\ Loads(n) /\ Placed => Answer(n)
<1>1. ResolveInv /\ [Next]_vars => [Good]_vars
  <2> SUFFICES ASSUME ResolveInv, Next, NEW n \in Imports, IsRelative(n), Loads(n), Placed
               PROVE  Answer(n)
    OBVIOUS
  <2> DEFINE m == beamjs_module_normalize(main, n)
  <2>1. loads' = loads + 1 /\ last'.name = n /\ m \notin DOMAIN table /\ loads \in Nat
    BY DEF Loads, ResolveInv
  <2>2. ASSUME NEW k \in Imports, Import(k) PROVE last'.result = resolve_and_load(m)
    <3> DEFINE q == beamjs_module_normalize(main, k)
    <3>1. last' = [name |-> k, result |-> Lookup(q)]
      BY <2>2 DEF Import
    <3>2. k = n /\ last'.result = Lookup(q)
      BY <2>1, <3>1
    <3>3. Lookup(m) = resolve_and_load(m)
      BY <2>1 DEF Lookup
    <3> QED BY <3>2, <3>3
  <2>3. ASSUME NEW f \in Files, WriteFile(f) PROVE FALSE
    <3>1. loads' = loads
      BY <2>3 DEF WriteFile
    <3> QED BY <2>1, <3>1
  <2>4. last'.result = resolve_and_load(m)
    BY <2>2, <2>3 DEF Next
  <2> QED BY <2>4, RelativeAnswer
<1> QED BY <1>1, ResolveInvariant, PTL DEF Spec, FoundNextToMain
=============================================================================
