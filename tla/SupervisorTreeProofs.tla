----------------------- MODULE SupervisorTreeProofs -----------------------
(***************************************************************************)
(* Proofs about SupervisorTree: for every tree, with any number of         *)
(* supervisors, workers, strategies and failures, the supervisor bridge    *)
(* keeps its children up, leaves no survivors of a group, keeps names with *)
(* their processes and temporary children down.                            *)
(***************************************************************************)
EXTENDS SupervisorTree, TLAPS, WellFoundedInduction

(***************************************************************************)
(* The inductive invariant, as predicates of what is known of the          *)
(* processes, f.  QuietMeansUp and NoSurvivors speak of a supervisor that  *)
(* has handled everything; what makes them true is that at any time its    *)
(* todo list and its queue account for every child that is not up, and for *)
(* every child that has outlived a sibling it should not have outlived.    *)
(***************************************************************************)
Runs(r) == r.st \in {"init", "up"}
Has(r, kind, n) == \E m \in ToSet(r.queue) : m.kind = kind /\ m.child = n

\* What the supervisor s keeps is about its children, and what is kept in
\* its own place says that there is no process.
Own(f, s) ==
    /\ f[s].todo \subseteq Kids(s)
    /\ f[s].restarts <= MaxRestarts(s)
    /\ \A m \in ToSet(f[s].queue) :
          /\ IF m.kind = "parent" THEN s = Root ELSE m.child \in Kids(s)
          /\ m.kind = "exit" /\ m.reason = Shutdown => IsSup(m.child)
    /\ f[s].slot # None => f[s].st = "off"

\* Under a supervisor that does not run nothing is left.
Down(f, s) == ~Runs(f[s]) => \A n \in Kids(s) : f[n] = Fresh

\* A child whose exit is in the queue has ended, and nobody starts it.
Ended(f, s) ==
    \A n \in Kids(s) : Has(f[s], "exit", n) =>
        f[n].st = "off" /\ f[n].slot # "retrying" /\ n \notin f[s].todo

\* A child on the todo list is not up, nor is there anything in its place;
\* after its init a supervisor has no temporary child to start, and not
\* two children if the strategy is one_for_one.
ToStart(f, s) ==
    \A n \in f[s].todo :
        /\ f[n].st # "up" /\ f[n].slot = None
        /\ f[s].st = "up" => /\ Restart(n) # "temporary"
                             /\ Strategy(s) = "one_for_one" => f[s].todo = {n}

\* A child that will be started again together with m, which is retried.
Retried(f, s, n) ==
    \E m \in Kids(s) :
        f[m].slot = "retrying" /\ Has(f[s], "retry", m) /\ n \in Group(s, m)

Rests(r, n) ==
    /\ r.slot = "resting"
    /\ js[n].restart = "temporary" \/ (js[n].restart = "transient" /\ IsSup(n))

\* Every child of a supervisor that runs is up, or it is accounted for.
Accounted(f, s) ==
    Runs(f[s]) => \A n \in Kids(s) :
        \/ n \in f[s].todo
        \/ f[n].st = "up"
        \/ Has(f[s], "exit", n)
        \/ Retried(f, s, n)
        \/ Rests(f[n], n)

\* The exit of m that takes n along has not been handled yet.
Outlived(f, s) ==
    \A n \in Kids(s), m \in Kids(s) :
        m \in f[n].since /\ n \in Group(s, m) =>
            \E q \in ToSet(f[s].queue) :
                q.kind = "exit" /\ q.child = m /\ WantsRestart(m, q.reason)

Family(f, s) ==
    /\ Own(f, s) /\ Down(f, s) /\ Ended(f, s) /\ ToStart(f, s)
    /\ Accounted(f, s) /\ Outlived(f, s)

TreeOK(f) == f \in [Nodes -> Process] /\ \A s \in Nodes : Family(f, s)

\* A process that runs holds its name.
Named(f, h) == \A n \in Nodes : Runs(f[n]) => \A k \in Key(n) : h[k] = n

TreeInv ==
    /\ js \in Specs
    /\ owner \in {"ready", "waiting", "answered", "refused", "dead"}
    /\ holder \in [Names -> Nodes \cup Strangers \cup {None}]
    /\ faults \in 0..MaxFaults
    /\ owner = "ready" => node = [n \in Nodes |-> Fresh]
    /\ TreeOK(node)
    /\ Named(node, holder)

-----------------------------------------------------------------------------
(***************************************************************************)
(* Induction.  The least number principle follows from the well-founded-   *)
(* ness of < on Nat; applied to the set of counterexamples it shows what a *)
(* recursive function computes.                                            *)
(***************************************************************************)

\* Every set of natural numbers that has a member has a least one.
LEMMA LeastNat ==
    ASSUME NEW T, T \subseteq Nat, T # {}
    PROVE  \E m \in T : \A k \in T : m <= k
<1> DEFINE R == OpToRel(<, Nat)
<1>1. IsWellFoundedOn(R, Nat)
  BY NatLessThanWellFounded
<1>2. \A x, y \in Nat : x < y => <<x, y>> \in R
  BY DEF OpToRel
<1> HIDE DEF R
<1>3. PICK m \in T : \A k \in T : ~(<<k, m>> \in R)
  BY <1>1, WFMin
<1>4. ASSUME NEW k \in T PROVE m <= k
  <2>1. m \in Nat /\ k \in Nat /\ ~(k < m)
    BY <1>2, <1>3
  <2> QED BY <2>1
<1> QED BY <1>4

\* The function by which Flushed goes through the queue, up to place n.
Stale(m, G) == m.kind = "exit" /\ m.child \in G
KeptStep(kept, q, G, i) ==
    IF i = 0 THEN <<>>
    ELSE IF Stale(q[i], G) THEN kept[i - 1] ELSE Append(kept[i - 1], q[i])
KeptTo(kept, q, G, n) == kept = [i \in 0..n |-> KeptStep(kept, q, G, i)]

\* The messages among the first n that Flushed keeps.
KeptSet(q, G, n) == {q[i] : i \in {j \in 1..n : ~Stale(q[j], G)}}

\* What the function is at each place.
LEMMA KeptAt ==
    ASSUME NEW q, NEW G, NEW n \in Nat, NEW kept, KeptTo(kept, q, G, n), NEW i \in 0..n
    PROVE  kept[i] = KeptStep(kept, q, G, i)
  BY DEF KeptTo

\* What is in a queue after a message was sent or taken.
LEMMA QueueSets ==
    ASSUME NEW S, NEW q \in Seq(S)
    PROVE  /\ \A e \in S : Append(q, e) \in Seq(S) /\ ToSet(Append(q, e)) = ToSet(q) \cup {e}
           /\ q # <<>> => /\ Head(q) \in ToSet(q) /\ Tail(q) \in Seq(S)
                          /\ ToSet(q) = {Head(q)} \cup ToSet(Tail(q))
           /\ ToSet(q) \subseteq S
           /\ ToSet(<<>>) = {}
<1>1. ASSUME NEW e \in S PROVE Append(q, e) \in Seq(S) /\ ToSet(Append(q, e)) = ToSet(q) \cup {e}
  <2>1. Append(q, e) \in Seq(S)
    OBVIOUS
  <2>2. /\ \A i \in DOMAIN q : i \in DOMAIN Append(q, e) /\ Append(q, e)[i] = q[i]
        /\ Len(q) + 1 \in DOMAIN Append(q, e) /\ Append(q, e)[Len(q) + 1] = e
        /\ \A i \in DOMAIN Append(q, e) : i \in DOMAIN q \/ i = Len(q) + 1
    OBVIOUS
  <2> QED BY <2>1, <2>2 DEF ToSet
<1>2. ASSUME q # <<>>
      PROVE  /\ Head(q) \in ToSet(q) /\ Tail(q) \in Seq(S)
             /\ ToSet(q) = {Head(q)} \cup ToSet(Tail(q))
  <2> DEFINE t == Tail(q)
             h == Head(q)
  <2>1. /\ 1 \in DOMAIN q /\ q[1] = h /\ t \in Seq(S)
        /\ \A i \in DOMAIN q : i = 1 \/ (i - 1 \in DOMAIN t /\ t[i - 1] = q[i])
        /\ \A i \in DOMAIN t : i + 1 \in DOMAIN q /\ t[i] = q[i + 1]
    BY <1>2
  <2> HIDE DEF t, h
  <2>2. ToSet(q) = {h} \cup ToSet(t)
    BY <2>1 DEF ToSet
  <2> QED BY <2>1, <2>2 DEF t, h
<1>3. ToSet(q) \subseteq S
  BY DEF ToSet
<1>4. ToSet(<<>>) = {}
  BY DEF ToSet
<1> QED BY <1>1, <1>2, <1>3, <1>4

\* There is such a function.
LEMMA KeptExists ==
    ASSUME NEW q, NEW G, NEW n \in Nat
    PROVE  \E kept : KeptTo(kept, q, G, n)
<1> DEFINE P(k) == \E kept : KeptTo(kept, q, G, k)
           Bad  == {k \in Nat : ~P(k)}
<1>1. P(0)
  <2> DEFINE f == [i \in 0..0 |-> <<>>]
  <2>1. KeptTo(f, q, G, 0)
    BY DEF KeptTo, KeptStep
  <2> QED BY <2>1
<1>2. ASSUME NEW k \in Nat, P(k) PROVE P(k + 1)
  <2>1. PICK f : KeptTo(f, q, G, k)
    BY <1>2
  <2> DEFINE g == [i \in 0..k + 1 |-> IF i <= k THEN f[i] ELSE KeptStep(f, q, G, i)]
             h == [i \in 0..k + 1 |-> KeptStep(g, q, G, i)]
  <2>2. ASSUME NEW i \in 0..k + 1 PROVE g[i] = KeptStep(f, q, G, i)
    <3>1. CASE i <= k
      <4>1. i \in 0..k
        BY <3>1
      <4> QED BY <2>1, <3>1, <4>1, KeptAt
    <3>2. CASE ~(i <= k)
      BY <3>2
    <3> QED BY <3>1, <3>2
  <2>3. \A i \in 0..k : g[i] = f[i]
    OBVIOUS
  <2>4. g = [i \in 0..k + 1 |-> g[i]] /\ h = [i \in 0..k + 1 |-> h[i]]
    OBVIOUS
  <2>5. \A i \in 0..k + 1 : h[i] = KeptStep(g, q, G, i)
    OBVIOUS
  <2> HIDE DEF g, h
  <2>6. ASSUME NEW i \in 0..k + 1 PROVE KeptStep(f, q, G, i) = KeptStep(g, q, G, i)
    <3>1. i = 0 \/ i - 1 \in 0..k
      OBVIOUS
    <3> QED BY <2>3, <3>1 DEF KeptStep
  <2>7. g = h
    BY <2>2, <2>4, <2>5, <2>6
  <2>8. KeptTo(g, q, G, k + 1)
    BY <2>7 DEF KeptTo, h
  <2> QED BY <2>8
<1> HIDE DEF P
<1>3. ASSUME Bad # {} PROVE FALSE
  <2>1. PICK m \in Bad : \A k \in Bad : m <= k
    <3>1. Bad \subseteq Nat
      OBVIOUS
    <3> QED BY <1>3, <3>1, LeastNat
  <2>2. m \in Nat /\ m # 0 /\ ~P(m)
    BY <1>1, <2>1
  <2>3. m - 1 \in Nat /\ (m - 1) + 1 = m /\ ~(m <= m - 1)
    BY <2>2
  <2>4. P(m - 1)
    BY <2>1, <2>3
  <2> QED BY <1>2, <2>2, <2>3, <2>4
<1>4. P(n)
  BY <1>3
<1> QED BY <1>4 DEF P

\* What such a function has kept at place n is a queue of exactly those of
\* the first n messages that are not stale.
LEMMA KeptIs ==
    ASSUME NEW S, NEW q \in Seq(S), NEW G, NEW kept, KeptTo(kept, q, G, Len(q)),
           NEW n \in 0..Len(q)
    PROVE  /\ kept[n] \in Seq(S)
           /\ ToSet(kept[n]) = KeptSet(q, G, n)
<1> DEFINE P(k) == /\ kept[k] \in Seq(S)
                   /\ ToSet(kept[k]) = KeptSet(q, G, k)
           Bad  == {k \in 0..Len(q) : ~P(k)}
<1>0. Len(q) \in Nat
  OBVIOUS
<1>1. P(0)
  <2>1. kept[0] = <<>>
    <3>1. 0 \in 0..Len(q)
      BY <1>0
    <3>2. kept[0] = KeptStep(kept, q, G, 0)
      BY <1>0, <3>1, KeptAt
    <3> QED BY <3>2 DEF KeptStep
  <2> QED BY <2>1 DEF ToSet, KeptSet
<1>2. ASSUME NEW k \in Nat, k + 1 \in 0..Len(q), P(k) PROVE P(k + 1)
  <2>1. k \in 0..Len(q) /\ k + 1 # 0 /\ (k + 1) - 1 = k /\ k + 1 \in 1..Len(q)
    BY <1>0, <1>2
  <2>2. kept[k + 1] = IF Stale(q[k + 1], G) THEN kept[k] ELSE Append(kept[k], q[k + 1])
    BY <1>0, <1>2, <2>1, KeptAt DEF KeptStep
  <2>3. q[k + 1] \in S /\ kept[k] \in Seq(S)
    BY <1>2, <2>1
  <2>4. \A i : i \in 1..k + 1 <=> i \in 1..k \/ i = k + 1
    BY <1>2
  <2>5. CASE Stale(q[k + 1], G)
    BY <1>2, <2>2, <2>4, <2>5 DEF KeptSet
  <2>6. CASE ~Stale(q[k + 1], G)
    <3>1. kept[k + 1] = Append(kept[k], q[k + 1])
      BY <2>2, <2>6
    <3>2. ToSet(kept[k + 1]) = ToSet(kept[k]) \cup {q[k + 1]}
      BY <2>3, <3>1, QueueSets
    <3>3. kept[k + 1] \in Seq(S)
      BY <2>3, <3>1, QueueSets
    <3> QED BY <1>2, <2>4, <2>6, <3>2, <3>3 DEF KeptSet
  <2> QED BY <2>5, <2>6
<1> HIDE DEF P
<1>3. ASSUME Bad # {} PROVE FALSE
  <2>1. PICK m \in Bad : \A k \in Bad : m <= k
    <3>1. Bad \subseteq Nat
      OBVIOUS
    <3> QED BY <1>3, <3>1, LeastNat
  <2>2. m \in 0..Len(q) /\ m # 0 /\ ~P(m)
    BY <1>1, <2>1
  <2>3. m - 1 \in Nat /\ m - 1 \in 0..Len(q) /\ (m - 1) + 1 = m /\ ~(m <= m - 1)
    BY <1>0, <2>2
  <2>4. P(m - 1)
    BY <2>1, <2>3
  <2> QED BY <1>2, <2>2, <2>3, <2>4
<1>4. P(n)
  BY <1>3
<1> QED BY <1>4 DEF P

\* Flushing a queue removes the exits of the group and nothing else.
LEMMA FlushedIs ==
    ASSUME NEW S, NEW q \in Seq(S), NEW G
    PROVE  /\ Flushed(q, G) \in Seq(S)
           /\ ToSet(Flushed(q, G)) = {m \in ToSet(q) : ~Stale(m, G)}
<1> DEFINE kept == CHOOSE f : f = [i \in 0..Len(q) |->
                        IF i = 0 THEN <<>>
                        ELSE IF q[i].kind = "exit" /\ q[i].child \in G THEN f[i - 1]
                        ELSE Append(f[i - 1], q[i])]
<1>0. Len(q) \in Nat /\ DOMAIN q = 1..Len(q)
  OBVIOUS
<1>1. Flushed(q, G) = kept[Len(q)]
  BY DEF Flushed
<1>2. KeptTo(kept, q, G, Len(q))
  <2>1. PICK f : KeptTo(f, q, G, Len(q))
    BY <1>0, KeptExists
  <2>2. f = [i \in 0..Len(q) |-> IF i = 0 THEN <<>>
                ELSE IF q[i].kind = "exit" /\ q[i].child \in G THEN f[i - 1]
                ELSE Append(f[i - 1], q[i])]
    BY <2>1 DEF KeptTo, KeptStep, Stale
  <2>3. kept = [i \in 0..Len(q) |-> IF i = 0 THEN <<>>
                ELSE IF q[i].kind = "exit" /\ q[i].child \in G THEN kept[i - 1]
                ELSE Append(kept[i - 1], q[i])]
    BY <2>2
  <2> HIDE DEF kept
  <2> QED BY <2>3 DEF KeptTo, KeptStep, Stale
<1> HIDE DEF kept
<1>3. Len(q) \in 0..Len(q)
  BY <1>0
<1>4. kept[Len(q)] \in Seq(S) /\ ToSet(kept[Len(q)]) = KeptSet(q, G, Len(q))
  BY <1>2, <1>3, KeptIs
<1>5. KeptSet(q, G, Len(q)) = {m \in ToSet(q) : ~Stale(m, G)}
  BY <1>0 DEF ToSet, KeptSet
<1> QED BY <1>1, <1>4, <1>5

-----------------------------------------------------------------------------
(* Trees, groups and the order of children.                                *)

\* Every process has one parent at most, and is not below itself.
LEMMA TreeFacts ==
    ASSUME js \in Specs, NEW s \in Nodes
    PROVE  /\ Kids(s) \subseteq Nodes /\ Root \notin Kids(s) /\ s \notin Kids(s)
           /\ \A r \in Nodes : \A n \in Kids(s) : n \in Kids(r) => r = s
           /\ Kids(s) \subseteq Below(s) /\ Below(s) \subseteq Nodes /\ s \notin Below(s)
           /\ \A d \in Below(s) : Kids(d) \subseteq Below(s)
           /\ \A r \in Nodes : \A d \in Below(s) : d \in Kids(r) => r = s \/ r \in Below(s)
           /\ ~IsSup(s) => Kids(s) = {} /\ Below(s) = {}
<1>0. Below(s) = BelowIn(js, s)
  BY DEF Below, Under
<1>1. \A r \in Nodes : Kids(r) \subseteq Nodes
  <2>1. \A r \in Nodes : js[r].children \in Seq(Nodes)
    BY TreeAssumption DEF JsSpec
  <2> QED BY <2>1 DEF Kids, KidsIn, ToSet
<1>2. \A r, t \in Nodes : \A n \in Kids(r) : n \in Kids(t) => r = t
  BY TreeAssumption DEF Kids
<1>3. Kids(s) \subseteq Below(s) /\ Below(s) \subseteq Nodes
  BY <1>0, <1>1 DEF BelowIn, Kids
<1>4. Root \notin Kids(s) /\ s \notin Below(s)
  BY <1>0, TreeAssumption DEF Kids
<1>5. \A d \in Below(s) : Kids(d) \subseteq Below(s)
  BY <1>0, <1>1 DEF BelowIn, Kids
<1>6. \A S \in SUBSET Nodes :
          Kids(s) \subseteq S /\ (\A m \in S : Kids(m) \subseteq S) => Below(s) \subseteq S
  BY <1>0 DEF BelowIn, Kids
<1>7. ASSUME NEW r \in Nodes, NEW d \in Below(s), d \in Kids(r)
      PROVE  r = s \/ r \in Below(s)
  <2> DEFINE S == {n \in Below(s) : \A t \in Nodes : n \in Kids(t) => t = s \/ t \in Below(s)}
  <2>1. S \in SUBSET Nodes /\ Kids(s) \subseteq S
    BY <1>2, <1>3
  <2>2. \A m \in S : Kids(m) \subseteq S
    BY <1>2, <1>3, <1>5
  <2>3. Below(s) \subseteq S
    BY <1>6, <2>1, <2>2
  <2> QED BY <1>7, <2>3
<1>8. ASSUME ~IsSup(s) PROVE Kids(s) = {} /\ Below(s) = {}
  <2>1. js[s].children = <<>>
    BY <1>8, TreeAssumption DEF IsSup
  <2>2. Kids(s) = {}
    BY <2>1 DEF Kids, KidsIn, ToSet
  <2> QED BY <1>6, <2>2
<1> QED BY <1>1, <1>2, <1>3, <1>4, <1>5, <1>7, <1>8

\* What ends with a group of children.
Ending(G) == G \cup UNION {Below(g) : g \in G}

\* It is below their supervisor, has with every process its children, and
\* of the supervisor's other children it has none.
LEMMA EndingFacts ==
    ASSUME js \in Specs, NEW s \in Nodes, NEW G \in SUBSET Kids(s)
    PROVE  /\ Ending(G) \subseteq Nodes /\ G \subseteq Ending(G) /\ s \notin Ending(G)
           /\ \A n \in Kids(s) : n \in Ending(G) => n \in G
           /\ \A d \in Ending(G) : Kids(d) \subseteq Ending(G) /\ Kids(d) \cap G = {}
           /\ \A r \in Nodes : \A d \in Ending(G) : d \in Kids(r) => r = s \/ r \in Ending(G)
<1>0. G \subseteq Nodes
  BY TreeFacts
<1>1. \A g \in G : s \notin Below(g) /\ s # g
  BY <1>0, TreeFacts
<1>2. Ending(G) \subseteq Nodes /\ G \subseteq Ending(G) /\ s \notin Ending(G)
  BY <1>0, <1>1, TreeFacts DEF Ending
<1>3. ASSUME NEW r \in Nodes, NEW d \in Ending(G), d \in Kids(r)
      PROVE  r = s \/ r \in Ending(G)
  <2>1. CASE d \in G
    BY <1>3, <2>1, TreeFacts
  <2>2. CASE \E g \in G : d \in Below(g)
    BY <1>0, <1>3, <2>2, TreeFacts DEF Ending
  <2> QED BY <2>1, <2>2 DEF Ending
<1>4. ASSUME NEW n \in Kids(s), n \in Ending(G) PROVE n \in G
  <2>1. ASSUME NEW g \in G, n \in Below(g) PROVE FALSE
    <3>1. s = g \/ s \in Below(g)
      BY <1>0, <1>4, <2>1, TreeFacts
    <3> QED BY <1>1, <3>1
  <2> QED BY <1>4, <2>1 DEF Ending
<1>5. ASSUME NEW d \in Ending(G) PROVE Kids(d) \subseteq Ending(G) /\ Kids(d) \cap G = {}
  <2>1. d \in Nodes /\ d # s
    BY <1>2
  <2>2. Kids(d) \cap G = {}
    BY <2>1, TreeFacts
  <2>3. Kids(d) \subseteq Ending(G)
    BY <1>0, TreeFacts DEF Ending
  <2> QED BY <2>2, <2>3
<1> QED BY <1>2, <1>3, <1>4, <1>5

\* A group has its child, consists of children, and takes the groups of its
\* members along.
LEMMA GroupFacts ==
    ASSUME js \in Specs, NEW s \in Nodes, NEW n \in Kids(s)
    PROVE  /\ At(s, n) \in Nat
           /\ Group(s, n) \subseteq Kids(s) /\ n \in Group(s, n)
           /\ \A m \in Group(s, n) : Group(s, m) \subseteq Group(s, n)
           /\ Strategy(s) = "one_for_one" => Group(s, n) = {n}
           /\ Strategy(s) = "one_for_all" => Group(s, n) = Kids(s)
           /\ Strategy(s) = "rest_for_one" =>
                  Group(s, n) = {m \in Kids(s) : At(s, m) >= At(s, n)}
           /\ Strategy(s) \in {"one_for_one", "one_for_all", "rest_for_one"}
<1>1. ASSUME NEW m \in Kids(s) PROVE At(s, m) \in Nat
  <2>1. js[s].children \in Seq(Nodes)
    BY TreeAssumption DEF JsSpec
  <2>2. \E i \in DOMAIN js[s].children : js[s].children[i] = m
    BY <1>1 DEF Kids, KidsIn, ToSet
  <2>3. At(s, m) \in DOMAIN js[s].children
    BY <2>2 DEF At
  <2> QED BY <2>1, <2>3
<1>2. Strategy(s) \in {"one_for_one", "one_for_all", "rest_for_one"}
  BY DEF Strategy, map_strategy
<1>3. ASSUME NEW m
      PROVE  /\ Strategy(s) = "one_for_one" => Group(s, m) = {m}
             /\ Strategy(s) = "one_for_all" => Group(s, m) = Kids(s)
             /\ Strategy(s) = "rest_for_one" =>
                  Group(s, m) = {k \in Kids(s) : At(s, k) >= At(s, m)}
  BY DEF Group
<1>4. Group(s, n) \subseteq Kids(s) /\ n \in Group(s, n)
  BY <1>1, <1>2, <1>3
<1>5. ASSUME NEW m \in Group(s, n), NEW k \in Group(s, m) PROVE k \in Group(s, n)
  <2>1. CASE Strategy(s) # "rest_for_one"
    BY <1>2, <1>3, <1>5, <2>1
  <2>2. CASE Strategy(s) = "rest_for_one"
    <3>1. m \in Kids(s) /\ k \in Kids(s) /\ At(s, m) >= At(s, n) /\ At(s, k) >= At(s, m)
      BY <1>3, <1>5, <2>2
    <3>2. At(s, k) >= At(s, n)
      BY <1>1, <3>1
    <3> QED BY <1>3, <2>2, <3>1, <3>2
  <2> QED BY <2>1, <2>2
<1> QED BY <1>1, <1>2, <1>3, <1>4, <1>5

\* A supervisor that has children to start starts the first of them.
LEMMA FirstFacts ==
    ASSUME js \in Specs, NEW s \in Nodes, node[s].todo \subseteq Kids(s), node[s].todo # {}
    PROVE  First(s) \in node[s].todo /\ \A m \in node[s].todo : At(s, First(s)) <= At(s, m)
<1> DEFINE T == {At(s, n) : n \in node[s].todo}
<1>1. T \subseteq Nat /\ T # {}
  BY GroupFacts
<1>2. PICK a \in T : \A k \in T : a <= k
  BY <1>1, LeastNat
<1>3. \E n \in node[s].todo : \A m \in node[s].todo : At(s, n) <= At(s, m)
  BY <1>2
<1> QED BY <1>3 DEF First

-----------------------------------------------------------------------------
(***************************************************************************)
(* What a step leaves of a family, a supervisor and its children: f is     *)
(* what is known before the step and g after it.                           *)
(***************************************************************************)

\* The fields of a process.
LEMMA ProcessFields ==
    /\ Fresh \in Process /\ Fresh.st = "off" /\ Fresh.slot = None /\ Fresh.todo = {}
    /\ Fresh.queue = <<>> /\ Fresh.restarts = 0 /\ Fresh.since = {}
    /\ ToSet(Fresh.queue) = {}
    /\ \A r \in Process :
          /\ r.st \in {"off", "init", "up", "failed"}
          /\ r.slot \in {None, "resting", "retrying"}
          /\ r.todo \in SUBSET Nodes /\ r.queue \in Seq(Message)
          /\ r.restarts \in Nat /\ r.since \in SUBSET Nodes
          /\ ToSet(r.queue) \subseteq Message
<1>1. <<>> \in Seq(Message) /\ ToSet(<<>>) = {}
  BY DEF ToSet
<1>2. \A r \in Process : r.queue \in Seq(Message)
  BY DEF Process
<1>3. \A r \in Process : ToSet(r.queue) \subseteq Message
  BY <1>2, QueueSets
<1> QED BY <1>1, <1>2, <1>3 DEF Process, Fresh, None

\* How many restarts are allowed is a number.
LEMMA MaxRestartsType ==
    ASSUME js \in Specs, NEW s \in Nodes
    PROVE  MaxRestarts(s) \in Nat
<1>1. js[s].maxRestarts \in SUBSET Nat
  BY TreeAssumption DEF JsSpec
<1>2. \E n \in js[s].maxRestarts \cup {3} : js[s].maxRestarts = {} \/ n \in js[s].maxRestarts
  OBVIOUS
<1>3. MaxRestarts(s) \in js[s].maxRestarts \cup {3}
  BY <1>2 DEF MaxRestarts
<1> QED BY <1>1, <1>3

\* A family stays in order if the supervisor stays as it is, but for its own
\* history, and so do its children, but for what they do about their own.
LEMMA FamilyFrame ==
    ASSUME js \in Specs, NEW f, NEW g, NEW s \in Nodes, Family(f, s),
           /\ g[s].st = f[s].st /\ g[s].slot = f[s].slot /\ g[s].todo = f[s].todo
           /\ g[s].queue = f[s].queue /\ g[s].restarts = f[s].restarts,
           \A n \in Kids(s) :
               \/ g[n] = f[n]
               \/ /\ Runs(f[n]) /\ g[n].st = f[n].st /\ g[n].slot = f[n].slot
                  /\ g[n].since = f[n].since
    PROVE  Family(g, s)
<1> USE DEF Family
<1>1. \A n \in Kids(s) : g[n].st = f[n].st /\ g[n].slot = f[n].slot /\ g[n].since = f[n].since
  OBVIOUS
<1>2. Own(g, s)
  BY DEF Own
<1>3. Down(g, s)
  BY ProcessFields DEF Down, Runs
<1>4. Ended(g, s) /\ ToStart(g, s)
  BY <1>1 DEF Ended, ToStart, Has, Own
<1>5. Accounted(g, s)
  BY <1>1 DEF Accounted, Retried, Rests, Runs, Has
<1>6. Outlived(g, s)
  BY <1>1 DEF Outlived
<1> QED BY <1>2, <1>3, <1>4, <1>5, <1>6

\* So is the family of a process that does not run and under which nothing
\* is left.
LEMMA FreshFamily ==
    ASSUME js \in Specs, NEW g, NEW s \in Nodes,
           ~Runs(g[s]), g[s].todo = {}, g[s].queue = <<>>, g[s].restarts = 0,
           g[s].slot # None => g[s].st = "off",
           \A n \in Kids(s) : g[n] = Fresh
    PROVE  Family(g, s)
<1>0. ToSet(g[s].queue) = {}
  BY ProcessFields
<1>1. Own(g, s)
  BY <1>0, MaxRestartsType DEF Own
<1>2. Down(g, s) /\ Ended(g, s) /\ ToStart(g, s) /\ Accounted(g, s)
  BY <1>0 DEF Down, Ended, ToStart, Accounted, Has
<1>3. Outlived(g, s)
  BY ProcessFields DEF Outlived
<1> QED BY <1>1, <1>2, <1>3 DEF Family

\* A child that is being started, or was, and is not up yet.
LEMMA KidStarts ==
    ASSUME js \in Specs, NEW f, NEW g, NEW s \in Nodes, NEW n \in Kids(s),
           Family(f, s), g[s] = f[s], Runs(f[s]),
           \A m \in Kids(s) : m # n => g[m] = f[m],
           f[n].st # "up", f[n].slot = None, n \in f[s].todo \/ f[n].st # "off",
           g[n].st # "up", g[n].slot = None, g[n].since \subseteq f[n].since
    PROVE  Family(g, s)
<1> USE DEF Family
<1>1. \A m \in Kids(s) : g[m].slot = f[m].slot /\ g[m].since \subseteq f[m].since
  OBVIOUS
<1>2. Own(g, s) /\ Down(g, s)
  BY DEF Own, Down
<1>3. Ended(g, s)
  BY DEF Ended
<1>4. ToStart(g, s)
  BY DEF ToStart, Own
<1>5. Accounted(g, s)
  BY <1>1 DEF Accounted, Retried, Rests, None
<1>6. Outlived(g, s)
  BY <1>1 DEF Outlived
<1> QED BY <1>2, <1>3, <1>4, <1>5, <1>6

\* A child ends: its supervisor has the message, and the siblings that
\* outlive it do so no longer than the message is in the queue.
LEMMA KidLost ==
    ASSUME js \in Specs, NEW f, NEW g, NEW s \in Nodes, NEW n \in Kids(s), NEW reason,
           TreeOK(f), f[n].st = "up", Exit(n, reason) \in Message,
           reason = Shutdown => IsSup(n),
           /\ g[s].st = f[s].st /\ g[s].slot = f[s].slot /\ g[s].todo = f[s].todo
           /\ g[s].queue = Append(f[s].queue, Exit(n, reason)) /\ g[s].restarts = f[s].restarts,
           g[n] = Fresh,
           \A m \in Kids(s) : m # n =>
               /\ g[m].st = f[m].st /\ g[m].slot = f[m].slot
               /\ g[m].since = f[m].since \/
                     (WantsRestart(n, reason) /\ g[m].since = f[m].since \cup {n})
    PROVE  Family(g, s)
<1> USE DEF Family
<1>0. /\ Family(f, s) /\ f[s].queue \in Seq(Message)
      /\ Exit(n, reason).kind = "exit" /\ Exit(n, reason).child = n /\ Exit(n, reason).reason = reason
  BY ProcessFields DEF TreeOK, Exit
<1> DEFINE e == Exit(n, reason)
<1>1. ToSet(g[s].queue) = ToSet(f[s].queue) \cup {e}
  BY <1>0, QueueSets
<1> HIDE DEF e
<1>2. /\ e.kind = "exit" /\ e.child = n /\ e.reason = reason
  BY <1>0 DEF e
<1>3. \A m : /\ Has(g[s], "exit", m) <=> Has(f[s], "exit", m) \/ m = n
             /\ Has(g[s], "retry", m) <=> Has(f[s], "retry", m)
  BY <1>1, <1>2 DEF Has
<1>4. Runs(f[s]) /\ Runs(g[s])
  BY <1>0, ProcessFields DEF Down, Runs
<1>5. f[n].slot = None /\ n \notin f[s].todo
  <2>1. Own(f, n)
    BY TreeFacts DEF TreeOK
  <2> QED BY <1>0, <2>1 DEF Own, ToStart
<1>6. Own(g, s)
  BY <1>0, <1>1, <1>2 DEF Own
<1>7. Down(g, s)
  BY <1>4 DEF Down
<1>8. Ended(g, s)
  BY <1>0, <1>3, <1>5, ProcessFields DEF Ended, None
<1>9. ToStart(g, s)
  BY <1>0, <1>5 DEF ToStart, Own
<1>10. ASSUME NEW k \in Kids(s), Retried(f, s, k) PROVE Retried(g, s, k)
  BY <1>3, <1>5, <1>10 DEF Retried, None
<1>11. Accounted(g, s)
  BY <1>0, <1>3, <1>4, <1>10 DEF Accounted, Rests
<1>12. Outlived(g, s)
  BY <1>0, <1>1, <1>2, ProcessFields DEF Outlived
<1> QED BY <1>6, <1>7, <1>8, <1>9, <1>11, <1>12

-----------------------------------------------------------------------------
(* Starts.                                                                 *)

\* One process changes: its own family is in order, and so is that of its
\* supervisor; then all are.
LEMMA OneChanges ==
    ASSUME js \in Specs, NEW f, NEW g, TreeOK(f), NEW n \in Nodes, NEW r \in Process,
           g = [f EXCEPT ![n] = r], Family(g, n),
           \A s \in Nodes : n \in Kids(s) => Family(g, s)
    PROVE  TreeOK(g)
<1>1. g \in [Nodes -> Process] /\ \A m \in Nodes : m # n => g[m] = f[m]
  BY DEF TreeOK
<1>2. ASSUME NEW s \in Nodes PROVE Family(g, s)
  <2>1. CASE s # n /\ n \notin Kids(s)
    <3>1. g[s] = f[s] /\ \A m \in Kids(s) : g[m] = f[m]
      BY <1>1, <2>1, TreeFacts
    <3> QED BY <3>1, FamilyFrame DEF TreeOK
  <2> QED BY <2>1
<1> QED BY <1>1, <1>2 DEF TreeOK

\* start_link of a process that is not there, by a supervisor that has it to
\* start or by the owner.
LEMMA LaunchKeeps ==
    ASSUME js \in Specs, TreeOK(node), NEW n \in Nodes, node[n].st = "off",
           \A s \in Nodes : n \in Kids(s) => n \in node[s].todo /\ Runs(node[s]),
           Launch(n)
    PROVE  TreeOK(node')
<1> DEFINE r == [Fresh EXCEPT !.st = "failed"]
           i == [Fresh EXCEPT !.st = "init", !.todo = Kids(n)]
<1>1. /\ node \in [Nodes -> Process] /\ \A s \in Nodes : Family(node, s)
      /\ \A k \in Kids(n) : k \in Nodes /\ k # n
  BY TreeFacts DEF TreeOK
<1>2. /\ r \in Process /\ r.st = "failed" /\ r.slot = None /\ r.todo = {} /\ r.queue = <<>>
      /\ r.restarts = 0 /\ r.since = {}
  BY ProcessFields DEF Process, Fresh
<1>3. /\ i \in Process /\ i.st = "init" /\ i.slot = None /\ i.todo = Kids(n) /\ i.queue = <<>>
      /\ i.restarts = 0 /\ i.since = {}
  BY <1>1, ProcessFields DEF Process, Fresh
<1>4. node' = [node EXCEPT ![n] = r] \/ node' = [node EXCEPT ![n] = i]
  BY DEF Launch, Set
<1> HIDE DEF r, i
<1>5. PICK x \in {r, i} : node' = [node EXCEPT ![n] = x]
  BY <1>4
<1>6. /\ x \in Process /\ node'[n] = x /\ \A m \in Nodes : m # n => node'[m] = node[m]
      /\ x.st \in {"failed", "init"} /\ x.slot = None /\ x.since = {} /\ x.queue = <<>>
      /\ x.restarts = 0
  BY <1>1, <1>2, <1>3, <1>5
<1>7. \A k \in Kids(n) : node'[k] = Fresh
  <2>1. Down(node, n)
    BY <1>1 DEF Family
  <2> QED BY <1>1, <1>6, <2>1 DEF Down, Runs
<1>8. Family(node', n)
  <2>1. CASE x = r
    BY <1>2, <1>6, <1>7, <2>1, FreshFamily DEF Runs
  <2>2. CASE x = i
    <3>0. x.todo = Kids(n) /\ x.st = "init" /\ ToSet(x.queue) = {}
      BY <1>3, <1>6, <2>2, ProcessFields
    <3>1. Own(node', n) /\ Down(node', n)
      BY <1>6, <3>0, MaxRestartsType DEF Own, Down, Runs
    <3>2. Ended(node', n) /\ ToStart(node', n) /\ Accounted(node', n)
      BY <1>6, <1>7, <3>0, ProcessFields DEF Ended, ToStart, Accounted, Has
    <3>3. Outlived(node', n)
      BY <1>7, ProcessFields DEF Outlived
    <3> QED BY <3>1, <3>2, <3>3 DEF Family
  <2> QED BY <2>1, <2>2
<1>9. ASSUME NEW s \in Nodes, n \in Kids(s) PROVE Family(node', s)
  <2>1. n \in node[s].todo /\ Runs(node[s]) /\ Family(node, s) /\ s # n
    BY <1>1, <1>9, TreeFacts
  <2>2. node[n].slot = None
    BY <2>1 DEF Family, ToStart
  <2>3. \A m \in Kids(s) : m # n => node'[m] = node[m]
    BY <1>6, TreeFacts
  <2> QED BY <1>6, <1>9, <2>1, <2>2, <2>3, KidStarts
<1> QED BY <1>1, <1>5, <1>6, <1>8, <1>9, OneChanges

\* A process whose start_link returns its pid is up.
LEMMA UpFamily ==
    ASSUME js \in Specs, NEW f, NEW g, NEW n \in Nodes, Family(f, n),
           f[n].st = "init", f[n].todo = {},
           g[n].st = "up" /\ g[n].slot = f[n].slot /\ g[n].todo = {},
           g[n].queue = f[n].queue /\ g[n].restarts = f[n].restarts,
           \A m \in Kids(n) : g[m] = f[m]
    PROVE  Family(g, n)
<1> USE DEF Family
<1>1. Own(g, n) /\ Down(g, n)
  BY DEF Own, Down, Runs
<1>2. Ended(g, n) /\ ToStart(g, n)
  BY DEF Ended, ToStart, Has
<1>3. Accounted(g, n)
  BY DEF Accounted, Retried, Has, Runs
<1>4. Outlived(g, n)
  BY DEF Outlived
<1> QED BY <1>1, <1>2, <1>3, <1>4

\* The supervisor at work has the first of its children to start.
LEMMA AtWorkFacts ==
    ASSUME js \in Specs, TreeOK(node), NEW s \in Nodes, AtWork(s)
    PROVE  /\ First(s) \in node[s].todo /\ First(s) \in Kids(s) /\ First(s) \in Nodes
           /\ First(s) # s /\ Runs(node[s]) /\ First(s) # Root
           /\ \A r \in Nodes : First(s) \in Kids(r) => r = s
           /\ \A m \in node[s].todo : At(s, First(s)) <= At(s, m)
           /\ node[First(s)].slot = None /\ node[First(s)].st # "up"
           /\ Family(node, s) /\ Family(node, First(s))
           /\ node[s] \in Process /\ node[First(s)] \in Process
<1>1. Family(node, s) /\ node \in [Nodes -> Process] /\ Runs(node[s]) /\ node[s].todo # {}
  BY DEF TreeOK, AtWork, Runs, Running
<1>2. node[s].todo \subseteq Kids(s)
  BY <1>1 DEF Family, Own
<1>3. First(s) \in node[s].todo /\ \A m \in node[s].todo : At(s, First(s)) <= At(s, m)
  BY <1>1, <1>2, FirstFacts
<1>4. /\ First(s) \in Kids(s) /\ First(s) \in Nodes /\ First(s) # s /\ First(s) # Root
      /\ \A r \in Nodes : First(s) \in Kids(r) => r = s
  BY <1>2, <1>3, TreeFacts
<1>5. node[First(s)].slot = None /\ node[First(s)].st # "up"
  BY <1>1, <1>3 DEF Family, ToStart
<1>6. Family(node, First(s))
  BY <1>4 DEF TreeOK
<1> QED BY <1>1, <1>3, <1>4, <1>5, <1>6

\* A supervisor starts the next child on its list.
LEMMA LaunchChildKeeps ==
    ASSUME js \in Specs, TreeOK(node), NEW s \in Nodes, LaunchChild(s)
    PROVE  TreeOK(node')
  BY AtWorkFacts, LaunchKeeps DEF LaunchChild

\* The host call start_supervisor.
LEMMA StartSupervisorKeeps ==
    ASSUME js \in Specs, TreeOK(node), node[Root] = Fresh, StartSupervisor
    PROVE  TreeOK(node')
<1>1. /\ Root \in Nodes /\ node[Root].st = "off"
      /\ \A s \in Nodes : Root \notin Kids(s)
  BY ProcessFields, TreeFacts, TreeAssumption
<1>2. CASE NameFree(Root)
  BY <1>1, <1>2, LaunchKeeps DEF StartSupervisor
<1>3. CASE ~NameFree(Root)
  BY <1>3 DEF StartSupervisor
<1> QED BY <1>2, <1>3

\* The start_link of the root returns, or its answer is not waited for.
LEMMA RootKeeps ==
    ASSUME js \in Specs, TreeOK(node), Owning \/ OwnerCrashes
    PROVE  TreeOK(node')
<1>0. /\ Root \in Nodes /\ \A s \in Nodes : Root \notin Kids(s)
      /\ node \in [Nodes -> Process] /\ Family(node, Root) /\ node[Root] \in Process
      /\ \A k \in Kids(Root) : k \in Nodes /\ k # Root
  BY TreeFacts, TreeAssumption DEF TreeOK
<1>1. ASSUME node[Root].st = "init", node[Root].todo = {}, node' = [node EXCEPT ![Root].st = "up"]
      PROVE  TreeOK(node')
  <2> DEFINE r == [node[Root] EXCEPT !.st = "up"]
  <2>1. /\ r \in Process /\ r.st = "up" /\ r.slot = node[Root].slot /\ r.todo = {}
        /\ r.queue = node[Root].queue /\ r.restarts = node[Root].restarts
    BY <1>0, <1>1 DEF Process
  <2>2. node' = [node EXCEPT ![Root] = r]
    BY <1>0, <1>1
  <2> HIDE DEF r
  <2>3. node'[Root] = r /\ \A k \in Kids(Root) : node'[k] = node[k]
    BY <1>0, <2>2
  <2>4. Family(node', Root)
    <3>1. /\ node'[Root].st = "up" /\ node'[Root].slot = node[Root].slot /\ node'[Root].todo = {}
          /\ node'[Root].queue = node[Root].queue /\ node'[Root].restarts = node[Root].restarts
      BY <2>1, <2>3
    <3> DEFINE g == node'
    <3>2. /\ g[Root].st = "up" /\ g[Root].slot = node[Root].slot /\ g[Root].todo = {}
          /\ g[Root].queue = node[Root].queue /\ g[Root].restarts = node[Root].restarts
          /\ \A k \in Kids(Root) : g[k] = node[k]
      BY <2>3, <3>1
    <3> HIDE DEF g
    <3>3. Family(g, Root)
      BY <1>0, <1>1, <3>2, UpFamily
    <3> QED BY <3>3 DEF g
  <2> QED BY <1>0, <2>1, <2>2, <2>4, OneChanges
<1>2. ASSUME ~Runs(node[Root]), node' = Stopped(node, {Root})
      PROVE  TreeOK(node')
  <2>1. node' = [node EXCEPT ![Root] = Fresh]
    BY <1>0, <1>2 DEF Stopped
  <2>2. node'[Root] = Fresh /\ \A k \in Kids(Root) : node'[k] = Fresh
    BY <1>0, <1>2, <2>1 DEF Family, Down
  <2>3. Family(node', Root)
    BY <1>0, <2>2, ProcessFields, FreshFamily DEF Runs
  <2> QED BY <1>0, <2>1, <2>3, ProcessFields, OneChanges
<1>3. CASE RootStarted \/ OrphanStarted
  BY <1>1, <1>3 DEF RootStarted, OrphanStarted
<1>4. CASE OwnerExits \/ OrphanFailed
  BY <1>2, <1>4 DEF OwnerExits, OrphanFailed, Runs
<1>5. CASE OwnerCrashes
  <2>1. CASE ~Running(Root)
    BY <1>2, <1>5, <2>1 DEF OwnerCrashes, Running, Runs
  <2>2. CASE Running(Root)
    <3> DEFINE q == Append(node[Root].queue, ParentExit)
               r == [node[Root] EXCEPT !.queue = q]
    <3>1. ParentExit \in Message /\ ParentExit.kind = "parent"
      BY TreeAssumption DEF Message, ParentExit
    <3>2. q \in Seq(Message) /\ ToSet(q) = ToSet(node[Root].queue) \cup {ParentExit}
      BY <1>0, <3>1, ProcessFields, QueueSets
    <3> HIDE DEF q
    <3>3. /\ r \in Process /\ r.st = node[Root].st /\ r.slot = node[Root].slot
          /\ r.todo = node[Root].todo /\ r.queue = q /\ r.restarts = node[Root].restarts
      BY <1>0, <3>2 DEF Process
    <3>4. node' = [node EXCEPT ![Root] = r]
      BY <1>0, <1>5, <2>2 DEF OwnerCrashes, q
    <3> HIDE DEF r
    <3>5. node'[Root] = r /\ \A k \in Kids(Root) : node'[k] = node[k]
      BY <1>0, <3>4
    <3>6. \A m : /\ Has(node'[Root], "exit", m) <=> Has(node[Root], "exit", m)
                 /\ Has(node'[Root], "retry", m) <=> Has(node[Root], "retry", m)
      BY <3>1, <3>2, <3>3, <3>5 DEF Has
    <3>7. Own(node', Root) /\ Down(node', Root)
      BY <1>0, <3>1, <3>2, <3>3, <3>5 DEF Family, Own, Down, Runs
    <3>8. Ended(node', Root) /\ ToStart(node', Root)
      BY <1>0, <3>3, <3>5, <3>6 DEF Family, Ended, ToStart, Own
    <3>9. Accounted(node', Root)
      BY <1>0, <3>3, <3>5, <3>6 DEF Family, Accounted, Retried, Runs
    <3>10. Outlived(node', Root)
      BY <1>0, <3>2, <3>3, <3>5 DEF Family, Outlived
    <3>11. Family(node', Root)
      BY <3>7, <3>8, <3>9, <3>10 DEF Family
    <3> QED BY <1>0, <3>3, <3>4, <3>11, OneChanges
  <2> QED BY <2>1, <2>2
<1> QED BY <1>3, <1>4, <1>5 DEF Owning

\* The child of a supervisor at work is up.
LEMMA ChildStartedKeeps ==
    ASSUME js \in Specs, TreeOK(node), NEW s \in Nodes, ChildStarted(s)
    PROVE  TreeOK(node')
<1> DEFINE n == First(s)
           a == [node[n] EXCEPT !.st = "up"]
           b == [node[s] EXCEPT !.todo = @ \ {n}]
<1>0. /\ n \in node[s].todo /\ n \in Kids(s) /\ n \in Nodes /\ n # s /\ Runs(node[s])
      /\ \A r \in Nodes : n \in Kids(r) => r = s
      /\ node[n].slot = None /\ Family(node, s) /\ Family(node, n)
      /\ node[s] \in Process /\ node[n] \in Process /\ node \in [Nodes -> Process]
      /\ node[n].st = "init" /\ node[n].todo = {}
  BY AtWorkFacts DEF ChildStarted, TreeOK
<1>1. /\ a \in Process /\ a.st = "up" /\ a.slot = None /\ a.todo = {} /\ a.queue = node[n].queue
      /\ a.restarts = node[n].restarts /\ a.since = node[n].since
  BY <1>0 DEF Process
<1>2. /\ b \in Process /\ b.st = node[s].st /\ b.slot = node[s].slot /\ b.todo = node[s].todo \ {n}
      /\ b.queue = node[s].queue /\ b.restarts = node[s].restarts /\ b.since = node[s].since
  BY <1>0 DEF Process
<1>3. \A m \in Nodes : node'[m] = IF m = n THEN a ELSE IF m = s THEN b ELSE node[m]
  BY <1>0 DEF ChildStarted
<1>4. node' \in [Nodes -> Process]
  BY <1>0, <1>1, <1>2, <1>3 DEF ChildStarted
<1> HIDE DEF n, a, b
<1>5. Family(node', n)
  <2>1. \A m \in Kids(n) : node'[m] = node[m]
    BY <1>0, <1>3, TreeFacts
  <2> QED BY <1>0, <1>1, <1>3, <2>1, UpFamily
<1>6. Family(node', s)
  <2>1. \A m \in Kids(s) : m # n => node'[m] = node[m]
    BY <1>3, TreeFacts
  <2>2. node'[n] = a /\ node'[s] = b
    BY <1>0, <1>3
  <2> USE DEF Family
  <2>3. Own(node', s) /\ Down(node', s)
    BY <1>0, <1>2, <2>2 DEF Own, Down, Runs
  <2>4. Ended(node', s) /\ ToStart(node', s)
    BY <1>0, <1>2, <2>1, <2>2 DEF Ended, ToStart, Has, Own
  <2>5. \A k \in Kids(s) : Retried(node, s, k) => Retried(node', s, k)
    BY <1>0, <1>2, <2>1, <2>2 DEF Retried, Has, None
  <2>6. Accounted(node', s)
    BY <1>0, <1>1, <1>2, <2>1, <2>2, <2>5 DEF Accounted, Has, Rests, Runs
  <2>7. Outlived(node', s)
    BY <1>0, <1>1, <1>2, <2>1, <2>2 DEF Outlived
  <2> QED BY <2>3, <2>4, <2>6, <2>7
<1>7. ASSUME NEW r \in Nodes, r # s, r # n PROVE Family(node', r)
  <2>1. node'[r] = node[r] /\ Family(node, r) /\ n \notin Kids(r)
    BY <1>0, <1>3, <1>7 DEF TreeOK
  <2>2. \A m \in Kids(r) :
          \/ node'[m] = node[m]
          \/ /\ Runs(node[m]) /\ node'[m].st = node[m].st /\ node'[m].slot = node[m].slot
             /\ node'[m].since = node[m].since
    BY <1>0, <1>2, <1>3, <2>1, TreeFacts
  <2> QED BY <2>1, <2>2, FamilyFrame
<1> QED BY <1>4, <1>5, <1>6, <1>7 DEF TreeOK

\* The source of the child throws.
LEMMA InitThrowsKeeps ==
    ASSUME js \in Specs, TreeOK(node), NEW s \in Nodes, InitThrows(s)
    PROVE  TreeOK(node')
<1> DEFINE n == First(s)
           a == [node[n] EXCEPT !.st = "failed"]
<1>0. /\ n \in node[s].todo /\ n \in Kids(s) /\ n \in Nodes /\ n # s /\ Runs(node[s])
      /\ \A r \in Nodes : n \in Kids(r) => r = s
      /\ node[n].slot = None /\ Family(node, s) /\ Family(node, n)
      /\ node[n] \in Process /\ node \in [Nodes -> Process]
      /\ node[n].st = "init" /\ ~IsSup(n) /\ node' = [node EXCEPT ![n].st = "failed"]
  BY AtWorkFacts DEF InitThrows, TreeOK
<1>1. /\ a \in Process /\ a.st = "failed" /\ a.slot = None /\ a.todo = node[n].todo
      /\ a.queue = node[n].queue /\ a.restarts = node[n].restarts /\ a.since = node[n].since
  BY <1>0 DEF Process
<1>2. node' = [node EXCEPT ![n] = a]
  BY <1>0
<1> HIDE DEF n, a
<1>3. node'[n] = a /\ \A m \in Nodes : m # n => node'[m] = node[m]
  BY <1>0, <1>2
<1>4. Kids(n) = {}
  BY <1>0, TreeFacts
<1>5. Family(node', n)
  <2> USE DEF Family
  <2>1. Own(node', n) /\ Down(node', n) /\ Ended(node', n)
    BY <1>0, <1>1, <1>3, <1>4 DEF Own, Down, Ended
  <2>2. ToStart(node', n) /\ Accounted(node', n) /\ Outlived(node', n)
    BY <1>0, <1>1, <1>3, <1>4 DEF Own, ToStart, Accounted, Outlived
  <2> QED BY <2>1, <2>2
<1>6. ASSUME NEW r \in Nodes, n \in Kids(r) PROVE Family(node', r)
  <2>1. r = s /\ node'[s] = node[s] /\ \A m \in Kids(s) : m # n => node'[m] = node[m]
    BY <1>0, <1>3, <1>6, TreeFacts
  <2>2. /\ Family(node, s) /\ Runs(node[s]) /\ n \in Kids(s)
        /\ node[n].st # "up" /\ node[n].slot = None /\ node[n].st # "off"
        /\ node'[n].st # "up" /\ node'[n].slot = None /\ node'[n].since \subseteq node[n].since
    BY <1>0, <1>1, <1>3
  <2>3. Family(node', s)
    BY <2>1, <2>2, KidStarts
  <2> QED BY <2>1, <2>3
<1> QED BY <1>0, <1>1, <1>2, <1>5, <1>6, OneChanges

-----------------------------------------------------------------------------
(* Failures.                                                               *)

\* A supervisor and all below it stop: they are in order, and so are the
\* families that have none of them.
LEMMA SubtreeStops ==
    ASSUME js \in Specs, NEW f, NEW g, TreeOK(f), NEW s \in Nodes,
           \A d \in Below(s) : g[d] = Fresh,
           ~Runs(g[s]), g[s].todo = {}, g[s].queue = <<>>, g[s].restarts = 0, g[s].slot = None
    PROVE  /\ \A d \in Below(s) \cup {s} : Family(g, d)
           /\ \A r \in Nodes : r \notin Below(s) \cup {s} => Below(s) \cap Kids(r) = {}
<1>1. ASSUME NEW d \in Below(s) \cup {s} PROVE Family(g, d)
  <2>1. d \in Nodes /\ \A k \in Kids(d) : g[k] = Fresh
    BY TreeFacts
  <2>2. /\ ~Runs(g[d]) /\ g[d].todo = {} /\ g[d].queue = <<>> /\ g[d].restarts = 0
        /\ g[d].slot = None
    BY ProcessFields DEF Runs
  <2> QED BY <2>1, <2>2, FreshFamily
<1>2. ASSUME NEW r \in Nodes, r \notin Below(s) \cup {s} PROVE Below(s) \cap Kids(r) = {}
  BY <1>2, TreeFacts
<1> QED BY <1>1, <1>2

\* The child of a supervisor at work could not be started.
LEMMA ChildFailedKeeps ==
    ASSUME js \in Specs, TreeOK(node), NEW s \in Nodes, ChildFailed(s)
    PROVE  TreeOK(node')
<1>0. /\ node \in [Nodes -> Process] /\ node[s] \in Process /\ Family(node, s) /\ Runs(node[s])
      /\ s \notin Below(s) /\ Below(s) \subseteq Nodes
  BY TreeFacts DEF ChildFailed, AtWork, Running, Runs, TreeOK
<1>1. CASE node[s].st = "init"
  <2> DEFINE x == [Fresh EXCEPT !.st = "failed"]
  <2>1. /\ x \in Process /\ x.st = "failed" /\ x.slot = None /\ x.todo = {} /\ x.queue = <<>>
        /\ x.restarts = 0 /\ x.since = {}
    BY ProcessFields DEF Process, Fresh
  <2>2. node' = [[m \in Nodes |-> IF m \in Below(s) THEN Fresh ELSE node[m]] EXCEPT ![s] = x]
    BY <1>1 DEF ChildFailed, Set, Stopped
  <2> HIDE DEF x
  <2>3. /\ node' \in [Nodes -> Process] /\ node'[s] = x
        /\ \A m \in Nodes : m # s => node'[m] = IF m \in Below(s) THEN Fresh ELSE node[m]
    BY <1>0, <2>1, <2>2, ProcessFields
  <2>4. \A d \in Below(s) : node'[d] = Fresh
    BY <1>0, <2>3
  <2>5. /\ \A d \in Below(s) \cup {s} : Family(node', d)
        /\ \A r \in Nodes : r \notin Below(s) \cup {s} => Below(s) \cap Kids(r) = {}
    BY <2>1, <2>3, <2>4, SubtreeStops DEF Runs
  <2>6. ASSUME NEW r \in Nodes, r \notin Below(s) \cup {s} PROVE Family(node', r)
    <3>1. /\ Family(node, r) /\ node'[r] = node[r]
          /\ \A m \in Kids(r) : m # s => node'[m] = node[m]
      BY <2>3, <2>5, <2>6, TreeFacts DEF TreeOK
    <3>2. CASE s \in Kids(r)
      <4>1. Runs(node[r])
        BY <1>0, <3>1, <3>2, ProcessFields DEF Family, Down, Runs
      <4>2. node[s].slot = None
        BY <1>0, <1>1 DEF Family, Own
      <4>3. /\ node[s].st # "up" /\ node[s].st # "off"
            /\ node'[s].st # "up" /\ node'[s].slot = None /\ node'[s].since \subseteq node[s].since
        BY <1>1, <2>1, <2>3
      <4> QED BY <3>1, <3>2, <4>1, <4>2, <4>3, KidStarts
    <3>3. CASE s \notin Kids(r)
      BY <3>1, <3>3, FamilyFrame
    <3> QED BY <3>2, <3>3
  <2> QED BY <2>3, <2>5, <2>6 DEF TreeOK
<1>2. CASE node[s].st # "init"
  <2> DEFINE n == First(s)
             x == [Fresh EXCEPT !.slot = "retrying"]
             t == TryAgain(n)
             q == Append(node[s].queue, t)
             y == [node[s] EXCEPT !.todo = {}, !.queue = q]
  <2>1. /\ n \in node[s].todo /\ n \in Kids(s) /\ n \in Nodes /\ n # s /\ node[s].st = "up"
        /\ \A r \in Nodes : n \in Kids(r) => r = s
        /\ \A m \in node[s].todo : At(s, n) <= At(s, m)
        /\ Family(node, n) /\ node[n].st = "failed" /\ node[n].slot = None
    BY <1>0, <1>2, AtWorkFacts DEF ChildFailed, Runs
  <2>2. /\ x \in Process /\ x.st = "off" /\ x.slot = "retrying" /\ x.todo = {} /\ x.queue = <<>>
        /\ x.restarts = 0 /\ x.since = {}
    BY ProcessFields DEF Process, Fresh
  <2>3. t \in Message /\ t.kind = "retry" /\ t.child = n
    BY <2>1 DEF TryAgain, Message
  <2>4. node' = [node EXCEPT ![n] = x, ![s].todo = {}, ![s].queue = Append(@, t)]
    BY <1>2 DEF ChildFailed, RetryChild
  <2> HIDE DEF n, x, t
  <2>5. q \in Seq(Message) /\ ToSet(q) = ToSet(node[s].queue) \cup {t}
    BY <1>0, <2>3, ProcessFields, QueueSets
  <2>6. /\ y.st = "up" /\ y.slot = node[s].slot /\ y.todo = {} /\ y.queue = q
        /\ y.restarts = node[s].restarts /\ y.since = node[s].since /\ y \in Process
    BY <1>0, <2>1, <2>5 DEF Process
  <2>7. \A m \in Nodes : node'[m] = IF m = s THEN y ELSE IF m = n THEN x ELSE node[m]
    BY <1>0, <2>1, <2>4
  <2>8. node' \in [Nodes -> Process]
    BY <1>0, <2>2, <2>4, <2>6, <2>7
  <2> HIDE DEF q, y
  <2>9. Family(node', n)
    <3>1. \A k \in Kids(n) : node'[k] = Fresh
      <4>1. \A k \in Kids(n) : node[k] = Fresh /\ k \in Nodes /\ k # n
        BY <2>1, TreeFacts DEF Family, Down, Runs
      <4>2. s \notin Kids(n)
        BY <1>0, <4>1, ProcessFields DEF Runs
      <4> QED BY <2>7, <4>1, <4>2
    <3>2. node'[n] = x
      BY <2>1, <2>7
    <3> QED BY <2>1, <2>2, <3>1, <3>2, FreshFamily DEF Runs
  <2>10. Family(node', s)
    <3> USE DEF Family
    <3>1. /\ node'[s] = y /\ node'[n] = x
          /\ \A m \in Kids(s) : m # n => node'[m] = node[m]
      BY <2>1, <2>7, TreeFacts
    <3>2. \A m : /\ Has(node'[s], "exit", m) <=> Has(node[s], "exit", m)
                 /\ Has(node[s], "retry", m) \/ m = n => Has(node'[s], "retry", m)
      BY <2>3, <2>5, <2>6, <3>1 DEF Has
    <3>3. Own(node', s) /\ Down(node', s)
      BY <1>0, <2>1, <2>3, <2>5, <2>6, <3>1 DEF Own, Down, Runs
    <3>4. Ended(node', s)
      BY <1>0, <2>1, <2>2, <2>6, <3>1, <3>2 DEF Ended
    <3>5. ToStart(node', s)
      BY <2>6, <3>1 DEF ToStart
    <3>6. ASSUME NEW k \in node[s].todo PROVE k \in Group(s, n) /\ k \in Kids(s)
      <4>1. k \in Kids(s) /\ At(s, n) <= At(s, k)
        BY <1>0, <2>1, <3>6 DEF Own
      <4>2. Strategy(s) = "one_for_one" => k = n
        BY <1>0, <2>1, <3>6 DEF ToStart
      <4>3. At(s, n) \in Nat /\ At(s, k) \in Nat
        BY <2>1, <4>1, GroupFacts
      <4>4. At(s, k) >= At(s, n)
        BY <4>1, <4>3
      <4> QED BY <2>1, <4>1, <4>2, <4>4, GroupFacts
    <3>7. \A k \in node[s].todo : Retried(node', s, k)
      BY <2>1, <2>2, <3>1, <3>2, <3>6 DEF Retried
    <3>8. \A k \in Kids(s) : Retried(node, s, k) => Retried(node', s, k)
      BY <2>1, <2>2, <3>1, <3>2 DEF Retried
    <3>9. Accounted(node', s)
      BY <1>0, <2>1, <2>6, <3>1, <3>2, <3>7, <3>8 DEF Accounted, Rests, Runs
    <3>10. Outlived(node', s)
      BY <1>0, <2>2, <2>5, <2>6, <3>1 DEF Outlived
    <3> QED BY <3>3, <3>4, <3>5, <3>9, <3>10
  <2>11. ASSUME NEW r \in Nodes, r # s, r # n PROVE Family(node', r)
    <3>1. node'[r] = node[r] /\ Family(node, r) /\ n \notin Kids(r)
      BY <2>1, <2>7, <2>11 DEF TreeOK
    <3>2. \A m \in Kids(r) :
            \/ node'[m] = node[m]
            \/ /\ Runs(node[m]) /\ node'[m].st = node[m].st /\ node'[m].slot = node[m].slot
               /\ node'[m].since = node[m].since
      BY <1>0, <2>1, <2>6, <2>7, <3>1, TreeFacts
    <3> QED BY <3>1, <3>2, FamilyFrame
  <2> QED BY <2>8, <2>9, <2>10, <2>11 DEF TreeOK
<1> QED BY <1>1, <1>2

-----------------------------------------------------------------------------
(* Exits.                                                                  *)

\* A process that is up ends, and with it all below it: a worker crashes or
\* a supervisor gives up.
LEMMA LostKeeps ==
    ASSUME js \in Specs, TreeOK(node), NEW n \in Nodes, node[n].st = "up",
           NEW reason \in JsReasons \cup {Shutdown}, reason = Shutdown => IsSup(n),
           NEW g, g = Lost(Stopped(node, Below(n)), n, reason)
    PROVE  TreeOK(g)
<1> DEFINE e == Exit(n, reason)
           Q(p) == [node[p] EXCEPT !.queue = Append(@, e)]
           O(m) == [node[m] EXCEPT !.since = @ \cup {n}]
<1>0. /\ node \in [Nodes -> Process] /\ n \notin Below(n) /\ Below(n) \subseteq Nodes
      /\ e \in Message
  BY TreeFacts DEF TreeOK, Exit, Message
<1>1. \A p \in Nodes : p \in Parents(n) <=> n \in Kids(p)
  BY DEF Parents
<1>2. ASSUME NEW p \in Nodes, n \in Kids(p)
      PROVE  p # n /\ p \notin Below(n) /\ Runs(node[p]) /\ \A r \in Nodes : n \in Kids(r) => r = p
  <2>1. p \notin Below(n)
    BY <1>0, <1>2, TreeFacts
  <2>2. Runs(node[p])
    BY <1>2, ProcessFields DEF TreeOK, Family, Down
  <2> QED BY <1>2, <2>1, <2>2, TreeFacts
<1>3. /\ g[n] = Fresh
      /\ \A d \in Below(n) : g[d] = Fresh
      /\ \A p \in Nodes : n \in Kids(p) => g[p] = Q(p)
      /\ \A m \in Nodes : m # n /\ m \notin Below(n) /\ n \notin Kids(m) =>
            \/ g[m] = node[m]
            \/ /\ WantsRestart(n, reason) /\ Parents(m) = Parents(n) /\ node[m].st # "off"
               /\ g[m] = O(m)
  <2> DEFINE h == Stopped(node, Below(n))
  <2>1. \A m \in Nodes : h[m] = IF m \in Below(n) THEN Fresh ELSE node[m]
    BY DEF Stopped
  <2>2. g = Lost(h, n, reason)
    OBVIOUS
  <2> HIDE DEF h
  <2>3. g[n] = Fresh
    BY <2>2 DEF Lost
  <2>4. ASSUME NEW d \in Below(n) PROVE g[d] = Fresh
    <3>1. d \in Nodes /\ d # n /\ d \notin Parents(n) /\ h[d] = Fresh /\ h[d].st = "off"
      BY <1>0, <1>1, <1>2, <2>1, <2>4, ProcessFields
    <3> QED BY <2>2, <3>1 DEF Lost
  <2>5. ASSUME NEW p \in Nodes, n \in Kids(p) PROVE g[p] = Q(p)
    <3>1. p # n /\ p \in Parents(n) /\ h[p] = node[p]
      BY <1>1, <1>2, <2>1, <2>5
    <3> QED BY <2>2, <3>1 DEF Lost
  <2>6. ASSUME NEW m \in Nodes, m # n, m \notin Below(n), n \notin Kids(m)
        PROVE  \/ g[m] = node[m]
               \/ /\ WantsRestart(n, reason) /\ Parents(m) = Parents(n) /\ node[m].st # "off"
                  /\ g[m] = O(m)
    <3>1. m \notin Parents(n) /\ h[m] = node[m]
      BY <1>1, <2>1, <2>6
    <3> QED BY <2>2, <2>6, <3>1 DEF Lost
  <2> QED BY <2>3, <2>4, <2>5, <2>6
<1>4. ASSUME NEW p \in Nodes
      PROVE  /\ Q(p) \in Process /\ Q(p).st = node[p].st /\ Q(p).slot = node[p].slot
             /\ Q(p).todo = node[p].todo /\ Q(p).queue = Append(node[p].queue, e)
             /\ Q(p).restarts = node[p].restarts /\ Q(p).since = node[p].since
  <2>1. node[p].queue \in Seq(Message)
    BY <1>0, ProcessFields
  <2>2. node[p] \in Process /\ Append(node[p].queue, e) \in Seq(Message)
    BY <1>0, <2>1, QueueSets
  <2> HIDE DEF e
  <2> QED BY <2>2 DEF Process
<1>5. ASSUME NEW m \in Nodes
      PROVE
        /\ O(m) \in Process /\ O(m).st = node[m].st /\ O(m).slot = node[m].slot
        /\ O(m).todo = node[m].todo /\ O(m).queue = node[m].queue
        /\ O(m).restarts = node[m].restarts /\ O(m).since = node[m].since \cup {n}
  <2>1. node[m] \in Process
    BY <1>0
  <2> QED BY <2>1 DEF Process
<1> HIDE DEF Q, O, e
<1>6. g \in [Nodes -> Process]
  <2>1. ASSUME NEW m \in Nodes PROVE g[m] \in Process
    <3>1. Fresh \in Process /\ node[m] \in Process /\ Q(m) \in Process /\ O(m) \in Process
      BY <1>0, <1>4, <1>5, ProcessFields
    <3>2. g[m] \in {Fresh, node[m], Q(m), O(m)}
      BY ONLY <1>3, m \in Nodes
    <3> QED BY ONLY <3>1, <3>2
  <2>2. g = [m \in Nodes |-> g[m]]
    BY DEF Lost
  <2> QED BY <2>1, <2>2
<1>7. /\ \A d \in Below(n) \cup {n} : Family(g, d)
      /\ \A r \in Nodes : r \notin Below(n) \cup {n} => Below(n) \cap Kids(r) = {}
  BY <1>3, ProcessFields, SubtreeStops DEF Runs
<1>8. ASSUME NEW p \in Nodes, n \in Kids(p) PROVE Family(g, p)
  <2>1. \A m \in Kids(p) : m # n => m \in Nodes /\ m \notin Below(n) /\ n \notin Kids(m)
    <3>1. \A m \in Kids(p) : m \in Nodes /\ m \notin Below(n)
      BY <1>2, <1>7, <1>8, TreeFacts
    <3>2. \A m \in Kids(p) : n \in Kids(m) => m = p
      BY <1>2, <1>8, <3>1
    <3> QED BY <1>8, <3>1, <3>2, TreeFacts
  <2>2. \A m \in Kids(p) : m # n =>
            /\ g[m].st = node[m].st /\ g[m].slot = node[m].slot
            /\ g[m].since = node[m].since \/
                  (WantsRestart(n, reason) /\ g[m].since = node[m].since \cup {n})
    BY <1>3, <1>5, <2>1
  <2>3. g[p] = Q(p) /\ g[n] = Fresh
    BY <1>3, <1>8
  <2>4. /\ g[p].st = node[p].st /\ g[p].slot = node[p].slot /\ g[p].todo = node[p].todo
        /\ g[p].queue = Append(node[p].queue, Exit(n, reason))
        /\ g[p].restarts = node[p].restarts
    BY <1>4, <2>3 DEF e
  <2>5. Exit(n, reason) \in Message
    BY <1>0 DEF e
  <2> QED BY <1>8, <2>2, <2>3, <2>4, <2>5, KidLost
<1>9. ASSUME NEW r \in Nodes, r \notin Below(n) \cup {n}, n \notin Kids(r) PROVE Family(g, r)
  <2>1. /\ g[r].st = node[r].st /\ g[r].slot = node[r].slot /\ g[r].todo = node[r].todo
        /\ g[r].queue = node[r].queue /\ g[r].restarts = node[r].restarts
    BY <1>3, <1>5, <1>9
  <2>2. ASSUME NEW m \in Kids(r)
        PROVE  \/ g[m] = node[m]
               \/ /\ Runs(node[m]) /\ g[m].st = node[m].st /\ g[m].slot = node[m].slot
                  /\ g[m].since = node[m].since
    <3>1. m \in Nodes /\ m # n /\ m \notin Below(n)
      BY <1>7, <1>9, TreeFacts
    <3>2. CASE n \in Kids(m)
      BY <1>2, <1>3, <1>4, <3>1, <3>2
    <3>3. CASE n \notin Kids(m)
      <4>1. Parents(m) # Parents(n)
        BY <1>9, <3>1 DEF Parents
      <4> QED BY <1>3, <3>1, <3>3, <4>1
    <3> QED BY <3>2, <3>3
  <2>3. Family(node, r)
    BY DEF TreeOK
  <2> QED BY <2>1, <2>2, <2>3, FamilyFrame
<1> QED BY <1>6, <1>7, <1>8, <1>9 DEF TreeOK

\* A worker stops or crashes.
LEMMA CrashKeeps ==
    ASSUME js \in Specs, TreeOK(node), NEW n \in Nodes, NEW reason \in JsReasons, Crash(n, reason)
    PROVE  TreeOK(node')
<1>1. node[n].st = "up" /\ Below(n) = {} /\ node' = Lost(node, n, reason)
  BY TreeFacts DEF Crash
<1>2. Stopped(node, Below(n)) = node
  BY <1>1 DEF Stopped, TreeOK
<1>3. reason # Shutdown
  BY DEF JsReasons, Shutdown
<1> QED BY <1>1, <1>2, <1>3, LostKeeps

\* A supervisor that runs changes what it keeps about its children, and
\* nothing else.
LEMMA SupervisorChanges ==
    ASSUME js \in Specs, TreeOK(node), NEW s \in Nodes, Runs(node[s]), NEW g, NEW r \in Process,
           g = [node EXCEPT ![s] = r],
           r.st = node[s].st /\ r.slot = node[s].slot /\ r.since = node[s].since,
           Family(g, s)
    PROVE  TreeOK(g)
<1>1. g[s] = r /\ \A m \in Nodes : m # s => g[m] = node[m]
  BY DEF TreeOK
<1>2. ASSUME NEW p \in Nodes, s \in Kids(p) PROVE Family(g, p)
  <2>1. Family(node, p) /\ g[p] = node[p]
    BY <1>1, <1>2, TreeFacts DEF TreeOK
  <2>2. \A m \in Kids(p) :
          \/ g[m] = node[m]
          \/ /\ Runs(node[m]) /\ g[m].st = node[m].st /\ g[m].slot = node[m].slot
             /\ g[m].since = node[m].since
    BY <1>1, TreeFacts
  <2>3. /\ g[p].st = node[p].st /\ g[p].slot = node[p].slot /\ g[p].todo = node[p].todo
        /\ g[p].queue = node[p].queue /\ g[p].restarts = node[p].restarts
    BY <2>1
  <2> QED BY ONLY js \in Specs, p \in Nodes, <2>1, <2>2, <2>3, FamilyFrame
<1> QED BY <1>2, OneChanges

\* The message a supervisor handles, and what it leaves in the queue.
LEMMA HandledFacts ==
    ASSUME js \in Specs, TreeOK(node), NEW s \in Nodes, AtRest(s), node[s].queue # <<>>
    PROVE  LET q == Head(node[s].queue)
               t == Tail(node[s].queue)
           IN  /\ node \in [Nodes -> Process] /\ node[s] \in Process
               /\ node[s].st = "up" /\ node[s].todo = {} /\ Runs(node[s]) /\ Family(node, s)
               /\ node[s].queue \in Seq(Message) /\ t \in Seq(Message) /\ q \in Message
               /\ ToSet(node[s].queue) = {q} \cup ToSet(t)
               /\ q.kind \in {"exit", "retry", "parent"}
               /\ q.kind = "parent" => s = Root
               /\ q.kind # "parent" => /\ q.child \in Kids(s) /\ q.child \in Nodes
                                       /\ q.child # s /\ IsSup(s)
                                       /\ \A r \in Nodes : q.child \in Kids(r) => r = s
               /\ q.kind = "exit" /\ q.reason = Shutdown => IsSup(q.child)
<1> DEFINE q == Head(node[s].queue)
           t == Tail(node[s].queue)
<1>1. /\ node \in [Nodes -> Process] /\ node[s] \in Process /\ Family(node, s)
      /\ node[s].st = "up" /\ node[s].todo = {} /\ Runs(node[s])
  BY DEF TreeOK, AtRest, Runs
<1>2. node[s].queue \in Seq(Message)
  BY <1>1, ProcessFields
<1>3. /\ t \in Seq(Message) /\ q \in Message /\ q \in ToSet(node[s].queue)
      /\ ToSet(node[s].queue) = {q} \cup ToSet(t)
  BY <1>2, QueueSets
<1> HIDE DEF q, t
<1>4. /\ q.kind = "parent" => s = Root
      /\ q.kind # "parent" => q.child \in Kids(s)
      /\ q.kind = "exit" /\ q.reason = Shutdown => IsSup(q.child)
  BY <1>1, <1>3 DEF Family, Own
<1>5. q.kind \in {"exit", "retry", "parent"}
  BY <1>3 DEF Message
<1>6. q.kind # "parent" => /\ q.child \in Kids(s) /\ q.child \in Nodes /\ q.child # s /\ IsSup(s)
                           /\ \A r \in Nodes : q.child \in Kids(r) => r = s
  BY <1>4, TreeFacts
<1> QED BY <1>1, <1>2, <1>3, <1>4, <1>5, <1>6 DEF q, t

\* The exit of a child that is not to be restarted.
LEMMA ChildRests ==
    ASSUME js \in Specs, TreeOK(node), NEW s \in Nodes, HandleExit(s),
           Head(node[s].queue).kind = "exit",
           ~WantsRestart(Head(node[s].queue).child, Head(node[s].queue).reason)
    PROVE  TreeOK(node')
<1> DEFINE q == Head(node[s].queue)
           t == Tail(node[s].queue)
           c == q.child
           x == [Fresh EXCEPT !.slot = "resting"]
           y == [node[s] EXCEPT !.queue = t]
<1>0. /\ node \in [Nodes -> Process] /\ node[s] \in Process
      /\ node[s].st = "up" /\ node[s].todo = {} /\ Runs(node[s]) /\ Family(node, s)
      /\ t \in Seq(Message) /\ ToSet(node[s].queue) = {q} \cup ToSet(t)
      /\ c \in Kids(s) /\ c \in Nodes /\ c # s /\ \A r \in Nodes : c \in Kids(r) => r = s
      /\ q.kind = "exit" /\ q.child = c /\ (q.reason = Shutdown => IsSup(c))
      /\ ~WantsRestart(c, q.reason)
  BY HandledFacts DEF HandleExit
<1>1. /\ x \in Process /\ x.st = "off" /\ x.slot = "resting" /\ x.todo = {} /\ x.queue = <<>>
      /\ x.restarts = 0 /\ x.since = {}
  BY ProcessFields DEF Process, Fresh
<1>2. node' = [node EXCEPT ![s].queue = t, ![c] = x]
  BY DEF HandleExit
<1> HIDE DEF q, t, c, x
<1>3. /\ y \in Process /\ y.st = "up" /\ y.slot = node[s].slot /\ y.todo = {} /\ y.queue = t
      /\ y.restarts = node[s].restarts /\ y.since = node[s].since
  BY <1>0 DEF Process
<1>4. \A m \in Nodes : node'[m] = IF m = s THEN y ELSE IF m = c THEN x ELSE node[m]
  BY <1>0, <1>2
<1>5. node' \in [Nodes -> Process]
  BY <1>0, <1>1, <1>2, <1>3, <1>4
<1> HIDE DEF y
<1>6. q \in ToSet(node[s].queue) /\ Has(node[s], "exit", c)
  BY <1>0 DEF Has
<1>7. node[c].st = "off" /\ node[c].slot # "retrying"
  BY <1>0, <1>6 DEF Family, Ended
<1>8. Family(node', c)
  <2>1. \A k \in Kids(c) : node[k] = Fresh /\ k \in Nodes /\ k # c
    BY <1>0, <1>7, TreeFacts DEF TreeOK, Family, Down, Runs
  <2>2. \A k \in Kids(c) : node'[k] = Fresh
    BY <1>0, <1>4, <2>1, ProcessFields
  <2>3. node'[c] = x
    BY <1>0, <1>4
  <2> QED BY <1>0, <1>1, <2>2, <2>3, FreshFamily DEF Runs
<1>9. Family(node', s)
  <2> USE DEF Family
  <2>1. /\ node'[s] = y /\ node'[c] = x
        /\ \A m \in Kids(s) : m # c => node'[m] = node[m]
    BY <1>0, <1>4, TreeFacts
  <2>2. \A m : /\ Has(node'[s], "exit", m) => Has(node[s], "exit", m)
               /\ Has(node[s], "exit", m) /\ m # c => Has(node'[s], "exit", m)
               /\ Has(node[s], "retry", m) => Has(node'[s], "retry", m)
    BY <1>0, <1>3, <2>1 DEF Has
  <2>3. Own(node', s) /\ Down(node', s) /\ ToStart(node', s)
    BY <1>0, <1>3, <2>1 DEF Own, Down, ToStart, Runs
  <2>4. Ended(node', s)
    <3>1. \A k \in Kids(s) : node'[k].st = node[k].st /\ (k = c \/ node'[k].slot = node[k].slot)
      BY <1>1, <1>7, <2>1
    <3>2. node'[c].slot # "retrying" /\ node'[s].todo = {}
      BY <1>1, <1>3, <2>1
    <3>3. Ended(node, s)
      BY <1>0
    <3> QED BY <2>2, <3>1, <3>2, <3>3 DEF Ended
  <2>5. \A k \in Kids(s) : Retried(node, s, k) => Retried(node', s, k)
    BY <1>7, <2>1, <2>2 DEF Retried
  <2>6. Rests(x, c)
    BY <1>0, <1>1 DEF Rests, WantsRestart, Restart, map_restart, Normal
  <2>7. Accounted(node', s)
    BY <1>0, <2>1, <2>2, <2>5, <2>6 DEF Accounted
  <2>8. Outlived(node', s)
    <3>1. \A k \in Kids(s) : \A m \in node'[k].since : m \in node[k].since
      BY <1>1, <2>1
    <3>2. \A e \in ToSet(node[s].queue) : e = q \/ e \in ToSet(node'[s].queue)
      BY <1>0, <1>3, <2>1
    <3>3. Outlived(node, s)
      BY <1>0
    <3> QED BY <1>0, <3>1, <3>2, <3>3 DEF Outlived
  <2> QED BY <2>3, <2>4, <2>7, <2>8
<1>10. ASSUME NEW r \in Nodes, r # s, r # c PROVE Family(node', r)
  <2>1. node'[r] = node[r] /\ Family(node, r) /\ c \notin Kids(r)
    BY <1>0, <1>4, <1>10 DEF TreeOK
  <2>2. \A m \in Kids(r) :
          \/ node'[m] = node[m]
          \/ /\ Runs(node[m]) /\ node'[m].st = node[m].st /\ node'[m].slot = node[m].slot
             /\ node'[m].since = node[m].since
    BY <1>0, <1>3, <1>4, <2>1, TreeFacts
  <2>3. /\ node'[r].st = node[r].st /\ node'[r].slot = node[r].slot /\ node'[r].todo = node[r].todo
        /\ node'[r].queue = node[r].queue /\ node'[r].restarts = node[r].restarts
    BY <2>1
  <2> QED BY <2>1, <2>2, <2>3, FamilyFrame
<1> QED BY <1>5, <1>8, <1>9, <1>10 DEF TreeOK

\* A request to start a child again that has been started since.
LEMMA RetrySkipped ==
    ASSUME js \in Specs, TreeOK(node), NEW s \in Nodes, HandleExit(s),
           Head(node[s].queue).kind = "retry",
           node[Head(node[s].queue).child].slot # "retrying"
    PROVE  TreeOK(node')
<1> DEFINE q == Head(node[s].queue)
           t == Tail(node[s].queue)
           y == [node[s] EXCEPT !.queue = t]
<1>0. /\ node \in [Nodes -> Process] /\ node[s] \in Process
      /\ node[s].st = "up" /\ node[s].todo = {} /\ Runs(node[s]) /\ Family(node, s)
      /\ t \in Seq(Message) /\ ToSet(node[s].queue) = {q} \cup ToSet(t)
      /\ q.kind = "retry" /\ node[q.child].slot # "retrying"
  BY HandledFacts DEF HandleExit
<1>1. node' = [node EXCEPT ![s].queue = Tail(@)]
  BY DEF HandleExit
<1>2. node' = [node EXCEPT ![s] = y]
  BY <1>0, <1>1
<1> HIDE DEF q, t
<1>3. /\ y \in Process /\ y.st = "up" /\ y.slot = node[s].slot /\ y.todo = {} /\ y.queue = t
      /\ y.restarts = node[s].restarts /\ y.since = node[s].since
  BY <1>0 DEF Process
<1> HIDE DEF y
<1>4. node'[s] = y /\ \A m \in Kids(s) : node'[m] = node[m]
  BY <1>0, <1>2, TreeFacts
<1>5. Family(node', s)
  <2> USE DEF Family
  <2>2. \A m : /\ Has(node'[s], "exit", m) <=> Has(node[s], "exit", m)
               /\ Has(node[s], "retry", m) /\ m # q.child => Has(node'[s], "retry", m)
    BY <1>0, <1>3, <1>4 DEF Has
  <2>3. Own(node', s) /\ Down(node', s) /\ ToStart(node', s)
    BY <1>0, <1>3, <1>4 DEF Own, Down, ToStart, Runs
  <2>4. Ended(node', s)
    BY <1>0, <1>3, <1>4, <2>2 DEF Ended
  <2>5. \A k \in Kids(s) : Retried(node, s, k) => Retried(node', s, k)
    BY <1>0, <1>4, <2>2 DEF Retried
  <2>7. Accounted(node', s)
    BY <1>0, <1>4, <2>2, <2>5 DEF Accounted
  <2>8. Outlived(node', s)
    BY <1>0, <1>3, <1>4 DEF Outlived
  <2> QED BY <2>3, <2>4, <2>7, <2>8
<1> QED BY <1>0, <1>2, <1>3, <1>5, SupervisorChanges

\* max_seconds pass.
LEMMA WindowSlidesKeeps ==
    ASSUME js \in Specs, TreeOK(node), NEW s \in Nodes, WindowSlides(s)
    PROVE  TreeOK(node')
<1> DEFINE y == [node[s] EXCEPT !.restarts = @ - 1]
<1>0. /\ node \in [Nodes -> Process] /\ node[s] \in Process /\ Runs(node[s]) /\ Family(node, s)
      /\ node[s].restarts \in Nat /\ node[s].restarts > 0
      /\ node' = [node EXCEPT ![s] = y]
  BY ProcessFields DEF WindowSlides, AtRest, Runs, TreeOK
<1>1. /\ y \in Process /\ y.st = node[s].st /\ y.slot = node[s].slot /\ y.todo = node[s].todo
      /\ y.queue = node[s].queue /\ y.restarts = node[s].restarts - 1 /\ y.since = node[s].since
  <2>1. node[s].restarts - 1 \in Nat
    BY <1>0
  <2> QED BY <1>0, <2>1 DEF Process
<1> HIDE DEF y
<1>2. node'[s] = y /\ \A m \in Kids(s) : node'[m] = node[m]
  BY <1>0, TreeFacts
<1>3. Family(node', s)
  <2> USE DEF Family
  <2>1. Own(node', s)
    <3>1. y.restarts <= MaxRestarts(s)
      BY <1>0, <1>1, MaxRestartsType DEF Own
    <3> QED BY <1>0, <1>1, <1>2, <3>1 DEF Own
  <2>2. Down(node', s) /\ Ended(node', s) /\ ToStart(node', s)
    BY <1>0, <1>1, <1>2 DEF Own, Down, Ended, ToStart, Has, Runs
  <2>3. Accounted(node', s) /\ Outlived(node', s)
    BY <1>0, <1>1, <1>2 DEF Accounted, Retried, Outlived, Has, Runs
  <2> QED BY <2>1, <2>2, <2>3
<1> QED BY <1>0, <1>1, <1>3, SupervisorChanges

\* A message that asks for a restart of its child.
Wanted(s) ==
    LET q == Head(node[s].queue)
    IN  \/ q.kind = "exit" /\ WantsRestart(q.child, q.reason)
        \/ q.kind = "retry" /\ node[q.child].slot = "retrying"

\* What a restart of the group of c does, process by process.
LEMMA RestartIs ==
    ASSUME js \in Specs, TreeOK(node), NEW s \in Nodes, NEW c \in Kids(s), RestartGroup(s, c),
           AtRest(s), node[s].queue # <<>>
    PROVE  LET G == Group(s, c)
           IN  /\ node' \in [Nodes -> Process]
               /\ node'[s].st = "up" /\ node'[s].slot = node[s].slot
               /\ node'[s].since = node[s].since /\ node'[s].todo = Again(G)
               /\ ToSet(node'[s].queue) =
                      {m \in ToSet(Tail(node[s].queue)) : ~Stale(m, G)}
               /\ node'[s].restarts = node[s].restarts + 1
               /\ \A m \in Ending(G) :
                     /\ node'[m].st = "off" /\ node'[m].todo = {} /\ node'[m].queue = <<>>
                     /\ node'[m].restarts = 0 /\ node'[m].since = {}
                     /\ m \notin G \/ Restart(m) # "temporary" => node'[m] = Fresh
                     /\ m \in G /\ Restart(m) = "temporary" => node'[m].slot = "resting"
               /\ \A m \in Nodes : m # s /\ m \notin Ending(G) => node'[m] = node[m]
<1> DEFINE G == Group(s, c)
           t == Tail(node[s].queue)
           Q == Flushed(t, G)
           x == [Fresh EXCEPT !.slot = "resting"]
           y == [node[s] EXCEPT !.todo = Again(G), !.queue = Q, !.restarts = Counted(s)]
<1>0. /\ node \in [Nodes -> Process] /\ node[s] \in Process /\ t \in Seq(Message)
      /\ node[s].st = "up" /\ node[s].restarts \in Nat
  BY HandledFacts, ProcessFields
<1>1. /\ Again(G) \in SUBSET Nodes /\ Ending(G) \subseteq Nodes /\ s \notin Ending(G)
      /\ G \subseteq Ending(G)
  <2>1. G \in SUBSET Kids(s)
    BY GroupFacts
  <2> HIDE DEF G
  <2>2. Again(G) \subseteq Kids(s)
    BY <2>1 DEF Again
  <2> QED BY <2>1, <2>2, EndingFacts, TreeFacts
<1>2. Q \in Seq(Message) /\ ToSet(Q) = {m \in ToSet(t) : ~Stale(m, G)}
  BY <1>0, FlushedIs
<1>3. Counted(s) = node[s].restarts + 1 /\ Counted(s) \in Nat
  BY <1>0 DEF Counted
<1>4. \A m \in Nodes : node'[m] = IF m = s THEN y
                                  ELSE IF m \in G /\ Restart(m) = "temporary" THEN x
                                  ELSE IF m \in Ending(G) THEN Fresh ELSE node[m]
  BY DEF RestartGroup, Ending, Stopped
<1>5. node' = [m \in Nodes |-> node'[m]]
  BY DEF RestartGroup
<1> HIDE DEF G, t, Q
<1>6. /\ y \in Process /\ y.st = "up" /\ y.slot = node[s].slot /\ y.since = node[s].since
      /\ y.todo = Again(G) /\ y.queue = Q /\ y.restarts = node[s].restarts + 1
  BY <1>0, <1>1, <1>2, <1>3 DEF Process
<1>7. /\ x \in Process /\ x.st = "off" /\ x.slot = "resting" /\ x.todo = {} /\ x.queue = <<>>
      /\ x.restarts = 0 /\ x.since = {}
  BY ProcessFields DEF Process, Fresh
<1> HIDE DEF x, y
<1>8. node' \in [Nodes -> Process]
  <2>1. \A m \in Nodes : node'[m] \in Process
    BY <1>0, <1>4, <1>6, <1>7, ProcessFields
  <2> QED BY <1>5, <2>1
<1>9. node'[s] = y
  BY <1>4
<1>10. ASSUME NEW m \in Ending(G)
       PROVE  /\ node'[m].st = "off" /\ node'[m].todo = {} /\ node'[m].queue = <<>>
              /\ node'[m].restarts = 0 /\ node'[m].since = {}
              /\ m \notin G \/ Restart(m) # "temporary" => node'[m] = Fresh
              /\ m \in G /\ Restart(m) = "temporary" => node'[m].slot = "resting"
  BY <1>1, <1>4, <1>7, ProcessFields
<1>11. \A m \in Nodes : m # s /\ m \notin Ending(G) => node'[m] = node[m]
  BY <1>1, <1>4
<1> QED BY <1>2, <1>6, <1>8, <1>9, <1>10, <1>11 DEF G, t

\* The supervisor restarts the group of a child.
LEMMA RestartKeeps ==
    ASSUME js \in Specs, TreeOK(node), NEW s \in Nodes, AtRest(s), node[s].queue # <<>>,
           Wanted(s), node[s].restarts < MaxRestarts(s),
           RestartGroup(s, Head(node[s].queue).child)
    PROVE  TreeOK(node')
<1> DEFINE q == Head(node[s].queue)
           t == Tail(node[s].queue)
           c == q.child
           G == Group(s, c)
           D == Ending(G)
<1>0. /\ node[s] \in Process /\ node[s].st = "up" /\ node[s].todo = {} /\ Runs(node[s])
      /\ Family(node, s) /\ ToSet(node[s].queue) = {q} \cup ToSet(t)
      /\ q.kind # "parent" /\ c \in Kids(s)
      /\ node[s].restarts \in Nat
  BY HandledFacts, ProcessFields DEF Wanted
<1>1. /\ node' \in [Nodes -> Process]
      /\ node'[s].st = "up" /\ node'[s].slot = node[s].slot
      /\ node'[s].since = node[s].since /\ node'[s].todo = Again(G)
      /\ ToSet(node'[s].queue) = {m \in ToSet(t) : ~Stale(m, G)}
      /\ node'[s].restarts = node[s].restarts + 1
      /\ \A m \in D : /\ node'[m].st = "off" /\ node'[m].todo = {} /\ node'[m].queue = <<>>
                      /\ node'[m].restarts = 0 /\ node'[m].since = {}
                      /\ m \notin G \/ Restart(m) # "temporary" => node'[m] = Fresh
                      /\ m \in G /\ Restart(m) = "temporary" => node'[m].slot = "resting"
      /\ \A m \in Nodes : m # s /\ m \notin D => node'[m] = node[m]
  BY <1>0, RestartIs
<1>2. /\ G \in SUBSET Kids(s) /\ c \in G
      /\ \A m \in G : Group(s, m) \subseteq G
      /\ Strategy(s) = "one_for_one" => G = {c}
  BY <1>0, GroupFacts
<1>3. \A m : m = q.child <=> m = c
  OBVIOUS
<1> HIDE DEF q, t, c, G
<1>4. /\ D \subseteq Nodes /\ G \subseteq D /\ s \notin D
      /\ \A n \in Kids(s) : n \in D => n \in G
      /\ \A d \in D : Kids(d) \subseteq D /\ Kids(d) \cap G = {}
      /\ \A r \in Nodes : \A d \in D : d \in Kids(r) => r = s \/ r \in D
  BY <1>2, EndingFacts
<1> HIDE DEF D
<1>5. ASSUME NEW d \in D PROVE Family(node', d)
  <2>1. d \in Nodes /\ \A k \in Kids(d) : node'[k] = Fresh
    BY <1>1, <1>4
  <2>2. /\ ~Runs(node'[d]) /\ node'[d].todo = {} /\ node'[d].queue = <<>>
        /\ node'[d].restarts = 0 /\ node'[d].st = "off"
    BY <1>1 DEF Runs
  <2> QED BY <2>1, <2>2, FreshFamily
<1>6. Family(node', s)
  <2>0. /\ Own(node, s) /\ Ended(node, s) /\ Accounted(node, s) /\ Outlived(node, s)
    BY <1>0 DEF Family
  <2>1. \A m \in Kids(s) : m \notin G => node'[m] = node[m]
    BY <1>1, <1>4, TreeFacts
  <2>2. \A m \in G : m \in D
    BY <1>4
  <2>3. \A m : /\ Has(node'[s], "exit", m) => Has(node[s], "exit", m) /\ m \notin G
               /\ Has(node[s], "exit", m) /\ m \notin G => Has(node'[s], "exit", m)
               /\ Has(node[s], "retry", m) /\ m \notin G => Has(node'[s], "retry", m)
    BY <1>0, <1>1, <1>2, <1>3 DEF Has, Stale
  <2>4. Own(node', s)
    <3>1. node'[s].todo \subseteq Kids(s)
      BY <1>1, <1>2 DEF Again
    <3>2. node'[s].restarts <= MaxRestarts(s)
      BY <1>0, <1>1, MaxRestartsType
    <3>3. \A m \in ToSet(node'[s].queue) : m \in ToSet(node[s].queue)
      BY <1>0, <1>1
    <3>4. node'[s].slot # None => node'[s].st = "off"
      BY <1>0, <1>1, <2>0 DEF Own
    <3> QED BY <2>0, <3>1, <3>2, <3>3, <3>4 DEF Own
  <2>5. Down(node', s)
    BY <1>1 DEF Down, Runs
  <2>6. Ended(node', s)
    <3>1. \A m \in node'[s].todo : m \in G
      BY <1>1 DEF Again
    <3> QED BY <2>0, <2>1, <2>3, <3>1 DEF Ended
  <2>7. ToStart(node', s)
    <3>1. ASSUME NEW m \in node'[s].todo
          PROVE  /\ node'[m] = Fresh /\ Restart(m) # "temporary"
                 /\ Strategy(s) = "one_for_one" => node'[s].todo = {m}
      <4>1. m \in G /\ Restart(m) # "temporary"
        BY <1>1, <3>1 DEF Again
      <4>2. node'[m] = Fresh
        BY <1>1, <2>2, <4>1
      <4>3. Strategy(s) = "one_for_one" => node'[s].todo = {m}
        BY <1>1, <1>2, <4>1 DEF Again
      <4> QED BY <4>1, <4>2, <4>3
    <3> QED BY <3>1, ProcessFields DEF ToStart
  <2>8. ASSUME NEW k \in Kids(s), k \notin G, Retried(node, s, k) PROVE Retried(node', s, k)
    <3>1. PICK m \in Kids(s) : /\ node[m].slot = "retrying" /\ Has(node[s], "retry", m)
                               /\ k \in Group(s, m)
      BY <2>8 DEF Retried
    <3>2. m \notin G
      BY <1>2, <2>8, <3>1
    <3> QED BY <2>1, <2>3, <3>1, <3>2 DEF Retried
  <2>9. ASSUME NEW k \in G PROVE k \in node'[s].todo \/ Rests(node'[k], k)
    <3>1. CASE Restart(k) = "temporary"
      <4>1. js[k].restart = "temporary"
        BY <3>1 DEF Restart, map_restart
      <4> QED BY <1>1, <2>2, <3>1, <4>1 DEF Rests
    <3>2. CASE Restart(k) # "temporary"
      BY <1>1, <3>2 DEF Again
    <3> QED BY <3>1, <3>2
  <2>10. Accounted(node', s)
    <3>1. ASSUME NEW k \in Kids(s), k \notin G
          PROVE  \/ node'[k].st = "up" \/ Has(node'[s], "exit", k)
                 \/ Retried(node', s, k) \/ Rests(node'[k], k)
      BY <1>0, <2>0, <2>1, <2>3, <2>8, <3>1 DEF Accounted
    <3> QED BY <2>9, <3>1 DEF Accounted
  <2>11. Outlived(node', s)
    <3>1. ASSUME NEW k \in Kids(s), NEW m \in Kids(s), m \in node'[k].since, k \in Group(s, m)
          PROVE  \E e \in ToSet(node'[s].queue) :
                    e.kind = "exit" /\ e.child = m /\ WantsRestart(m, e.reason)
      <4>1. k \notin G
        BY <1>1, <2>2, <3>1
      <4>2. m \notin G
        BY <1>2, <3>1, <4>1
      <4>3. PICK e \in ToSet(node[s].queue) :
                e.kind = "exit" /\ e.child = m /\ WantsRestart(m, e.reason)
        BY <2>0, <2>1, <3>1, <4>1 DEF Outlived
      <4>4. e \in ToSet(node'[s].queue)
        BY <1>0, <1>1, <1>2, <1>3, <4>2, <4>3 DEF Stale
      <4> QED BY <4>3, <4>4
    <3> QED BY <3>1 DEF Outlived
  <2> QED BY <2>4, <2>5, <2>6, <2>7, <2>10, <2>11 DEF Family
<1>7. ASSUME NEW r \in Nodes, r # s, r \notin D PROVE Family(node', r)
  <2>1. node'[r] = node[r] /\ Family(node, r)
    BY <1>1, <1>7 DEF TreeOK
  <2>2. \A m \in Kids(r) :
          \/ node'[m] = node[m]
          \/ /\ Runs(node[m]) /\ node'[m].st = node[m].st /\ node'[m].slot = node[m].slot
             /\ node'[m].since = node[m].since
    <3>1. \A m \in Kids(r) : m \in Nodes /\ m \notin D
      BY <1>4, <1>7, TreeFacts
    <3> QED BY <1>0, <1>1, <3>1
  <2>3. /\ node'[r].st = node[r].st /\ node'[r].slot = node[r].slot /\ node'[r].todo = node[r].todo
        /\ node'[r].queue = node[r].queue /\ node'[r].restarts = node[r].restarts
    BY <2>1
  <2> QED BY <2>1, <2>2, <2>3, FamilyFrame
<1> QED BY <1>1, <1>5, <1>6, <1>7 DEF TreeOK

\* The owner has ended: the root stops, and with it the tree.
LEMMA RootStops ==
    ASSUME js \in Specs, TreeOK(node), node' = Stopped(node, Below(Root) \cup {Root})
    PROVE  TreeOK(node')
<1>1. /\ Root \in Nodes /\ Below(Root) \subseteq Nodes /\ node \in [Nodes -> Process]
      /\ \A r \in Nodes : Root \notin Kids(r) /\ Kids(r) \subseteq Nodes
  BY TreeAssumption, TreeFacts DEF TreeOK
<1>2. \A m \in Nodes : node'[m] = IF m \in Below(Root) \cup {Root} THEN Fresh ELSE node[m]
  BY DEF Stopped
<1>3. node' \in [Nodes -> Process]
  BY <1>1, <1>2, ProcessFields DEF Stopped
<1>4. /\ \A d \in Below(Root) : node'[d] = Fresh
      /\ node'[Root] = Fresh
  BY <1>1, <1>2
<1>5. /\ \A d \in Below(Root) \cup {Root} : Family(node', d)
      /\ \A r \in Nodes : r \notin Below(Root) \cup {Root} => Below(Root) \cap Kids(r) = {}
  <2>1. /\ ~Runs(node'[Root]) /\ node'[Root].todo = {} /\ node'[Root].queue = <<>>
        /\ node'[Root].restarts = 0 /\ node'[Root].slot = None
    BY <1>4, ProcessFields DEF Runs
  <2> QED BY <1>1, <1>4, <2>1, SubtreeStops
<1>6. ASSUME NEW r \in Nodes, r \notin Below(Root) \cup {Root} PROVE Family(node', r)
  <2>1. /\ Family(node, r) /\ node'[r] = node[r] /\ \A m \in Kids(r) : node'[m] = node[m]
    BY <1>1, <1>2, <1>5, <1>6 DEF TreeOK
  <2>2. /\ node'[r].st = node[r].st /\ node'[r].slot = node[r].slot /\ node'[r].todo = node[r].todo
        /\ node'[r].queue = node[r].queue /\ node'[r].restarts = node[r].restarts
    BY <2>1
  <2> QED BY <2>1, <2>2, FamilyFrame
<1> QED BY <1>3, <1>5, <1>6 DEF TreeOK

\* The supervisor handles a message.
LEMMA HandleExitKeeps ==
    ASSUME js \in Specs, TreeOK(node), NEW s \in Nodes, HandleExit(s)
    PROVE  TreeOK(node')
<1> DEFINE q == Head(node[s].queue)
<1>0. /\ AtRest(s) /\ node[s].queue # <<>> /\ node[s].st = "up"
      /\ q.kind \in {"exit", "retry", "parent"} /\ (q.kind = "parent" => s = Root)
      /\ q.kind # "parent" => IsSup(s)
  BY HandledFacts DEF HandleExit
<1>1. CASE q.kind = "exit" /\ ~WantsRestart(q.child, q.reason)
  BY <1>1, ChildRests
<1>2. CASE q.kind = "retry" /\ node[q.child].slot # "retrying"
  BY <1>2, RetrySkipped
<1>3. CASE q.kind = "parent"
  <2>1. node' = Stopped(node, Below(Root) \cup {Root})
    BY <1>0, <1>3 DEF HandleExit
  <2> QED BY <2>1, RootStops
<1>4. CASE Wanted(s)
  <2>1. IF node[s].restarts < MaxRestarts(s) THEN RestartGroup(s, q.child) ELSE GiveUp(s)
    BY <1>4 DEF HandleExit, Wanted
  <2>2. CASE node[s].restarts < MaxRestarts(s)
    BY <1>0, <1>4, <2>1, <2>2, RestartKeeps
  <2>3. CASE ~(node[s].restarts < MaxRestarts(s))
    <3>1. node' = Lost(Stopped(node, Below(s)), s, Shutdown) /\ IsSup(s)
      BY <1>0, <1>4, <2>1, <2>3 DEF GiveUp, Wanted
    <3> QED BY <1>0, <3>1, LostKeeps
  <2> QED BY <2>2, <2>3
<1> QED BY <1>0, <1>1, <1>2, <1>3, <1>4 DEF Wanted

-----------------------------------------------------------------------------
(* Names.                                                                  *)

\* The key of a process is one of the names of the registry.
LEMMA KeysAreNames ==
    ASSUME js \in Specs, NEW n \in Nodes
    PROVE  Key(n) \subseteq Names
  BY DEF Key, Names

\* A step that starts no process, and after which those in S do not run.
Wanes(S) ==
    \A n \in Nodes : /\ node[n].st = "off" => node'[n].st = "off"
                     /\ Runs(node'[n]) => Runs(node[n]) /\ n \notin S

\* Of such a step the registry keeps the names of all that run.
LEMMA WaneNames ==
    ASSUME js \in Specs, holder \in [Names -> Nodes \cup Strangers \cup {None}],
           Named(node, holder), NEW S, Wanes(S),
           holder' = holder \/ holder' = Without(holder, S)
    PROVE  /\ holder' \in [Names -> Nodes \cup Strangers \cup {None}]
           /\ Named(node', holder')
<1>1. holder' \in [Names -> Nodes \cup Strangers \cup {None}]
  BY DEF Without
<1>2. ASSUME NEW n \in Nodes, Runs(node'[n]), NEW k \in Key(n) PROVE holder'[k] = n
  <2>1. Runs(node[n]) /\ n \notin S /\ k \in Names
    BY <1>2, KeysAreNames DEF Wanes
  <2>2. holder[k] = n
    BY <2>1 DEF Named
  <2> QED BY <2>1, <2>2 DEF Without
<1> QED BY <1>1, <1>2 DEF Named

\* A process that is started takes a name that nobody has.
LEMMA LaunchNames ==
    ASSUME js \in Specs, holder \in [Names -> Nodes \cup Strangers \cup {None}],
           Named(node, holder), node \in [Nodes -> Process], NEW n \in Nodes, Launch(n)
    PROVE  /\ holder' \in [Names -> Nodes \cup Strangers \cup {None}]
           /\ Named(node', holder')
           /\ \A m \in Nodes : m # n => node'[m] = node[m]
<1>1. \A m \in Nodes : m # n => node'[m] = node[m]
  BY DEF Launch, Set
<1>2. CASE ~NameFree(n) \/ (IsSup(n) /\ InitRaises(n))
  <2>1. holder' = holder /\ node'[n] = [Fresh EXCEPT !.st = "failed"]
    BY <1>2 DEF Launch, Set
  <2>2. ~Runs(node'[n])
    BY <2>1 DEF Runs, Fresh
  <2> QED BY <1>1, <2>1, <2>2 DEF Named
<1>3. CASE NameFree(n) /\ ~(IsSup(n) /\ InitRaises(n))
  <2>1. holder' = [k \in Names |-> IF k \in Key(n) THEN n ELSE holder[k]]
    BY <1>3 DEF Launch
  <2>2. ASSUME NEW m \in Nodes, Runs(node'[m]), NEW k \in Key(m) PROVE holder'[k] = m
    <3>1. k \in Names
      BY KeysAreNames
    <3>2. CASE m = n
      BY <2>1, <2>2, <3>1, <3>2
    <3>3. CASE m # n
      <4>1. holder[k] = m
        BY <1>1, <2>2, <3>3 DEF Named
      <4>2. m # None
        BY TreeAssumption
      <4>3. k \notin Key(n)
        BY <1>3, <4>1, <4>2 DEF NameFree
      <4> QED BY <2>1, <3>1, <4>1, <4>3
    <3> QED BY <3>2, <3>3
  <2> QED BY <1>1, <2>1, <2>2 DEF Named
<1> QED BY <1>1, <1>2, <1>3

\* What the owner does starts no process.
LEMMA OwnerWanes ==
    ASSUME js \in Specs, TreeOK(node), Owning \/ OwnerCrashes
    PROVE  Wanes({}) /\ holder' = holder
<1>0. node \in [Nodes -> Process] /\ Root \in Nodes
  BY TreeAssumption DEF TreeOK
<1>1. holder' = holder
  BY DEF Owning, RootStarted, OwnerExits, OrphanStarted, OrphanFailed, OwnerCrashes
<1>2. \A n \in Nodes : n # Root => node'[n] = node[n]
  BY <1>0 DEF Owning, RootStarted, OwnerExits, OrphanStarted, OrphanFailed, OwnerCrashes, Stopped
<1>3. /\ node[Root].st = "off" => node'[Root].st = "off"
      /\ Runs(node'[Root]) => Runs(node[Root])
  <2>0. node[Root] \in Process
    BY <1>0
  <2>1. CASE RootStarted \/ OrphanStarted
    BY <1>0, <2>1 DEF RootStarted, OrphanStarted, Runs
  <2>2. CASE OwnerExits \/ OrphanFailed
    BY <1>0, <2>2, ProcessFields DEF OwnerExits, OrphanFailed, Stopped, Runs
  <2>3. CASE OwnerCrashes
    <3>1. \/ node'[Root] = [node[Root] EXCEPT !.queue = Append(@, ParentExit)]
          \/ node'[Root] = Fresh
      BY <1>0, <2>3 DEF OwnerCrashes, Stopped
    <3>2. [node[Root] EXCEPT !.queue = Append(@, ParentExit)].st = node[Root].st
      BY <2>0 DEF Process
    <3> QED BY <3>1, <3>2, ProcessFields DEF Runs
  <2> QED BY <2>1, <2>2, <2>3 DEF Owning
<1> QED BY <1>1, <1>2, <1>3 DEF Wanes

\* Nor does a supervisor whose child is up, or could not be started.
LEMMA ChildWanes ==
    ASSUME js \in Specs, TreeOK(node), NEW s \in Nodes,
           ChildStarted(s) \/ InitThrows(s) \/ ChildFailed(s) \/ WindowSlides(s)
    PROVE  \E S : Wanes(S) /\ (holder' = holder \/ holder' = Without(holder, S))
<1>0. node \in [Nodes -> Process] /\ node[s] \in Process
  BY DEF TreeOK
<1>1. CASE ChildStarted(s)
  <2>1. First(s) \in Nodes /\ First(s) # s /\ node[First(s)] \in Process
    BY <1>1, AtWorkFacts DEF ChildStarted
  <2>2. /\ node'[First(s)] = [node[First(s)] EXCEPT !.st = "up"]
        /\ node'[s] = [node[s] EXCEPT !.todo = @ \ {First(s)}]
        /\ \A m \in Nodes : m # s /\ m # First(s) => node'[m] = node[m]
        /\ holder' = holder /\ node[First(s)].st = "init"
    BY <1>0, <1>1, <2>1 DEF ChildStarted
  <2>3. node'[First(s)].st = "up" /\ node'[s].st = node[s].st
    BY <1>0, <2>1, <2>2 DEF Process
  <2>4. Wanes({})
    BY <2>2, <2>3 DEF Wanes, Runs
  <2> QED BY <2>2, <2>4
<1>2. CASE InitThrows(s)
  <2>1. First(s) \in Nodes /\ node[First(s)] \in Process
    BY <1>2, AtWorkFacts DEF InitThrows
  <2>2. /\ node'[First(s)] = [node[First(s)] EXCEPT !.st = "failed"]
        /\ \A m \in Nodes : m # First(s) => node'[m] = node[m]
        /\ holder' = Without(holder, {First(s)}) /\ node[First(s)].st = "init"
    BY <1>0, <1>2, <2>1 DEF InitThrows
  <2>3. node'[First(s)].st = "failed"
    BY <2>1, <2>2 DEF Process
  <2>4. Wanes({First(s)})
    BY <2>2, <2>3 DEF Wanes, Runs
  <2> QED BY <2>2, <2>4
<1>3. CASE ChildFailed(s)
  <2>1. /\ First(s) \in Nodes /\ First(s) # s /\ Below(s) \subseteq Nodes
        /\ node[s].st # "off"
    BY <1>3, AtWorkFacts, TreeFacts DEF ChildFailed, AtWork, Running
  <2>2. CASE node[s].st = "init"
    <3>1. /\ node'[s] = [Fresh EXCEPT !.st = "failed"]
          /\ \A m \in Nodes : m # s => node'[m] = IF m \in Below(s) THEN Fresh ELSE node[m]
          /\ holder' = Without(holder, Below(s) \cup {s})
      BY <1>3, <2>2 DEF ChildFailed, Set, Stopped
    <3>2. node'[s].st = "failed"
      BY <3>1 DEF Fresh
    <3>3. Wanes(Below(s) \cup {s})
      BY <2>1, <3>1, <3>2, ProcessFields DEF Wanes, Runs
    <3> QED BY <3>1, <3>3
  <2>3. CASE node[s].st # "init"
    <3>1. /\ node'[First(s)] = [Fresh EXCEPT !.slot = "retrying"]
          /\ node'[s] = [node[s] EXCEPT !.todo = {}, !.queue = Append(@, TryAgain(First(s)))]
          /\ \A m \in Nodes : m # s /\ m # First(s) => node'[m] = node[m]
          /\ holder' = holder
      BY <1>0, <1>3, <2>1, <2>3 DEF ChildFailed, RetryChild
    <3>2. node'[First(s)].st = "off" /\ node'[s].st = node[s].st
      BY <1>0, <3>1 DEF Fresh, Process
    <3>3. Wanes({})
      BY <3>1, <3>2 DEF Wanes, Runs
    <3> QED BY <3>1, <3>3
  <2> QED BY <2>2, <2>3
<1>4. CASE WindowSlides(s)
  <2>1. /\ node'[s] = [node[s] EXCEPT !.restarts = @ - 1]
        /\ \A m \in Nodes : m # s => node'[m] = node[m]
        /\ holder' = holder
    BY <1>0, <1>4 DEF WindowSlides
  <2>2. \A m \in Nodes : node'[m].st = node[m].st
    BY <1>0, <2>1 DEF Process
  <2>3. Wanes({})
    BY <2>2 DEF Wanes, Runs
  <2> QED BY <2>1, <2>3
<1> QED BY <1>1, <1>2, <1>3, <1>4

\* The end of a process ends those below it, and its siblings live on.
LEMMA LostWanes ==
    ASSUME js \in Specs, TreeOK(node), NEW n \in Nodes, NEW reason,
           node' = Lost(Stopped(node, Below(n)), n, reason)
    PROVE  Wanes(Below(n) \cup {n})
<1> DEFINE h == Stopped(node, Below(n))
<1>0. node \in [Nodes -> Process] /\ node' = Lost(h, n, reason)
  BY DEF TreeOK
<1>1. \A m \in Nodes : h[m] = (IF m \in Below(n) THEN Fresh ELSE node[m]) /\ h[m] \in Process
  BY <1>0, ProcessFields DEF Stopped
<1> HIDE DEF h
<1>2. node'[n].st = "off"
  BY <1>0, ProcessFields DEF Lost
<1>3. ASSUME NEW m \in Nodes, m # n PROVE node'[m].st = h[m].st
  <2>1. h[m] \in Process
    BY <1>1
  <2>2. \/ node'[m] = [h[m] EXCEPT !.queue = Append(@, Exit(n, reason))]
        \/ node'[m] = [h[m] EXCEPT !.since = @ \cup {n}]
        \/ node'[m] = h[m]
    BY <1>0, <1>3 DEF Lost
  <2> QED BY <2>1, <2>2 DEF Process
<1> QED BY <1>1, <1>2, <1>3, ProcessFields DEF Wanes, Runs

\* A supervisor that handles a message starts no process either: those it
\* restarts are on its list.
LEMMA HandleExitWanes ==
    ASSUME js \in Specs, TreeOK(node), NEW s \in Nodes, HandleExit(s)
    PROVE  \E S : Wanes(S) /\ (holder' = holder \/ holder' = Without(holder, S))
<1> DEFINE q == Head(node[s].queue)
<1>0. /\ AtRest(s) /\ node[s].queue # <<>> /\ node[s].st = "up" /\ node[s] \in Process
      /\ node \in [Nodes -> Process]
      /\ q.kind \in {"exit", "retry", "parent"} /\ (q.kind = "parent" => s = Root)
      /\ q.kind # "parent" => q.child \in Kids(s) /\ q.child \in Nodes /\ q.child # s
  BY HandledFacts DEF HandleExit
<1>1. [node[s] EXCEPT !.queue = Tail(@)].st = node[s].st
  BY <1>0 DEF Process
<1>2. CASE q.kind = "exit" /\ ~WantsRestart(q.child, q.reason)
  <2>1. /\ node'[s] = [node[s] EXCEPT !.queue = Tail(@)]
        /\ node'[q.child] = [Fresh EXCEPT !.slot = "resting"]
        /\ \A m \in Nodes : m # s /\ m # q.child => node'[m] = node[m]
        /\ holder' = holder
    BY <1>0, <1>2 DEF HandleExit
  <2>2. node'[q.child].st = "off"
    BY <2>1 DEF Fresh
  <2>3. Wanes({})
    BY <1>1, <2>1, <2>2 DEF Wanes, Runs
  <2> QED BY <2>1, <2>3
<1>3. CASE q.kind = "retry" /\ node[q.child].slot # "retrying"
  <2>1. /\ node'[s] = [node[s] EXCEPT !.queue = Tail(@)]
        /\ \A m \in Nodes : m # s => node'[m] = node[m]
        /\ holder' = holder
    BY <1>0, <1>3 DEF HandleExit
  <2>2. \A m \in Nodes : node'[m].st = node[m].st
    BY <1>1, <2>1
  <2>3. Wanes({})
    BY <2>2 DEF Wanes, Runs
  <2> QED BY <2>1, <2>3
<1>4. CASE q.kind = "parent"
  <2>1. /\ node' = Stopped(node, Below(s) \cup {s})
        /\ holder' = Without(holder, Below(s) \cup {s})
    BY <1>4 DEF HandleExit
  <2>2. Wanes(Below(s) \cup {s})
    BY <2>1, ProcessFields DEF Wanes, Stopped, Runs
  <2> QED BY <2>1, <2>2
<1>5. CASE Wanted(s)
  <2>1. IF node[s].restarts < MaxRestarts(s) THEN RestartGroup(s, q.child) ELSE GiveUp(s)
    BY <1>5 DEF HandleExit, Wanted
  <2>2. CASE node[s].restarts < MaxRestarts(s)
    <3> DEFINE D == Ending(Group(s, q.child))
    <3>1. RestartGroup(s, q.child) /\ q.child \in Kids(s)
      BY <1>0, <1>5, <2>1, <2>2 DEF Wanted
    <3>2. /\ node'[s].st = "up" /\ \A m \in D : node'[m].st = "off"
          /\ \A m \in Nodes : m # s /\ m \notin D => node'[m] = node[m]
      BY <1>0, <3>1, RestartIs
    <3>3. holder' = Without(holder, D)
      BY <3>1 DEF RestartGroup, Ending
    <3>4. s \notin D
      BY <3>1, GroupFacts, EndingFacts
    <3> HIDE DEF D
    <3>5. Wanes(D)
      BY <1>0, <3>2, <3>4 DEF Wanes, Runs
    <3> QED BY <3>3, <3>5
  <2>3. CASE ~(node[s].restarts < MaxRestarts(s))
    <3>1. /\ node' = Lost(Stopped(node, Below(s)), s, Shutdown)
          /\ holder' = Without(holder, Below(s) \cup {s})
      BY <2>1, <2>3 DEF GiveUp
    <3> QED BY <3>1, LostWanes
  <2> QED BY <2>2, <2>3
<1> QED BY <1>0, <1>2, <1>3, <1>4, <1>5 DEF Wanted

-----------------------------------------------------------------------------
(***************************************************************************)
(* The invariant is inductive.                                             *)
(***************************************************************************)

\* What the processes of the tree and the registry are after a step, and
\* that nothing starts what rests.
Step ==
    /\ TreeOK(node')
    /\ holder' \in [Names -> Nodes \cup Strangers \cup {None}]
    /\ Named(node', holder')
    /\ \A n \in Nodes : node[n].slot = "resting" => node'[n].st = "off"

\* A process that rests is not there.
LEMMA RestingIsOff ==
    ASSUME TreeOK(node), NEW n \in Nodes, node[n].slot = "resting"
    PROVE  node[n].st = "off"
  BY DEF TreeOK, Family, Own, None

\* A step in which no process is started.
LEMMA WaneStep ==
    ASSUME TreeInv, TreeOK(node'), NEW S, Wanes(S),
           holder' = holder \/ holder' = Without(holder, S)
    PROVE  Step
<1>1. js \in Specs /\ TreeOK(node) /\ Named(node, holder)
      /\ holder \in [Names -> Nodes \cup Strangers \cup {None}]
  BY DEF TreeInv
<1>2. /\ holder' \in [Names -> Nodes \cup Strangers \cup {None}]
      /\ Named(node', holder')
  BY <1>1, WaneNames
<1>3. \A n \in Nodes : node[n].slot = "resting" => node'[n].st = "off"
  BY <1>1, RestingIsOff DEF Wanes
<1> QED BY <1>2, <1>3 DEF Step

\* A step in which n is started.
LEMMA LaunchStep ==
    ASSUME TreeInv, TreeOK(node'), NEW n \in Nodes, Launch(n), node[n].slot = None
    PROVE  Step
<1>1. /\ js \in Specs /\ TreeOK(node) /\ Named(node, holder) /\ node \in [Nodes -> Process]
      /\ holder \in [Names -> Nodes \cup Strangers \cup {None}]
  BY DEF TreeInv, TreeOK
<1>2. /\ holder' \in [Names -> Nodes \cup Strangers \cup {None}]
      /\ Named(node', holder')
      /\ \A m \in Nodes : m # n => node'[m] = node[m]
  BY <1>1, LaunchNames
<1>3. \A m \in Nodes : node[m].slot = "resting" => node'[m].st = "off"
  BY <1>1, <1>2, RestingIsOff DEF None
<1> QED BY <1>2, <1>3 DEF Step

\* A step of the processes that only register names.
LEMMA StrangerStep ==
    ASSUME TreeInv, node' = node, NEW x \in Strangers,
           StrangerEnds(x) \/ \E k \in Names : Register(x, k)
    PROVE  Step
<1>1. /\ js \in Specs /\ TreeOK(node) /\ TreeOK(node') /\ Named(node, holder)
      /\ holder \in [Names -> Nodes \cup Strangers \cup {None}]
      /\ x \notin Nodes /\ None \notin Nodes
  BY TreeAssumption DEF TreeInv
<1>2. CASE StrangerEnds(x)
  <2>1. Wanes({x}) /\ holder' = Without(holder, {x})
    BY <1>1, <1>2 DEF Wanes, StrangerEnds
  <2> QED BY <1>1, <2>1, WaneStep
<1>3. CASE \E k \in Names : Register(x, k)
  <2>1. PICK k \in Names : holder' = [holder EXCEPT ![k] = IF @ = None THEN x ELSE @]
    BY <1>3 DEF Register
  <2>2. holder' \in [Names -> Nodes \cup Strangers \cup {None}]
    BY <1>1, <2>1
  <2>3. ASSUME NEW n \in Nodes, Runs(node'[n]), NEW j \in Key(n) PROVE holder'[j] = n
    <3>1. holder[j] = n /\ j \in Names
      BY <1>1, <2>3, KeysAreNames DEF Named
    <3> QED BY <1>1, <2>1, <3>1
  <2>4. \A n \in Nodes : node[n].slot = "resting" => node'[n].st = "off"
    BY <1>1, RestingIsOff
  <2> QED BY <1>1, <2>2, <2>3, <2>4 DEF Step, Named
<1> QED BY <1>2, <1>3

\* Every step.
LEMMA NextStep ==
    ASSUME TreeInv, [Next]_vars
    PROVE  Step
<1>0. /\ js \in Specs /\ TreeOK(node) /\ Named(node, holder) /\ node \in [Nodes -> Process]
      /\ holder \in [Names -> Nodes \cup Strangers \cup {None}] /\ Root \in Nodes
      /\ owner = "ready" => node[Root] = Fresh
  BY TreeAssumption DEF TreeInv, TreeOK
<1>1. CASE StartSupervisor
  <2>1. node[Root] = Fresh /\ node[Root].slot = None
    BY <1>0, <1>1, ProcessFields DEF StartSupervisor
  <2>2. TreeOK(node')
    BY <1>0, <1>1, <2>1, StartSupervisorKeeps
  <2>3. CASE NameFree(Root)
    BY <1>0, <1>1, <2>1, <2>2, <2>3, LaunchStep DEF StartSupervisor
  <2>4. CASE ~NameFree(Root)
    <3>1. node' = node /\ holder' = holder
      BY <1>1, <2>4 DEF StartSupervisor
    <3>2. Wanes({})
      BY <3>1 DEF Wanes
    <3> QED BY <2>2, <3>1, <3>2, WaneStep
  <2> QED BY <2>3, <2>4
<1>2. CASE Owning \/ OwnerCrashes
  BY <1>0, <1>2, RootKeeps, OwnerWanes, WaneStep
<1>3. ASSUME NEW s \in Nodes, LaunchChild(s) PROVE Step
  <2>1. First(s) \in Nodes /\ node[First(s)].slot = None /\ Launch(First(s))
    BY <1>0, <1>3, AtWorkFacts DEF LaunchChild
  <2> QED BY <1>0, <1>3, <2>1, LaunchChildKeeps, LaunchStep
<1>4. ASSUME NEW s \in Nodes,
             ChildStarted(s) \/ InitThrows(s) \/ ChildFailed(s) \/ WindowSlides(s)
      PROVE  Step
  <2>1. TreeOK(node')
    BY <1>0, <1>4, ChildStartedKeeps, InitThrowsKeeps, ChildFailedKeeps, WindowSlidesKeeps
  <2> QED BY <1>0, <1>4, <2>1, ChildWanes, WaneStep
<1>5. ASSUME NEW s \in Nodes, HandleExit(s) PROVE Step
  BY <1>0, <1>5, HandleExitKeeps, HandleExitWanes, WaneStep
<1>6. ASSUME NEW n \in Nodes, NEW reason \in JsReasons, Crash(n, reason) PROVE Step
  <2>1. /\ node' = Lost(node, n, reason) /\ Below(n) = {}
        /\ holder' = Without(holder, {n})
    BY <1>0, <1>6, TreeFacts DEF Crash
  <2>2. Stopped(node, Below(n)) = node /\ Below(n) \cup {n} = {n}
    BY <1>0, <2>1 DEF Stopped
  <2>3. node' = Lost(Stopped(node, Below(n)), n, reason)
    BY <2>1, <2>2
  <2>4. Wanes({n})
    BY <1>0, <2>2, <2>3, LostWanes
  <2> QED BY <1>0, <1>6, <2>1, <2>4, CrashKeeps, WaneStep
<1>7. ASSUME NEW x \in Strangers, StrangerEnds(x) \/ \E k \in Names : Register(x, k)
      PROVE  Step
  <2>1. node' = node
    BY <1>7 DEF StrangerEnds, Register
  <2> QED BY <1>7, <2>1, StrangerStep
<1>8. CASE UNCHANGED vars
  <2>1. node' = node /\ holder' = holder
    BY <1>8 DEF vars
  <2>2. Wanes({}) /\ TreeOK(node')
    BY <1>0, <2>1 DEF Wanes
  <2> QED BY <2>1, <2>2, WaneStep
<1> QED BY <1>1, <1>2, <1>3, <1>4, <1>5, <1>6, <1>7, <1>8 DEF Next, Work

\* The specification stays, faults are counted, and before the host call
\* there is nothing.
LEMMA OwnerStep ==
    ASSUME TreeInv, [Next]_vars
    PROVE  /\ js' = js
           /\ owner' \in {"ready", "waiting", "answered", "refused", "dead"}
           /\ faults' \in 0..MaxFaults
           /\ owner' = "ready" => node' = [n \in Nodes |-> Fresh]
<1>0. /\ owner \in {"ready", "waiting", "answered", "refused", "dead"}
      /\ faults \in 0..MaxFaults /\ MaxFaults \in Nat
      /\ owner = "ready" => node = [n \in Nodes |-> Fresh]
  BY TreeAssumption DEF TreeInv
<1>1. CASE StartSupervisor
  BY <1>0, <1>1 DEF StartSupervisor
<1>2. CASE Owning \/ OwnerCrashes
  BY <1>0, <1>2 DEF Owning, RootStarted, OwnerExits, OrphanStarted, OrphanFailed, OwnerCrashes
<1>3. ASSUME NEW s \in Nodes, Work(s) \/ InitThrows(s) \/ WindowSlides(s)
      PROVE  /\ js' = js /\ owner' = owner /\ owner # "ready"
             /\ faults' = faults \/ (faults < MaxFaults /\ faults' = faults + 1)
  <2>1. /\ js' = js /\ owner' = owner
        /\ faults' = faults \/ (faults < MaxFaults /\ faults' = faults + 1)
    BY <1>3 DEF Work, LaunchChild, ChildStarted, ChildFailed, HandleExit, InitThrows, WindowSlides
  <2>2. AtWork(s) \/ AtRest(s)
    BY <1>3 DEF Work, LaunchChild, ChildStarted, ChildFailed, HandleExit, InitThrows, WindowSlides
  <2>3. node[s] # Fresh
    BY <2>2, ProcessFields DEF AtWork, AtRest
  <2> QED BY <1>0, <2>1, <2>3
<1>4. ASSUME NEW n \in Nodes, NEW reason \in JsReasons, Crash(n, reason)
      PROVE  /\ js' = js /\ owner' = owner /\ owner # "ready"
             /\ faults < MaxFaults /\ faults' = faults + 1
  <2>1. node[n] # Fresh
    BY <1>4, ProcessFields DEF Crash
  <2> QED BY <1>0, <1>4, <2>1 DEF Crash
<1>5. ASSUME NEW x \in Strangers, StrangerEnds(x) \/ \E k \in Names : Register(x, k)
      PROVE  js' = js /\ owner' = owner /\ faults' = faults /\ node' = node
  BY <1>5 DEF StrangerEnds, Register
<1>6. CASE UNCHANGED vars
  BY <1>0, <1>6 DEF vars
<1> QED BY <1>0, <1>1, <1>2, <1>3, <1>4, <1>5, <1>6 DEF Next

\* The invariant is inductive.
LEMMA TreeInvNext ==
    ASSUME TreeInv, [Next]_vars
    PROVE  TreeInv'
<1>1. Step
  BY NextStep
<1>2. /\ js' = js
      /\ owner' \in {"ready", "waiting", "answered", "refused", "dead"}
      /\ faults' \in 0..MaxFaults
      /\ owner' = "ready" => node' = [n \in Nodes |-> Fresh]
      /\ js \in Specs
  BY OwnerStep DEF TreeInv
<1>3. TreeOK(node)'
  <2>1. ASSUME NEW s \in Nodes, Family(node', s) PROVE Family(node, s)'
    <3>1. Own(node, s)' /\ Down(node, s)' /\ Ended(node, s)'
      BY <1>2, <2>1 DEF Family, Own, Down, Ended, MaxRestarts, IsSup, Kids
    <3>2. ToStart(node, s)'
      BY <1>2, <2>1 DEF Family, ToStart, Restart, Strategy
    <3>3. ASSUME NEW n PROVE At(s, n)' = At(s, n)
      BY <1>2 DEF At
    <3>4. Strategy(s)' = Strategy(s) /\ Kids(s)' = Kids(s)
      BY <1>2 DEF Strategy, Kids
    <3>5. ASSUME NEW n PROVE Group(s, n)' = Group(s, n)
      BY <3>3, <3>4 DEF Group
    <3>6. ASSUME NEW n PROVE Retried(node, s, n)' <=> Retried(node', s, n)
      BY <3>4, <3>5 DEF Retried
    <3>7. ASSUME NEW n, NEW r PROVE WantsRestart(n, r)' <=> WantsRestart(n, r)
      BY <1>2 DEF WantsRestart, Restart
    <3>8. Accounted(node, s)'
      BY <1>2, <2>1, <3>4, <3>6 DEF Family, Accounted, Rests, IsSup
    <3>9. Outlived(node, s)'
      BY <2>1, <3>4, <3>5, <3>7 DEF Family, Outlived
    <3> QED BY <3>1, <3>2, <3>8, <3>9 DEF Family
  <2> QED BY <1>1, <2>1 DEF Step, TreeOK
<1>4. Named(node, holder)'
  BY <1>1, <1>2 DEF Step, Named, Key
<1>5. (holder \in [Names -> Nodes \cup Strangers \cup {None}])'
  BY <1>1 DEF Step
<1> QED BY <1>2, <1>3, <1>4, <1>5 DEF TreeInv

\* Initially there is nothing.
LEMMA TreeInvInit == Init => TreeInv
<1> SUFFICES ASSUME Init PROVE TreeInv
  OBVIOUS
<1>1. /\ js \in Specs /\ \A n \in Nodes : node[n] = Fresh
      /\ node \in [Nodes -> Process]
  BY ProcessFields DEF Init
<1>2. ASSUME NEW s \in Nodes PROVE Family(node, s)
  <2>1. \A n \in Kids(s) : node[n] = Fresh
    BY <1>1, TreeFacts
  <2>2. /\ ~Runs(node[s]) /\ node[s].todo = {} /\ node[s].queue = <<>> /\ node[s].restarts = 0
        /\ node[s].st = "off"
    BY <1>1, ProcessFields DEF Runs
  <2> QED BY <1>1, <2>1, <2>2, FreshFamily
<1>3. Named(node, holder)
  BY <1>1, ProcessFields DEF Named, Runs
<1> QED BY <1>1, <1>2, <1>3, TreeAssumption DEF Init, TreeInv, TreeOK

-----------------------------------------------------------------------------
(***************************************************************************)
(* Theorems.                                                               *)
(***************************************************************************)

\* A supervisor's list and queue account for every child that is not up and
\* for every child that outlived a sibling of its group (supervisor_bridge.ex
\* with OTP's supervisor), for every tree and any number of failures.
THEOREM TreeAccounts == Spec => []TreeInv
<1>1. Init => TreeInv
  BY TreeInvInit
<1>2. TreeInv /\ [Next]_vars => TreeInv'
  BY TreeInvNext
<1> QED BY <1>1, <1>2, PTL DEF Spec

\* Types: the children a supervisor has to start and those its messages are
\* about are its own, and it never counts more restarts than are allowed.
THEOREM TreeTypes == Spec => []TypeOK
<1>1. ASSUME TreeInv PROVE TypeOK
  <2>1. \A n \in Nodes : Own(node, n)
    BY <1>1 DEF TreeInv, TreeOK, Family
  <2> QED BY <1>1, <2>1 DEF TreeInv, TreeOK, Own, TypeOK
<1> QED BY <1>1, TreeAccounts, PTL

\* A supervisor that has nothing left to do runs all the children it should.
THEOREM QuietTreeIsUp == Spec => []QuietMeansUp
<1>1. ASSUME TreeInv PROVE QuietMeansUp
  <2>1. ASSUME NEW s \in Nodes, Quiet(s), NEW n \in Kids(s)
        PROVE  \/ node[n].st = "up"
               \/ js[n].restart = "temporary"
               \/ js[n].restart = "transient" /\ IsSup(n) /\ node[n].slot = "resting"
    <3>1. Accounted(node, s) /\ Runs(node[s]) /\ node[s].todo = {} /\ node[s].queue = <<>>
      BY <1>1, <2>1 DEF TreeInv, TreeOK, Family, Quiet, AtRest, Runs
    <3>2. \A kind, m : ~Has(node[s], kind, m)
      BY <3>1, ProcessFields DEF Has
    <3>3. ~Retried(node, s, n)
      BY <3>2 DEF Retried
    <3> QED BY <3>1, <3>2, <3>3 DEF Accounted, Rests
  <2> QED BY <2>1 DEF QuietMeansUp
<1> QED BY <1>1, TreeAccounts, PTL

\* A supervisor that has handled everything has no child that outlived the
\* loss of a sibling with which it should have been restarted.
THEOREM GroupsRestartWhole == Spec => []NoSurvivors
<1>1. ASSUME TreeInv PROVE NoSurvivors
  <2>0. js \in Specs
    BY <1>1 DEF TreeInv
  <2>1. ASSUME NEW s \in Nodes, Quiet(s), NEW n \in Kids(s), NEW m \in Kids(s),
               m \in node[n].since
        PROVE  /\ js[s].strategy # "one_for_all"
               /\ js[s].strategy = "rest_for_one" => At(s, m) > At(s, n)
    <3>1. Outlived(node, s) /\ ToSet(node[s].queue) = {}
      BY <1>1, <2>1, ProcessFields DEF TreeInv, TreeOK, Family, Quiet
    <3>2. n \notin Group(s, m)
      BY <2>1, <3>1 DEF Outlived
    <3>3. js[s].strategy \in {"one_for_all", "rest_for_one"} => Strategy(s) = js[s].strategy
      BY DEF Strategy, map_strategy
    <3>4. Strategy(s) # "one_for_all"
      BY <2>0, <2>1, <3>2, GroupFacts
    <3>5. At(s, n) \in Nat /\ At(s, m) \in Nat
      BY <2>0, GroupFacts
    <3>6. Strategy(s) = "rest_for_one" => ~(At(s, n) >= At(s, m))
      BY <2>0, <2>1, <3>2, GroupFacts
    <3> QED BY <3>3, <3>4, <3>5, <3>6
  <2> QED BY <2>1 DEF NoSurvivors
<1> QED BY <1>1, TreeAccounts, PTL

\* whereis finds every process that runs and has a name.
THEOREM NamesFollow == Spec => []NameFollows
<1>1. ASSUME TreeInv PROVE NameFollows
  BY <1>1 DEF TreeInv, Named, NameFollows, Running, Runs, whereis
<1> QED BY <1>1, TreeAccounts, PTL

\* A temporary child that has ended is not started again.
THEOREM TemporaryChildrenStayDown == Spec => TemporaryStaysDown
<1> DEFINE A == \A n \in Nodes : js[n].restart = "temporary" /\ node[n].slot = "resting"
                    => node'[n].st = "off"
<1>1. TreeInv /\ [Next]_vars => [A]_vars
  <2> SUFFICES ASSUME TreeInv, [Next]_vars PROVE A
    OBVIOUS
  <2> QED BY NextStep DEF Step
<1> HIDE DEF A
<1>2. Spec => [][A]_vars
  BY <1>1, TreeAccounts, PTL DEF Spec
<1> QED BY <1>2 DEF TemporaryStaysDown, A
=============================================================================
