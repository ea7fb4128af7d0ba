--------------------------- MODULE SupervisorTree ---------------------------
(***************************************************************************)
(* Supervision trees started by JavaScript: Supervisor.start of            *)
(* supervisor.js, the host call start_supervisor, SupervisorBridge, which  *)
(* turns the JavaScript object into OTP child specifications, and the      *)
(* process registry that holds the names of children and supervisors.      *)
(*                                                                         *)
(* The owner is the process that handles the host call.  It does not trap  *)
(* exits and start_link links it to the tree, for start and startLink      *)
(* alike.  OTP's supervisor is modelled from how SupervisorBridge uses it: *)
(* serial, one child started at a time, exits handled in their order.      *)
(* Sources here make no host call; JsSystem shows what those do.           *)
(***************************************************************************)
EXTENDS Integers, Sequences, SequencesExt

CONSTANTS
    Nodes,      \* the supervisors and workers a tree may have
    Root,       \* the supervisor that start_supervisor starts
    Specs,      \* the JavaScript specifications, see JsSpec
    Strangers,  \* other JavaScript processes, which call register
    MaxFaults   \* bound on crashes and on errors in init

None == "none"  \* undefined in JavaScript, nil in Elixir

\* The fields of a JavaScript specification that SupervisorBridge reads.
\* "has" says what a worker's object has: "source", "module" (a text, with
\* args), "bare" (a module without args), "class" (a class, with args), or
\* "start" (the object start: {module, args} of README.md:244).  The ids of
\* children are left out, taken to be distinct, and so are a maxRestarts and
\* a maxSeconds that are no numbers a supervisor takes: Supervisor.init
\* refuses those (supervisor_bridge.ex:18), and the tree does not start.
JsSpec == [type : {"supervisor", "worker", None}, name : STRING,
           strategy : STRING, restart : STRING,
           maxRestarts : {m \in SUBSET Nat : \A a, b \in m : a = b},
           has : {"source", "module", "bare", "class", "start"},
           children : Seq(Nodes)]

KidsIn(f, s) == ToSet(f[s].children)

\* The processes under s: the least set that has the children of s and with
\* every process its children.
BelowIn(f, s) ==
    {n \in Nodes : \A S \in SUBSET Nodes :
        KidsIn(f, s) \subseteq S /\ (\A m \in S : KidsIn(f, m) \subseteq S) => n \in S}

\* The object of a child is part of that of its supervisor, so that every
\* specification is a tree.
ASSUME TreeAssumption ==
    /\ Root \in Nodes
    /\ Strangers \cap Nodes = {}
    /\ None \notin Nodes \cup Strangers
    /\ MaxFaults \in Nat
    /\ Specs \subseteq [Nodes -> JsSpec]
    /\ \A f \in Specs : \A s \in Nodes :
          /\ Root \notin KidsIn(f, s)
          /\ s \notin BelowIn(f, s)
          /\ \A r \in Nodes : r # s => KidsIn(f, r) \cap KidsIn(f, s) = {}
          /\ \A i, j \in DOMAIN f[s].children :
                f[s].children[i] = f[s].children[j] => i = j
          /\ f[s].type # "supervisor" => f[s].children = <<>>

VARIABLES
    js,      \* the specification in use, chosen at the start
    owner,   \* "ready", "waiting", "answered", "refused" or "dead"
    node,    \* what is known of every process of the tree, see Process
    holder,  \* the process registry: who holds each name
    faults   \* crashes and errors so far

vars == <<js, owner, node, holder, faults>>

-----------------------------------------------------------------------------
(***************************************************************************)
(* The translation of specifications.                                      *)
(***************************************************************************)
IsSup(n)   == js[n].type = "supervisor"
Kids(s)    == KidsIn(js, s)
Parents(n) == {s \in Nodes : n \in Kids(s)}

map_strategy(x) ==
    IF x \in {"one_for_one", "one_for_all", "rest_for_one"} THEN x ELSE "one_for_one"

map_restart(x) ==
    IF x \in {"permanent", "temporary", "transient"} THEN x ELSE "permanent"

Strategy(s)    == map_strategy(js[s].strategy)
Restart(n)     == map_restart(js[n].restart)
MaxRestarts(s) == CHOOSE n \in js[s].maxRestarts \cup {3} :
                      js[s].maxRestarts = {} \/ n \in js[s].maxRestarts

\* The source a worker is started with: its own, one built around the
\* module, or the empty text, which evaluates to nothing.
Source(n) ==
    IF js[n].has = "source" THEN "own"
    ELSE IF js[n].has = "module" THEN "built" ELSE "empty"

\* A class is %{} after js_value_to_erl, and build_source raises on it.
InitRaises(s) == \E n \in Kids(s) : ~IsSup(n) /\ js[n].has = "class"

\* The registry key of a process, via_name for a supervisor; the empty set
\* when it has no name.
KeyIn(f, n) ==
    {<<IF f[n].type = "supervisor" THEN "sup" ELSE "proc", x>> :
        x \in {f[n].name} \ {None}}
Key(n) == KeyIn(js, n)
Names  == UNION {KeyIn(f, n) : f \in Specs, n \in Nodes}

-----------------------------------------------------------------------------
(***************************************************************************)
(* Processes.  st: "init" until start_link returns, "failed" when it       *)
(* returns an error its caller has not seen yet.  slot is what the parent  *)
(* keeps in place of a pid: "resting" after an exit that asks for no       *)
(* restart (the specification of a temporary child is deleted), "retrying" *)
(* after a start that failed.  todo are the children a supervisor has yet  *)
(* to start, in the order of its list, queue its messages, restarts those  *)
(* within max_seconds.  since is a history: the siblings that were lost    *)
(* since the process started.                                              *)
(***************************************************************************)
Exit(n, reason) == [kind |-> "exit", child |-> n, reason |-> reason]
TryAgain(n)     == [kind |-> "retry", child |-> n, reason |-> <<"none", "none">>]
ParentExit      == [kind |-> "parent", child |-> Root, reason |-> <<"none", "none">>]

\* JavaScript stops a process with a text, whatever the text says; a
\* supervisor that gives up exits with the atom shutdown.
JsReasons == {<<"text", "normal">>, <<"text", "other">>}
Shutdown  == <<"atom", "shutdown">>

Message == [kind : {"exit", "retry", "parent"}, child : Nodes,
            reason : JsReasons \cup {Shutdown, <<"none", "none">>}]

Process == [st : {"off", "init", "up", "failed"}, slot : {None, "resting", "retrying"},
            todo : SUBSET Nodes, queue : Seq(Message), restarts : Nat,
            since : SUBSET Nodes]

Fresh == [st |-> "off", slot |-> None, todo |-> {}, queue |-> <<>>,
          restarts |-> 0, since |-> {}]

TypeOK ==
    /\ js \in Specs
    /\ owner \in {"ready", "waiting", "answered", "refused", "dead"}
    /\ node \in [Nodes -> Process]
    /\ \A n \in Nodes :
          /\ node[n].todo \subseteq Kids(n)
          /\ node[n].restarts <= MaxRestarts(n)
          /\ \A m \in ToSet(node[n].queue) :
                IF m.kind = "parent" THEN n = Root ELSE m.child \in Kids(n)
    /\ holder \in [Names -> Nodes \cup Strangers \cup {None}]
    /\ faults \in 0..MaxFaults

Init ==
    /\ js \in Specs
    /\ owner = "ready"
    /\ node = [n \in Nodes |-> Fresh]
    /\ holder = [k \in Names |-> None]
    /\ faults = 0

-----------------------------------------------------------------------------
(***************************************************************************)
(* Starting and stopping.                                                  *)
(***************************************************************************)
Running(n) == node[n].st \in {"init", "up"}

\* The processes that end with s.
Under    == [f \in Specs |-> [s \in Nodes |-> BelowIn(f, s)]]
Below(s) == Under[js][s]

Stopped(f, S) == [n \in Nodes |-> IF n \in S THEN Fresh ELSE f[n]]
Set(f, n, r)  == [f EXCEPT ![n] = r]

\* Names are given up by the end of the process that holds them.
Without(h, S) == [k \in Names |-> IF h[k] \in S THEN None ELSE h[k]]

NameFree(n) == \A k \in Key(n) : holder[k] = None

\* start_link of n: the name is registered before init runs; a supervisor
\* that can read its specification then has all its children to start.
Launch(n) ==
    IF ~NameFree(n) \/ (IsSup(n) /\ InitRaises(n))
    THEN /\ node' = Set(node, n, [Fresh EXCEPT !.st = "failed"])
         /\ UNCHANGED holder
    ELSE /\ node' = Set(node, n, [Fresh EXCEPT !.st = "init", !.todo = Kids(n)])
         /\ holder' = [k \in Names |-> IF k \in Key(n) THEN n ELSE holder[k]]

\* The host call start_supervisor.  A name in use is the one error the owner
\* lives to answer: the process that did not get it exits with normal.
StartSupervisor ==
    /\ owner = "ready"
    /\ IF NameFree(Root)
       THEN /\ owner' = "waiting"
            /\ Launch(Root)
       ELSE /\ owner' = "refused"
            /\ UNCHANGED <<node, holder>>
    /\ UNCHANGED <<js, faults>>

\* start_link of the root has returned its pid.
RootStarted ==
    /\ owner = "waiting"
    /\ node[Root].st = "init" /\ node[Root].todo = {}
    /\ owner' = "answered"
    /\ node' = [node EXCEPT ![Root].st = "up"]
    /\ UNCHANGED <<js, holder, faults>>

\* A tree that could not be started, or that gave up, takes its owner along;
\* the clause of start_supervisor for {:error, reason} is not reached.
OwnerExits ==
    /\ \/ owner = "waiting" /\ node[Root].st = "failed"
       \/ owner = "answered" /\ node[Root].st = "off"
    /\ owner' = "dead"
    /\ node' = Stopped(node, {Root})
    /\ UNCHANGED <<js, holder, faults>>

\* Mutant: the root does not get the owner's exit signal.
OwnerCrashesUnseen ==
    /\ owner \in {"waiting", "answered"} /\ faults < MaxFaults
    /\ owner' = "dead"
    /\ faults' = faults + 1
    /\ UNCHANGED <<js, node, holder>>

\* The owner ends for reasons of its own; the root gets its exit signal, and
\* a start that nobody waits for ends by itself.
OwnerCrashes ==
    /\ owner \in {"waiting", "answered"} /\ faults < MaxFaults
    /\ owner' = "dead"
    /\ node' = IF Running(Root)
               THEN [node EXCEPT ![Root].queue = Append(@, ParentExit)]
               ELSE Stopped(node, {Root})
    /\ faults' = faults + 1
    /\ UNCHANGED <<js, holder>>

OrphanStarted ==
    /\ owner = "dead" /\ node[Root].st = "init" /\ node[Root].todo = {}
    /\ node' = [node EXCEPT ![Root].st = "up"]
    /\ UNCHANGED <<js, owner, holder, faults>>

OrphanFailed ==
    /\ owner = "dead" /\ node[Root].st = "failed"
    /\ node' = Stopped(node, {Root})
    /\ UNCHANGED <<js, owner, holder, faults>>

-----------------------------------------------------------------------------
(***************************************************************************)
(* A supervisor at work on its todo list.                                  *)
(***************************************************************************)
At(s, n)  == CHOOSE i \in DOMAIN js[s].children : js[s].children[i] = n
First(s)  == CHOOSE n \in node[s].todo : \A m \in node[s].todo : At(s, n) <= At(s, m)
AtWork(s) == Running(s) /\ node[s].todo # {}

LaunchChild(s) ==
    /\ AtWork(s) /\ node[First(s)].st = "off"
    /\ Launch(First(s))
    /\ UNCHANGED <<js, owner, faults>>

\* The child's start_link returns its pid.
ChildStarted(s) ==
    /\ AtWork(s)
    /\ node[First(s)].st = "init" /\ node[First(s)].todo = {}
    /\ node' = [node EXCEPT ![First(s)].st = "up", ![s].todo = @ \ {First(s)}]
    /\ UNCHANGED <<js, owner, holder, faults>>

\* The source of a worker throws: init stops with {:js_error, reason}.
InitThrows(s) ==
    /\ AtWork(s) /\ faults < MaxFaults
    /\ node[First(s)].st = "init" /\ ~IsSup(First(s)) /\ Source(First(s)) # "empty"
    /\ node' = [node EXCEPT ![First(s)].st = "failed"]
    /\ holder' = Without(holder, {First(s)})
    /\ faults' = faults + 1
    /\ UNCHANGED <<js, owner>>

RetryChild(s) ==
    [node EXCEPT ![First(s)] = [Fresh EXCEPT !.slot = "retrying"],
                 ![s].todo = {},
                 ![s].queue = Append(@, TryAgain(First(s)))]

\* The child's start_link returned an error: a supervisor that is starting
\* stops what it has started and fails too, one that runs tries again.
ChildFailed(s) ==
    /\ AtWork(s) /\ node[First(s)].st = "failed"
    /\ IF node[s].st = "init"
       THEN /\ node' = Set(Stopped(node, Below(s)), s, [Fresh EXCEPT !.st = "failed"])
            /\ holder' = Without(holder, Below(s) \cup {s})
       ELSE node' = RetryChild(s) /\ UNCHANGED holder
    /\ UNCHANGED <<js, owner, faults>>

-----------------------------------------------------------------------------
(***************************************************************************)
(* Exits.                                                                  *)
(***************************************************************************)
\* Mutant: a text that says "normal" is taken for the atom.
NormalByName(reason) == reason \in {Shutdown, <<"text", "normal">>}

Normal(reason) == reason = Shutdown

WantsRestart(n, reason) ==
    \/ Restart(n) = "permanent"
    \/ Restart(n) = "transient" /\ ~Normal(reason)

\* n ends with a reason: its name is free, its supervisor gets the message.
Lost(f, n, reason) ==
    [m \in Nodes |->
       IF m = n THEN Fresh
       ELSE IF m \in Parents(n)
       THEN [f[m] EXCEPT !.queue = Append(@, Exit(n, reason))]
       ELSE IF Parents(m) = Parents(n) /\ f[m].st # "off" /\ WantsRestart(n, reason)
       THEN [f[m] EXCEPT !.since = @ \cup {n}]
       ELSE f[m]]

\* A worker stops or crashes; the reason comes from JavaScript, or is a term
\* that no supervisor takes for normal.
Crash(n, reason) ==
    /\ node[n].st = "up" /\ ~IsSup(n) /\ faults < MaxFaults
    /\ node' = Lost(node, n, reason)
    /\ holder' = Without(holder, {n})
    /\ faults' = faults + 1
    /\ UNCHANGED <<js, owner>>

AtRest(s) == node[s].st = "up" /\ node[s].todo = {}

\* The processes below s can be stopped: no supervisor there is starting a
\* child, which it would finish first.
CanStop(s) == \A d \in Below(s) : node[d].todo = {}

\* Mutant: rest_for_one leaves the child that follows alone.
GroupOffByOne(s, n) ==
    CASE Strategy(s) = "one_for_one"  -> {n}
      [] Strategy(s) = "one_for_all"  -> Kids(s)
      [] Strategy(s) = "rest_for_one" ->
            {n} \cup {m \in Kids(s) : At(s, m) > At(s, n) + 1}

\* The children that are stopped and started again with n.
Group(s, n) ==
    CASE Strategy(s) = "one_for_one"  -> {n}
      [] Strategy(s) = "one_for_all"  -> Kids(s)
      [] Strategy(s) = "rest_for_one" -> {m \in Kids(s) : At(s, m) >= At(s, n)}

\* Mutant: a restart of the group brings temporary children back.
AgainWithTemporary(G) == G

\* Stopped temporary children are not started again, ended transient ones
\* are.
Again(G) == {m \in G : Restart(m) # "temporary"}

\* Mutant: only exits count, not the starts that failed.
ExitsCounted(s) ==
    node[s].restarts + (IF Head(node[s].queue).kind = "exit" THEN 1 ELSE 0)

\* An attempt to restart counts, be it for an exit or for a failed start.
Counted(s) == node[s].restarts + 1

\* The exits of the children in G are taken out of the queue when they are
\* stopped, requests to try again stay.
Flushed(q, G) ==
    LET kept[i \in 0..Len(q)] ==
          IF i = 0 THEN <<>>
          ELSE IF q[i].kind = "exit" /\ q[i].child \in G THEN kept[i - 1]
          ELSE Append(kept[i - 1], q[i])
    IN  kept[Len(q)]

\* The supervisor stops a group of children and has them to start again.
RestartGroup(s, n) ==
    LET G == Group(s, n)
        D == G \cup UNION {Below(g) : g \in G}
        Q == Flushed(Tail(node[s].queue), G)
    IN  /\ node' = [m \in Nodes |->
              IF m = s
              THEN [node[s] EXCEPT !.todo = Again(G), !.queue = Q,
                                   !.restarts = Counted(s)]
              ELSE IF m \in G /\ Restart(m) = "temporary"
              THEN [Fresh EXCEPT !.slot = "resting"]
              ELSE Stopped(node, D)[m]]
        /\ holder' = Without(holder, D)

\* Too many restarts: the children stop, and the supervisor with shutdown.
GiveUp(s) ==
    /\ node' = Lost(Stopped(node, Below(s)), s, Shutdown)
    /\ holder' = Without(holder, Below(s) \cup {s})

\* The supervisor handles the first message of its queue.
HandleExit(s) ==
    /\ AtRest(s) /\ node[s].queue # <<>>
    /\ LET q == Head(node[s].queue) IN
       \/ /\ q.kind = "exit" /\ ~WantsRestart(q.child, q.reason)
          /\ node' = [node EXCEPT ![s].queue = Tail(@),
                                  ![q.child] = [Fresh EXCEPT !.slot = "resting"]]
          /\ UNCHANGED holder
       \/ /\ q.kind = "retry" /\ node[q.child].slot # "retrying"
          /\ node' = [node EXCEPT ![s].queue = Tail(@)]
          /\ UNCHANGED holder
       \/ /\ \/ q.kind = "exit" /\ WantsRestart(q.child, q.reason)
             \/ q.kind = "retry" /\ node[q.child].slot = "retrying"
          /\ CanStop(s)
          /\ IF node[s].restarts < MaxRestarts(s)
             THEN RestartGroup(s, q.child) ELSE GiveUp(s)
       \/ /\ q.kind = "parent" /\ CanStop(s)
          /\ node' = Stopped(node, Below(s) \cup {s})
          /\ holder' = Without(holder, Below(s) \cup {s})
    /\ UNCHANGED <<js, owner, faults>>

\* Mutant: restarts are taken back that were never made.
WindowSlidesBelow(s) ==
    /\ AtRest(s)
    /\ \A i \in DOMAIN node[s].queue : node[s].queue[i].kind # "retry"
    /\ node' = [node EXCEPT ![s].restarts = @ - 1]
    /\ UNCHANGED <<js, owner, holder, faults>>

\* max_seconds pass for the oldest restart.  A start that failed is tried
\* again at once.
WindowSlides(s) ==
    /\ AtRest(s) /\ node[s].restarts > 0
    /\ \A i \in DOMAIN node[s].queue : node[s].queue[i].kind # "retry"
    /\ node' = [node EXCEPT ![s].restarts = @ - 1]
    /\ UNCHANGED <<js, owner, holder, faults>>

-----------------------------------------------------------------------------
(***************************************************************************)
(* The registry.  The host call register is answered with ok whether or    *)
(* not the name was free.                                                  *)
(***************************************************************************)
\* Mutant: register takes the name from its holder.
RegisterOverwrites(x, k) ==
    /\ holder' = [holder EXCEPT ![k] = x]
    /\ UNCHANGED <<js, owner, node, faults>>

Register(x, k) ==
    /\ holder' = [holder EXCEPT ![k] = IF @ = None THEN x ELSE @]
    /\ UNCHANGED <<js, owner, node, faults>>

\* The host call whereis.
whereis(k) == holder[k]

StrangerEnds(x) ==
    /\ holder' = Without(holder, {x})
    /\ UNCHANGED <<js, owner, node, faults>>

Work(s) == LaunchChild(s) \/ ChildStarted(s) \/ ChildFailed(s) \/ HandleExit(s)

Owning == RootStarted \/ OwnerExits \/ OrphanStarted \/ OrphanFailed

Next ==
    \/ StartSupervisor
    \/ Owning
    \/ OwnerCrashes
    \/ \E s \in Nodes : Work(s) \/ InitThrows(s) \/ WindowSlides(s)
    \/ \E n \in Nodes, reason \in JsReasons : Crash(n, reason)
    \/ \E x \in Strangers : StrangerEnds(x) \/ \E k \in Names : Register(x, k)

\* Supervisors and the owner are scheduled, and sources end.
Fairness ==
    /\ WF_vars(Owning)
    /\ \A s \in Nodes : WF_vars(Work(s))

Spec == Init /\ [][Next]_vars /\ Fairness

-----------------------------------------------------------------------------
(***************************************************************************)
(* Properties.                                                             *)
(***************************************************************************)
Quiet(s) == AtRest(s) /\ node[s].queue = <<>>

\* A supervisor that has nothing left to do runs all its children, except
\* temporary ones and transient supervisors that gave up.  A transient
\* worker is among them even if JavaScript stopped it with "normal"
\* (process.ex:131), and so is a child with an unknown restart value.
QuietMeansUp ==
    \A s \in Nodes : Quiet(s) =>
        \A n \in Kids(s) :
            \/ node[n].st = "up"
            \/ js[n].restart = "temporary"
            \/ js[n].restart = "transient" /\ IsSup(n) /\ node[n].slot = "resting"

\* The strategies of supervisor_bridge.ex:30-33: when a supervisor has
\* handled everything, no child of one_for_all has outlived the loss of a
\* sibling, and no child of rest_for_one that of an earlier one.
NoSurvivors ==
    \A s \in Nodes : Quiet(s) =>
        \A n \in Kids(s), m \in Kids(s) :
            node[n].st = "up" /\ m \in node[n].since =>
                /\ js[s].strategy # "one_for_all"
                /\ js[s].strategy = "rest_for_one" => At(s, m) > At(s, n)

\* A process with a name holds it from its registration to its end, whatever
\* other processes register (process.ex:24 and 274): whereis finds it.
NameFollows ==
    \A n \in Nodes : Running(n) => \A k \in Key(n) : whereis(k) = n

\* A temporary child that has ended (supervisor_bridge.ex:94) is not started
\* again by the supervisor that saw it end, whatever group is restarted.
TemporaryStaysDown ==
    [][\A n \in Nodes : js[n].restart = "temporary" /\ node[n].slot = "resting"
            => node'[n].st = "off"]_vars

\* A child that is to be restarted is started again, or its supervisor ends,
\* even if its name was taken in the meantime (process.ex:24).
ChildComesBack ==
    \A s \in Nodes : \A n \in Nodes :
        (node[s].st = "up" /\ n \in Kids(s) /\ node[n].st = "off")
            ~> (node[n].st = "up" \/ node[n].slot = "resting" \/ node[s].st # "up")

\* The tree does not outlive the process that started it, whether it was
\* started with start or with startLink (process.ex:388).
TreeEndsWithOwner == owner = "dead" ~> \A n \in Nodes : node[n].st = "off"

\* README.md:251: a child given as start: {module, args} runs the module.
ReadmeChildRuns ==
    \A n \in Nodes : ~IsSup(n) /\ js[n].has = "start" /\ node[n].st = "up"
        => Source(n) # "empty"
=============================================================================
