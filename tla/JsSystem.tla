------------------------------ MODULE JsSystem ------------------------------
(***************************************************************************)
(* The running system: JavaScript processes (BeamjsCore.Process, each with *)
(* a QuickJS context of its own) started by the DynamicSupervisor          *)
(* BeamjsCore.ProcessSupervisor, the dirty CPU scheduler threads on which  *)
(* eval and set_global run, and the BEAM processes that use the public API *)
(* (start_supervised, eval, call, cast).                                   *)
(*                                                                         *)
(* A host call or an import made while the process evaluates blocks its    *)
(* thread for good: HostBridge shows that a process that evaluates in a    *)
(* context it owns never gets an answer (SelfCallNeverReturns).  Here that *)
(* is one step, HostCall, with no step that ends it.                       *)
(***************************************************************************)
EXTENDS Naturals, Sequences

CONSTANTS
    Threads,      \* the dirty CPU scheduler threads
    Clients,      \* the processes that use the public API
    Hosting,      \* TRUE: the JavaScript uses host functions or imports
    MaxRestarts,  \* the supervisor's max_restarts
    MaxReqs,      \* bound on requests, all clients together
    MaxFaults,    \* bound on failures: errors in init, stops, crashes, kills
    MaxProcs      \* pids; one per start and one per restart

ASSUME SystemAssumption ==
    /\ Hosting \in BOOLEAN
    /\ MaxRestarts \in Nat
    /\ MaxReqs \in Nat
    /\ MaxFaults \in Nat
    /\ MaxProcs \in Nat
    /\ MaxReqs + MaxFaults <= MaxProcs

VARIABLES
    status,    \* of each process, see Statuses
    job,       \* the callback each process is executing
    nif,       \* its dirty NIF: "none", "queued", "running", "blocked"
    thread,    \* the process each dirty scheduler thread executes, or Nobody
    ctx,       \* its BeamjsContext: "none", "live", "freed"
    inbox,     \* its message queue
    client,    \* what each client waits for
    sup,       \* the supervisor: what it waits for
    supq,      \* the supervisor's message queue
    restarts,  \* restarts that count against max_restarts
    born,      \* processes started so far
    reqs,      \* requests made so far
    faults     \* failures so far

vars == <<status, job, nif, thread, ctx, inbox, client, sup, supq, restarts,
          born, reqs, faults>>

Procs  == 1..MaxProcs
Nobody == 0

Statuses == {"unborn", "init", "loop", "busy", "dead"}

\* A request in a process's queue; id names the client's wait for it.
Request  == [kind : {"eval", "js_call", "js_cast"}, id : Nat]

\* A callback: the NIF calls it has yet to finish, the first of them in
\* progress, and, once JavaScript has run, what handle_call returns.
Job      == [kind : {"init", "eval", "js_call", "js_cast"}, id : Nat,
             todo : Seq({"set", "eval"}), out : {"none", "reply", "noreply"}]
NoJob    == [kind |-> "none", id |-> 0, todo |-> <<>>, out |-> "none"]

\* timed: the caller gives up after a while.
Wait     == [at : {"start", "eval", "js_call"}, pid : Procs \cup {Nobody}, id : Nat,
             timed : BOOLEAN]
Idle     == [at |-> "idle", pid |-> Nobody, id |-> 0, timed |-> FALSE]

\* The supervisor waits for the init of a child, on behalf of a client
\* (serving = {c}) or for a restart (serving = {}).
SupWait  == [at : {"init"}, child : Procs, serving : SUBSET Clients]
SupIdle  == [at |-> "idle", child |-> Nobody, serving |-> {}]
SupDown  == [at |-> "down", child |-> Nobody, serving |-> {}]
SupMsg   == [kind : {"start", "exit"}, serving : SUBSET Clients]

TypeOK ==
    /\ status \in [Procs -> Statuses]
    /\ job \in [Procs -> Job \cup {NoJob}]
    /\ nif \in [Procs -> {"none", "queued", "running", "blocked"}]
    /\ thread \in [Threads -> Procs \cup {Nobody}]
    /\ ctx \in [Procs -> {"none", "live", "freed"}]
    /\ inbox \in [Procs -> Seq(Request)]
    /\ client \in [Clients -> Wait \cup {Idle}]
    /\ sup \in SupWait \cup {SupIdle, SupDown}
    /\ supq \in Seq(SupMsg)
    /\ restarts \in Nat /\ born \in Nat /\ reqs \in Nat /\ faults \in Nat

Init ==
    /\ status = [p \in Procs |-> "unborn"]
    /\ job = [p \in Procs |-> NoJob]
    /\ nif = [p \in Procs |-> "none"]
    /\ thread = [t \in Threads |-> Nobody]
    /\ ctx = [p \in Procs |-> "none"]
    /\ inbox = [p \in Procs |-> <<>>]
    /\ client = [c \in Clients |-> Idle]
    /\ sup = SupIdle /\ supq = <<>>
    /\ restarts = 0 /\ born = 0 /\ reqs = 0 /\ faults = 0

Alive(p)     == status[p] \in {"init", "loop", "busy"}
OnThread(p)  == nif[p] \in {"running", "blocked"}
CallersOf(p) == {c \in Clients : client[c].at \in {"eval", "js_call"} /\ client[c].pid = p}
Released(C)  == [c \in Clients |-> IF c \in C THEN Idle ELSE client[c]]

-----------------------------------------------------------------------------
(* Clients: the public API of BeamjsCore.Process.                          *)

\* DynamicSupervisor.start_child, which waits without a timeout.
start_supervised(c) ==
    /\ client[c] = Idle /\ reqs < MaxReqs
    /\ sup # SupDown
    /\ reqs' = reqs + 1
    /\ client' = [client EXCEPT ![c] = [at |-> "start", pid |-> Nobody, id |-> reqs + 1,
                                         timed |-> FALSE]]
    /\ supq' = Append(supq, [kind |-> "start", serving |-> {c}])
    /\ UNCHANGED <<status, job, nif, thread, ctx, inbox, sup, restarts, born, faults>>

\* A message is put in the queue of a process that exists; one registered
\* under a name can be reached while it is still in init.
Post(c, p, kind) ==
    /\ client[c] = Idle /\ reqs < MaxReqs
    /\ Alive(p)
    /\ reqs' = reqs + 1
    /\ inbox' = [inbox EXCEPT ![p] = Append(@, [kind |-> kind, id |-> reqs + 1])]
    /\ UNCHANGED <<status, job, nif, thread, ctx, sup, supq, restarts, born, faults>>

AwaitReply(c, p, kind, timed) ==
    client' = [client EXCEPT ![c] = [at |-> kind, pid |-> p, id |-> reqs + 1,
                                     timed |-> timed]]

\* GenServer.call(pid, {:eval, source}, :infinity)
eval(c, p) == Post(c, p, "eval") /\ AwaitReply(c, p, "eval", FALSE)

\* GenServer.call(pid, {:js_call, request}, timeout): the caller chooses the
\* timeout, which may be :infinity.
call(c, p) ==
    /\ Post(c, p, "js_call")
    /\ \E timed \in BOOLEAN : AwaitReply(c, p, "js_call", timed)

\* Mutant: cast waits for a reply, like call.
cast_waits(c, p) == Post(c, p, "js_cast") /\ AwaitReply(c, p, "js_cast", TRUE)

cast(c, p) == Post(c, p, "js_cast") /\ UNCHANGED client

\* The timeout of a call passes and its caller gives up; the request stays
\* where it is.
CallTimeout(c) ==
    /\ client[c].timed
    /\ client' = [client EXCEPT ![c] = Idle]
    /\ UNCHANGED <<status, job, nif, thread, ctx, inbox, sup, supq, restarts,
                   born, reqs, faults>>

-----------------------------------------------------------------------------
(* The supervisor: one message at a time, and it waits inside a start      *)
(* until the child's init has returned.                                    *)

\* Mutant: init leaves the evaluation of the source for later.
InitReturnsEarly(p, serving) ==
    /\ client' = Released(serving)
    /\ UNCHANGED sup

\* The supervisor waits inside start_child for the init of p to return.
AwaitInit(p, serving) ==
    /\ sup' = [at |-> "init", child |-> p, serving |-> serving]
    /\ UNCHANGED client

\* init/1 up to its eval; without a source there is nothing to evaluate.
StartChild(serving) ==
    LET p == born + 1
    IN  /\ born < MaxProcs
        /\ born' = p
        /\ ctx' = [ctx EXCEPT ![p] = "live"]
        /\ supq' = Tail(supq)
        /\ \/ /\ status' = [status EXCEPT ![p] = "init"]
              /\ job' = [job EXCEPT ![p] = [kind |-> "init", id |-> 0,
                                            todo |-> <<"eval">>, out |-> "none"]]
              /\ nif' = [nif EXCEPT ![p] = "queued"]
              /\ AwaitInit(p, serving)
           \/ /\ status' = [status EXCEPT ![p] = "loop"]
              /\ client' = Released(serving)
              /\ UNCHANGED <<job, nif, sup>>
        /\ UNCHANGED <<thread, inbox, reqs, faults>>

SupHandles(kind) == sup = SupIdle /\ supq # <<>> /\ Head(supq).kind = kind

SupStart ==
    /\ SupHandles("start")
    /\ StartChild(Head(supq).serving)
    /\ UNCHANGED restarts

\* Children are permanent: every exit is followed by a restart as long as
\* max_restarts is not exceeded.
SupRestart ==
    /\ SupHandles("exit")
    /\ restarts < MaxRestarts
    /\ restarts' = restarts + 1
    /\ StartChild({})

\* A restart is older than max_seconds.
WindowSlides ==
    /\ restarts > 0
    /\ restarts' = restarts - 1
    /\ UNCHANGED <<status, job, nif, thread, ctx, inbox, client, sup, supq,
                   born, reqs, faults>>

\* Mutant: the context is destroyed with the process, NIF or not.
AllFreed(P, n) == P

\* The contexts that go with the processes in P (terminate, or the resource
\* destructor); n is nif once what ends them has happened.  While its NIF is
\* on a thread the process's heap is kept, and with it the context.
FreedWith(P, n) == {p \in P : n[p] \in {"none", "queued"}}

\* A job in the run queue is dropped, a NIF on a thread goes on.
CancelledWith(P, n) == {p \in P : n[p] = "queued"}

\* The processes in P end.
Gone(P, n) ==
    /\ status' = [p \in Procs |-> IF p \in P THEN "dead" ELSE status[p]]
    /\ job'    = [p \in Procs |-> IF p \in P THEN NoJob ELSE job[p]]
    /\ inbox'  = [p \in Procs |-> IF p \in P THEN <<>> ELSE inbox[p]]
    /\ nif'    = [p \in Procs |-> IF p \in CancelledWith(P, n) THEN "none" ELSE n[p]]
    /\ ctx'    = [p \in Procs |-> IF p \in FreedWith(P, n) THEN "freed" ELSE ctx[p]]

\* Too many restarts: the supervisor shuts down its children and exits, and
\* whoever waits for one of them or for it gets an exit.
SupGivesUp ==
    /\ SupHandles("exit")
    /\ restarts = MaxRestarts
    /\ Gone({p \in Procs : Alive(p)}, nif)
    /\ client' = [c \in Clients |-> Idle]
    /\ sup' = SupDown
    /\ supq' = <<>>
    /\ UNCHANGED <<thread, restarts, born, reqs, faults>>

\* BeamjsCore.Supervisor starts it again, unless it has done so too often.
AppRestartsSup ==
    /\ sup = SupDown
    /\ sup' = SupIdle
    /\ restarts' = 0
    /\ UNCHANGED <<status, job, nif, thread, ctx, inbox, client, supq, born,
                   reqs, faults>>

-----------------------------------------------------------------------------
(* Processes.                                                              *)

\* The NIF calls of a callback, up to the one that runs JavaScript.
Script(kind) ==
    CASE kind = "eval"    -> <<"eval">>
      [] kind = "js_call" -> <<"set", "set", "eval">>
      [] kind = "js_cast" -> <<"set", "eval">>

\* The GenServer takes a message and calls the callback's first NIF.
TakeRequest(p) ==
    /\ status[p] = "loop"
    /\ inbox[p] # <<>>
    /\ inbox' = [inbox EXCEPT ![p] = Tail(@)]
    /\ status' = [status EXCEPT ![p] = "busy"]
    /\ job' = [job EXCEPT ![p] = [kind |-> Head(inbox[p]).kind, id |-> Head(inbox[p]).id,
                                  todo |-> Script(Head(inbox[p]).kind), out |-> "none"]]
    /\ nif' = [nif EXCEPT ![p] = "queued"]
    /\ UNCHANGED <<thread, ctx, client, sup, supq, restarts, born, reqs, faults>>

\* A dirty scheduler thread takes a job from the run queue.
Schedule(t, p) ==
    /\ thread[t] = Nobody
    /\ nif[p] = "queued"
    /\ thread' = [thread EXCEPT ![t] = p]
    /\ nif' = [nif EXCEPT ![p] = "running"]
    /\ UNCHANGED <<status, job, ctx, inbox, client, sup, supq, restarts, born,
                   reqs, faults>>

\* Mutant: a host call gives its thread back while it waits.
HostCallYields(p) ==
    /\ Hosting
    /\ nif[p] = "running"
    /\ Alive(p)
    /\ Head(job[p].todo) = "eval"
    /\ nif' = [nif EXCEPT ![p] = "blocked"]
    /\ thread' = [t \in Threads |-> IF thread[t] = p THEN Nobody ELSE thread[t]]
    /\ UNCHANGED <<status, job, ctx, inbox, client, sup, supq, restarts, born,
                   reqs, faults>>

\* JavaScript calls a host function or imports a module.  If the process
\* has been killed meanwhile the call throws and the NIF goes on.
HostCall(p) ==
    /\ Hosting
    /\ nif[p] = "running"
    /\ Alive(p)
    /\ Head(job[p].todo) = "eval"
    /\ nif' = [nif EXCEPT ![p] = "blocked"]
    /\ UNCHANGED <<status, job, thread, ctx, inbox, client, sup, supq, restarts,
                   born, reqs, faults>>

\* Mutant: the result is delivered, but the NIF stays on its thread.
ReturnsHolding(t, p, op) ==
    /\ thread[t] = p
    /\ nif[p] = "running"
    /\ Alive(p)
    /\ Head(job[p].todo) = op
    /\ UNCHANGED thread

\* The NIF call of process p on thread t returns to a process that is alive.
Returns(t, p, op) ==
    /\ thread[t] = p
    /\ nif[p] = "running"
    /\ Alive(p)
    /\ Head(job[p].todo) = op
    /\ thread' = [thread EXCEPT ![t] = Nobody]

\* The callback goes on with another NIF call.
GoOn(p, todo, out) ==
    /\ job' = [job EXCEPT ![p].todo = todo, ![p].out = out]
    /\ nif' = [nif EXCEPT ![p] = "queued"]
    /\ UNCHANGED status

\* The callback returns to the GenServer loop.
BackToLoop(p) ==
    /\ job' = [job EXCEPT ![p] = NoJob]
    /\ nif' = [nif EXCEPT ![p] = "none"]
    /\ status' = [status EXCEPT ![p] = "loop"]

\* Mutant: the answer goes to whoever waits for the process.
ReplyToAll(p) == client' = Released(CallersOf(p))

\* {:reply, ...}: to the client if it still waits for this request.
Reply(p) == client' = Released({c \in Clients : client[c] # Idle /\ client[c].id = job[p].id})

\* nif_set_global returns.
SetReturns(t, p) ==
    /\ Returns(t, p, "set")
    /\ \/ /\ Len(job[p].todo) > 1
          /\ GoOn(p, Tail(job[p].todo), job[p].out)
          /\ UNCHANGED client
       \/ /\ Len(job[p].todo) = 1
          /\ BackToLoop(p)
          /\ IF job[p].out = "reply" THEN Reply(p) ELSE UNCHANGED client
    /\ UNCHANGED <<ctx, inbox, sup, supq, restarts, born, reqs, faults>>

\* init/1: the source evaluated without an error.
InitOk(t, p) ==
    /\ Returns(t, p, "eval")
    /\ job[p].kind = "init"
    /\ BackToLoop(p)
    /\ client' = Released(sup.serving)
    /\ sup' = SupIdle
    /\ UNCHANGED <<ctx, inbox, supq, restarts, born, reqs, faults>>

\* Mutant: handle_call({:eval, source}, ...) returns {:noreply, state}.
EvalNoReply(t, p) ==
    /\ Returns(t, p, "eval")
    /\ job[p].kind = "eval"
    /\ BackToLoop(p)
    /\ UNCHANGED <<ctx, inbox, client, sup, supq, restarts, born, reqs, faults>>

\* handle_call({:eval, source}, ...): a result or an error is the reply.
EvalReply(t, p) ==
    /\ Returns(t, p, "eval")
    /\ job[p].kind = "eval"
    /\ BackToLoop(p)
    /\ Reply(p)
    /\ UNCHANGED <<ctx, inbox, sup, supq, restarts, born, reqs, faults>>

\* handle_call({:js_call, request}, ...) after its eval: a reply and a new
\* state, only a new state (the reply is left to JavaScript), or an error.
CallResult(t, p) ==
    /\ Returns(t, p, "eval")
    /\ job[p].kind = "js_call"
    /\ \/ /\ \E out \in {"reply", "noreply"} : GoOn(p, <<"set">>, out)
          /\ UNCHANGED client
       \/ BackToLoop(p) /\ Reply(p)
    /\ UNCHANGED <<ctx, inbox, sup, supq, restarts, born, reqs, faults>>

\* handle_cast({:js_cast, request}, ...) after its eval: a new state, or
\* anything else, which is ignored.
CastResult(t, p) ==
    /\ Returns(t, p, "eval")
    /\ job[p].kind = "js_cast"
    /\ GoOn(p, <<"set">>, "noreply") \/ BackToLoop(p)
    /\ UNCHANGED <<ctx, inbox, client, sup, supq, restarts, born, reqs, faults>>

\* The supervisor and the callers learn that p has ended.  In a start, the
\* failure is the answer; in a restart, the supervisor tries again later.
Notify(p) ==
    /\ faults < MaxFaults
    /\ faults' = faults + 1
    /\ IF sup.child = p
       THEN /\ client' = Released(CallersOf(p) \cup sup.serving)
            /\ sup' = SupIdle
            /\ supq' = IF sup.serving = {}
                       THEN Append(supq, [kind |-> "exit", serving |-> {}]) ELSE supq
       ELSE /\ client' = Released(CallersOf(p))
            /\ supq' = Append(supq, [kind |-> "exit", serving |-> {}])
            /\ UNCHANGED sup
    /\ UNCHANGED <<restarts, born, reqs>>

\* An error in init; a stop returned by JavaScript, a result no clause
\* matches or one that cannot be converted: the process ends.
Fails(t, p) ==
    /\ Returns(t, p, "eval")
    /\ Gone({p}, [nif EXCEPT ![p] = "none"])
    /\ Notify(p)

\* An exit signal ends the process, wherever it is.
Kill(p) ==
    /\ Alive(p)
    /\ Gone({p}, nif)
    /\ Notify(p)
    /\ UNCHANGED thread

\* Mutant: the destructor does not free the context.
OrphanReturnsLeaks(t, p) ==
    /\ thread[t] = p
    /\ nif[p] = "running"
    /\ ~Alive(p)
    /\ thread' = [thread EXCEPT ![t] = Nobody]
    /\ nif' = [nif EXCEPT ![p] = "none"]
    /\ UNCHANGED <<status, job, ctx, inbox, client, sup, supq, restarts, born, reqs, faults>>

\* The NIF of a process that was killed returns; its heap and with it the
\* context are released.
OrphanReturns(t, p) ==
    /\ thread[t] = p
    /\ nif[p] = "running"
    /\ ~Alive(p)
    /\ thread' = [thread EXCEPT ![t] = Nobody]
    /\ nif' = [nif EXCEPT ![p] = "none"]
    /\ ctx' = [ctx EXCEPT ![p] = "freed"]
    /\ UNCHANGED <<status, job, inbox, client, sup, supq, restarts, born, reqs, faults>>

-----------------------------------------------------------------------------
NifReturns(t, p) ==
    \/ SetReturns(t, p) \/ InitOk(t, p) \/ EvalReply(t, p)
    \/ CallResult(t, p) \/ CastResult(t, p) \/ OrphanReturns(t, p)

SupStep == SupStart \/ SupRestart \/ SupGivesUp

Next ==
    \/ \E c \in Clients : start_supervised(c) \/ CallTimeout(c)
    \/ \E c \in Clients, p \in Procs : eval(c, p) \/ call(c, p) \/ cast(c, p)
    \/ SupStep \/ WindowSlides \/ AppRestartsSup
    \/ \E p \in Procs : TakeRequest(p) \/ HostCall(p) \/ Kill(p)
    \/ \E t \in Threads, p \in Procs : \/ Schedule(t, p)
                                       \/ NifReturns(t, p)
                                       \/ Fails(t, p)

Spec == Init /\ [][Next]_vars

\* The BEAM schedules the supervisor and every process that has a message,
\* and a timeout fires; JavaScript terminates; the dirty run queue is
\* served in order, so a job is taken if threads keep becoming free.
Fairness ==
    /\ WF_vars(SupStep)
    /\ \A c \in Clients : WF_vars(CallTimeout(c))
    /\ \A p \in Procs : /\ WF_vars(TakeRequest(p))
                        /\ SF_vars(\E t \in Threads : Schedule(t, p))
                        /\ WF_vars(\E t \in Threads : NifReturns(t, p))

FairSpec == Spec /\ Fairness

-----------------------------------------------------------------------------
(* Properties.                                                             *)

\* No NIF works on a context that was destroyed: neither terminate, which
\* calls destroy_context without the context's mutex, nor the resource
\* destructor frees it while a job of the process is queued, running or
\* blocked on a dirty scheduler.
NoUseAfterFree ==
    \A p \in Procs : nif[p] # "none" => ctx[p] = "live"

\* The context of a process that has ended is freed, by terminate or by the
\* destructor, in every way a process can end, unless its NIF is still on
\* a thread.
NoContextLeak ==
    \A p \in Procs : status[p] = "dead" => ctx[p] = "freed" \/ OnThread(p)

\* A thread is given back by every NIF that returns, whether its process
\* lives, fails or was killed: exactly the running and the blocked NIFs hold
\* a thread, and no two of them the same one.
ThreadsAccounted ==
    /\ \A t \in Threads : thread[t] # Nobody => OnThread(thread[t])
    /\ \A p \in Procs : OnThread(p) => \E t \in Threads : thread[t] = p
    /\ \A t, u \in Threads : thread[t] = thread[u] /\ thread[t] # Nobody => t = u

\* The request with this id waits in p's queue or p is working on it.
InHand(p, id) ==
    \/ \E i \in DOMAIN inbox[p] : inbox[p][i].id = id
    \/ job[p].id = id

\* Nobody waits for nothing: a caller of eval, which has no timeout, waits
\* for a process that exists and still has the request; a caller of
\* start_supervised is in the supervisor's queue or being served.
NoOrphanedCaller ==
    \A c \in Clients :
        /\ client[c].at = "eval" =>
               Alive(client[c].pid) /\ InHand(client[c].pid, client[c].id)
        /\ client[c].at = "start" =>
               \/ c \in sup.serving
               \/ \E i \in DOMAIN supq : c \in supq[i].serving

\* The supervisor waits inside a start exactly as long as the child is in
\* its init, so at most one process of the system is in its init.
OneInitAtATime ==
    \A p \in Procs : status[p] = "init" <=> sup.child = p

\* A caller of eval or call is let go by the answer to its own request, by
\* the end of the process it called, or by its own timeout, while no process
\* does anything.  The late answer to a request its caller has given up on
\* (process.ex:59), which the process still handles, never ends a later wait
\* of that caller or the wait of another one.
OwnAnswerOnly ==
    [][\A c \in Clients, p \in Procs, n \in 1..MaxReqs :
          /\ client[c].pid = p /\ client[c].id = n
          /\ client'[c] # client[c]
          => \/ ~InHand(p, n)'
             \/ client[c].timed /\ UNCHANGED <<status, job, inbox>>]_vars

\* Every dirty scheduler thread is held by a blocked host call.
Exhausted ==
    \A t \in Threads : thread[t] # Nobody /\ nif[thread[t]] = "blocked"

\* A caller of eval gets an answer or an exit, unless the process it called
\* is itself blocked in a host call or no thread is left: that other
\* processes are blocked, die or restart does not keep it waiting.
EvalAnswered ==
    \A c \in Clients :
        client[c].at = "eval"
            ~> \/ client[c].at # "eval"
               \/ nif[client[c].pid] = "blocked"
               \/ Exhausted

\* A start is answered, unless the init the supervisor waits for is blocked
\* in a host call or no thread is left.
StartAnswered ==
    \A c \in Clients :
        client[c].at = "start"
            ~> \/ client[c].at # "start"
               \/ sup.child # Nobody /\ nif[sup.child] = "blocked"
               \/ Exhausted

\* The context of a process that has ended is freed in the end, unless its
\* NIF is blocked in a host call.
ContextFreed ==
    \A p \in Procs : status[p] = "dead" ~> ctx[p] = "freed" \/ nif[p] = "blocked"

\* README.md:17: receive() blocks the process without blocking the VM.
\* Another process's evaluation gets a thread.
VmNotBlocked ==
    \A p \in Procs : nif[p] = "queued" ~> nif[p] # "queued"
=============================================================================
