----------------------------- MODULE HostBridge -----------------------------
(***************************************************************************)
(* The host-call bridge of one BeamjsContext: JavaScript that runs inside  *)
(* BeamjsNif.eval on a dirty scheduler thread calls a host function or     *)
(* imports a module, the C code posts a message to the process that owns   *)
(* the context and blocks on a condition variable, and the owner, a        *)
(* BeamjsCore.Process GenServer, handles the message and hands the answer  *)
(* over with deliver_host_reply.                                           *)
(*                                                                         *)
(* Two BEAM processes matter: Owner, which called new_context (its pid is  *)
(* bctx->owner_pid), and caller, which calls eval on the context.  Every   *)
(* caller in the repository evaluates in a context it created itself, so   *)
(* caller = Owner is the system as it is.  caller # Owner is the situation *)
(* README.md describes under "Host Function Callback Mechanism", where the *)
(* GenServer is free to handle messages while JavaScript is blocked; the   *)
(* exported NIFs allow it, since a context reference can be sent to        *)
(* another process.                                                        *)
(***************************************************************************)
EXTENDS Naturals, Sequences

CONSTANTS
    Owner,     \* the process that created the context
    Callers,   \* the processes one of which evaluates JavaScript in it
    HostFns,   \* the classes of host functions the JavaScript uses
    MaxCalls,  \* bound on host calls and module loads, all evals together
    MaxMsgs    \* bound on the messages other processes send to the owner

(***************************************************************************)
(* The 22 host functions fall into five classes by what their clause of    *)
(* dispatch_host_call does to the exchange:                                *)
(*   receive  answered from the mailbox, or by a later message;            *)
(*   exit     ends the owner instead of answering;                         *)
(*   spawn    waits until another process has finished its init: spawn,    *)
(*            spawn_link, start_gen_server, start_supervisor;              *)
(*   pid      takes a pid made by serialize_pid: send, monitor, link,      *)
(*            call, cast, agent_get, agent_update, agent_stop;             *)
(*   local    answered at once: self, register, whereis, reply, log,       *)
(*            task_async, task_await, agent_start, and unknown names.      *)
(***************************************************************************)
FnClasses == {"receive", "exit", "spawn", "pid", "local"}

ASSUME BridgeAssumption ==
    /\ HostFns \subseteq FnClasses
    /\ MaxCalls \in Nat
    /\ MaxMsgs \in Nat

VARIABLES
    caller,    \* the process that evaluates
    js,        \* "idle", or "run" while an eval NIF is on the caller's stack
    cur,       \* the innermost host call or load in progress, or NoFrame
    outer,     \* loads whose module is being compiled or evaluated
    calls,     \* host calls and loads issued so far
    done,      \* host calls and loads that returned an answer to JavaScript
    received,  \* what receive returned to JavaScript so far, in order
    lock,      \* holder of bctx->mutex: "js" or "free"
    ready,     \* bctx->host_reply_ready
    reply,     \* bctx->host_reply and host_reply_env; NoReply is NULL
    alive,     \* the owner process exists
    opc,       \* control state of the owner, see OwnerStates
    pend,      \* the answer the owner is about to deliver
    inbox,     \* message queue of the owner process
    mailbox,   \* GenServer state: mailbox
    awaiting,  \* GenServer state: awaiting_receive, as the call that waits
    sent,      \* JavaScript messages sent to the owner so far
    ctx        \* bctx->ctx: "live" or "freed"

jsVars    == <<caller, js, cur, outer, calls, done, received>>
replyVars == <<lock, ready, reply>>
ownerVars == <<alive, opc, pend, inbox, mailbox, awaiting, sent, ctx>>
vars      == <<caller, js, cur, outer, calls, done, received, lock, ready, reply,
               alive, opc, pend, inbox, mailbox, awaiting, sent, ctx>>

(***************************************************************************)
(* Values.  A frame is one run of host_call_generic or                     *)
(* beamjs_module_loader: at = "lock" before enif_mutex_lock, "test" with   *)
(* the mutex at the while condition, "sleep" inside enif_cond_wait, "wake" *)
(* signalled and on its way back to the mutex.                             *)
(***************************************************************************)
Frame    == [fn : FnClasses \cup {"load"}, id : Nat,
             at : {"lock", "test", "sleep", "wake"}]
NoFrame  == [fn |-> "none", id |-> 0, at |-> "none"]

\* A message in the owner's queue; n is the call it belongs to, or the
\* number of a JavaScript message in the order of arrival.
Message  == [kind : {"host_call", "load_module", "js_message", "other"},
             fn : FnClasses \cup {"load", "none"}, n : Nat]

\* An answer: the call it is for, and what it holds ("message" n for a
\* receive, "source" for a module found, "error", or a plain "value").
Reply    == [to : Nat, what : {"value", "message", "source", "error"}, n : Nat]
NoReply  == [to |-> 0, what |-> "none", n |-> 0]

\* "loop": waiting in the GenServer loop; "in_nif": inside the eval NIF it
\* called itself; "spawn": a host call waits for another process's init;
\* "deliver": about to run or inside nif_deliver_host_reply.
OwnerStates == {"loop", "in_nif", "spawn", "deliver"}

TypeOK ==
    /\ caller \in Callers
    /\ js \in {"idle", "run"}
    /\ cur \in Frame \cup {NoFrame}
    /\ outer \in Seq(Frame)
    /\ calls \in Nat
    /\ done \in Nat
    /\ received \in Seq(Nat)
    /\ lock \in {"free", "js"}
    /\ ready \in BOOLEAN
    /\ reply \in Reply \cup {NoReply}
    /\ alive \in BOOLEAN
    /\ opc \in OwnerStates
    /\ pend \in Reply \cup {NoReply}
    /\ inbox \in Seq(Message)
    /\ mailbox \in Seq(Nat)
    /\ awaiting \in Nat
    /\ sent \in Nat
    /\ ctx \in {"live", "freed"}

Init ==
    /\ caller \in Callers
    /\ js = "idle" /\ cur = NoFrame /\ outer = <<>>
    /\ calls = 0 /\ done = 0 /\ received = <<>>
    /\ lock = "free" /\ ready = FALSE /\ reply = NoReply
    /\ alive = TRUE /\ opc = "loop" /\ pend = NoReply
    /\ inbox = <<>> /\ mailbox = <<>> /\ awaiting = 0
    /\ sent = 0 /\ ctx = "live"

-----------------------------------------------------------------------------
(* The thread that runs JavaScript.                                        *)

\* Mutant: the eval runs in a task, and the owner returns to its loop.
BeginEvalInTask ==
    /\ js = "idle"
    /\ ctx = "live"
    /\ caller = Owner => alive /\ opc = "loop"
    /\ js' = "run"
    /\ UNCHANGED <<caller, cur, outer, calls, done, received, replyVars, ownerVars>>

\* nif_eval and nif_call_function up to the point where JavaScript runs.
\* When the owner calls it, the owner is inside the NIF from then on; a
\* destroyed context is refused.
BeginEval ==
    /\ js = "idle"
    /\ ctx = "live"
    /\ caller = Owner => alive /\ opc = "loop"
    /\ js' = "run"
    /\ opc' = IF caller = Owner THEN "in_nif" ELSE opc
    /\ UNCHANGED <<caller, cur, outer, calls, done, received, replyVars, alive, pend,
                   inbox, mailbox, awaiting, sent, ctx>>

\* The NIF returns once JavaScript has run to completion.
EndEval ==
    /\ js = "run"
    /\ cur = NoFrame
    /\ outer = <<>>
    /\ js' = "idle"
    /\ opc' = IF caller = Owner /\ alive THEN "loop" ELSE opc
    /\ UNCHANGED <<caller, cur, outer, calls, done, received, replyVars, alive, pend,
                   inbox, mailbox, awaiting, sent, ctx>>

\* JavaScript enters host_call_generic or the module loader, from the
\* evaluated source or from a module that is being loaded: the request is
\* posted with enif_send.  If the owner is gone the call throws.
Enter(fn, kind) ==
    /\ js = "run"
    /\ cur = NoFrame
    /\ calls < MaxCalls
    /\ calls' = calls + 1
    /\ IF alive
       THEN /\ inbox' = Append(inbox, [kind |-> kind, fn |-> fn, n |-> calls + 1])
            /\ cur' = [fn |-> fn, id |-> calls + 1, at |-> "lock"]
       ELSE UNCHANGED <<inbox, cur>>
    /\ UNCHANGED <<caller, js, outer, done, received, replyVars, alive, opc, pend,
                   mailbox, awaiting, sent, ctx>>

host_call_generic(fn) == Enter(fn, "host_call")

beamjs_module_loader == Enter("load", "load_module")

\* enif_mutex_lock, on first entry or on return from enif_cond_wait.  The
\* mutex is not recursive: a call made while the same thread holds it for
\* an enclosing load never gets past this point.
MutexLock ==
    /\ cur.at \in {"lock", "wake"}
    /\ lock = "free"
    /\ lock' = "js"
    /\ cur' = [cur EXCEPT !.at = "test"]
    /\ UNCHANGED <<caller, js, outer, calls, done, received, ready, reply, ownerVars>>

\* while (!host_reply_ready) enif_cond_wait(...)
CondWait ==
    /\ cur.at = "test"
    /\ ~ready
    /\ lock' = "free"
    /\ cur' = [cur EXCEPT !.at = "sleep"]
    /\ UNCHANGED <<caller, js, outer, calls, done, received, ready, reply, ownerVars>>

\* A condition variable may wake its waiter without a signal.
SpuriousWakeup ==
    /\ cur.at = "sleep"
    /\ cur' = [cur EXCEPT !.at = "wake"]
    /\ UNCHANGED <<caller, js, outer, calls, done, received, replyVars, ownerVars>>

\* Mutant: host_reply_ready stays set, the next call reads the old answer.
ClearReplyStale ==
    /\ UNCHANGED <<ready, reply>>
    /\ lock' = "free"

\* host_reply_ready = 0, host_reply_env = NULL, unlock, free the environment.
ClearReply ==
    /\ ready' = FALSE
    /\ reply' = NoReply
    /\ lock' = "free"

\* host_call_generic takes the answer and returns it to JavaScript.
TakeReply ==
    /\ cur.at = "test"
    /\ ready
    /\ cur.fn # "load"
    /\ ClearReply
    /\ cur' = NoFrame
    /\ done' = done + 1
    /\ received' = IF reply.what = "message"
                   THEN Append(received, reply.n) ELSE received
    /\ UNCHANGED <<caller, js, outer, calls, ownerVars>>

\* Mutant: the loader gives the mutex back before it evaluates the module.
LoaderReplyUnlocked ==
    /\ cur.at = "test"
    /\ ready
    /\ cur.fn = "load"
    /\ cur' = NoFrame
    /\ outer' = Append(outer, cur)
    /\ ClearReply
    /\ UNCHANGED <<caller, js, calls, done, received, ownerVars>>

\* The module loader looks at the answer.  A source is compiled, which
\* resolves its imports, and then evaluated, all with the mutex held and
\* host_reply_ready still set; anything else ends the load with an error.
LoaderReply ==
    /\ cur.at = "test"
    /\ ready
    /\ cur.fn = "load"
    /\ cur' = NoFrame
    /\ IF reply.what = "source"
       THEN /\ outer' = Append(outer, cur)
            /\ UNCHANGED <<done, replyVars>>
       ELSE /\ ClearReply
            /\ done' = done + 1
            /\ UNCHANGED outer
    /\ UNCHANGED <<caller, js, calls, received, ownerVars>>

\* The module has been evaluated, or its compilation or evaluation threw.
LoaderDone ==
    /\ outer # <<>>
    /\ cur = NoFrame
    /\ outer' = SubSeq(outer, 1, Len(outer) - 1)
    /\ ClearReply
    /\ done' = done + 1
    /\ UNCHANGED <<caller, js, cur, calls, received, ownerVars>>

-----------------------------------------------------------------------------
(* The owner: BeamjsCore.Process.                                          *)

\* The GenServer loop takes the next message.
Take(kind) ==
    /\ alive
    /\ opc = "loop"
    /\ inbox # <<>>
    /\ Head(inbox).kind = kind
    /\ inbox' = Tail(inbox)

Deliver(r) ==
    /\ pend' = r
    /\ opc' = "deliver"

\* Mutant: awaiting_receive is not reset after the delivery.
handle_js_message_keeps_waiting ==
    /\ Take("js_message")
    /\ IF awaiting # 0
       THEN /\ Deliver([to |-> awaiting, what |-> "message", n |-> Head(inbox).n])
            /\ UNCHANGED mailbox
       ELSE /\ mailbox' = Append(mailbox, Head(inbox).n)
            /\ UNCHANGED <<pend, opc>>
    /\ UNCHANGED <<jsVars, replyVars, alive, awaiting, sent, ctx>>

\* handle_info({:js_message, message}, state)
handle_js_message ==
    /\ Take("js_message")
    /\ IF awaiting # 0
       THEN /\ Deliver([to |-> awaiting, what |-> "message", n |-> Head(inbox).n])
            /\ awaiting' = 0
            /\ UNCHANGED mailbox
       ELSE /\ mailbox' = Append(mailbox, Head(inbox).n)
            /\ UNCHANGED <<awaiting, pend, opc>>
    /\ UNCHANGED <<jsVars, replyVars, alive, sent, ctx>>

\* Mutant: the message is delivered and stays in the mailbox.
handle_receive_keeps_message ==
    /\ Take("host_call")
    /\ Head(inbox).fn = "receive"
    /\ IF mailbox # <<>>
       THEN /\ Deliver([to |-> Head(inbox).n, what |-> "message",
                        n |-> Head(mailbox)])
            /\ UNCHANGED awaiting
       ELSE /\ awaiting' = Head(inbox).n
            /\ UNCHANGED <<pend, opc>>
    /\ UNCHANGED <<jsVars, replyVars, alive, mailbox, sent, ctx>>

\* Mutant: receive waits for the next message without a look at the mailbox.
handle_receive_ignores_mailbox ==
    /\ Take("host_call")
    /\ Head(inbox).fn = "receive"
    /\ awaiting' = Head(inbox).n
    /\ UNCHANGED <<jsVars, replyVars, alive, mailbox, pend, opc, sent, ctx>>

\* handle_info({:host_call, "receive", _args}, state): the timeout argument
\* is not looked at.
handle_receive ==
    /\ Take("host_call")
    /\ Head(inbox).fn = "receive"
    /\ IF mailbox # <<>>
       THEN /\ Deliver([to |-> Head(inbox).n, what |-> "message",
                        n |-> Head(mailbox)])
            /\ mailbox' = Tail(mailbox)
            /\ UNCHANGED awaiting
       ELSE /\ awaiting' = Head(inbox).n
            /\ UNCHANGED <<mailbox, pend, opc>>
    /\ UNCHANGED <<jsVars, replyVars, alive, sent, ctx>>

\* js_value_to_erl replaces a pid object by its data alone, a binary, and
\* deserialize_pid accepts only a map or a pid: the functions that take a
\* pid from JavaScript answer with an error.
dispatch_pid ==
    /\ Head(inbox).fn = "pid"
    /\ Deliver([to |-> Head(inbox).n, what |-> "error", n |-> 0])

dispatch_local ==
    /\ Head(inbox).fn = "local"
    /\ Deliver([to |-> Head(inbox).n, what |-> "value", n |-> 0])

\* start_supervised or Supervisor.start_link: the answer is known when the
\* other process has finished its init.
dispatch_spawn ==
    /\ Head(inbox).fn = "spawn"
    /\ pend' = [to |-> Head(inbox).n, what |-> "value", n |-> 0]
    /\ opc' = "spawn"

\* handle_info({:host_call, fn_name, args}, state)
handle_host_call ==
    /\ Take("host_call")
    /\ dispatch_pid \/ dispatch_local \/ dispatch_spawn
    /\ UNCHANGED <<jsVars, replyVars, alive, mailbox, awaiting, sent, ctx>>

SpawnDone ==
    /\ alive
    /\ opc = "spawn"
    /\ opc' = "deliver"
    /\ UNCHANGED <<jsVars, replyVars, alive, pend, inbox, mailbox, awaiting,
                   sent, ctx>>

\* Mutant: the source is delivered bare, without its {:ok, _} tag.
handle_load_module_untagged ==
    /\ Take("load_module")
    /\ Deliver([to |-> Head(inbox).n, what |-> "binary", n |-> 0])
    /\ UNCHANGED <<jsVars, replyVars, alive, mailbox, awaiting, sent, ctx>>

\* handle_info({:load_module, module_name}, state)
handle_load_module ==
    /\ Take("load_module")
    /\ \E what \in {"source", "error"} :
           Deliver([to |-> Head(inbox).n, what |-> what, n |-> 0])
    /\ UNCHANGED <<jsVars, replyVars, alive, mailbox, awaiting, sent, ctx>>

\* handle_info(_msg, state): monitor and task messages are dropped.
handle_other ==
    /\ Take("other")
    /\ UNCHANGED <<jsVars, replyVars, alive, opc, pend, mailbox, awaiting,
                   sent, ctx>>

\* Mutant: the waiter is not signalled.
nif_deliver_host_reply_silent ==
    /\ alive
    /\ opc = "deliver"
    /\ lock = "free"
    /\ reply' = pend
    /\ ready' = TRUE
    /\ opc' = "loop"
    /\ pend' = NoReply
    /\ UNCHANGED <<jsVars, lock, alive, inbox, mailbox, awaiting, sent, ctx>>

\* nif_deliver_host_reply: lock, copy the answer, set the flag, signal,
\* unlock.  A signal with nobody in enif_cond_wait is lost.
nif_deliver_host_reply ==
    /\ alive
    /\ opc = "deliver"
    /\ lock = "free"
    /\ reply' = pend
    /\ ready' = TRUE
    /\ cur' = IF cur.at = "sleep" THEN [cur EXCEPT !.at = "wake"] ELSE cur
    /\ opc' = "loop"
    /\ pend' = NoReply
    /\ UNCHANGED <<caller, js, outer, calls, done, received, lock, alive, inbox,
                   mailbox, awaiting, sent, ctx>>

\* The owner process ends; its queue and its state go with it.
OwnerGone ==
    /\ alive' = FALSE
    /\ inbox' = <<>>
    /\ mailbox' = <<>>
    /\ awaiting' = 0
    /\ pend' = NoReply
    /\ opc' = "loop"

\* dispatch_host_call("exit", ...): an exit signal to itself, which a
\* GenServer that does not trap exits cannot survive, before any answer;
\* terminate is not called.
dispatch_exit ==
    /\ alive
    /\ opc = "loop"
    /\ inbox # <<>>
    /\ Head(inbox).kind = "host_call"
    /\ Head(inbox).fn = "exit"
    /\ OwnerGone
    /\ UNCHANGED <<jsVars, replyVars, sent, ctx>>

\* Mutant: the error is delivered to the caller before the owner stops.
DispatchCrashReplies ==
    /\ alive
    /\ opc = "loop"
    /\ inbox # <<>>
    /\ Head(inbox).kind = "host_call"
    /\ Head(inbox).fn \in {"spawn", "local"}
    /\ OwnerGone
    /\ ctx' = "freed"
    /\ ready' = TRUE
    /\ reply' = [to |-> Head(inbox).n, what |-> "error", n |-> 0]
    /\ UNCHANGED <<jsVars, lock, sent>>

\* A dispatch clause raises (Jason.encode!, Map.get on a list): the
\* GenServer stops and terminate destroys the context.
DispatchCrash ==
    /\ alive
    /\ opc = "loop"
    /\ inbox # <<>>
    /\ Head(inbox).kind = "host_call"
    /\ Head(inbox).fn \in {"spawn", "local"}
    /\ OwnerGone
    /\ ctx' = "freed"
    /\ UNCHANGED <<jsVars, replyVars, sent>>

\* An exit signal from outside: a kill, a supervisor's shutdown or a linked
\* process.  It also ends a process inside a dirty NIF, whose thread goes
\* on; it cannot interrupt deliver_host_reply, which is not a dirty NIF.
Kill ==
    /\ alive
    /\ opc # "deliver"
    /\ OwnerGone
    /\ UNCHANGED <<jsVars, replyVars, sent, ctx>>

-----------------------------------------------------------------------------
(* Other processes.                                                        *)

\* BeamjsCore.Process.send_message
send_message ==
    /\ alive
    /\ sent < MaxMsgs
    /\ sent' = sent + 1
    /\ inbox' = Append(inbox, [kind |-> "js_message", fn |-> "none", n |-> sent + 1])
    /\ UNCHANGED <<jsVars, replyVars, alive, opc, pend, mailbox, awaiting, ctx>>

\* A monitor's :DOWN or a task's result; at most one is waiting at a time.
OtherMessage ==
    /\ alive
    /\ MaxMsgs > 0
    /\ \A i \in DOMAIN inbox : inbox[i].kind # "other"
    /\ inbox' = Append(inbox, [kind |-> "other", fn |-> "none", n |-> 0])
    /\ UNCHANGED <<jsVars, replyVars, alive, opc, pend, mailbox, awaiting, sent, ctx>>

-----------------------------------------------------------------------------
JsStep ==
    \/ BeginEval \/ EndEval
    \/ \E fn \in HostFns : host_call_generic(fn)
    \/ beamjs_module_loader
    \/ MutexLock \/ CondWait \/ SpuriousWakeup
    \/ TakeReply \/ LoaderReply \/ LoaderDone

OwnerStep ==
    \/ handle_js_message \/ handle_receive \/ handle_host_call
    \/ handle_load_module \/ handle_other
    \/ SpawnDone \/ nif_deliver_host_reply
    \/ dispatch_exit \/ DispatchCrash

Next == JsStep \/ OwnerStep \/ Kill \/ send_message \/ OtherMessage

Spec == Init /\ [][Next]_vars

\* The operating system runs the thread and grants it the mutex, and
\* JavaScript terminates; the BEAM schedules the owner whenever a message
\* is there, and a mutex that keeps becoming free is eventually granted.
\* Nothing is promised about what JavaScript calls, what other processes
\* send, who is killed, or when a spawned process finishes its init.
Fairness ==
    /\ WF_vars(MutexLock) /\ WF_vars(CondWait)
    /\ WF_vars(TakeReply) /\ WF_vars(LoaderReply) /\ WF_vars(LoaderDone)
    /\ WF_vars(handle_js_message) /\ WF_vars(handle_receive)
    /\ WF_vars(handle_host_call) /\ WF_vars(handle_load_module)
    /\ WF_vars(handle_other) /\ WF_vars(dispatch_exit)
    /\ SF_vars(nif_deliver_host_reply)

FairSpec == Spec /\ Fairness
-----------------------------------------------------------------------------
(* Properties.                                                             *)

Requests == {"host_call", "load_module"}

\* The answer host_call_generic or the module loader is about to read is the
\* answer to the request it posted itself.  host_reply is one slot with no
\* request identifier, so this rests on the owner delivering exactly once
\* per request, over receives answered late and loads answered early.
NoStaleReply ==
    cur.at = "test" /\ ready => reply.to = cur.id

\* deliver_host_reply never overwrites host_reply and host_reply_env while
\* an earlier answer has not been read (the first answer would be lost and
\* its environment leaked).
NeverOverwrites ==
    [][reply' # reply /\ reply' # NoReply => ~ready]_vars

\* JavaScript messages reach receive() in the order they were sent, none
\* twice and, while the owner lives, none lost: what receive returned, the
\* answer on its way and the mailbox are the first messages that were sent,
\* in order, and the process queue holds exactly the others, in order.
InFlight ==
    IF pend.what = "message" THEN <<pend.n>>
    ELSE IF ready /\ reply.what = "message" THEN <<reply.n>> ELSE <<>>

Got == received \o InFlight \o mailbox

\* The JavaScript messages in the queue q are the numbers k + 1 to s, in order.
HoldsFrom(q, k, s) ==
    LET numbered == {i \in DOMAIN q : q[i].kind = "js_message"}
    IN  /\ \A i \in numbered : q[i].n \in k + 1..s
        /\ \A i, j \in numbered : i < j => q[i].n < q[j].n
        /\ \A m \in k + 1..s : \E i \in numbered : q[i].n = m

MessagesInOrder ==
    /\ received = [i \in DOMAIN received |-> i]
    /\ alive => /\ Got = [i \in DOMAIN Got |-> i]
                /\ Len(Got) <= sent
                /\ HoldsFrom(inbox, Len(Got), sent)

\* terminate frees the QuickJS context of a crashing owner without asking
\* whether a thread is inside it.  No JavaScript runs in it afterwards: the
\* thread, if there is one, stays in the wait for an answer.
NoRunInFreedContext ==
    ctx = "freed" /\ js = "run" => cur # NoFrame /\ ~(cur.at = "test" /\ ready)

\* A request made while a module is being compiled or evaluated (its imports,
\* or host calls of its top-level code) never gets the context's mutex,
\* which the enclosing load holds; so loads do not nest deeper than one.
NestedRequestBlocked ==
    outer # <<>> => /\ Len(outer) = 1
                    /\ lock = "js"
                    /\ cur # NoFrame => cur.at = "lock"

\* The outermost request JavaScript has open: the load whose module is being
\* compiled or evaluated, or the call in progress.
Outermost == IF outer # <<>> THEN outer[1] ELSE cur

\* With an owner that is free to answer, every host call that is answered at
\* once, and every load, returns to JavaScript, a load only once its module is
\* evaluated, unless the owner dies or the module being loaded makes a request
\* of its own, which never gets the mutex.
Answered ==
    \A n \in 1..MaxCalls :
        caller # Owner /\ Outermost.id = n /\ Outermost.fn \in {"local", "pid", "load"}
            ~> \/ Outermost.id # n
               \/ ~alive
               \/ outer # <<>> /\ cur # NoFrame

\* With an owner that is free to answer, a receive returns when a message has
\* been sent that no earlier receive returned, whether it came before the
\* call, during it or after it.
ReceiveReturns ==
    caller # Owner /\ cur.fn = "receive" /\ outer = <<>> /\ sent > Len(received)
        ~> cur = NoFrame \/ ~alive

\* When the process that evaluates is the process that owns the context, no
\* host call and no load ever returns: the message waits behind the eval
\* that waits for its answer.
SelfCallNeverReturns ==
    caller = Owner => done = 0

\* README.md:404: the NIF wakes up, converts the Erlang reply to a JS value
\* and returns it to JS.
HostCallReturns ==
    cur.fn \in {"local", "pid"} ~> cur = NoFrame \/ ~alive

\* The requests that JavaScript has open, the innermost last: the loads
\* under way, and the call in progress.
OpenIn(loads, call) ==
    LET frames == loads \o (IF call = NoFrame THEN <<>> ELSE <<call>>)
    IN  [i \in DOMAIN frames |-> [fn |-> frames[i].fn, id |-> frames[i].id]]
Opened == OpenIn(outer, cur)

Bridge == INSTANCE BridgeSpec WITH
    Fns <- FnClasses \cup {"load"}, open <- Opened, answers <- done, up <- alive

\* The bridge implements BridgeSpec: with its one unnumbered reply slot
\* (beamjs_nif.h:21), its mutex held during loads, spurious wake-ups, messages
\* before, during and after a receive and an owner that dies anywhere,
\* JavaScript sees each outermost call answered at most once, by an answer
\* meant for it, and receives the messages in the order they were sent.
ImplementsBridge == Bridge!ASpec
=============================================================================
