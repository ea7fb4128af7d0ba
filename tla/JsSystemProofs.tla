--------------------------- MODULE JsSystemProofs ---------------------------
(***************************************************************************)
(* Proofs about JsSystem, for any number of threads, clients, processes,   *)
(* requests and failures.                                                  *)
(***************************************************************************)
EXTENDS JsSystem, TLAPS

(***************************************************************************)
(* The inductive invariant.  NoUseAfterFree is not inductive by itself: it *)
(* needs what the status of a process says about its NIF and its context   *)
(* (Life), that a job of init is exactly what a process in init executes   *)
(* (Callbacks), that pids are fresh (Born), that the supervisor waits for  *)
(* the one process in init, and that each NIF has a thread of its own.     *)
(***************************************************************************)

Life ==
    \A p \in Procs :
        /\ status[p] = "unborn" => nif[p] = "none" /\ ctx[p] = "none"
        /\ Alive(p) => ctx[p] = "live"
        /\ status[p] = "loop" => nif[p] = "none"
        /\ status[p] = "dead" => \/ nif[p] = "none" /\ ctx[p] = "freed"
                                 \/ OnThread(p) /\ ctx[p] = "live"

Callbacks ==
    \A p \in Procs :
        /\ job[p].kind = "init" <=> status[p] = "init"
        /\ job[p].kind = "init" => job[p].todo = <<"eval">>
        /\ status[p] \in {"init", "busy"} => job[p] \in Job

Born == \A p \in Procs : status[p] = "unborn" <=> born < p

SysInv == TypeOK /\ Life /\ Callbacks /\ Born /\ OneInitAtATime /\ ThreadsAccounted

-----------------------------------------------------------------------------
(* Facts the steps share.                                                  *)

\* Nobody is not a pid, and no child is waited for when the supervisor is idle.
LEMMA PidFacts ==
    /\ Nobody \notin Procs
    /\ \A p \in Procs : p \in Nat
    /\ SupIdle.child = Nobody /\ SupDown.child = Nobody
    /\ SupIdle.serving = {} /\ SupDown.serving = {}
    /\ NoJob.kind = "none"
  BY SystemAssumption DEF Nobody, Procs, SupIdle, SupDown, NoJob

\* Releasing clients leaves every client waiting as before or idle.
LEMMA ReleasedType ==
    ASSUME TypeOK, NEW C
    PROVE  Released(C) \in [Clients -> Wait \cup {Idle}]
  BY DEF Released, TypeOK

\* Sending to a queue keeps it a queue.
LEMMA AppendType ==
    ASSUME NEW S, NEW q \in Seq(S), NEW e \in S
    PROVE  Append(q, e) \in Seq(S)
  OBVIOUS

\* So does receiving from one that is not empty.
LEMMA QueueTail ==
    ASSUME NEW S, NEW q \in Seq(S), q # <<>>
    PROVE  Head(q) \in S /\ Tail(q) \in Seq(S)
  OBVIOUS

\* A NIF that returns to a living process returns into its callback.
LEMMA ReturnsFacts ==
    ASSUME SysInv, NEW t \in Threads, NEW p \in Procs, NEW op, Returns(t, p, op)
    PROVE  /\ status[p] \in {"init", "busy"} /\ job[p] \in Job
           /\ nif[p] = "running" /\ ctx[p] = "live"
           /\ thread' \in [Threads -> Procs \cup {Nobody}]
<1>1. status[p] \in {"init", "busy"} /\ nif[p] = "running" /\ ctx[p] = "live"
  BY DEF SysInv, Life, Returns, Alive, TypeOK
<1>2. thread' \in [Threads -> Procs \cup {Nobody}]
  BY DEF SysInv, TypeOK, Returns
<1> QED BY <1>1, <1>2 DEF SysInv, Callbacks

\* A thread whose NIF is over is free, and the others are as before.
LEMMA ThreadFreed ==
    ASSUME TypeOK, ThreadsAccounted, NEW t \in Threads, NEW p \in Procs,
           thread[t] = p, thread' = [thread EXCEPT ![t] = Nobody],
           nif' \in [Procs -> {"none", "queued", "running", "blocked"}],
           nif'[p] \in {"none", "queued"},
           \A q \in Procs : q # p => nif'[q] = nif[q]
    PROVE  ThreadsAccounted'
<1> USE PidFacts DEF TypeOK, ThreadsAccounted, OnThread
<1>1. \A u \in Threads : thread'[u] = IF u = t THEN Nobody ELSE thread[u]
  OBVIOUS
<1>2. \A u \in Threads : u # t => thread[u] # p
  OBVIOUS
<1>3. ASSUME NEW u \in Threads, thread'[u] # Nobody PROVE nif'[thread'[u]] \in {"running", "blocked"}
  BY <1>1, <1>2, <1>3
<1>4. ASSUME NEW q \in Procs, OnThread(q)' PROVE \E u \in Threads : thread'[u] = q
  <2>1. q # p /\ OnThread(q)
    BY <1>4
  <2>2. PICK u \in Threads : thread[u] = q
    BY <2>1
  <2> QED BY <1>1, <2>1, <2>2
<1>5. ASSUME NEW u \in Threads, NEW v \in Threads, thread'[u] = thread'[v], thread'[u] # Nobody
      PROVE  u = v
  BY <1>1, <1>5
<1> QED BY <1>3, <1>4, <1>5

\* A step that puts no NIF on a thread and takes none off keeps the account.
LEMMA ThreadsUntouched ==
    ASSUME TypeOK, ThreadsAccounted, thread' = thread,
           \A q \in Procs : OnThread(q)' <=> OnThread(q)
    PROVE  ThreadsAccounted'
  BY PidFacts DEF TypeOK, ThreadsAccounted

-----------------------------------------------------------------------------
(* Steps that leave the processes alone: clients and the passing of time.  *)

\* What is said of processes and threads stays true when they are left alone.
LEMMA ProcessesUntouched ==
    ASSUME SysInv, UNCHANGED <<status, job, nif, thread, ctx, born>>, sup'.child = sup.child
    PROVE  Life' /\ Callbacks' /\ Born' /\ OneInitAtATime' /\ ThreadsAccounted'
  BY DEF SysInv, Life, Callbacks, Born, OneInitAtATime, ThreadsAccounted, Alive, OnThread

\* Every operation of a client, and the passing of time, preserves SysInv.
LEMMA ClientSteps ==
    ASSUME SysInv,
           \/ \E c \in Clients : start_supervised(c) \/ CallTimeout(c)
           \/ \E c \in Clients, p \in Procs : eval(c, p) \/ call(c, p) \/ cast(c, p)
           \/ WindowSlides \/ AppRestartsSup
    PROVE  SysInv'
<1> USE PidFacts DEF SysInv, TypeOK
<1>1. ASSUME NEW c \in Clients, start_supervised(c) PROVE SysInv'
  <2>1. reqs' \in Nat /\ [at |-> "start", pid |-> Nobody, id |-> reqs + 1, timed |-> FALSE] \in Wait
    BY <1>1 DEF start_supervised, Wait
  <2>2. [kind |-> "start", serving |-> {c}] \in SupMsg
    BY DEF SupMsg
  <2>3. supq' \in Seq(SupMsg) /\ client' \in [Clients -> Wait \cup {Idle}]
    BY <1>1, <2>1, <2>2, AppendType DEF start_supervised
  <2>4. TypeOK'
    BY <1>1, <2>1, <2>3 DEF start_supervised
  <2> QED BY <1>1, <2>4, ProcessesUntouched DEF start_supervised
<1>2. ASSUME NEW c \in Clients, CallTimeout(c) PROVE SysInv'
  <2>1. TypeOK'
    BY <1>2 DEF CallTimeout
  <2> QED BY <1>2, <2>1, ProcessesUntouched DEF CallTimeout
<1>3. ASSUME NEW c \in Clients, NEW p \in Procs, NEW kind \in {"eval", "js_call", "js_cast"},
             Post(c, p, kind), client' \in [Clients -> Wait \cup {Idle}]
      PROVE  SysInv'
  <2>1. reqs' \in Nat /\ [kind |-> kind, id |-> reqs + 1] \in Request
    BY <1>3 DEF Post, Request
  <2>2. inbox' \in [Procs -> Seq(Request)]
    <3>1. Append(inbox[p], [kind |-> kind, id |-> reqs + 1]) \in Seq(Request)
      BY <2>1, AppendType
    <3> QED BY <1>3, <3>1 DEF Post
  <2>3. TypeOK'
    BY <1>3, <2>1, <2>2 DEF Post
  <2> QED BY <1>3, <2>3, ProcessesUntouched DEF Post
<1>4. ASSUME NEW c \in Clients, NEW p \in Procs, NEW kind \in {"eval", "js_call"},
             NEW timed \in BOOLEAN, AwaitReply(c, p, kind, timed)
      PROVE  client' \in [Clients -> Wait \cup {Idle}]
  <2>1. [at |-> kind, pid |-> p, id |-> reqs + 1, timed |-> timed] \in Wait
    BY <1>4 DEF Wait
  <2> QED BY <1>4, <2>1 DEF AwaitReply
<1>5. ASSUME NEW c \in Clients, NEW p \in Procs, eval(c, p) \/ call(c, p) \/ cast(c, p)
      PROVE  SysInv'
  <2>1. CASE eval(c, p)
    BY <1>3, <1>4, <2>1 DEF eval
  <2>2. CASE call(c, p)
    BY <1>3, <1>4, <2>2 DEF call
  <2>3. CASE cast(c, p)
    BY <1>3, <2>3 DEF cast
  <2> QED BY <1>5, <2>1, <2>2, <2>3
<1>6. CASE WindowSlides
  <2>1. restarts' \in Nat
    BY <1>6 DEF WindowSlides
  <2>2. TypeOK'
    BY <1>6, <2>1 DEF WindowSlides
  <2> QED BY <1>6, <2>2, ProcessesUntouched DEF WindowSlides
<1>7. CASE AppRestartsSup
  <2>1. TypeOK'
    BY <1>7 DEF AppRestartsSup
  <2> QED BY <1>7, <2>1, ProcessesUntouched DEF AppRestartsSup
<1> QED BY <1>1, <1>2, <1>5, <1>6, <1>7

-----------------------------------------------------------------------------
(* The supervisor.                                                         *)

\* A start, a restart and the end of the supervisor preserve SysInv.
LEMMA SupSteps ==
    ASSUME SysInv, SupStep
    PROVE  SysInv'
<1> USE PidFacts DEF SysInv
<1>1. ASSUME NEW serving \in SUBSET Clients, StartChild(serving), sup = SupIdle,
             supq # <<>>, restarts' \in Nat
      PROVE  SysInv'
  <2> DEFINE p == born + 1
             j == [kind |-> "init", id |-> 0, todo |-> <<"eval">>, out |-> "none"]
  <2>1. p \in Procs /\ status[p] = "unborn" /\ born' = p /\ born' \in Nat
    BY <1>1, SystemAssumption DEF StartChild, Procs, TypeOK, Born
  <2>2. ctx' = [ctx EXCEPT ![p] = "live"] /\ supq' = Tail(supq) /\ supq' \in Seq(SupMsg)
    BY <1>1, QueueTail DEF StartChild, TypeOK
  <2>3. j \in Job /\ j.kind = "init" /\ j.todo = <<"eval">>
    BY DEF Job
  <2>4. nif[p] = "none" /\ job[p].kind # "init"
    BY <2>1 DEF Life, Callbacks
  <2>5. \A q \in Procs : status[q] # "init"
    BY <1>1 DEF OneInitAtATime
  <2>6. \A q \in Procs : born < q <=> born' < q \/ q = p
    BY <2>1 DEF TypeOK
  <2>7. ~(born' < p)
    BY <2>1 DEF TypeOK
  <2>8. UNCHANGED <<thread, inbox, reqs, faults>>
    BY <1>1 DEF StartChild
  <2> HIDE DEF p, j
  <2>9. CASE /\ status' = [status EXCEPT ![p] = "init"]
             /\ job' = [job EXCEPT ![p] = j]
             /\ nif' = [nif EXCEPT ![p] = "queued"]
             /\ AwaitInit(p, serving)
    <3>1. sup' \in SupWait /\ sup'.child = p /\ client' = client
      BY <2>1, <2>9 DEF AwaitInit, SupWait
    <3>2. TypeOK'
      BY <1>1, <2>1, <2>2, <2>3, <2>8, <2>9, <3>1 DEF TypeOK, Statuses
    <3>3. Life' /\ Born'
      BY <2>1, <2>2, <2>6, <2>7, <2>9 DEF Life, Born, TypeOK, Alive, OnThread
    <3>4. Callbacks'
      BY <2>1, <2>3, <2>9 DEF Callbacks, TypeOK
    <3>5. OneInitAtATime'
      BY <2>1, <2>5, <2>9, <3>1 DEF OneInitAtATime, TypeOK
    <3>6. ThreadsAccounted'
      BY <2>4, <2>8, <2>9, ThreadsUntouched DEF OnThread, TypeOK
    <3> QED BY <3>2, <3>3, <3>4, <3>5, <3>6
  <2>10. CASE /\ status' = [status EXCEPT ![p] = "loop"]
              /\ client' = Released(serving)
              /\ UNCHANGED <<job, nif, sup>>
    <3>1. TypeOK'
      BY <1>1, <2>1, <2>2, <2>8, <2>10, ReleasedType DEF TypeOK, Statuses
    <3>2. Life' /\ Born'
      BY <2>1, <2>2, <2>4, <2>6, <2>7, <2>10 DEF Life, Born, TypeOK, Alive, OnThread
    <3>3. Callbacks' /\ OneInitAtATime'
      BY <2>1, <2>4, <2>5, <2>10 DEF Callbacks, OneInitAtATime, TypeOK
    <3>4. ThreadsAccounted'
      BY <2>8, <2>10, ThreadsUntouched DEF OnThread
    <3> QED BY <3>1, <3>2, <3>3, <3>4
  <2> QED BY <1>1, <2>9, <2>10 DEF StartChild, p, j
<1>2. ASSUME NEW kind, SupHandles(kind)
      PROVE  sup = SupIdle /\ supq # <<>> /\ Head(supq).serving \in SUBSET Clients
  <2>1. sup = SupIdle /\ supq # <<>>
    BY <1>2 DEF SupHandles
  <2>2. Head(supq) \in SupMsg
    BY <2>1, QueueTail DEF TypeOK
  <2> QED BY <2>1, <2>2 DEF SupMsg
<1>3. CASE SupStart
  BY <1>1, <1>2, <1>3 DEF SupStart, TypeOK
<1>4. CASE SupRestart
  <2>1. restarts' \in Nat
    BY <1>4 DEF SupRestart, TypeOK
  <2> QED BY <1>1, <1>2, <1>4, <2>1 DEF SupRestart
<1>5. CASE SupGivesUp
  <2>1. \A p \in Procs : p \in CancelledWith({q \in Procs : Alive(q)}, nif)
                         <=> Alive(p) /\ nif[p] = "queued"
    BY DEF CancelledWith
  <2>2. \A p \in Procs : p \in FreedWith({q \in Procs : Alive(q)}, nif)
                         <=> Alive(p) /\ nif[p] \in {"none", "queued"}
    BY DEF FreedWith
  <2>3. TypeOK'
    BY <1>5 DEF SupGivesUp, Gone, TypeOK, Statuses
  <2>4. Life' /\ Born'
    BY <1>5, <2>1, <2>2 DEF SupGivesUp, Gone, Life, Born, TypeOK, Alive, OnThread, Statuses
  <2>5. Callbacks' /\ OneInitAtATime'
    BY <1>5 DEF SupGivesUp, Gone, Callbacks, OneInitAtATime, TypeOK, Alive, SupHandles
  <2>6. ThreadsAccounted'
    BY <1>5, <2>1, ThreadsUntouched DEF SupGivesUp, Gone, OnThread
  <2> QED BY <2>3, <2>4, <2>5, <2>6
<1> QED BY <1>3, <1>4, <1>5 DEF SupStep

-----------------------------------------------------------------------------
(* Processes and threads.                                                  *)

\* A process takes a request, or its JavaScript makes a host call.
LEMMA ProcessSteps ==
    ASSUME SysInv, NEW p \in Procs, TakeRequest(p) \/ HostCall(p)
    PROVE  SysInv'
<1> USE PidFacts DEF SysInv
<1>1. CASE TakeRequest(p)
  <2> DEFINE r == Head(inbox[p])
             j == [kind |-> r.kind, id |-> r.id, todo |-> Script(r.kind), out |-> "none"]
  <2>1. r \in Request /\ Tail(inbox[p]) \in Seq(Request)
    BY <1>1, QueueTail DEF TakeRequest, TypeOK
  <2>2. r.kind \in {"eval", "js_call", "js_cast"} /\ r.id \in Nat
    BY <2>1 DEF Request
  <2>3. \A k \in {"eval", "js_call", "js_cast"} : Script(k) \in Seq({"set", "eval"})
    <3>1. /\ <<"eval">> \in Seq({"set", "eval"})
          /\ <<"set", "eval">> \in Seq({"set", "eval"})
          /\ <<"set", "set", "eval">> \in Seq({"set", "eval"})
      OBVIOUS
    <3>2. /\ Script("eval") = <<"eval">>
          /\ Script("js_call") = <<"set", "set", "eval">>
          /\ Script("js_cast") = <<"set", "eval">>
      BY DEF Script
    <3> QED BY <3>1, <3>2
  <2>4. j \in Job /\ j.kind # "init"
    BY <2>2, <2>3 DEF Job
  <2>5. /\ status[p] = "loop" /\ nif[p] = "none" /\ ctx[p] = "live"
        /\ status' = [status EXCEPT ![p] = "busy"]
        /\ job' = [job EXCEPT ![p] = j]
        /\ nif' = [nif EXCEPT ![p] = "queued"]
        /\ inbox' = [inbox EXCEPT ![p] = Tail(@)]
        /\ UNCHANGED <<thread, ctx, client, sup, supq, restarts, born, reqs, faults>>
    BY <1>1 DEF TakeRequest, Life, Alive
  <2> HIDE DEF r, j
  <2>6. TypeOK'
    BY <2>1, <2>4, <2>5 DEF TypeOK, Statuses
  <2>7. Life' /\ Born'
    BY <2>5 DEF TypeOK, Life, Born, Alive, OnThread
  <2>8. Callbacks' /\ OneInitAtATime'
    BY <2>4, <2>5 DEF TypeOK, Callbacks, OneInitAtATime
  <2>9. ThreadsAccounted'
    BY <2>5, ThreadsUntouched DEF TypeOK, OnThread
  <2> QED BY <2>6, <2>7, <2>8, <2>9
<1>2. CASE HostCall(p)
  <2>1. /\ nif[p] = "running" /\ Alive(p) /\ nif' = [nif EXCEPT ![p] = "blocked"]
        /\ UNCHANGED <<status, job, thread, ctx, inbox, client, sup, supq, restarts,
                       born, reqs, faults>>
    BY <1>2 DEF HostCall
  <2>2. TypeOK'
    BY <2>1 DEF TypeOK
  <2>3. Life' /\ Born'
    BY <2>1 DEF TypeOK, Life, Born, Alive, OnThread
  <2>4. Callbacks' /\ OneInitAtATime'
    BY <2>1 DEF Callbacks, OneInitAtATime
  <2>5. ThreadsAccounted'
    BY <2>1, ThreadsUntouched DEF TypeOK, OnThread
  <2> QED BY <2>2, <2>3, <2>4, <2>5
<1> QED BY <1>1, <1>2

\* A free thread takes a NIF call that is on no other thread.
LEMMA ScheduleStep ==
    ASSUME SysInv, NEW t \in Threads, NEW p \in Procs, Schedule(t, p)
    PROVE  SysInv'
<1> USE PidFacts DEF SysInv
<1>1. /\ thread[t] = Nobody /\ nif[p] = "queued"
      /\ thread' = [thread EXCEPT ![t] = p] /\ nif' = [nif EXCEPT ![p] = "running"]
      /\ UNCHANGED <<status, job, ctx, inbox, client, sup, supq, restarts, born, reqs, faults>>
  BY DEF Schedule
<1>2. TypeOK'
  BY <1>1 DEF TypeOK
<1>3. Life' /\ Born'
  BY <1>1 DEF TypeOK, Life, Born, Alive, OnThread
<1>4. Callbacks' /\ OneInitAtATime'
  BY <1>1 DEF Callbacks, OneInitAtATime
<1>5. ThreadsAccounted'
  <2>0. \A u, v \in Threads : thread[u] = thread[v] /\ thread[u] # Nobody => u = v
    BY DEF ThreadsAccounted
  <2> USE DEF TypeOK, ThreadsAccounted, OnThread
  <2>1. \A u \in Threads : thread'[u] = IF u = t THEN p ELSE thread[u]
    BY <1>1
  <2>2. \A q \in Procs : nif'[q] = IF q = p THEN "running" ELSE nif[q]
    BY <1>1
  <2>3. \A u \in Threads : thread[u] # p
    BY <1>1
  <2>4. ASSUME NEW u \in Threads, thread'[u] # Nobody
        PROVE  nif'[thread'[u]] \in {"running", "blocked"}
    <3>1. CASE u = t
      BY <2>1, <2>2, <3>1
    <3>2. CASE u # t
      <4>1. thread'[u] = thread[u] /\ thread[u] \in Procs /\ thread[u] # p
        BY <2>1, <2>3, <2>4, <3>2
      <4> QED BY <2>2, <4>1
    <3> QED BY <3>1, <3>2
  <2>5. ASSUME NEW q \in Procs, OnThread(q)' PROVE \E u \in Threads : thread'[u] = q
    <3>1. CASE q = p
      BY <2>1, <3>1
    <3>2. CASE q # p
      <4>1. PICK u \in Threads : thread[u] = q
        BY <2>2, <2>5, <3>2
      <4>2. u # t
        BY <1>1, <4>1
      <4> QED BY <2>1, <4>1, <4>2
    <3> QED BY <3>1, <3>2
  <2>6. ASSUME NEW u \in Threads, NEW v \in Threads, thread'[u] = thread'[v], thread'[u] # Nobody
        PROVE  u = v
    <3>1. CASE u = t \/ v = t
      BY <2>1, <2>3, <2>6, <3>1
    <3>2. CASE u # t /\ v # t
      <4>1. thread'[u] = thread[u] /\ thread'[v] = thread[v]
        BY <2>1, <3>2
      <4>2. thread[u] = thread[v] /\ thread[u] # Nobody
        BY <2>6, <4>1
      <4> HIDE DEF TypeOK, ThreadsAccounted, OnThread
      <4> QED BY <2>0, <4>2
    <3> QED BY <3>1, <3>2
  <2> QED BY <2>4, <2>5, <2>6
<1> QED BY <1>2, <1>3, <1>4, <1>5

\* A NIF that returns to a process that goes on: to its next NIF call, or
\* back to the GenServer loop.
LEMMA ReturnSteps ==
    ASSUME SysInv, NEW t \in Threads, NEW p \in Procs,
           \/ SetReturns(t, p) \/ InitOk(t, p) \/ EvalReply(t, p)
           \/ CallResult(t, p) \/ CastResult(t, p)
    PROVE  SysInv'
<1> USE PidFacts DEF SysInv
<1>1. ASSUME NEW op, Returns(t, p, op), NEW todo \in Seq({"set", "eval"}),
             NEW out \in {"none", "reply", "noreply"}, GoOn(p, todo, out),
             job[p].kind # "init", client' \in [Clients -> Wait \cup {Idle}],
             UNCHANGED <<ctx, inbox, sup, supq, restarts, born, reqs, faults>>
      PROVE  SysInv'
  <2>1. /\ status[p] \in {"init", "busy"} /\ job[p] \in Job /\ ctx[p] = "live"
        /\ thread' \in [Threads -> Procs \cup {Nobody}]
    BY <1>1, ReturnsFacts
  <2>2. /\ thread[t] = p /\ thread' = [thread EXCEPT ![t] = Nobody]
        /\ nif' = [nif EXCEPT ![p] = "queued"] /\ status' = status
        /\ job' = [job EXCEPT ![p] = [job[p] EXCEPT !.todo = todo, !.out = out]]
    BY <1>1 DEF Returns, GoOn, TypeOK
  <2>3. /\ [job[p] EXCEPT !.todo = todo, !.out = out] \in Job
        /\ [job[p] EXCEPT !.todo = todo, !.out = out].kind # "init"
    BY <1>1, <2>1 DEF Job
  <2>4. TypeOK'
    BY <1>1, <2>1, <2>2, <2>3 DEF TypeOK
  <2>5. Life' /\ Born'
    BY <1>1, <2>1, <2>2 DEF TypeOK, Life, Born, Alive, OnThread
  <2>6. Callbacks' /\ OneInitAtATime'
    BY <1>1, <2>2, <2>3 DEF TypeOK, Callbacks, OneInitAtATime
  <2>7. ThreadsAccounted'
    BY <2>2, <2>4, ThreadFreed DEF TypeOK
  <2> QED BY <2>4, <2>5, <2>6, <2>7
<1>2. ASSUME NEW op, Returns(t, p, op), BackToLoop(p),
             client' \in [Clients -> Wait \cup {Idle}],
             IF job[p].kind = "init" THEN sup' = SupIdle ELSE sup' = sup,
             UNCHANGED <<ctx, inbox, supq, restarts, born, reqs, faults>>
      PROVE  SysInv'
  <2>1. /\ status[p] \in {"init", "busy"} /\ job[p] \in Job /\ ctx[p] = "live"
        /\ thread' \in [Threads -> Procs \cup {Nobody}]
    BY <1>2, ReturnsFacts
  <2>2. /\ thread[t] = p /\ thread' = [thread EXCEPT ![t] = Nobody]
        /\ nif' = [nif EXCEPT ![p] = "none"] /\ status' = [status EXCEPT ![p] = "loop"]
        /\ job' = [job EXCEPT ![p] = NoJob]
    BY <1>2 DEF Returns, BackToLoop
  <2>3. TypeOK'
    BY <1>2, <2>1, <2>2 DEF TypeOK, Statuses
  <2>4. Life' /\ Born'
    BY <1>2, <2>1, <2>2 DEF TypeOK, Life, Born, Alive, OnThread
  <2>5. Callbacks'
    BY <2>2 DEF TypeOK, Callbacks
  <2>6. OneInitAtATime'
    BY <1>2, <2>1, <2>2 DEF TypeOK, Callbacks, OneInitAtATime
  <2>7. ThreadsAccounted'
    BY <2>2, <2>3, ThreadFreed DEF TypeOK
  <2> QED BY <2>3, <2>4, <2>5, <2>6, <2>7
<1>3. <<"set">> \in Seq({"set", "eval"})
  OBVIOUS
<1>4. Reply(p) => client' \in [Clients -> Wait \cup {Idle}]
  BY ReleasedType DEF Reply
<1>5. UNCHANGED client => client' \in [Clients -> Wait \cup {Idle}]
  BY DEF TypeOK
<1>6. CASE SetReturns(t, p)
  <2>1. Returns(t, p, "set") /\ job[p] \in Job
    BY <1>6, ReturnsFacts DEF SetReturns
  <2>2. job[p].kind # "init"
    BY <2>1 DEF Callbacks, Returns
  <2>3. job[p].out \in {"none", "reply", "noreply"} /\ job[p].todo \in Seq({"set", "eval"})
    BY <2>1 DEF Job
  <2>4. CASE Len(job[p].todo) > 1
    <3>1. Tail(job[p].todo) \in Seq({"set", "eval"})
      <4>1. \A q \in Seq({"set", "eval"}) : Len(q) > 1 => Tail(q) \in Seq({"set", "eval"})
        OBVIOUS
      <4> QED BY <2>3, <2>4, <4>1
    <3>2. GoOn(p, Tail(job[p].todo), job[p].out) /\ UNCHANGED client
      <4>1. \A n \in Nat : n > 1 => n # 1
        OBVIOUS
      <4>2. Len(job[p].todo) \in Nat
        BY <2>3
      <4>3. Len(job[p].todo) # 1
        BY <2>4, <4>1, <4>2
      <4> QED BY <1>6, <4>3 DEF SetReturns
    <3> QED BY <1>1, <1>5, <1>6, <2>1, <2>2, <2>3, <3>1, <3>2 DEF SetReturns
  <2>5. CASE Len(job[p].todo) = 1
    <3>1. BackToLoop(p) /\ (Reply(p) \/ UNCHANGED client)
      BY <1>6, <2>5 DEF SetReturns
    <3> QED BY <1>2, <1>4, <1>5, <1>6, <2>1, <2>2, <3>1 DEF SetReturns
  <2> QED BY <1>6, <2>4, <2>5 DEF SetReturns
<1>7. CASE InitOk(t, p)
  BY <1>2, <1>7, ReleasedType DEF InitOk
<1>8. CASE EvalReply(t, p)
  BY <1>2, <1>4, <1>8 DEF EvalReply
<1>9. CASE CallResult(t, p)
  <2>1. CASE \E out \in {"reply", "noreply"} : GoOn(p, <<"set">>, out) /\ UNCHANGED client
    BY <1>1, <1>3, <1>5, <1>9, <2>1 DEF CallResult
  <2>2. CASE BackToLoop(p) /\ Reply(p)
    BY <1>2, <1>4, <1>9, <2>2 DEF CallResult
  <2> QED BY <1>9, <2>1, <2>2 DEF CallResult
<1>10. CASE CastResult(t, p)
  <2>1. CASE GoOn(p, <<"set">>, "noreply")
    BY <1>1, <1>3, <1>5, <1>10, <2>1 DEF CastResult
  <2>2. CASE BackToLoop(p)
    BY <1>2, <1>5, <1>10, <2>2 DEF CastResult
  <2> QED BY <1>10, <2>1, <2>2 DEF CastResult
<1> QED BY <1>6, <1>7, <1>8, <1>9, <1>10

\* A process ends: it fails, it is killed, or the NIF of one that was killed
\* returns.
LEMMA EndSteps ==
    ASSUME SysInv, NEW p \in Procs,
           \/ Kill(p)
           \/ \E t \in Threads : Fails(t, p) \/ OrphanReturns(t, p)
    PROVE  SysInv'
<1> USE PidFacts DEF SysInv
<1>1. ASSUME Notify(p)
      PROVE  /\ client' \in [Clients -> Wait \cup {Idle}]
             /\ sup' \in SupWait \cup {SupIdle, SupDown}
             /\ supq' \in Seq(SupMsg)
             /\ restarts' \in Nat /\ born' = born /\ reqs' \in Nat /\ faults' \in Nat
             /\ sup'.child = IF sup.child = p THEN Nobody ELSE sup.child
  <2>1. [kind |-> "exit", serving |-> {}] \in SupMsg
    BY DEF SupMsg
  <2>2. supq' \in Seq(SupMsg)
    <3>1. Append(supq, [kind |-> "exit", serving |-> {}]) \in Seq(SupMsg)
      BY <2>1, AppendType DEF TypeOK
    <3> QED BY <1>1, <3>1 DEF Notify, TypeOK
  <2>3. faults' \in Nat
    BY <1>1 DEF Notify, TypeOK
  <2>4. client' \in [Clients -> Wait \cup {Idle}]
    BY <1>1, ReleasedType DEF Notify
  <2> QED BY <1>1, <2>2, <2>3, <2>4 DEF Notify, TypeOK
<1>2. ASSUME NEW n \in [Procs -> {"none", "queued", "running", "blocked"}],
             \A q \in Procs : q # p => n[q] = nif[q],
             Gone({p}, n), Notify(p), Alive(p), thread' \in [Threads -> Procs \cup {Nobody}]
      PROVE  /\ TypeOK' /\ Life' /\ Callbacks' /\ Born' /\ OneInitAtATime'
             /\ nif'[p] = IF n[p] = "queued" THEN "none" ELSE n[p]
             /\ \A q \in Procs : q # p => nif'[q] = nif[q]
  <2>1. \A q \in Procs :
          /\ status'[q] = IF q = p THEN "dead" ELSE status[q]
          /\ job'[q] = IF q = p THEN NoJob ELSE job[q]
          /\ nif'[q] = IF q = p THEN (IF n[p] = "queued" THEN "none" ELSE n[p]) ELSE nif[q]
          /\ ctx'[q] = IF q = p /\ n[p] \in {"none", "queued"} THEN "freed" ELSE ctx[q]
    BY <1>2 DEF Gone, CancelledWith, FreedWith
  <2>2. TypeOK'
    BY <1>1, <1>2 DEF Gone, TypeOK, Statuses
  <2>3. ctx[p] = "live" /\ status[p] # "unborn" /\ ~(born < p)
    BY <1>2 DEF Life, Born, Alive
  <2>4. Life'
    BY <1>2, <2>1, <2>3 DEF Life, Alive, OnThread, TypeOK
  <2>5. Born'
    BY <1>1, <1>2, <2>1, <2>3 DEF Born
  <2>6. Callbacks'
    BY <2>1 DEF Callbacks
  <2>7. OneInitAtATime'
    BY <1>1, <1>2, <2>1 DEF OneInitAtATime
  <2> QED BY <2>1, <2>2, <2>4, <2>5, <2>6, <2>7
<1>3. CASE Kill(p)
  <2>1. /\ Alive(p) /\ Gone({p}, nif) /\ Notify(p) /\ thread' = thread
        /\ nif \in [Procs -> {"none", "queued", "running", "blocked"}]
        /\ thread' \in [Threads -> Procs \cup {Nobody}]
    BY <1>3 DEF Kill, TypeOK
  <2>2. /\ TypeOK' /\ Life' /\ Callbacks' /\ Born' /\ OneInitAtATime'
        /\ nif'[p] = IF nif[p] = "queued" THEN "none" ELSE nif[p]
        /\ \A q \in Procs : q # p => nif'[q] = nif[q]
    BY <1>2, <2>1
  <2>3. \A q \in Procs : OnThread(q)' <=> OnThread(q)
    BY <2>2 DEF OnThread
  <2> QED BY <2>1, <2>2, <2>3, ThreadsUntouched
<1>4. ASSUME NEW t \in Threads, Fails(t, p) PROVE SysInv'
  <2> DEFINE n == [nif EXCEPT ![p] = "none"]
  <2>1. /\ Alive(p) /\ thread[t] = p /\ thread' = [thread EXCEPT ![t] = Nobody]
        /\ Gone({p}, n) /\ Notify(p)
    BY <1>4 DEF Fails, Returns
  <2>2. /\ n \in [Procs -> {"none", "queued", "running", "blocked"}] /\ n[p] = "none"
        /\ \A q \in Procs : q # p => n[q] = nif[q]
        /\ thread' \in [Threads -> Procs \cup {Nobody}]
    BY <2>1 DEF TypeOK
  <2> HIDE DEF n
  <2>3. /\ TypeOK' /\ Life' /\ Callbacks' /\ Born' /\ OneInitAtATime'
        /\ nif'[p] = "none"
        /\ \A q \in Procs : q # p => nif'[q] = nif[q]
    BY <1>2, <2>1, <2>2
  <2>4. nif' \in [Procs -> {"none", "queued", "running", "blocked"}]
    BY <2>3 DEF TypeOK
  <2> QED BY <2>1, <2>3, <2>4, ThreadFreed
<1>5. ASSUME NEW t \in Threads, OrphanReturns(t, p) PROVE SysInv'
  <2>1. /\ thread[t] = p /\ nif[p] = "running" /\ ~Alive(p)
        /\ thread' = [thread EXCEPT ![t] = Nobody]
        /\ nif' = [nif EXCEPT ![p] = "none"] /\ ctx' = [ctx EXCEPT ![p] = "freed"]
        /\ UNCHANGED <<status, job, inbox, client, sup, supq, restarts, born, reqs, faults>>
    BY <1>5 DEF OrphanReturns
  <2>2. status[p] = "dead"
    BY <2>1 DEF Life, Alive, TypeOK, Statuses
  <2>3. TypeOK'
    BY <2>1 DEF TypeOK
  <2>4. Life' /\ Born'
    BY <2>1, <2>2 DEF TypeOK, Life, Born, Alive, OnThread
  <2>5. Callbacks' /\ OneInitAtATime'
    BY <2>1 DEF Callbacks, OneInitAtATime
  <2>6. nif' \in [Procs -> {"none", "queued", "running", "blocked"}] /\ nif'[p] = "none"
        /\ \A q \in Procs : q # p => nif'[q] = nif[q]
    BY <2>1 DEF TypeOK
  <2>7. ThreadsAccounted'
    BY <2>1, <2>6, ThreadFreed
  <2> QED BY <2>3, <2>4, <2>5, <2>7
<1> QED BY <1>3, <1>4, <1>5

-----------------------------------------------------------------------------
(* The theorems.                                                           *)

\* The first state satisfies the invariant: no process has been started.
LEMMA SysInit ==
    ASSUME Init
    PROVE  SysInv
<1> USE PidFacts DEF Init
<1>1. TypeOK
  BY SystemAssumption DEF TypeOK, Statuses
<1>2. Life /\ Callbacks
  BY DEF Life, Callbacks, Alive
<1>3. Born
  BY SystemAssumption DEF Born, Procs
<1>4. OneInitAtATime /\ ThreadsAccounted
  BY DEF OneInitAtATime, ThreadsAccounted, OnThread
<1> QED BY <1>1, <1>2, <1>3, <1>4 DEF SysInv

\* Every step of clients, supervisor, processes and threads preserves it.
LEMMA SysNext ==
    ASSUME SysInv, [Next]_vars
    PROVE  SysInv'
<1>1. CASE UNCHANGED vars
  <2>1. TypeOK'
    BY <1>1 DEF SysInv, TypeOK, vars
  <2> QED BY <1>1, <2>1, ProcessesUntouched DEF SysInv, vars
<1>2. CASE Next
  BY <1>2, ClientSteps, SupSteps, ProcessSteps, ScheduleStep, ReturnSteps, EndSteps
     DEF Next, NifReturns
<1> QED BY <1>1, <1>2

\* SysInv holds in every reachable state of the system.
THEOREM SysInvariant == Spec => []SysInv
  BY SysInit, SysNext, PTL DEF Spec

\* The state of the processes, threads, clients and supervisor always has
\* its type.
THEOREM SystemTypeCorrect == Spec => []TypeOK
<1>1. SysInv => TypeOK
  BY DEF SysInv
<1> QED BY <1>1, SysInvariant, PTL

\* Whatever ends a process (an error in init, a stop, a kill, the supervisor
\* giving up), no NIF ever works on its freed context.
THEOREM UseAfterFreeImpossible == Spec => []NoUseAfterFree
<1>1. SysInv => NoUseAfterFree
  BY DEF SysInv, TypeOK, Life, NoUseAfterFree, Alive, OnThread, Statuses
<1> QED BY <1>1, SysInvariant, PTL

\* The context of a process that has ended is freed, unless a thread still
\* executes in it.
THEOREM NoContextLeaks == Spec => []NoContextLeak
<1>1. SysInv => NoContextLeak
  BY DEF SysInv, Life, NoContextLeak
<1> QED BY <1>1, SysInvariant, PTL

\* No dirty scheduler thread is lost or shared by two NIFs.
THEOREM ThreadsAccountedFor == Spec => []ThreadsAccounted
<1>1. SysInv => ThreadsAccounted
  BY DEF SysInv
<1> QED BY <1>1, SysInvariant, PTL

\* The supervisor is inside a start exactly while its child is in init, so
\* that one blocked init stops every other start.
THEOREM StartsSerialised == Spec => []OneInitAtATime
<1>1. SysInv => OneInitAtATime
  BY DEF SysInv
<1> QED BY <1>1, SysInvariant, PTL

-----------------------------------------------------------------------------
(***************************************************************************)
(* Nobody waits for nothing: the proof of JsSystem's NoOrphanedCaller.     *)
(* It is not inductive by itself: a process must not end the evaluation of *)
(* a request in another way than by a reply (EvalJobs), what is in hand    *)
(* must be the eval the caller asked for and not another request with its  *)
(* id (EvalsInHand), and what the supervisor drops for a restart must      *)
(* serve nobody (ExitsServeNobody).                                        *)
(***************************************************************************)

\* A job that answers an eval is in its one NIF call.
EvalJobs ==
    \A p \in Procs : job[p].kind = "eval" => status[p] = "busy" /\ job[p].todo = <<"eval">>

\* The eval with this id is in the queue q or is the callback j.
Holds(q, j, id) ==
    \/ \E i \in DOMAIN q : q[i].kind = "eval" /\ q[i].id = id
    \/ j.kind = "eval" /\ j.id = id

EvalsInHand ==
    \A c \in Clients : client[c].at = "eval" =>
        /\ client[c].pid \in Procs
        /\ status[client[c].pid] \in {"init", "loop", "busy"}
        /\ Holds(inbox[client[c].pid], job[client[c].pid], client[c].id)

StartsInHand ==
    \A c \in Clients : client[c].at = "start" =>
        \/ c \in sup.serving
        \/ \E i \in DOMAIN supq : c \in supq[i].serving

ExitsServeNobody ==
    \A i \in DOMAIN supq : supq[i].kind = "exit" => supq[i].serving = {}

CallerInv == EvalJobs /\ EvalsInHand /\ StartsInHand /\ ExitsServeNobody

-----------------------------------------------------------------------------
(* Facts the steps share.                                                  *)

\* A released client waits for nothing, the others as before.
LEMMA ReleasedOnly ==
    ASSUME NEW C, client' = Released(C)
    PROVE  \A c \in Clients : \/ c \notin C /\ client'[c] = client[c]
                              \/ c \in C /\ client'[c] = Idle /\ client'[c].at = "idle"
  BY DEF Released, Idle

\* Evals stay in hand if every caller that goes on waiting has its process
\* alive and its request held there.
LEMMA EvalsKept ==
    ASSUME EvalsInHand,
           \A c \in Clients : client'[c].at = "eval" => client'[c] = client[c],
           \A c \in Clients, p \in Procs, id \in Nat :
               /\ client'[c].at = "eval"
               /\ client[c].pid = p
               /\ client[c].id = id
               /\ status[p] \in {"init", "loop", "busy"}
               /\ Holds(inbox[p], job[p], id)
               => /\ status'[p] \in {"init", "loop", "busy"}
                  /\ Holds(inbox'[p], job'[p], id),
           TypeOK
    PROVE  EvalsInHand'
<1> SUFFICES ASSUME NEW c \in Clients, client'[c].at = "eval"
             PROVE  /\ client'[c].pid \in Procs
                    /\ status'[client'[c].pid] \in {"init", "loop", "busy"}
                    /\ Holds(inbox'[client'[c].pid], job'[client'[c].pid], client'[c].id)
  BY DEF EvalsInHand, Holds
<1>1. client'[c] = client[c] /\ client[c].at = "eval"
  OBVIOUS
<1>2. client[c].id \in Nat
  BY <1>1 DEF TypeOK, Wait, Idle
<1> QED BY <1>1, <1>2 DEF EvalsInHand

\* In particular, as long as queues, jobs and processes stay as they are.
LEMMA EvalsUntouched ==
    ASSUME EvalsInHand, UNCHANGED <<status, job, inbox>>,
           \A c \in Clients : client'[c] = client[c] \/ client'[c].at # "eval"
    PROVE  EvalsInHand'
  BY DEF EvalsInHand, Holds

\* Starts stay in hand as long as the supervisor and its queue stay.
LEMMA StartsUntouched ==
    ASSUME StartsInHand, UNCHANGED <<sup, supq>>,
           \A c \in Clients : client'[c] = client[c] \/ client'[c].at # "start"
    PROVE  StartsInHand'
  BY DEF StartsInHand

-----------------------------------------------------------------------------
(* The steps.                                                              *)

\* The operations of clients, and the passing of time.
LEMMA ClientsKeepCallers ==
    ASSUME SysInv, CallerInv,
           \/ \E c \in Clients : start_supervised(c) \/ CallTimeout(c)
           \/ \E c \in Clients, p \in Procs : eval(c, p) \/ call(c, p) \/ cast(c, p)
           \/ WindowSlides \/ AppRestartsSup
    PROVE  CallerInv'
<1> USE DEF CallerInv
<1>0. /\ client \in [Clients -> Wait \cup {Idle}] /\ supq \in Seq(SupMsg)
      /\ inbox \in [Procs -> Seq(Request)] /\ Idle.at = "idle" /\ reqs \in Nat
  BY DEF SysInv, TypeOK, Idle
<1>1. ASSUME NEW c \in Clients, start_supervised(c) PROVE CallerInv'
  <2> DEFINE m == [kind |-> "start", serving |-> {c}]
  <2>1. /\ UNCHANGED <<status, job, inbox, sup>> /\ supq' = Append(supq, m)
        /\ m.kind = "start" /\ m.serving = {c} /\ m \in SupMsg
        /\ \A d \in Clients : d # c => client'[d] = client[d]
        /\ client'[c].at = "start"
    BY <1>0, <1>1 DEF start_supervised, SupMsg
  <2> HIDE DEF m
  <2>2. /\ \A i \in DOMAIN supq : i \in DOMAIN supq' /\ supq'[i] = supq[i]
        /\ Len(supq) + 1 \in DOMAIN supq' /\ supq'[Len(supq) + 1] = m
        /\ \A i \in DOMAIN supq' : (i \in DOMAIN supq /\ supq'[i] = supq[i]) \/ supq'[i] = m
    BY <1>0, <2>1
  <2>3. EvalJobs' /\ ExitsServeNobody'
    BY <2>1, <2>2 DEF EvalJobs, ExitsServeNobody
  <2>4. EvalsInHand'
    BY <2>1, EvalsUntouched
  <2>5. StartsInHand'
    BY <2>1, <2>2 DEF StartsInHand
  <2> QED BY <2>3, <2>4, <2>5
<1>2. ASSUME NEW c \in Clients, CallTimeout(c) PROVE CallerInv'
  <2>1. /\ UNCHANGED <<status, job, inbox, sup, supq>>
        /\ \A d \in Clients : client'[d] = client[d] \/ client'[d].at = "idle"
    BY <1>0, <1>2 DEF CallTimeout
  <2> QED BY <2>1, EvalsUntouched, StartsUntouched DEF EvalJobs, ExitsServeNobody
<1>3. ASSUME NEW c \in Clients, NEW p \in Procs, NEW kind \in {"eval", "js_call", "js_cast"},
             Post(c, p, kind),
             \/ \E timed \in BOOLEAN : AwaitReply(c, p, kind, timed)
             \/ kind # "eval" /\ UNCHANGED client
      PROVE  CallerInv'
  <2> DEFINE r == [kind |-> kind, id |-> reqs + 1]
  <2>1. /\ UNCHANGED <<status, job, sup, supq>> /\ Alive(p)
        /\ inbox' = [inbox EXCEPT ![p] = Append(@, r)]
        /\ r \in Request /\ r.kind = kind /\ r.id = reqs + 1
    BY <1>0, <1>3 DEF Post, Request
  <2> HIDE DEF r
  <2>2. /\ \A d \in Clients : d # c => client'[d] = client[d]
        /\ \/ kind # "eval" /\ client'[c] = client[c]
           \/ client'[c].at = kind /\ client'[c].pid = p /\ client'[c].id = reqs + 1
    BY <1>0, <1>3 DEF AwaitReply
  <2>3. /\ \A q \in Procs : q # p => inbox'[q] = inbox[q]
        /\ \A i \in DOMAIN inbox[p] : i \in DOMAIN inbox'[p] /\ inbox'[p][i] = inbox[p][i]
        /\ Len(inbox[p]) + 1 \in DOMAIN inbox'[p] /\ inbox'[p][Len(inbox[p]) + 1] = r
    <3>1. inbox[p] \in Seq(Request) /\ inbox'[p] = Append(inbox[p], r)
      BY <1>0, <2>1
    <3>2. \A q \in Procs : q # p => inbox'[q] = inbox[q]
      BY <1>0, <2>1
    <3> QED BY <2>1, <3>1, <3>2
  <2>4. \A q \in Procs, id \in Nat : Holds(inbox[q], job[q], id) => Holds(inbox'[q], job'[q], id)
    BY <2>1, <2>3 DEF Holds
  <2>5. kind = "eval" => Holds(inbox'[p], job'[p], reqs + 1)
    BY <2>1, <2>3 DEF Holds
  <2>6. EvalsInHand'
    <3> SUFFICES ASSUME NEW d \in Clients, client'[d].at = "eval"
                 PROVE  /\ client'[d].pid \in Procs
                        /\ status'[client'[d].pid] \in {"init", "loop", "busy"}
                        /\ Holds(inbox'[client'[d].pid], job'[client'[d].pid], client'[d].id)
      BY DEF EvalsInHand, Holds
    <3>1. CASE client'[d] = client[d]
      <4>1. client[d].id \in Nat
        BY <1>0, <3>1 DEF Wait
      <4> QED BY <2>1, <2>4, <3>1, <4>1 DEF EvalsInHand
    <3>2. CASE client'[d] # client[d]
      <4>1. d = c /\ kind = "eval" /\ client'[d].pid = p /\ client'[d].id = reqs + 1
        BY <2>2, <3>2
      <4> QED BY <2>1, <2>5, <4>1 DEF Alive
    <3> QED BY <3>1, <3>2
  <2>7. EvalJobs' /\ ExitsServeNobody'
    BY <2>1 DEF EvalJobs, ExitsServeNobody
  <2>8. StartsInHand'
    BY <2>1, <2>2, StartsUntouched
  <2> QED BY <2>6, <2>7, <2>8
<1>4. ASSUME NEW c \in Clients, NEW p \in Procs, eval(c, p) \/ call(c, p) \/ cast(c, p)
      PROVE  CallerInv'
  BY <1>3, <1>4 DEF eval, call, cast
<1>5. CASE WindowSlides
  BY <1>5, EvalsUntouched, StartsUntouched DEF WindowSlides, EvalJobs, ExitsServeNobody
<1>6. CASE AppRestartsSup
  <2>1. sup'.serving = sup.serving
    BY <1>6, PidFacts DEF AppRestartsSup
  <2>2. UNCHANGED <<status, job, inbox, client, supq>>
    BY <1>6 DEF AppRestartsSup
  <2> QED BY <2>1, <2>2, EvalsUntouched DEF EvalJobs, ExitsServeNobody, StartsInHand
<1> QED BY <1>1, <1>2, <1>4, <1>5, <1>6

\* The supervisor starts a child, restarts one or gives up.
LEMMA SupKeepsCallers ==
    ASSUME SysInv, CallerInv, SupStep
    PROVE  CallerInv'
<1> USE DEF CallerInv
<1>0. /\ client \in [Clients -> Wait \cup {Idle}] /\ supq \in Seq(SupMsg)
      /\ Idle.at = "idle" /\ TypeOK
  BY DEF SysInv, TypeOK, Idle
<1>1. ASSUME NEW serving, StartChild(serving), sup = SupIdle, supq # <<>>,
             serving = Head(supq).serving
      PROVE  CallerInv'
  <2> DEFINE p == born + 1
  <2>1. p \in Procs /\ status[p] = "unborn"
    BY <1>1, SystemAssumption DEF StartChild, SysInv, Procs, TypeOK, Born
  <2> HIDE DEF p
  <2>2. supq' = Tail(supq) /\ UNCHANGED inbox
    BY <1>1 DEF StartChild
  <2>3. /\ \A q \in Procs : q # p => status'[q] = status[q] /\ job'[q] = job[q]
        /\ status'[p] \in {"init", "loop"}
        /\ job'[p] = job[p] \/ job'[p].kind = "init"
        /\ \/ sup'.serving = serving /\ client' = client
           \/ client' = Released(serving)
        /\ sup.serving = {}
    <3>1. status \in [Procs -> Statuses] /\ job \in [Procs -> Job \cup {NoJob}]
      BY <1>0 DEF TypeOK
    <3>2. sup.serving = {}
      BY <1>1, PidFacts
    <3> QED BY <1>1, <2>1, <3>1, <3>2 DEF StartChild, AwaitInit, p
  <2>4. \A c \in Clients : client'[c] = client[c] \/ client'[c].at = "idle"
    BY <2>3, ReleasedOnly
  <2>5. /\ \A i \in DOMAIN supq : i = 1 \/ (i - 1 \in DOMAIN supq' /\ supq'[i - 1] = supq[i])
        /\ \A i \in DOMAIN supq' : i + 1 \in DOMAIN supq /\ supq'[i] = supq[i + 1]
        /\ supq[1] = Head(supq)
    BY <1>0, <1>1, <2>2
  <2>6. EvalJobs'
    <3>1. job[p].kind # "eval"
      BY <2>1 DEF EvalJobs
    <3> QED BY <2>3, <3>1 DEF EvalJobs
  <2>7. EvalsInHand'
    <3>1. \A q \in Procs : status[q] \in {"init", "loop", "busy"} => q # p
      BY <2>1
    <3> QED BY <1>0, <2>2, <2>3, <2>4, <3>1, EvalsKept
  <2>8. StartsInHand'
    <3> SUFFICES ASSUME NEW c \in Clients, client'[c].at = "start"
                 PROVE  c \in sup'.serving \/ \E i \in DOMAIN supq' : c \in supq'[i].serving
      BY DEF StartsInHand
    <3>1. client'[c] = client[c]
      BY <2>4
    <3>2. PICK i \in DOMAIN supq : c \in supq[i].serving
      BY <2>3, <3>1 DEF StartsInHand
    <3>3. CASE i = 1
      <4>1. c \in serving
        BY <1>1, <2>5, <3>2, <3>3
      <4>2. client' # Released(serving)
        BY <4>1, ReleasedOnly
      <4> QED BY <2>3, <4>1, <4>2
    <3>4. CASE i # 1
      BY <2>5, <3>2, <3>4
    <3> QED BY <3>3, <3>4
  <2>9. ExitsServeNobody'
    BY <2>5 DEF ExitsServeNobody
  <2> QED BY <2>6, <2>7, <2>8, <2>9
<1>2. CASE SupStart
  BY <1>1, <1>2 DEF SupStart, SupHandles
<1>3. CASE SupRestart
  <2>1. sup = SupIdle /\ supq # <<>> /\ Head(supq).kind = "exit" /\ StartChild({})
    BY <1>3 DEF SupRestart, SupHandles
  <2>2. 1 \in DOMAIN supq /\ Head(supq) = supq[1]
    BY <1>0, <2>1
  <2>3. Head(supq).serving = {}
    BY <2>1, <2>2 DEF ExitsServeNobody
  <2> QED BY <1>1, <2>1, <2>3
<1>4. CASE SupGivesUp
  <2>1. \A c \in Clients : client'[c].at = "idle"
    BY <1>0, <1>4 DEF SupGivesUp
  <2>2. supq' = <<>>
    BY <1>4 DEF SupGivesUp
  <2>3. EvalJobs'
    <3>1. \A p \in Procs : \/ job'[p] = NoJob
                           \/ job'[p] = job[p] /\ status'[p] = status[p]
      BY <1>4 DEF SupGivesUp, Gone
    <3> QED BY <3>1, PidFacts DEF EvalJobs
  <2> QED BY <2>1, <2>2, <2>3 DEF EvalsInHand, StartsInHand, ExitsServeNobody
<1> QED BY <1>2, <1>3, <1>4 DEF SupStep

\* A process takes a request, makes a host call or gets a thread.
LEMMA ProcessKeepsCallers ==
    ASSUME SysInv, CallerInv, NEW p \in Procs,
           TakeRequest(p) \/ HostCall(p) \/ (\E t \in Threads : Schedule(t, p))
    PROVE  CallerInv'
<1> USE DEF CallerInv
<1>0. TypeOK
  BY DEF SysInv
<1>1. CASE TakeRequest(p)
  <2> DEFINE r == Head(inbox[p])
             j == [kind |-> r.kind, id |-> r.id, todo |-> Script(r.kind), out |-> "none"]
  <2>1. /\ inbox[p] \in Seq(Request) /\ inbox[p] # <<>> /\ inbox'[p] = Tail(inbox[p])
        /\ \A q \in Procs : q # p => /\ inbox'[q] = inbox[q] /\ job'[q] = job[q]
                                     /\ status'[q] = status[q]
        /\ status[p] = "loop" /\ status'[p] = "busy" /\ job'[p] = j
        /\ UNCHANGED <<client, sup, supq>>
    BY <1>0, <1>1 DEF TakeRequest, TypeOK
  <2>2. j.kind = r.kind /\ j.id = r.id /\ (r.kind = "eval" => j.todo = <<"eval">>)
    BY DEF Script
  <2> HIDE DEF j
  <2>3. job[p].kind # "eval"
    BY <2>1 DEF EvalJobs
  <2>4. \A i \in DOMAIN inbox[p] :
            \/ inbox[p][i] = r
            \/ i - 1 \in DOMAIN inbox'[p] /\ inbox'[p][i - 1] = inbox[p][i]
    BY <2>1
  <2> HIDE DEF r
  <2>5. \A id \in Nat : Holds(inbox[p], job[p], id) => Holds(inbox'[p], job'[p], id)
    <3> SUFFICES ASSUME NEW id \in Nat, Holds(inbox[p], job[p], id)
                 PROVE  Holds(inbox'[p], job'[p], id)
      OBVIOUS
    <3>1. PICK i \in DOMAIN inbox[p] : inbox[p][i].kind = "eval" /\ inbox[p][i].id = id
      BY <2>3 DEF Holds
    <3>2. CASE inbox[p][i] = r
      BY <2>1, <2>2, <3>1, <3>2 DEF Holds
    <3>3. CASE i - 1 \in DOMAIN inbox'[p] /\ inbox'[p][i - 1] = inbox[p][i]
      BY <3>1, <3>3 DEF Holds
    <3> QED BY <2>4, <3>2, <3>3
  <2>6. EvalsInHand'
    BY <1>0, <2>1, <2>5, EvalsKept
  <2>7. EvalJobs'
    BY <2>1, <2>2 DEF EvalJobs
  <2> QED BY <2>1, <2>6, <2>7, StartsUntouched DEF ExitsServeNobody
<1>2. CASE HostCall(p)
  BY <1>2, EvalsUntouched, StartsUntouched DEF HostCall, EvalJobs, ExitsServeNobody
<1>3. ASSUME NEW t \in Threads, Schedule(t, p) PROVE CallerInv'
  BY <1>3, EvalsUntouched, StartsUntouched DEF Schedule, EvalJobs, ExitsServeNobody
<1> QED BY <1>1, <1>2, <1>3

\* A NIF returns to a process that is alive: a callback ends or goes on.
LEMMA ReturnsKeepCallers ==
    ASSUME SysInv, CallerInv, NEW t \in Threads, NEW p \in Procs,
           \/ SetReturns(t, p) \/ InitOk(t, p) \/ EvalReply(t, p)
           \/ CallResult(t, p) \/ CastResult(t, p)
    PROVE  CallerInv'
<1> USE DEF CallerInv
<1>0. TypeOK /\ job \in [Procs -> Job \cup {NoJob}] /\ status \in [Procs -> Statuses]
  BY DEF SysInv, TypeOK
<1>1. ASSUME NEW todo, NEW out, GoOn(p, todo, out), job[p].kind # "eval",
             UNCHANGED <<client, inbox, sup, supq>>
      PROVE  CallerInv'
  <2>1. /\ \A q \in Procs : q # p => job'[q] = job[q]
        /\ job'[p].kind = job[p].kind
        /\ UNCHANGED status
    BY <1>0, <1>1 DEF GoOn, Job, NoJob
  <2>2. \A q \in Procs, id \in Nat : Holds(inbox[q], job[q], id) => Holds(inbox'[q], job'[q], id)
    BY <1>1, <2>1 DEF Holds
  <2>3. EvalsInHand'
    BY <1>0, <1>1, <2>1, <2>2, EvalsKept
  <2>4. EvalJobs'
    BY <1>1, <2>1 DEF EvalJobs
  <2> QED BY <1>1, <2>3, <2>4, StartsUntouched DEF ExitsServeNobody
<1>2. ASSUME BackToLoop(p), UNCHANGED <<inbox, supq>>,
             Reply(p) \/ (job[p].kind # "eval" /\ (client' = client \/ client' = Released(sup.serving))),
             sup' = sup \/ client' = Released(sup.serving)
      PROVE  CallerInv'
  <2>1. /\ \A q \in Procs : q # p => job'[q] = job[q] /\ status'[q] = status[q]
        /\ job'[p].kind = "none" /\ status'[p] = "loop"
    BY <1>0, <1>2, PidFacts DEF BackToLoop
  <2>2. \A c \in Clients : client'[c] = client[c] \/ client'[c].at = "idle"
    BY <1>2, ReleasedOnly DEF Reply
  <2>3. ASSUME NEW c \in Clients, client'[c].at = "eval", job[p].kind = "eval"
        PROVE  client[c].id # job[p].id
    <3>1. Reply(p)
      BY <1>2, <2>3
    <3>2. client[c] # Idle
      BY <2>2, <2>3 DEF Idle
    <3> QED BY <2>3, <3>1, <3>2, ReleasedOnly DEF Reply
  <2>4. ASSUME NEW c \in Clients, NEW q \in Procs, NEW id \in Nat, client'[c].at = "eval",
               client[c].id = id, Holds(inbox[q], job[q], id)
        PROVE  Holds(inbox'[q], job'[q], id)
    <3>1. CASE q # p
      BY <1>2, <2>1, <2>4, <3>1
    <3>2. CASE q = p
      BY <1>2, <2>3, <2>4, <3>2 DEF Holds
    <3> QED BY <3>1, <3>2
  <2>5. EvalsInHand'
    BY <1>0, <2>1, <2>2, <2>4, EvalsKept
  <2>6. EvalJobs'
    BY <2>1 DEF EvalJobs
  <2>7. StartsInHand'
    <3>1. CASE sup' = sup
      BY <1>2, <2>2, <3>1, StartsUntouched
    <3>2. CASE client' = Released(sup.serving)
      <4>1. \A c \in Clients : client'[c].at = "start" => c \notin sup.serving
        BY <3>2, ReleasedOnly
      <4> QED BY <1>2, <2>2, <4>1 DEF StartsInHand
    <3> QED BY <1>2, <3>1, <3>2
  <2> QED BY <1>2, <2>5, <2>6, <2>7 DEF ExitsServeNobody
<1>3. CASE SetReturns(t, p)
  <2>1. job[p].kind # "eval"
    <3>1. Head(job[p].todo) = "set"
      BY <1>3 DEF SetReturns, Returns
    <3>2. Head(<<"eval">>) = "eval"
      OBVIOUS
    <3> QED BY <3>1, <3>2 DEF EvalJobs
  <2>2. UNCHANGED <<inbox, sup, supq>>
    BY <1>3 DEF SetReturns
  <2>3. \/ GoOn(p, Tail(job[p].todo), job[p].out) /\ UNCHANGED client
        \/ BackToLoop(p) /\ (Reply(p) \/ UNCHANGED client)
    BY <1>3 DEF SetReturns
  <2> QED BY <1>1, <1>2, <2>1, <2>2, <2>3
<1>4. CASE InitOk(t, p)
  BY <1>2, <1>4 DEF InitOk
<1>5. CASE EvalReply(t, p)
  BY <1>2, <1>5 DEF EvalReply
<1>6. CASE CallResult(t, p)
  <2>1. UNCHANGED <<inbox, sup, supq>> /\ job[p].kind # "eval"
    BY <1>6 DEF CallResult
  <2>2. \/ \E out \in {"reply", "noreply"} : GoOn(p, <<"set">>, out) /\ UNCHANGED client
        \/ BackToLoop(p) /\ Reply(p)
    BY <1>6 DEF CallResult
  <2> QED BY <1>1, <1>2, <2>1, <2>2
<1>7. CASE CastResult(t, p)
  <2>1. UNCHANGED <<inbox, client, sup, supq>> /\ job[p].kind # "eval"
    BY <1>7 DEF CastResult
  <2>2. GoOn(p, <<"set">>, "noreply") \/ BackToLoop(p)
    BY <1>7 DEF CastResult
  <2> QED BY <1>1, <1>2, <2>1, <2>2
<1> QED BY <1>3, <1>4, <1>5, <1>6, <1>7

\* A process ends, in whatever way: whoever waits for it is told.
LEMMA EndsKeepCallers ==
    ASSUME SysInv, CallerInv, NEW p \in Procs,
           \/ Kill(p)
           \/ \E t \in Threads : Fails(t, p) \/ OrphanReturns(t, p)
    PROVE  CallerInv'
<1> USE DEF CallerInv
<1>0. TypeOK /\ supq \in Seq(SupMsg)
  BY DEF SysInv, TypeOK
<1>1. ASSUME NEW n, Gone({p}, n), Notify(p)
      PROVE  CallerInv'
  <2> DEFINE m == [kind |-> "exit", serving |-> {}]
  <2>1. /\ \A q \in Procs : q # p => /\ job'[q] = job[q] /\ status'[q] = status[q]
                                     /\ inbox'[q] = inbox[q]
        /\ job'[p].kind = "none"
    BY <1>1, PidFacts DEF Gone
  <2>2. /\ client' = Released(CallersOf(p) \cup sup.serving) \/ client' = Released(CallersOf(p))
        /\ sup' = sup \/ client' = Released(CallersOf(p) \cup sup.serving)
        /\ supq' = supq \/ supq' = Append(supq, m)
    BY <1>1 DEF Notify
  <2>3. m \in SupMsg /\ m.serving = {}
    BY DEF SupMsg
  <2> HIDE DEF m
  <2>4. /\ \A c \in Clients : client'[c] = client[c] \/ client'[c].at = "idle"
        /\ \A c \in Clients : client'[c].at = "eval" => client[c].pid # p
    BY <2>2, ReleasedOnly DEF CallersOf
  <2>5. EvalsInHand'
    BY <1>0, <2>1, <2>4, EvalsKept
  <2>6. EvalJobs'
    BY <2>1 DEF EvalJobs
  <2>7. /\ \A i \in DOMAIN supq : i \in DOMAIN supq' /\ supq'[i] = supq[i]
        /\ \A i \in DOMAIN supq' : (i \in DOMAIN supq /\ supq'[i] = supq[i]) \/ supq'[i] = m
    BY <1>0, <2>2, <2>3
  <2>8. ExitsServeNobody'
    BY <2>3, <2>7 DEF ExitsServeNobody
  <2>9. \A c \in Clients : client'[c].at = "start" /\ c \in sup.serving => sup' = sup
    BY <2>2, ReleasedOnly
  <2>10. StartsInHand'
    BY <2>4, <2>7, <2>9 DEF StartsInHand
  <2> QED BY <2>5, <2>6, <2>8, <2>10
<1>2. CASE Kill(p)
  BY <1>1, <1>2 DEF Kill
<1>3. ASSUME NEW t \in Threads, Fails(t, p) PROVE CallerInv'
  BY <1>1, <1>3 DEF Fails
<1>4. ASSUME NEW t \in Threads, OrphanReturns(t, p) PROVE CallerInv'
  BY <1>4, EvalsUntouched, StartsUntouched DEF OrphanReturns, EvalJobs, ExitsServeNobody
<1> QED BY <1>2, <1>3, <1>4

-----------------------------------------------------------------------------
(* The theorems.                                                           *)

\* Every step preserves the invariant.
LEMMA CallerNext ==
    ASSUME SysInv, CallerInv, [Next]_vars
    PROVE  CallerInv'
<1>1. CASE UNCHANGED vars
  BY <1>1, EvalsUntouched, StartsUntouched DEF CallerInv, EvalJobs, ExitsServeNobody, vars
<1>2. CASE Next
  BY <1>2, ClientsKeepCallers, SupKeepsCallers, ProcessKeepsCallers, ReturnsKeepCallers,
     EndsKeepCallers DEF Next, NifReturns
<1> QED BY <1>1, <1>2

\* In every reachable state the requests that are waited for are in hand.
THEOREM CallersInHand == Spec => []CallerInv
<1>1. Init => CallerInv
  BY PidFacts DEF Init, CallerInv, EvalJobs, EvalsInHand, StartsInHand, ExitsServeNobody, Idle
<1>2. SysInv /\ CallerInv /\ [Next]_vars => CallerInv'
  BY CallerNext
<1> QED BY <1>1, <1>2, SysInvariant, PTL DEF Spec

\* However processes fail, are killed and are restarted, a caller of eval,
\* which has no timeout, waits for a living process that still has its
\* request, and a caller of start_supervised for a supervisor that has its.
THEOREM NoCallerOrphaned == Spec => []NoOrphanedCaller
<1>1. CallerInv => NoOrphanedCaller
  BY DEF CallerInv, EvalsInHand, StartsInHand, Holds, NoOrphanedCaller, Alive, InHand
<1> QED BY <1>1, CallersInHand, PTL

-----------------------------------------------------------------------------
(***************************************************************************)
(* Answers reach whoever asked: the proof of JsSystem's OwnAnswerOnly.  A  *)
(* step that ends a wait says nothing about the other places a request may *)
(* be in, so the invariant is about all of them: a request is in one place *)
(* at most (OneHand), ids are given out once (GivenOut), a process that    *)
(* has ended holds nothing (IdleHands), a start is in the supervisor's     *)
(* hands once, as long as its caller waits (StartOnce, StartWaits), and    *)
(* its id is nobody else's (StartIds).                                     *)
(***************************************************************************)

\* Request n is at place i of a process with queue q and job j; place 0 is
\* the job.
At(q, j, i, n) ==
    \/ i = 0 /\ j.id = n
    \/ i \in DOMAIN q /\ q[i].id = n

OneHand ==
    \A p, q \in Procs, i, j \in Nat, n \in Nat :
        n > 0 /\ At(inbox[p], job[p], i, n) /\ At(inbox[q], job[q], j, n)
            => p = q /\ i = j

GivenOut ==
    \A p \in Procs, i \in Nat, n \in Nat : At(inbox[p], job[p], i, n) => n <= reqs

IdleHands ==
    \A p \in Procs : ~Alive(p) => inbox[p] = <<>> /\ job[p] = NoJob

HandInv == OneHand /\ GivenOut /\ IdleHands

\* Client c's start is at place i of a supervisor that waits as in s with
\* queue q; place 0 is the start under way.
Served(s, q, i, c) ==
    \/ i = 0 /\ c \in s.serving
    \/ i \in DOMAIN q /\ c \in q[i].serving

StartOnce ==
    \A c \in Clients, i, j \in Nat : Served(sup, supq, i, c) /\ Served(sup, supq, j, c) => i = j

StartWaits ==
    \A c \in Clients, i \in Nat :
        Served(sup, supq, i, c) => client[c].at = "start" /\ client[c].pid = Nobody

StartIds ==
    \A c \in Clients : client[c].at = "start" =>
        /\ client[c].timed = FALSE
        /\ client[c].id \in 1..reqs
        /\ \A p \in Procs, i \in Nat : ~At(inbox[p], job[p], i, client[c].id)

StartInv == StartOnce /\ StartWaits /\ StartIds

-----------------------------------------------------------------------------
(* Requests are in one hand.                                               *)

\* A step that puts no request in a new place keeps them apart.
LEMMA HandsKept ==
    ASSUME OneHand, GivenOut, reqs \in Nat, reqs' \in Nat, reqs' >= reqs,
           \A q \in Procs, i \in Nat, n \in Nat :
               n > 0 /\ At(inbox'[q], job'[q], i, n) => At(inbox[q], job[q], i, n)
    PROVE  OneHand' /\ GivenOut'
<1>1. OneHand'
  BY DEF OneHand
<1>2. ASSUME NEW p \in Procs, NEW i \in Nat, NEW n \in Nat, At(inbox'[p], job'[p], i, n)
      PROVE  n <= reqs'
  BY <1>2 DEF GivenOut
<1> QED BY <1>1, <1>2 DEF GivenOut

\* A new request gets a new id and one place.
LEMMA PostHands ==
    ASSUME SysInv, HandInv, NEW c \in Clients, NEW p \in Procs,
           NEW kind \in {"eval", "js_call", "js_cast"}, Post(c, p, kind)
    PROVE  /\ HandInv'
           /\ \A q \in Procs, i, n \in Nat :
                  At(inbox'[q], job'[q], i, n) => At(inbox[q], job[q], i, n) \/ n = reqs + 1
<1> USE DEF HandInv
<1> DEFINE r == [kind |-> kind, id |-> reqs + 1]
           k == Len(inbox[p]) + 1
<1>1. /\ UNCHANGED <<status, job>> /\ Alive(p) /\ reqs \in Nat /\ reqs' = reqs + 1
      /\ inbox \in [Procs -> Seq(Request)]
      /\ inbox' = [inbox EXCEPT ![p] = Append(@, r)] /\ r.id = reqs + 1
  BY DEF Post, SysInv, TypeOK
<1> HIDE DEF r
<1>2. /\ \A q \in Procs : q # p => inbox'[q] = inbox[q]
      /\ inbox[p] \in Seq(Request) /\ inbox'[p] = Append(inbox[p], r)
  BY <1>1
<1>3. /\ k \in Nat \ {0}
      /\ \A i \in DOMAIN inbox'[p] : (i \in DOMAIN inbox[p] /\ inbox'[p][i] = inbox[p][i])
                                     \/ (i = k /\ inbox'[p][i] = r)
  BY <1>2
<1> HIDE DEF k
<1>4. ASSUME NEW q \in Procs, NEW i \in Nat, NEW n \in Nat, At(inbox'[q], job'[q], i, n)
      PROVE  At(inbox[q], job[q], i, n) \/ (q = p /\ i = k /\ n = reqs + 1)
  BY <1>1, <1>2, <1>3, <1>4 DEF At
<1>5. \A q \in Procs, i \in Nat : ~At(inbox[q], job[q], i, reqs + 1)
  BY <1>1 DEF GivenOut
<1>6. OneHand'
  BY <1>1, <1>4, <1>5 DEF OneHand
<1>7. GivenOut'
  BY <1>1, <1>4 DEF GivenOut
<1>8. IdleHands'
  BY <1>1, <1>2 DEF IdleHands, Alive
<1> QED BY <1>4, <1>6, <1>7, <1>8

\* The request a process takes leaves its queue.
LEMMA TakeHands ==
    ASSUME SysInv, HandInv, NEW p \in Procs, TakeRequest(p)
    PROVE  /\ HandInv'
           /\ \A q \in Procs, i, n \in Nat :
                  At(inbox'[q], job'[q], i, n) => \E j \in Nat : At(inbox[q], job[q], j, n)
<1> USE DEF HandInv
<1>1. /\ inbox[p] \in Seq(Request) /\ inbox[p] # <<>> /\ inbox'[p] = Tail(inbox[p])
      /\ \A q \in Procs : q # p => inbox'[q] = inbox[q] /\ job'[q] = job[q] /\ status'[q] = status[q]
      /\ status'[p] = "busy" /\ job'[p].id = Head(inbox[p]).id
      /\ reqs \in Nat /\ reqs' = reqs
  BY DEF TakeRequest, SysInv, TypeOK
<1>2. /\ 1 \in DOMAIN inbox[p] /\ Head(inbox[p]) = inbox[p][1]
      /\ \A i \in DOMAIN inbox'[p] : /\ i \in Nat \ {0}
                                     /\ i + 1 \in DOMAIN inbox[p]
                                     /\ inbox'[p][i] = inbox[p][i + 1]
  BY <1>1
<1>3. ASSUME NEW i \in Nat, NEW n \in Nat, At(inbox'[p], job'[p], i, n)
      PROVE  At(inbox[p], job[p], i + 1, n)
  BY <1>1, <1>2, <1>3 DEF At
<1>4. ASSUME NEW q \in Procs, q # p, NEW i \in Nat, NEW n \in Nat, At(inbox'[q], job'[q], i, n)
      PROVE  At(inbox[q], job[q], i, n)
  BY <1>1, <1>4
<1>5. OneHand'
  <2> SUFFICES ASSUME NEW a \in Procs, NEW b \in Procs, NEW i \in Nat, NEW j \in Nat,
                      NEW n \in Nat, n > 0,
                      At(inbox'[a], job'[a], i, n), At(inbox'[b], job'[b], j, n)
               PROVE  a = b /\ i = j
    BY DEF OneHand
  <2>1. CASE a = p /\ b = p
    <3>1. i + 1 = j + 1
      BY <1>3, <2>1 DEF OneHand
    <3> QED BY <2>1, <3>1
  <2>2. CASE a = p /\ b # p
    BY <1>3, <1>4, <2>2 DEF OneHand
  <2>3. CASE a # p /\ b = p
    BY <1>3, <1>4, <2>3 DEF OneHand
  <2>4. CASE a # p /\ b # p
    BY <1>4, <2>4 DEF OneHand
  <2> QED BY <2>1, <2>2, <2>3, <2>4
<1>6. ASSUME NEW q \in Procs, NEW i \in Nat, NEW n \in Nat, At(inbox'[q], job'[q], i, n)
      PROVE  \E j \in Nat : At(inbox[q], job[q], j, n)
  <2>1. i + 1 \in Nat
    OBVIOUS
  <2>2. CASE q = p
    BY <1>3, <1>6, <2>1, <2>2
  <2>3. CASE q # p
    BY <1>4, <1>6, <2>3
  <2> QED BY <2>2, <2>3
<1>7. GivenOut'
  BY <1>1, <1>6 DEF GivenOut
<1>8. IdleHands'
  BY <1>1 DEF IdleHands, Alive
<1> QED BY <1>5, <1>6, <1>7, <1>8

\* The processes in P end and hold nothing more.
LEMMA GoneHands ==
    ASSUME SysInv, HandInv, NEW P \in SUBSET Procs, NEW n, Gone(P, n)
    PROVE  /\ IdleHands'
           /\ \A q \in P : inbox'[q] = <<>> /\ job'[q] = NoJob
           /\ \A q \in Procs \ P : inbox'[q] = inbox[q] /\ job'[q] = job[q] /\ status'[q] = status[q]
<1>1. /\ \A q \in P : inbox'[q] = <<>> /\ job'[q] = NoJob
      /\ \A q \in Procs \ P : inbox'[q] = inbox[q] /\ job'[q] = job[q] /\ status'[q] = status[q]
  BY DEF Gone
<1> QED BY <1>1 DEF HandInv, IdleHands, Alive

\* Every other step leaves requests where they are or drops them.
LEMMA OtherHands ==
    ASSUME SysInv, HandInv, Next,
           ~(\E c \in Clients, p \in Procs : eval(c, p) \/ call(c, p) \/ cast(c, p)),
           ~(\E p \in Procs : TakeRequest(p))
    PROVE  /\ IdleHands' /\ reqs \in Nat /\ reqs' \in Nat /\ reqs' >= reqs
           /\ \A q \in Procs : \/ job'[q].id \in {0, job[q].id} /\ inbox'[q] = inbox[q]
                               \/ job'[q].id = 0 /\ inbox'[q] = <<>>
<1> DEFINE Goal == /\ IdleHands' /\ reqs \in Nat /\ reqs' \in Nat /\ reqs' >= reqs
                   /\ \A q \in Procs : \/ job'[q].id \in {0, job[q].id} /\ inbox'[q] = inbox[q]
                                       \/ job'[q].id = 0 /\ inbox'[q] = <<>>
<1> SUFFICES Goal
  OBVIOUS
<1> HIDE DEF Goal
<1> USE DEF HandInv
<1>0. /\ reqs \in Nat /\ status \in [Procs -> Statuses] /\ job \in [Procs -> Job \cup {NoJob}]
      /\ NoJob.id = 0
  BY DEF SysInv, TypeOK, NoJob
<1>1. ASSUME UNCHANGED <<status, job, inbox>>, reqs' = reqs \/ reqs' = reqs + 1
      PROVE  Goal
  BY <1>0, <1>1 DEF Goal, IdleHands, Alive
<1>2. ASSUME NEW c \in Clients, start_supervised(c) \/ CallTimeout(c)
      PROVE  Goal
  <2>1. UNCHANGED <<status, job, inbox>> /\ (reqs' = reqs \/ reqs' = reqs + 1)
    BY <1>2 DEF start_supervised, CallTimeout
  <2> QED BY <1>1, <2>1
<1>3. CASE WindowSlides \/ AppRestartsSup
  <2>1. UNCHANGED <<status, job, inbox, reqs>>
    BY <1>3 DEF WindowSlides, AppRestartsSup
  <2> QED BY <1>1, <2>1
<1>4. ASSUME NEW serving, StartChild(serving)
      PROVE  Goal
  <2> DEFINE p == born + 1
  <2>1. p \in Procs /\ UNCHANGED <<inbox, reqs>>
    BY <1>4, SystemAssumption DEF StartChild, SysInv, Procs, TypeOK
  <2> HIDE DEF p
  <2>2. /\ \A q \in Procs : q # p => status'[q] = status[q] /\ job'[q] = job[q]
        /\ status'[p] \in {"init", "loop"}
        /\ job'[p] = job[p] \/ job'[p].id = 0
    BY <1>0, <1>4, <2>1 DEF StartChild, p
  <2>3. IdleHands'
    BY <2>1, <2>2 DEF IdleHands, Alive
  <2> QED BY <1>0, <2>1, <2>2, <2>3 DEF Goal
<1>5. CASE SupStart \/ SupRestart
  BY <1>4, <1>5 DEF SupStart, SupRestart
<1>6. ASSUME NEW P \in SUBSET Procs, NEW n, Gone(P, n), reqs' = reqs
      PROVE  Goal
  <2>1. /\ IdleHands'
        /\ \A q \in P : inbox'[q] = <<>> /\ job'[q] = NoJob
        /\ \A q \in Procs \ P : inbox'[q] = inbox[q] /\ job'[q] = job[q]
    BY <1>6, GoneHands
  <2> QED BY <1>0, <1>6, <2>1 DEF Goal
<1>7. CASE SupGivesUp
  <2>1. {p \in Procs : Alive(p)} \in SUBSET Procs
    OBVIOUS
  <2>2. Gone({p \in Procs : Alive(p)}, nif) /\ reqs' = reqs
    BY <1>7 DEF SupGivesUp
  <2> QED BY ONLY <1>6, <2>1, <2>2
<1>8. ASSUME NEW p \in Procs, HostCall(p)
      PROVE  Goal
  <2>1. UNCHANGED <<status, job, inbox, reqs>>
    BY <1>8 DEF HostCall
  <2> QED BY <1>1, <2>1
<1>9. ASSUME NEW p \in Procs, Kill(p)
      PROVE  Goal
  <2>1. Gone({p}, nif) /\ reqs' = reqs
    BY <1>9 DEF Kill, Notify
  <2> QED BY <1>6, <2>1
<1>10. ASSUME NEW t \in Threads, NEW p \in Procs, Schedule(t, p) \/ OrphanReturns(t, p)
       PROVE  Goal
  <2>1. UNCHANGED <<status, job, inbox, reqs>>
    BY <1>10 DEF Schedule, OrphanReturns
  <2> QED BY <1>1, <2>1
<1>11. ASSUME NEW t \in Threads, NEW p \in Procs, Fails(t, p)
       PROVE  Goal
  <2>1. Gone({p}, [nif EXCEPT ![p] = "none"]) /\ reqs' = reqs
    BY <1>11 DEF Fails, Notify
  <2> QED BY <1>6, <2>1
<1>12. ASSUME NEW t \in Threads, NEW p \in Procs,
              \/ SetReturns(t, p) \/ InitOk(t, p) \/ EvalReply(t, p)
              \/ CallResult(t, p) \/ CastResult(t, p)
       PROVE  Goal
  <2>1. UNCHANGED <<inbox, reqs>> /\ Alive(p)
    BY <1>12 DEF SetReturns, InitOk, EvalReply, CallResult, CastResult, Returns
  <2>2. BackToLoop(p) \/ \E todo, out : GoOn(p, todo, out)
    BY <1>12 DEF SetReturns, InitOk, EvalReply, CallResult, CastResult
  <2>3. CASE BackToLoop(p)
    <3>1. /\ \A q \in Procs : q # p => job'[q] = job[q] /\ status'[q] = status[q]
          /\ job'[p] = NoJob /\ status'[p] = "loop"
      BY <1>0, <2>3 DEF BackToLoop
    <3>2. IdleHands'
      BY <2>1, <3>1 DEF IdleHands, Alive
    <3> QED BY <1>0, <2>1, <3>1, <3>2 DEF Goal
  <2>4. ASSUME NEW todo, NEW out, GoOn(p, todo, out)
        PROVE  Goal
    <3>1. /\ \A q \in Procs : q # p => job'[q] = job[q]
          /\ job'[p].id = job[p].id /\ UNCHANGED status
      BY <1>0, <2>4 DEF GoOn, Job, NoJob
    <3>2. IdleHands'
      BY <2>1, <3>1 DEF IdleHands, Alive
    <3> QED BY <1>0, <2>1, <3>1, <3>2 DEF Goal
  <2> QED BY <2>2, <2>3, <2>4
<1> QED
  BY <1>2, <1>3, <1>5, <1>7, <1>8, <1>9, <1>10, <1>11, <1>12 DEF Next, SupStep, NifReturns

\* Every step keeps requests in one hand, and what is in hand after it was in
\* hand before or is new.
LEMMA HandNext ==
    ASSUME SysInv, HandInv, [Next]_vars
    PROVE  /\ HandInv' /\ reqs \in Nat /\ reqs' \in Nat /\ reqs' >= reqs
           /\ \A q \in Procs, i \in Nat, n \in 1..reqs :
                  At(inbox'[q], job'[q], i, n) => \E j \in Nat : At(inbox[q], job[q], j, n)
<1>0. reqs \in Nat
  BY DEF SysInv, TypeOK
<1>1. CASE UNCHANGED vars
  BY <1>0, <1>1 DEF vars, HandInv, OneHand, GivenOut, IdleHands, Alive
<1>2. ASSUME NEW c \in Clients, NEW p \in Procs, eval(c, p) \/ call(c, p) \/ cast(c, p)
      PROVE  /\ HandInv' /\ reqs' \in Nat /\ reqs' >= reqs
             /\ \A q \in Procs, i \in Nat, n \in 1..reqs :
                    At(inbox'[q], job'[q], i, n) => At(inbox[q], job[q], i, n)
  <2>1. PICK kind \in {"eval", "js_call", "js_cast"} : Post(c, p, kind)
    BY <1>2 DEF eval, call, cast
  <2>2. reqs' = reqs + 1
    BY <2>1 DEF Post
  <2>3. /\ HandInv'
        /\ \A q \in Procs, i, n \in Nat :
               At(inbox'[q], job'[q], i, n) => At(inbox[q], job[q], i, n) \/ n = reqs + 1
    BY <2>1, PostHands
  <2> QED BY <1>0, <2>2, <2>3
<1>3. ASSUME NEW p \in Procs, TakeRequest(p)
      PROVE  /\ HandInv' /\ reqs' = reqs
             /\ \A q \in Procs, i, n \in Nat :
                    At(inbox'[q], job'[q], i, n) => \E j \in Nat : At(inbox[q], job[q], j, n)
  <2>1. reqs' = reqs
    BY <1>3 DEF TakeRequest
  <2> QED BY <1>3, <2>1, TakeHands
<1>4. ASSUME Next,
             ~(\E c \in Clients, p \in Procs : eval(c, p) \/ call(c, p) \/ cast(c, p)),
             ~(\E p \in Procs : TakeRequest(p))
      PROVE  /\ HandInv' /\ reqs' \in Nat /\ reqs' >= reqs
             /\ \A q \in Procs, i, n \in Nat :
                    n > 0 /\ At(inbox'[q], job'[q], i, n) => At(inbox[q], job[q], i, n)
  <2>1. /\ IdleHands' /\ reqs' \in Nat /\ reqs' >= reqs
        /\ \A q \in Procs : \/ job'[q].id \in {0, job[q].id} /\ inbox'[q] = inbox[q]
                            \/ job'[q].id = 0 /\ inbox'[q] = <<>>
    BY <1>4, OtherHands
  <2>2. DOMAIN <<>> = {}
    OBVIOUS
  <2>3. ASSUME NEW q \in Procs, NEW i \in Nat, NEW n \in Nat, n > 0,
               At(inbox'[q], job'[q], i, n)
        PROVE  At(inbox[q], job[q], i, n)
    BY <2>1, <2>2, <2>3 DEF At
  <2>4. OneHand' /\ GivenOut'
    BY <1>0, <2>1, <2>3, HandsKept DEF HandInv
  <2> QED BY <2>1, <2>3, <2>4 DEF HandInv
<1> QED BY <1>0, <1>1, <1>2, <1>3, <1>4

-----------------------------------------------------------------------------
(* Starts are served once.                                                 *)

\* Starts stay apart while each stays in its place and its caller waits on.
LEMMA StartsKept ==
    ASSUME StartOnce, StartWaits,
           \A c \in Clients, i \in Nat :
               Served(sup', supq', i, c) => Served(sup, supq, i, c) /\ client'[c] = client[c]
    PROVE  StartOnce' /\ StartWaits'
<1>1. StartOnce'
  BY DEF StartOnce
<1> QED BY <1>1 DEF StartWaits

\* A caller whose start is under way waits for no process.
LEMMA ServedFacts ==
    ASSUME StartInv, NEW c \in Clients
    PROVE  /\ c \in sup.serving => client[c].at = "start" /\ client[c].pid = Nobody
           /\ \A i \in DOMAIN supq : supq \in Seq(SupMsg) /\ c \in supq[i].serving
                  => client[c].at = "start" /\ client[c].pid = Nobody
<1>1. ASSUME NEW i \in DOMAIN supq, supq \in Seq(SupMsg) PROVE i \in Nat
  BY <1>1
<1> QED BY <1>1 DEF StartInv, StartWaits, Served

\* What a step can do to the callers of eval and call, to the callers of
\* start_supervised, and to the supervisor's queue.
LEMMA StartNext ==
    ASSUME SysInv, CallerInv, HandInv, StartInv, [Next]_vars
    PROVE  StartInv'
<1> USE DEF StartInv
<1>0. /\ client \in [Clients -> Wait \cup {Idle}] /\ supq \in Seq(SupMsg) /\ reqs \in Nat
      /\ Idle.at = "idle" /\ Idle.id = 0
  BY DEF SysInv, TypeOK, Idle
<1>h. /\ reqs' \in Nat /\ reqs' >= reqs
      /\ \A q \in Procs, i \in Nat, n \in 1..reqs :
             At(inbox'[q], job'[q], i, n) => \E j \in Nat : At(inbox[q], job[q], j, n)
  BY HandNext
\* As long as no start is made, ids need no more.
<1>1. ASSUME \A c \in Clients : client'[c] = client[c] \/ client'[c].at # "start"
      PROVE  StartIds'
  <2> SUFFICES ASSUME NEW c \in Clients, client'[c].at = "start"
               PROVE  /\ client'[c].timed = FALSE
                      /\ client'[c].id \in 1..reqs'
                      /\ \A p \in Procs, i \in Nat : ~At(inbox'[p], job'[p], i, client'[c].id)
    BY DEF StartIds
  <2>1. client'[c] = client[c]
    BY <1>1
  <2>2. /\ client[c].timed = FALSE
        /\ client[c].id \in 1..reqs
        /\ \A p \in Procs, i \in Nat : ~At(inbox[p], job[p], i, client[c].id)
    BY <2>1 DEF StartIds
  <2>3. client[c].id \in 1..reqs'
    BY <1>0, <1>h, <2>2
  <2>4. ASSUME NEW p \in Procs, NEW i \in Nat PROVE ~At(inbox'[p], job'[p], i, client[c].id)
    BY <1>h, <2>2
  <2> QED BY <2>1, <2>2, <2>3, <2>4
\* Nothing but an exit is queued, and starts are left alone.
<1>2. ASSUME sup'.serving = sup.serving,
             supq' = supq \/ supq' = Append(supq, [kind |-> "exit", serving |-> {}]),
             \A c \in Clients : client[c].at = "start" => client'[c] = client[c],
             \A c \in Clients : client'[c] = client[c] \/ client'[c].at # "start"
      PROVE  StartInv'
  <2> DEFINE m == [kind |-> "exit", serving |-> {}]
  <2>1. m \in SupMsg /\ m.serving = {}
    BY DEF SupMsg
  <2>2. supq' = supq \/ supq' = Append(supq, m)
    BY <1>2
  <2> HIDE DEF m
  <2>3. \A i \in DOMAIN supq' : (i \in DOMAIN supq /\ supq'[i] = supq[i]) \/ supq'[i] = m
    BY <1>0, <2>1, <2>2
  <2>4. ASSUME NEW c \in Clients, NEW i \in Nat, Served(sup', supq', i, c)
        PROVE  Served(sup, supq, i, c) /\ client'[c] = client[c]
    <3>1. Served(sup, supq, i, c)
      BY <1>2, <2>1, <2>3, <2>4 DEF Served
    <3> QED BY <1>2, <3>1 DEF StartWaits
  <2> QED BY <1>1, <1>2, <2>4, StartsKept
\* A start is over and its caller let go.
<1>3. ASSUME NEW C, client' = Released(C \cup sup.serving),
             \A c \in C : c \in Clients => client[c].at # "start",
             sup' = SupIdle,
             supq' = supq \/ supq' = Append(supq, [kind |-> "exit", serving |-> {}])
      PROVE  StartInv'
  <2> DEFINE m == [kind |-> "exit", serving |-> {}]
  <2>1. m \in SupMsg /\ m.serving = {}
    BY DEF SupMsg
  <2>2. supq' = supq \/ supq' = Append(supq, m)
    BY <1>3
  <2> HIDE DEF m
  <2>3. \A i \in DOMAIN supq' : (i \in DOMAIN supq /\ supq'[i] = supq[i]) \/ supq'[i] = m
    BY <1>0, <2>1, <2>2
  <2>4. \A i \in DOMAIN supq : i # 0
    BY <1>0
  <2>5. \A c \in Clients : \/ c \notin C \cup sup.serving /\ client'[c] = client[c]
                           \/ client'[c].at = "idle"
    BY <1>3, ReleasedOnly
  <2>6. ASSUME NEW c \in Clients, NEW i \in Nat, Served(sup', supq', i, c)
        PROVE  Served(sup, supq, i, c) /\ client'[c] = client[c]
    <3>1. sup'.serving = {}
      BY <1>3, PidFacts
    <3>2. i \in DOMAIN supq /\ c \in supq[i].serving
      BY <2>1, <2>3, <2>6, <3>1 DEF Served
    <3>3. Served(sup, supq, i, c) /\ i # 0
      BY <2>4, <3>2 DEF Served
    <3>4. c \notin sup.serving
      <4> SUFFICES ASSUME c \in sup.serving PROVE FALSE
        OBVIOUS
      <4>1. Served(sup, supq, 0, c)
        BY DEF Served
      <4> QED BY <3>3, <4>1 DEF StartOnce
    <3>5. c \notin C
      BY <1>3, <3>3 DEF StartWaits
    <3> QED BY <1>3, <3>3, <3>4, <3>5, ReleasedOnly
  <2>7. StartIds'
    BY <1>1, <2>5
  <2> QED BY <2>6, <2>7, StartsKept
<1>4. ASSUME NEW c \in Clients, start_supervised(c) PROVE StartInv'
  <2> DEFINE m == [kind |-> "start", serving |-> {c}]
             k == Len(supq) + 1
  <2>1. /\ UNCHANGED <<inbox, job, sup>> /\ supq' = Append(supq, m) /\ reqs' = reqs + 1
        /\ m.serving = {c} /\ m \in SupMsg /\ client[c] = Idle
        /\ \A d \in Clients : d # c => client'[d] = client[d]
        /\ client'[c].at = "start" /\ client'[c].pid = Nobody /\ client'[c].id = reqs + 1
        /\ client'[c].timed = FALSE
    BY <1>0, <1>4 DEF start_supervised, SupMsg
  <2> HIDE DEF m
  <2>2. \A i \in DOMAIN supq' : \/ i \in DOMAIN supq /\ supq'[i] = supq[i]
                                \/ i = k /\ supq'[i] = m
    BY <1>0, <2>1
  <2>3. k \in Nat \ {0}
    BY <1>0
  <2> HIDE DEF k
  <2>4. \A i \in Nat : ~Served(sup, supq, i, c)
    BY <1>0, <2>1 DEF StartWaits
  <2>5. ASSUME NEW d \in Clients, NEW i \in Nat, Served(sup', supq', i, d)
        PROVE  Served(sup, supq, i, d) \/ (d = c /\ i = k)
    BY <2>1, <2>2, <2>5 DEF Served
  <2>6. StartOnce'
    BY <2>4, <2>5 DEF StartOnce
  <2>7. StartWaits'
    BY <2>1, <2>4, <2>5 DEF StartWaits
  <2>8. \A p \in Procs, i \in Nat : ~At(inbox'[p], job'[p], i, reqs + 1)
    BY <1>0, <2>1 DEF HandInv, GivenOut
  <2>9. StartIds'
    <3> SUFFICES ASSUME NEW d \in Clients, client'[d].at = "start"
                 PROVE  /\ client'[d].timed = FALSE
                        /\ client'[d].id \in 1..reqs'
                        /\ \A p \in Procs, i \in Nat : ~At(inbox'[p], job'[p], i, client'[d].id)
      BY DEF StartIds
    <3>1. CASE d = c
      BY <1>0, <2>1, <2>8, <3>1
    <3>2. CASE d # c
      BY <1>0, <2>1, <3>2 DEF StartIds
    <3> QED BY <3>1, <3>2
  <2> QED BY <2>6, <2>7, <2>9
<1>5. ASSUME NEW serving, StartChild(serving), sup = SupIdle, supq # <<>>,
             serving = Head(supq).serving
      PROVE  StartInv'
  <2>1. /\ supq' = Tail(supq) /\ sup.serving = {}
        /\ \/ sup'.serving = serving /\ client' = client
           \/ sup'.serving = {} /\ client' = Released(serving)
    BY <1>5, PidFacts DEF StartChild, AwaitInit
  <2>2. /\ \A i \in DOMAIN supq' : /\ i \in Nat \ {0} /\ i + 1 \in DOMAIN supq
                                   /\ supq'[i] = supq[i + 1]
        /\ 1 \in DOMAIN supq /\ supq[1] = Head(supq)
    BY <1>0, <1>5, <2>1
  <2>3. ASSUME NEW c \in Clients, NEW i \in Nat, Served(sup', supq', i, c)
        PROVE  Served(sup, supq, i + 1, c) /\ client'[c] = client[c]
    <3>1. CASE i = 0 /\ c \in sup'.serving
      BY <1>5, <2>1, <2>2, <3>1 DEF Served
    <3>2. CASE i \in DOMAIN supq' /\ c \in supq'[i].serving
      <4>1. Served(sup, supq, i + 1, c) /\ i + 1 # 1 /\ i + 1 \in Nat
        BY <2>2, <3>2 DEF Served
      <4>2. c \notin serving
        <5> SUFFICES ASSUME c \in serving PROVE FALSE
          OBVIOUS
        <5>1. Served(sup, supq, 1, c)
          BY <1>5, <2>2 DEF Served
        <5> QED BY <4>1, <5>1 DEF StartOnce
      <4> QED BY <2>1, <4>1, <4>2, ReleasedOnly
    <3> QED BY <2>3, <3>1, <3>2 DEF Served
  <2>4. StartOnce'
    <3> SUFFICES ASSUME NEW c \in Clients, NEW i \in Nat, NEW j \in Nat,
                        Served(sup', supq', i, c), Served(sup', supq', j, c)
                 PROVE  i = j
      BY DEF StartOnce
    <3>1. i + 1 \in Nat /\ j + 1 \in Nat
      OBVIOUS
    <3>2. i + 1 = j + 1
      BY <2>3, <3>1 DEF StartOnce
    <3> QED BY <3>2
  <2>5. StartWaits'
    <3>1. \A i \in Nat : i + 1 \in Nat
      OBVIOUS
    <3> QED BY <2>3, <3>1 DEF StartWaits
  <2>6. \A c \in Clients : client'[c] = client[c] \/ client'[c].at = "idle"
    BY <2>1, ReleasedOnly
  <2> QED BY <1>1, <2>4, <2>5, <2>6
<1>6. CASE SupStart
  BY <1>5, <1>6 DEF SupStart, SupHandles
<1>7. CASE SupRestart
  <2>1. sup = SupIdle /\ supq # <<>> /\ Head(supq).kind = "exit" /\ StartChild({})
    BY <1>7 DEF SupRestart, SupHandles
  <2>2. 1 \in DOMAIN supq /\ Head(supq) = supq[1]
    BY <1>0, <2>1
  <2>3. Head(supq).serving = {}
    BY <2>1, <2>2 DEF CallerInv, ExitsServeNobody
  <2> QED BY <1>5, <2>1, <2>3
<1>8. CASE SupGivesUp
  <2>1. supq' = <<>> /\ sup'.serving = {} /\ \A c \in Clients : client'[c].at = "idle"
    BY <1>0, <1>8, PidFacts DEF SupGivesUp
  <2>2. \A c \in Clients, i \in Nat : ~Served(sup', supq', i, c)
    BY <2>1 DEF Served
  <2> QED BY <2>1, <2>2 DEF StartOnce, StartWaits, StartIds
<1>9. ASSUME NEW p \in Procs, Notify(p) PROVE StartInv'
  <2>1. \A c \in CallersOf(p) : c \in Clients => client[c].at # "start"
    BY DEF CallersOf
  <2>2. CASE client' = Released(CallersOf(p) \cup sup.serving) /\ sup' = SupIdle
    BY <1>3, <1>9, <2>1, <2>2 DEF Notify
  <2>3. CASE client' = Released(CallersOf(p)) /\ sup' = sup
    <3>1. \A c \in Clients : \/ c \notin CallersOf(p) /\ client'[c] = client[c]
                             \/ c \in CallersOf(p) /\ client'[c].at = "idle"
      BY <2>3, ReleasedOnly
    <3> QED BY <1>2, <1>9, <2>1, <2>3, <3>1 DEF Notify
  <2> QED BY <1>9, <2>2, <2>3 DEF Notify
<1>10. ASSUME NEW p \in Procs, Reply(p), UNCHANGED <<sup, supq>>
       PROVE  StartInv'
  <2>1. \A c \in Clients : client'[c] = client[c] \/ (client[c].id = job[p].id /\ client'[c].at = "idle")
    BY <1>10, ReleasedOnly DEF Reply
  <2>2. \A c \in Clients : client[c].at = "start" => client[c].id # job[p].id
    BY DEF StartIds, At
  <2> QED BY <1>2, <1>10, <2>1, <2>2
<1>11. ASSUME UNCHANGED <<sup, supq>>,
              \A c \in Clients : client[c].at = "start" => client'[c] = client[c],
              \A c \in Clients : client'[c] = client[c] \/ client'[c].at # "start"
       PROVE  StartInv'
  BY <1>2, <1>11
<1>12. ASSUME NEW c \in Clients, CallTimeout(c) PROVE StartInv'
  <2>1. UNCHANGED <<sup, supq>> /\ client[c].timed = TRUE /\ \A d \in Clients : d # c => client'[d] = client[d]
    BY <1>12 DEF CallTimeout, SysInv, TypeOK, Wait, Idle
  <2>2. client'[c].at = "idle"
    BY <1>0, <1>12 DEF CallTimeout
  <2>3. client[c].at # "start"
    BY <2>1 DEF StartIds
  <2> QED BY <1>11, <2>1, <2>2, <2>3
<1>13. ASSUME NEW c \in Clients, NEW p \in Procs, eval(c, p) \/ call(c, p) \/ cast(c, p)
       PROVE  StartInv'
  <2>1. UNCHANGED <<sup, supq>> /\ client[c] = Idle
    BY <1>13 DEF eval, call, cast, Post
  <2>2. /\ \A d \in Clients : d # c => client'[d] = client[d]
        /\ client'[c] = client[c] \/ client'[c].at \in {"eval", "js_call"}
    BY <1>0, <1>13 DEF eval, call, cast, AwaitReply
  <2> QED BY <1>0, <1>11, <2>1, <2>2
<1>14. CASE WindowSlides \/ AppRestartsSup \/ UNCHANGED vars
  <2>1. sup'.serving = sup.serving /\ UNCHANGED <<client, supq>>
    BY <1>14, PidFacts DEF WindowSlides, AppRestartsSup, vars
  <2> QED BY <1>2, <2>1
<1>15. ASSUME NEW p \in Procs, TakeRequest(p) \/ HostCall(p) PROVE StartInv'
  BY <1>11, <1>15 DEF TakeRequest, HostCall
<1>16. ASSUME NEW t \in Threads, NEW p \in Procs,
              \/ Schedule(t, p) \/ OrphanReturns(t, p) \/ CastResult(t, p)
       PROVE  StartInv'
  <2>1. UNCHANGED <<client, sup, supq>>
    BY <1>16 DEF Schedule, OrphanReturns, CastResult
  <2> QED BY <1>11, <2>1
<1>17. ASSUME NEW p \in Procs, Kill(p) \/ (\E t \in Threads : Fails(t, p)) PROVE StartInv'
  BY <1>9, <1>17 DEF Kill, Fails
<1>18. ASSUME NEW t \in Threads, NEW p \in Procs,
              SetReturns(t, p) \/ EvalReply(t, p) \/ CallResult(t, p)
       PROVE  StartInv'
  <2>1. UNCHANGED <<sup, supq>> /\ (Reply(p) \/ UNCHANGED client)
    BY <1>18 DEF SetReturns, EvalReply, CallResult
  <2> QED BY <1>10, <1>11, <2>1
<1>19. ASSUME NEW t \in Threads, NEW p \in Procs, InitOk(t, p) PROVE StartInv'
  <2> DEFINE C == {}
  <2>1. client' = Released(C \cup sup.serving) /\ sup' = SupIdle /\ supq' = supq
    BY <1>19 DEF InitOk, Released
  <2>2. \A c \in C : c \in Clients => client[c].at # "start"
    OBVIOUS
  <2> HIDE DEF C
  <2> QED BY <1>3, <2>1, <2>2
<1> QED
  BY <1>4, <1>6, <1>7, <1>8, <1>12, <1>13, <1>14, <1>15, <1>16, <1>17, <1>18, <1>19
  DEF Next, SupStep, NifReturns

-----------------------------------------------------------------------------
(* Who is let go.                                                          *)

\* The step of OwnAnswerOnly.
LEMMA LetGo ==
    ASSUME SysInv, CallerInv, HandInv, StartInv, Next,
           NEW c \in Clients, NEW p \in Procs, NEW n \in 1..MaxReqs,
           client[c].pid = p, client[c].id = n, client'[c] # client[c]
    PROVE  \/ ~InHand(p, n)'
           \/ client[c].timed /\ UNCHANGED <<status, job, inbox>>
<1>0. /\ n \in Nat /\ n > 0 /\ client[c] # Idle /\ Idle.id = 0 /\ NoJob.id = 0
      /\ supq \in Seq(SupMsg) /\ inbox \in [Procs -> Seq(Request)]
      /\ client \in [Clients -> Wait \cup {Idle}]
      /\ job \in [Procs -> Job \cup {NoJob}] /\ DOMAIN <<>> = {}
  BY SystemAssumption DEF SysInv, TypeOK, Idle, NoJob
<1>1. /\ c \notin sup.serving
      /\ \A i \in DOMAIN supq : c \notin supq[i].serving
  BY <1>0, PidFacts, ServedFacts
<1>2. ASSUME inbox'[p] = <<>>, job'[p] = NoJob
      PROVE  ~InHand(p, n)'
  BY <1>0, <1>2 DEF InHand
<1>3. ASSUME NEW d \in Clients, start_supervised(d) PROVE FALSE
  BY <1>0, <1>3 DEF start_supervised
<1>4. ASSUME NEW d \in Clients, CallTimeout(d)
      PROVE  client[c].timed /\ UNCHANGED <<status, job, inbox>>
  BY <1>0, <1>4 DEF CallTimeout
<1>5. ASSUME NEW d \in Clients, NEW q \in Procs, eval(d, q) \/ call(d, q) \/ cast(d, q)
      PROVE  FALSE
  <2>1. client[d] = Idle
    BY <1>5 DEF eval, call, cast, Post
  <2>2. \A e \in Clients : e # d => client'[e] = client[e]
    BY <1>0, <1>5 DEF eval, call, cast, AwaitReply
  <2> QED BY <1>0, <2>1, <2>2
<1>6. ASSUME NEW C, client' = Released(C) PROVE c \in C
  BY <1>6, ReleasedOnly
<1>7. ASSUME NEW serving, StartChild(serving), supq # <<>>,
             serving = Head(supq).serving \/ serving = {}
      PROVE  FALSE
  <2>1. 1 \in DOMAIN supq /\ Head(supq) = supq[1]
    BY <1>0, <1>7
  <2>2. c \notin serving
    BY <1>1, <1>7, <2>1
  <2>3. client' = client \/ client' = Released(serving)
    BY <1>7 DEF StartChild, AwaitInit
  <2> QED BY <1>6, <2>2, <2>3
<1>8. CASE SupStart \/ SupRestart
  BY <1>7, <1>8 DEF SupStart, SupRestart, SupHandles
<1>9. CASE SupGivesUp
  <2>1. inbox'[p] = <<>> /\ job'[p] = NoJob
    BY <1>9 DEF SupGivesUp, Gone, HandInv, IdleHands
  <2> QED BY <1>2, <2>1
<1>10. ASSUME NEW q \in Procs, NEW m, Gone({q}, m), Notify(q) PROVE ~InHand(p, n)'
  <2>1. c \in CallersOf(q) \/ c \in sup.serving
    BY <1>6, <1>10 DEF Notify
  <2>2. p = q
    BY <1>1, <2>1 DEF CallersOf
  <2>3. inbox'[p] = <<>> /\ job'[p] = NoJob
    BY <1>10, <2>2 DEF Gone
  <2> QED BY <1>2, <2>3
<1>11. ASSUME NEW q \in Procs, BackToLoop(q), Reply(q), UNCHANGED inbox
       PROVE  ~InHand(p, n)'
  <2>1. job[q].id = n
    BY <1>6, <1>11 DEF Reply
  <2>2. job'[q] = NoJob /\ \A r \in Procs : r # q => job'[r] = job[r]
    BY <1>0, <1>11 DEF BackToLoop
  <2>3. \A r \in Procs, i \in Nat : At(inbox[r], job[r], i, n) => r = q /\ i = 0
    BY <1>0, <2>1 DEF HandInv, OneHand, At
  <2>4. \A i \in DOMAIN inbox[p] : i \in Nat /\ i # 0
    BY <1>0
  <2>5. \A i \in DOMAIN inbox[p] : inbox[p][i].id # n
    BY <2>3, <2>4 DEF At
  <2>6. p # q => job[p].id # n
    BY <2>3 DEF At
  <2> QED BY <1>0, <1>11, <2>2, <2>5, <2>6 DEF InHand
<1>12. ASSUME NEW t \in Threads, NEW q \in Procs,
              SetReturns(t, q) \/ EvalReply(t, q) \/ CallResult(t, q)
       PROVE  ~InHand(p, n)'
  <2>1. UNCHANGED inbox /\ ((BackToLoop(q) /\ Reply(q)) \/ UNCHANGED client)
    BY <1>12 DEF SetReturns, EvalReply, CallResult
  <2> QED BY <1>11, <2>1
<1>13. ASSUME NEW t \in Threads, NEW q \in Procs, InitOk(t, q) PROVE FALSE
  <2>1. client' = Released(sup.serving)
    BY <1>13 DEF InitOk
  <2> QED BY <1>1, <1>6, <2>1
<1>14. ASSUME NEW q \in Procs, Kill(q) \/ (\E t \in Threads : Fails(t, q)) PROVE ~InHand(p, n)'
  BY <1>10, <1>14 DEF Kill, Fails
<1>15. ASSUME UNCHANGED client PROVE FALSE
  BY <1>15
<1>16. ASSUME \/ WindowSlides \/ AppRestartsSup
              \/ \E q \in Procs : TakeRequest(q) \/ HostCall(q)
              \/ \E t \in Threads, q \in Procs : Schedule(t, q) \/ OrphanReturns(t, q) \/ CastResult(t, q)
       PROVE  FALSE
  BY <1>15, <1>16 DEF WindowSlides, AppRestartsSup, TakeRequest, HostCall, Schedule, OrphanReturns,
                      CastResult
<1> QED
  BY <1>3, <1>4, <1>5, <1>8, <1>9, <1>12, <1>13, <1>14, <1>16 DEF Next, SupStep, NifReturns

\* In every reachable state a request is in one hand, and so is a start.
LEMMA HandsInvariant == Spec => [](HandInv /\ StartInv)
<1>1. Init => HandInv /\ StartInv
  <2> SUFFICES ASSUME Init PROVE HandInv /\ StartInv
    OBVIOUS
  <2>1. /\ \A p \in Procs : inbox[p] = <<>> /\ job[p] = NoJob
        /\ NoJob.id = 0 /\ reqs = 0 /\ DOMAIN <<>> = {} /\ supq = <<>> /\ sup.serving = {}
        /\ \A c \in Clients : client[c].at = "idle"
    BY PidFacts DEF Init, NoJob, Idle
  <2>2. \A p \in Procs, i, n \in Nat : At(inbox[p], job[p], i, n) => n = 0
    BY <2>1 DEF At
  <2>3. \A c \in Clients, i \in Nat : ~Served(sup, supq, i, c)
    BY <2>1 DEF Served
  <2>4. HandInv
    BY <2>1, <2>2 DEF HandInv, OneHand, GivenOut, IdleHands
  <2> QED BY <2>1, <2>3, <2>4 DEF StartInv, StartOnce, StartWaits, StartIds
<1>2. SysInv /\ CallerInv /\ (HandInv /\ StartInv) /\ [Next]_vars => (HandInv /\ StartInv)'
  BY HandNext, StartNext
<1> QED BY <1>1, <1>2, SysInvariant, CallersInHand, PTL DEF Spec

\* However calls time out, late answers come and processes die, a caller of
\* eval or call is let go by the answer to its own request, by the end of
\* the process it called, or by its own timeout.
THEOREM AnswersReachTheirCallers == Spec => OwnAnswerOnly
<1>1. SysInv /\ CallerInv /\ (HandInv /\ StartInv) /\ [Next]_vars =>
        [\A c \in Clients, p \in Procs, n \in 1..MaxReqs :
            /\ client[c].pid = p /\ client[c].id = n
            /\ client'[c] # client[c]
            => \/ ~InHand(p, n)'
               \/ client[c].timed /\ UNCHANGED <<status, job, inbox>>]_vars
  BY LetGo
<1> QED BY <1>1, SysInvariant, CallersInHand, HandsInvariant, PTL DEF Spec, OwnAnswerOnly
=============================================================================
