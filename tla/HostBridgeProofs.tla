-------------------------- MODULE HostBridgeProofs --------------------------
(***************************************************************************)
(* Proofs about HostBridge, for every set of host functions, every bound   *)
(* and either relation of Owner and caller.                                *)
(***************************************************************************)
EXTENDS HostBridge, TLAPS

-----------------------------------------------------------------------------
(* Types.                                                                  *)

\* Taking the next message off the owner's queue leaves a queue.
LEMMA QueueTail ==
    ASSUME NEW S, NEW q \in Seq(S), q # <<>>
    PROVE  Head(q) \in S /\ Tail(q) \in Seq(S)
  OBVIOUS

\* The queues of a process that has just started or has ended.
LEMMA EmptyQueues ==
    <<>> \in Seq(Message) /\ <<>> \in Seq(Nat) /\ <<>> \in Seq(Frame) /\ 0 \in Nat
  OBVIOUS

\* Posting a message to a queue leaves a queue.
LEMMA AppendType ==
    ASSUME NEW S, NEW q \in Seq(S), NEW e \in S
    PROVE  Append(q, e) \in Seq(S)
  OBVIOUS

\* A frame stays one when it moves on.
LEMMA FrameMoves ==
    ASSUME NEW f \in Frame \cup {NoFrame}, f.at # "none",
           NEW a \in {"test", "sleep", "wake"}
    PROVE  /\ f \in Frame
           /\ [f EXCEPT !.at = a] \in Frame
           /\ [f EXCEPT !.at = a].at = a
           /\ [f EXCEPT !.at = a].id = f.id
           /\ [f EXCEPT !.at = a] # NoFrame
<1>1. f \in Frame
  BY DEF NoFrame
<1>2. [f EXCEPT !.at = a].at = a
  BY <1>1 DEF Frame
<1>3. [f EXCEPT !.at = a] # NoFrame
  BY <1>2 DEF NoFrame
<1> QED BY <1>1, <1>2, <1>3 DEF Frame

\* Every step of the thread that runs JavaScript keeps the types.
LEMMA JsTypes ==
    ASSUME TypeOK, JsStep
    PROVE  TypeOK'
<1> USE BridgeAssumption DEF TypeOK, jsVars, replyVars, ownerVars
<1>1. CASE BeginEval
  BY <1>1 DEF BeginEval, OwnerStates
<1>2. CASE EndEval
  BY <1>2 DEF EndEval, OwnerStates
<1>3. ASSUME NEW fn \in FnClasses \cup {"load"}, NEW kind \in Requests, Enter(fn, kind)
      PROVE  TypeOK'
  <2>1. [kind |-> kind, fn |-> fn, n |-> calls + 1] \in Message
    BY <1>3 DEF Message, Requests
  <2>2. [fn |-> fn, id |-> calls + 1, at |-> "lock"] \in Frame
    BY <1>3 DEF Frame
  <2>3. inbox' \in Seq(Message) /\ cur' \in Frame \cup {NoFrame}
    <3>1. CASE alive
      BY <1>3, <2>1, <2>2, <3>1, AppendType DEF Enter
    <3>2. CASE ~alive
      BY <1>3, <3>2 DEF Enter
    <3> QED BY <3>1, <3>2
  <2>4. calls' \in Nat
    BY <1>3 DEF Enter
  <2> QED BY <1>3, <2>3, <2>4 DEF Enter
<1>4. CASE \E fn \in HostFns : host_call_generic(fn)
  BY <1>3, <1>4 DEF host_call_generic, Requests
<1>5. CASE beamjs_module_loader
  BY <1>3, <1>5 DEF beamjs_module_loader, Requests
<1>6. CASE MutexLock
  <2>1. cur' \in Frame
    BY <1>6, FrameMoves DEF MutexLock
  <2> QED BY <1>6, <2>1 DEF MutexLock
<1>7. CASE CondWait
  <2>1. cur' \in Frame
    BY <1>7, FrameMoves DEF CondWait
  <2> QED BY <1>7, <2>1 DEF CondWait
<1>8. CASE SpuriousWakeup
  <2>1. cur' \in Frame
    BY <1>8, FrameMoves DEF SpuriousWakeup
  <2> QED BY <1>8, <2>1 DEF SpuriousWakeup
<1>9. CASE TakeReply
  <2>1. reply.n \in Nat
    BY DEF Reply, NoReply
  <2>2. received' \in Seq(Nat)
    BY <1>9, <2>1 DEF TakeReply
  <2>3. done' \in Nat
    BY <1>9 DEF TakeReply
  <2> QED BY <1>9, <2>2, <2>3 DEF TakeReply, ClearReply
<1>10. CASE LoaderReply
  <2>1. cur \in Frame
    BY <1>10 DEF LoaderReply, NoFrame
  <2>2. CASE reply.what = "source"
    <3>1. outer' \in Seq(Frame)
      BY <1>10, <2>1, <2>2, AppendType DEF LoaderReply
    <3> QED BY <1>10, <2>2, <3>1 DEF LoaderReply
  <2>3. CASE reply.what # "source"
    <3>1. done' \in Nat
      BY <1>10, <2>3 DEF LoaderReply
    <3> QED BY <1>10, <2>3, <3>1 DEF LoaderReply, ClearReply
  <2> QED BY <2>2, <2>3
<1>11. CASE LoaderDone
  <2>1. SubSeq(outer, 1, Len(outer) - 1) \in Seq(Frame)
    BY <1>11 DEF LoaderDone
  <2>2. done' \in Nat
    BY <1>11 DEF LoaderDone
  <2> QED BY <1>11, <2>1, <2>2 DEF LoaderDone, ClearReply
<1> QED BY <1>1, <1>2, <1>4, <1>5, <1>6, <1>7, <1>8, <1>9, <1>10, <1>11 DEF JsStep

\* Every step of the owner and of the processes around it keeps the types.
LEMMA OwnerTypes ==
    ASSUME TypeOK, OwnerStep \/ Kill \/ send_message \/ OtherMessage
    PROVE  TypeOK'
<1> USE BridgeAssumption DEF TypeOK, jsVars, replyVars, ownerVars, OwnerStates
<1>1. ASSUME inbox # <<>>
      PROVE  Head(inbox) \in Message /\ Tail(inbox) \in Seq(Message) /\ Head(inbox).n \in Nat
  <2>1. Head(inbox) \in Message /\ Tail(inbox) \in Seq(Message)
    BY <1>1, QueueTail
  <2> QED BY <2>1 DEF Message
<1>2. ASSUME NEW to \in Nat, NEW what \in {"value", "message", "source", "error"}, NEW n \in Nat
      PROVE  [to |-> to, what |-> what, n |-> n] \in Reply
  BY <1>2 DEF Reply
<1>3. CASE handle_js_message
  <2>1. Head(inbox).n \in Nat /\ Tail(inbox) \in Seq(Message)
    BY <1>1, <1>3 DEF handle_js_message, Take
  <2>2. CASE awaiting # 0
    <3>1. pend' \in Reply
      BY <1>2, <1>3, <2>1, <2>2 DEF handle_js_message, Deliver
    <3> QED BY <1>3, <2>1, <2>2, <3>1 DEF handle_js_message, Take, Deliver
  <2>3. CASE awaiting = 0
    <3>1. mailbox' \in Seq(Nat)
      BY <1>3, <2>1, <2>3, AppendType DEF handle_js_message
    <3> QED BY <1>3, <2>1, <2>3, <3>1 DEF handle_js_message, Take
  <2> QED BY <2>2, <2>3
<1>4. CASE handle_receive
  <2>1. Head(inbox).n \in Nat /\ Tail(inbox) \in Seq(Message)
    BY <1>1, <1>4 DEF handle_receive, Take
  <2>2. CASE mailbox # <<>>
    <3>1. Head(mailbox) \in Nat /\ Tail(mailbox) \in Seq(Nat)
      BY <2>2, QueueTail
    <3>2. pend' \in Reply
      BY <1>2, <1>4, <2>1, <2>2, <3>1 DEF handle_receive, Deliver
    <3> QED BY <1>4, <2>1, <2>2, <3>1, <3>2 DEF handle_receive, Take, Deliver
  <2>3. CASE mailbox = <<>>
    BY <1>4, <2>1, <2>3 DEF handle_receive, Take
  <2> QED BY <2>2, <2>3
<1>5. CASE handle_host_call
  <2>1. Head(inbox).n \in Nat /\ Tail(inbox) \in Seq(Message)
    BY <1>1, <1>5 DEF handle_host_call, Take
  <2>2. pend' \in Reply /\ opc' \in OwnerStates
    BY <1>2, <1>5, <2>1, 0 \in Nat
       DEF handle_host_call, dispatch_pid, dispatch_local, dispatch_spawn, Deliver
  <2> QED BY <1>5, <2>1, <2>2 DEF handle_host_call, Take
<1>6. CASE handle_load_module
  <2>1. Head(inbox).n \in Nat /\ Tail(inbox) \in Seq(Message)
    BY <1>1, <1>6 DEF handle_load_module, Take
  <2>2. pend' \in Reply /\ opc' = "deliver"
    BY <1>2, <1>6, <2>1, 0 \in Nat DEF handle_load_module, Deliver
  <2> QED BY <1>6, <2>1, <2>2 DEF handle_load_module, Take
<1>7. CASE handle_other
  <2>1. Tail(inbox) \in Seq(Message)
    BY <1>1, <1>7 DEF handle_other, Take
  <2> QED BY <1>7, <2>1 DEF handle_other, Take
<1>8. CASE SpawnDone
  BY <1>8 DEF SpawnDone
<1>9. CASE nif_deliver_host_reply
  <2>1. cur' \in Frame \cup {NoFrame}
    BY <1>9, FrameMoves DEF nif_deliver_host_reply
  <2> QED BY <1>9, <2>1 DEF nif_deliver_host_reply
<1>10. CASE dispatch_exit
  BY <1>10, EmptyQueues DEF dispatch_exit, OwnerGone
<1>11. CASE DispatchCrash
  BY <1>11, EmptyQueues DEF DispatchCrash, OwnerGone
<1>12. CASE Kill
  BY <1>12, EmptyQueues DEF Kill, OwnerGone
<1>13. CASE send_message
  <2>1. sent' \in Nat /\ [kind |-> "js_message", fn |-> "none", n |-> sent + 1] \in Message
    BY <1>13 DEF send_message, Message
  <2>2. inbox' \in Seq(Message)
    BY <1>13, <2>1, AppendType DEF send_message
  <2> QED BY <1>13, <2>1, <2>2 DEF send_message
<1>14. CASE OtherMessage
  <2>1. [kind |-> "other", fn |-> "none", n |-> 0] \in Message
    BY DEF Message
  <2>2. inbox' \in Seq(Message)
    BY <1>14, <2>1, AppendType DEF OtherMessage
  <2> QED BY <1>14, <2>2 DEF OtherMessage
<1> QED
  BY <1>3, <1>4, <1>5, <1>6, <1>7, <1>8, <1>9, <1>10, <1>11, <1>12, <1>13, <1>14
     DEF OwnerStep

\* The state of the bridge keeps its types: frames, answers and messages are
\* well formed in every reachable state.
THEOREM TypeCorrect == Spec => []TypeOK
<1>1. Init => TypeOK
  BY EmptyQueues DEF Init, TypeOK, OwnerStates
<1>2. TypeOK /\ [Next]_vars => TypeOK'
  <2>1. CASE Next
    BY <2>1, JsTypes, OwnerTypes DEF Next
  <2>2. CASE UNCHANGED vars
    BY <2>2 DEF vars, TypeOK
  <2> QED BY <2>1, <2>2
<1> QED BY <1>1, <1>2, PTL DEF Spec
-----------------------------------------------------------------------------
(* One request at a time.  Over its life a request is a message in the     *)
(* owner's queue, then a receive that waits or an answer the owner is      *)
(* working on, then the answer in host_reply; the invariant says that it   *)
(* is in one of these places only and belongs to the call in progress.     *)
(* While a module is being evaluated its answer stays in host_reply, read  *)
(* but not cleared, so it does not count.                                  *)

Answering == opc \in {"spawn", "deliver"}
Delivered == ready /\ outer = <<>>

\* The requests in the owner's queue.
OneQueued ==
    \A i \in DOMAIN inbox : inbox[i].kind \in Requests =>
        /\ cur # NoFrame /\ inbox[i].n = cur.id
        /\ awaiting = 0 /\ ~Answering /\ ~Delivered
        /\ \A j \in DOMAIN inbox : inbox[j].kind \in Requests => j = i

\* The requests the owner has taken.
OneTaken ==
    /\ awaiting # 0 => cur # NoFrame /\ awaiting = cur.id /\ ~Answering /\ ~Delivered
    /\ Answering => cur # NoFrame /\ pend.to = cur.id /\ ~Delivered
    /\ Delivered => cur # NoFrame /\ reply.to = cur.id

\* Who holds the mutex, and where the thread can be.
LockShape ==
    /\ outer # <<>> => /\ Len(outer) = 1 /\ lock = "js" /\ ready
                       /\ cur # NoFrame => cur.at = "lock"
    /\ cur.at = "test" => lock = "js"
    /\ lock = "js" => cur.at = "test" \/ outer # <<>>
    /\ js = "idle" => cur = NoFrame

\* A freed context leaves the thread waiting for an answer that cannot come.
FreedShape ==
    ctx = "freed" => ~alive /\ cur # NoFrame /\ ~Delivered

IInv == TypeOK /\ OneQueued /\ OneTaken /\ LockShape /\ FreedShape

\* How the elements of a queue are numbered after a message is taken.
LEMMA TailElements ==
    ASSUME NEW S, NEW q \in Seq(S), q # <<>>
    PROVE  /\ 1 \in DOMAIN q /\ q[1] = Head(q)
           /\ \A i \in DOMAIN Tail(q) : i + 1 \in DOMAIN q /\ Tail(q)[i] = q[i + 1] /\ i + 1 # 1
  OBVIOUS

\* How the elements of a queue are numbered after a message is posted.
LEMMA AppendElements ==
    ASSUME NEW S, NEW q \in Seq(S), NEW e \in S
    PROVE  \A i \in DOMAIN Append(q, e) :
              \/ i \in DOMAIN q /\ Append(q, e)[i] = q[i]
              \/ i = Len(q) + 1 /\ Append(q, e)[i] = e
  OBVIOUS

\* The steps of the thread keep the invariant.
LEMMA JsKeepsIInv ==
    ASSUME IInv, JsStep
    PROVE  OneQueued' /\ OneTaken' /\ LockShape' /\ FreedShape'
<1> USE DEF IInv, OneQueued, OneTaken, LockShape, FreedShape, Answering, Delivered,
            jsVars, replyVars, ownerVars
<1>0. cur \in Frame \cup {NoFrame} /\ NoFrame.at = "none" /\ (cur.at # "none" => cur # NoFrame)
  BY DEF TypeOK, NoFrame
<1>1. CASE BeginEval
  BY <1>1 DEF BeginEval
<1>2. CASE EndEval
  BY <1>2 DEF EndEval
<1>3. ASSUME NEW fn \in FnClasses \cup {"load"}, NEW kind \in Requests, Enter(fn, kind)
      PROVE  OneQueued' /\ OneTaken' /\ LockShape' /\ FreedShape'
  <2>1. cur = NoFrame /\ awaiting = 0 /\ ~Answering /\ ~Delivered
    BY <1>3 DEF Enter
  <2>2. CASE alive
    <3> DEFINE e == [kind |-> kind, fn |-> fn, n |-> calls + 1]
               f == [fn |-> fn, id |-> calls + 1, at |-> "lock"]
    <3>1. inbox' = Append(inbox, e) /\ cur' = f
      BY <1>3, <2>2 DEF Enter
    <3>2. f # NoFrame /\ f.at = "lock" /\ f.id = calls + 1 /\ e.n = calls + 1
      BY DEF NoFrame
    <3>3. inbox \in Seq(Message) /\ e \in Message
      BY <1>3 DEF TypeOK, Message, Requests
    <3>4. \A i \in DOMAIN inbox : inbox[i].kind \notin Requests
      BY <2>1
    <3>5. \A i \in DOMAIN inbox' : inbox'[i].kind \in Requests => i = Len(inbox) + 1 /\ inbox'[i] = e
      <4> HIDE DEF e
      <4> QED BY <3>1, <3>3, <3>4, AppendElements
    <3> HIDE DEF e, f
    <3>6. OneQueued'
      BY <1>3, <2>1, <3>1, <3>2, <3>5 DEF Enter
    <3>7. OneTaken' /\ FreedShape'
      BY <1>3, <2>1, <2>2, <3>1, <3>2 DEF Enter
    <3>8. LockShape'
      BY <1>0, <1>3, <2>1, <3>1, <3>2 DEF Enter
    <3> QED BY <3>6, <3>7, <3>8
  <2>3. CASE ~alive
    BY <1>3, <2>3 DEF Enter
  <2> QED BY <2>2, <2>3
<1>4. CASE \E fn \in HostFns : host_call_generic(fn)
  BY <1>3, <1>4, BridgeAssumption DEF host_call_generic, Requests
<1>5. CASE beamjs_module_loader
  BY <1>3, <1>5 DEF beamjs_module_loader, Requests
<1>6. CASE MutexLock
  <2>1. cur' # NoFrame /\ cur'.at = "test" /\ cur'.id = cur.id
    BY <1>0, <1>6, FrameMoves DEF MutexLock
  <2> QED BY <1>0, <1>6, <2>1 DEF MutexLock
<1>7. CASE CondWait
  <2>1. cur' # NoFrame /\ cur'.at = "sleep" /\ cur'.id = cur.id
    BY <1>0, <1>7, FrameMoves DEF CondWait
  <2> QED BY <1>0, <1>7, <2>1 DEF CondWait
<1>8. CASE SpuriousWakeup
  <2>1. cur' # NoFrame /\ cur'.at = "wake" /\ cur'.id = cur.id
    BY <1>0, <1>8, FrameMoves DEF SpuriousWakeup
  <2> QED BY <1>0, <1>8, <2>1 DEF SpuriousWakeup
<1>9. CASE TakeReply
  BY <1>0, <1>9 DEF TakeReply, ClearReply
<1>10. CASE LoaderReply
  <2>1. Delivered /\ outer = <<>> /\ lock = "js" /\ ctx = "live"
    BY <1>0, <1>10 DEF LoaderReply, TypeOK
  <2>2. awaiting = 0 /\ ~Answering /\ (\A i \in DOMAIN inbox : inbox[i].kind \notin Requests)
    BY <2>1
  <2>3. CASE reply.what = "source"
    <3>1. Len(outer') = 1 /\ outer' # <<>>
      <4>1. outer' = Append(<<>>, cur)
        BY <1>10, <2>1, <2>3 DEF LoaderReply
      <4>2. \A e : Append(<<>>, e) = <<e>> /\ Len(<<e>>) = 1 /\ <<e>> # <<>>
        OBVIOUS
      <4> QED BY <4>1, <4>2
    <3> QED BY <1>0, <1>10, <2>1, <2>2, <2>3, <3>1 DEF LoaderReply
  <2>4. CASE reply.what # "source"
    BY <1>0, <1>10, <2>1, <2>2, <2>4 DEF LoaderReply, ClearReply
  <2> QED BY <2>3, <2>4
<1>11. CASE LoaderDone
  <2>1. outer' = <<>>
    <3>1. outer \in Seq(Frame) /\ Len(outer) = 1 /\ outer' = SubSeq(outer, 1, Len(outer) - 1)
      BY <1>11 DEF LoaderDone, TypeOK
    <3> QED BY <3>1
  <2> QED BY <1>0, <1>11, <2>1 DEF LoaderDone, ClearReply
<1> QED BY <1>1, <1>2, <1>4, <1>5, <1>6, <1>7, <1>8, <1>9, <1>10, <1>11 DEF JsStep

\* The steps of the owner and of the processes around it keep the invariant.
LEMMA OwnerKeepsIInv ==
    ASSUME IInv, OwnerStep \/ Kill \/ send_message \/ OtherMessage
    PROVE  OneQueued' /\ OneTaken' /\ LockShape' /\ FreedShape'
<1> USE DEF IInv, OneQueued, OneTaken, LockShape, FreedShape, Answering, Delivered,
            jsVars, replyVars, ownerVars
<1>0. /\ cur \in Frame \cup {NoFrame} /\ NoFrame.at = "none" /\ (cur.at # "none" => cur # NoFrame)
      /\ inbox \in Seq(Message)
  BY DEF TypeOK, NoFrame
\* A handler that takes a request leaves none in the queue.
<1>1. ASSUME NEW kind \in Requests, Take(kind)
      PROVE  /\ \A i \in DOMAIN inbox' : inbox'[i].kind \notin Requests
             /\ cur # NoFrame /\ Head(inbox).n = cur.id
             /\ awaiting = 0 /\ ~Answering /\ ~Delivered /\ ctx # "freed"
  <2>1. 1 \in DOMAIN inbox /\ inbox[1].kind \in Requests /\ inbox[1] = Head(inbox)
    BY <1>0, <1>1, TailElements DEF Take
  <2>2. \A i \in DOMAIN inbox' : i + 1 \in DOMAIN inbox /\ inbox'[i] = inbox[i + 1] /\ i + 1 # 1
    BY <1>0, <1>1, TailElements DEF Take
  <2>3. \A i \in DOMAIN inbox' : inbox'[i].kind \notin Requests
    BY <2>1, <2>2
  <2> QED BY <1>1, <2>1, <2>3 DEF Take
\* A handler that takes another message leaves the requests in the queue.
<1>2. ASSUME NEW kind, kind \notin Requests, Take(kind)
      PROVE  /\ \A i \in DOMAIN inbox' : inbox'[i].kind \in Requests =>
                    /\ cur # NoFrame /\ inbox'[i].n = cur.id
                    /\ awaiting = 0 /\ ~Answering /\ ~Delivered
                    /\ \A j \in DOMAIN inbox' : inbox'[j].kind \in Requests => j = i
             /\ ctx # "freed"
  <2>1. \A i \in DOMAIN inbox' : i \in Nat /\ i + 1 \in DOMAIN inbox /\ inbox'[i] = inbox[i + 1]
    BY <1>0, <1>2, TailElements DEF Take
  <2>2. ASSUME NEW i \in DOMAIN inbox', inbox'[i].kind \in Requests
        PROVE  /\ cur # NoFrame /\ inbox'[i].n = cur.id
               /\ awaiting = 0 /\ ~Answering /\ ~Delivered
    BY <2>1, <2>2
  <2>3. ASSUME NEW i \in DOMAIN inbox', NEW j \in DOMAIN inbox',
               inbox'[i].kind \in Requests, inbox'[j].kind \in Requests
        PROVE  j = i
    <3>1. i + 1 = j + 1
      BY <2>1, <2>3
    <3> QED BY <2>1, <3>1
  <2> QED BY <1>2, <2>2, <2>3 DEF Take
<1>3. CASE handle_js_message
  <2>1. Take("js_message") /\ "js_message" \notin Requests
    BY <1>3 DEF handle_js_message, Requests
  <2>2. CASE awaiting # 0
    BY <1>2, <1>3, <2>1, <2>2 DEF handle_js_message, Deliver
  <2>3. CASE awaiting = 0
    BY <1>2, <1>3, <2>1, <2>3 DEF handle_js_message
  <2> QED BY <2>2, <2>3
<1>4. CASE handle_receive
  <2>1. Take("host_call") /\ "host_call" \in Requests
    BY <1>4 DEF handle_receive, Requests
  <2>2. CASE mailbox # <<>>
    BY <1>1, <1>4, <2>1, <2>2 DEF handle_receive, Deliver
  <2>3. CASE mailbox = <<>>
    BY <1>1, <1>4, <2>1, <2>3 DEF handle_receive
  <2> QED BY <2>2, <2>3
<1>5. CASE handle_host_call
  <2>1. Take("host_call") /\ "host_call" \in Requests
    BY <1>5 DEF handle_host_call, Requests
  <2>2. pend'.to = Head(inbox).n /\ opc' \in {"spawn", "deliver"}
    BY <1>5 DEF handle_host_call, dispatch_pid, dispatch_local, dispatch_spawn, Deliver
  <2> QED BY <1>1, <1>5, <2>1, <2>2 DEF handle_host_call
<1>6. CASE handle_load_module
  <2>1. Take("load_module") /\ "load_module" \in Requests
    BY <1>6 DEF handle_load_module, Requests
  <2>2. pend'.to = Head(inbox).n /\ opc' \in {"spawn", "deliver"}
    BY <1>6 DEF handle_load_module, Deliver
  <2> QED BY <1>1, <1>6, <2>1, <2>2 DEF handle_load_module
<1>7. CASE handle_other
  <2>1. Take("other") /\ "other" \notin Requests
    BY <1>7 DEF handle_other, Requests
  <2> QED BY <1>2, <1>7, <2>1 DEF handle_other
<1>8. CASE SpawnDone
  BY <1>8 DEF SpawnDone
<1>9. CASE nif_deliver_host_reply
  <2>1. /\ cur' # NoFrame /\ cur'.id = cur.id
        /\ cur'.at = IF cur.at = "sleep" THEN "wake" ELSE cur.at
    <3>1. CASE cur.at = "sleep"
      BY <1>0, <1>9, <3>1, FrameMoves DEF nif_deliver_host_reply
    <3>2. CASE cur.at # "sleep"
      BY <1>0, <1>9, <3>2 DEF nif_deliver_host_reply
    <3> QED BY <3>1, <3>2
  <2>2. outer = <<>> /\ cur.at # "test"
    BY <1>9 DEF nif_deliver_host_reply
  <2>3. awaiting = 0 /\ (\A i \in DOMAIN inbox : inbox[i].kind \notin Requests)
    BY <1>9 DEF nif_deliver_host_reply
  <2> QED BY <1>0, <1>9, <2>1, <2>2, <2>3 DEF nif_deliver_host_reply
\* The end of the owner empties the queue.
<1>10. ASSUME OwnerGone
       PROVE  /\ \A i \in DOMAIN inbox' : inbox'[i].kind \notin Requests
              /\ awaiting' = 0 /\ ~Answering' /\ ~alive'
  BY <1>10 DEF OwnerGone
<1>11. CASE dispatch_exit
  BY <1>10, <1>11 DEF dispatch_exit
<1>12. CASE DispatchCrash
  <2>1. 1 \in DOMAIN inbox /\ inbox[1].kind \in Requests
    BY <1>0, <1>12, TailElements DEF DispatchCrash, Requests
  <2>2. cur # NoFrame /\ ~Delivered
    BY <2>1
  <2> QED BY <1>10, <1>12, <2>2 DEF DispatchCrash
<1>13. CASE Kill
  BY <1>10, <1>13 DEF Kill
\* A message that is not a request changes nothing for the requests.
<1>14. ASSUME NEW e \in Message, e.kind \notin Requests, inbox' = Append(inbox, e)
       PROVE  /\ \A i \in DOMAIN inbox' : inbox'[i].kind \in Requests =>
                     i \in DOMAIN inbox /\ inbox'[i] = inbox[i]
  BY <1>0, <1>14, AppendElements
<1>15. CASE send_message
  <2> DEFINE e == [kind |-> "js_message", fn |-> "none", n |-> sent + 1]
  <2>1. e \in Message /\ e.kind \notin Requests
    BY DEF Message, Requests, TypeOK
  <2>2. inbox' = Append(inbox, e)
    BY <1>15 DEF send_message
  <2> HIDE DEF e
  <2> QED BY <1>14, <1>15, <2>1, <2>2 DEF send_message
<1>16. CASE OtherMessage
  <2> DEFINE e == [kind |-> "other", fn |-> "none", n |-> 0]
  <2>1. e \in Message /\ e.kind \notin Requests
    BY DEF Message, Requests
  <2>2. inbox' = Append(inbox, e)
    BY <1>16 DEF OtherMessage
  <2> HIDE DEF e
  <2> QED BY <1>14, <1>16, <2>1, <2>2 DEF OtherMessage
<1> QED
  BY <1>3, <1>4, <1>5, <1>6, <1>7, <1>8, <1>9, <1>11, <1>12, <1>13, <1>15, <1>16
     DEF OwnerStep

\* The inductive invariant holds in every reachable state.
THEOREM OneRequestAtATime == Spec => []IInv
<1>1. Init => IInv
  <2>1. Init => TypeOK
    BY EmptyQueues DEF Init, TypeOK, OwnerStates
  <2>2. Init => OneQueued /\ OneTaken /\ LockShape /\ FreedShape
    BY DEF Init, OneQueued, OneTaken, LockShape, FreedShape, Answering, Delivered, NoFrame
  <2> QED BY <2>1, <2>2 DEF IInv
<1>2. IInv /\ [Next]_vars => IInv'
  <2> SUFFICES ASSUME IInv, [Next]_vars
               PROVE  IInv'
    OBVIOUS
  <2>1. CASE Next
    <3>1. TypeOK'
      BY <2>1, JsTypes, OwnerTypes DEF Next, IInv
    <3>2. OneQueued' /\ OneTaken' /\ LockShape' /\ FreedShape'
      BY <2>1, JsKeepsIInv, OwnerKeepsIInv DEF Next
    <3> QED BY <3>1, <3>2 DEF IInv
  <2>2. CASE UNCHANGED vars
    BY <2>2 DEF vars, IInv, TypeOK, OneQueued, OneTaken, LockShape, FreedShape,
                Answering, Delivered
  <2> QED BY <2>1, <2>2
<1> QED BY <1>1, <1>2, PTL DEF Spec

\* host_call_generic and the module loader never read the answer to another
\* request, although host_reply does not say which request it answers.
THEOREM RepliesMatch == Spec => []NoStaleReply
<1>1. IInv => NoStaleReply
  BY DEF IInv, OneTaken, LockShape, Delivered, NoStaleReply, NoFrame
<1> QED BY <1>1, OneRequestAtATime, PTL

\* deliver_host_reply never overwrites an answer that has not been read.
THEOREM NoReplyOverwritten == Spec => NeverOverwrites
<1>1. IInv /\ [Next]_vars => [reply' # reply /\ reply' # NoReply => ~ready]_vars
  <2> SUFFICES ASSUME IInv, Next, reply' # reply, reply' # NoReply
               PROVE  ~ready
    BY DEF vars
  <2>1. nif_deliver_host_reply
    BY DEF Next, JsStep, OwnerStep, BeginEval, EndEval, host_call_generic,
           beamjs_module_loader, Enter, MutexLock, CondWait, SpuriousWakeup,
           TakeReply, LoaderReply, LoaderDone, ClearReply, handle_js_message,
           handle_receive, handle_host_call, handle_load_module, handle_other,
           SpawnDone, dispatch_exit, DispatchCrash, Kill, send_message,
           OtherMessage, replyVars
  <2> QED BY <2>1 DEF nif_deliver_host_reply, IInv, OneTaken, LockShape,
                      Answering, Delivered
<1> QED BY <1>1, OneRequestAtATime, PTL DEF Spec, NeverOverwrites

\* When terminate has freed the context of a crashed owner, no JavaScript
\* runs in it any more.
THEOREM FreedContextUnused == Spec => []NoRunInFreedContext
<1>1. IInv => NoRunInFreedContext
  BY DEF IInv, FreedShape, LockShape, Delivered, NoRunInFreedContext
<1> QED BY <1>1, OneRequestAtATime, PTL

\* A request made while a module is evaluated never gets the mutex.
THEOREM NestedRequestsBlock == Spec => []NestedRequestBlocked
<1>1. IInv => NestedRequestBlocked
  BY DEF IInv, LockShape, NestedRequestBlocked
<1> QED BY <1>1, OneRequestAtATime, PTL

-----------------------------------------------------------------------------
(* The owner evaluates in its own context.                                 *)

\* While JavaScript runs, a living owner is inside the NIF; in its loop it
\* therefore never finds a request, and nothing is ever delivered.
SelfInv ==
    caller = Owner =>
        /\ done = 0 /\ ~ready /\ outer = <<>> /\ awaiting = 0
        /\ opc \in {"loop", "in_nif"}
        /\ opc = "loop" /\ alive => js = "idle"

\* A process that evaluates JavaScript in a context it owns, which is what
\* init, handle_call, handle_cast, eval_sync, tasks and the REPL do, never
\* gets the answer to a host call or to an import.
THEOREM SelfCallsBlock == Spec => []SelfCallNeverReturns
<1>1. Init => SelfInv
  BY DEF Init, SelfInv
<1>2. IInv /\ SelfInv /\ [Next]_vars => SelfInv'
  <2>0. ASSUME [Next]_vars PROVE caller' = caller
    BY <2>0 DEF vars, Next, JsStep, BeginEval, EndEval, host_call_generic,
                beamjs_module_loader, Enter, MutexLock, CondWait, SpuriousWakeup,
                TakeReply, LoaderReply, LoaderDone, OwnerStep, handle_js_message,
                handle_receive, handle_host_call, handle_load_module, handle_other,
                SpawnDone, nif_deliver_host_reply, dispatch_exit, DispatchCrash,
                Kill, send_message, OtherMessage, jsVars
  <2> SUFFICES ASSUME IInv, SelfInv, [Next]_vars, caller = Owner
               PROVE  SelfInv'
    BY <2>0 DEF SelfInv
  <2> USE DEF SelfInv, jsVars, replyVars, ownerVars
  <2>1. opc = "loop" /\ alive => \A i \in DOMAIN inbox : inbox[i].kind \notin Requests
    BY DEF IInv, LockShape, OneQueued
  <2>2. opc = "loop" /\ alive /\ inbox # <<>> => Head(inbox).kind \notin Requests
    <3>1. inbox # <<>> => 1 \in DOMAIN inbox /\ inbox[1] = Head(inbox)
      BY TailElements DEF IInv, TypeOK
    <3> QED BY <2>1, <3>1
  <2>3. CASE JsStep
    BY <2>3 DEF JsStep, BeginEval, EndEval, host_call_generic, beamjs_module_loader,
                Enter, MutexLock, CondWait, SpuriousWakeup, TakeReply, LoaderReply,
                LoaderDone
  <2>4. CASE OwnerStep
    BY <2>2, <2>4 DEF OwnerStep, Take, Requests, handle_js_message, handle_receive,
                handle_host_call, handle_load_module, handle_other, SpawnDone,
                nif_deliver_host_reply, dispatch_exit, DispatchCrash
  <2>5. CASE Kill
    BY <2>5 DEF Kill, OwnerGone
  <2>6. CASE send_message \/ OtherMessage
    BY <2>6 DEF send_message, OtherMessage
  <2>7. CASE UNCHANGED vars
    BY <2>7 DEF vars
  <2> QED BY <2>3, <2>4, <2>5, <2>6, <2>7 DEF Next
<1>3. SelfInv => SelfCallNeverReturns
  BY DEF SelfInv, SelfCallNeverReturns
<1> QED BY <1>1, <1>2, <1>3, OneRequestAtATime, PTL DEF Spec

-----------------------------------------------------------------------------
(***************************************************************************)
(* JavaScript messages reach receive in order, and HostBridge implements   *)
(* BridgeSpec: proofs for every set of host functions and every bound.     *)
(***************************************************************************)

(***************************************************************************)
(* IInv says whose answer is where.  What the answer holds is said here:   *)
(* a request keeps the class of the call that posted it, an answer is a    *)
(* message exactly if the call is a receive, and the message is the next   *)
(* one in order.                                                           *)
(***************************************************************************)

\* A request in the queue is the call in progress, by its class too.
QueuedShape ==
    \A i \in DOMAIN inbox : inbox[i].kind \in Requests =>
        /\ inbox[i].fn = cur.fn
        /\ inbox[i].kind = "load_module" <=> cur.fn = "load"

\* The answers of the owner, on their way and delivered.
AnswerShape ==
    /\ awaiting # 0 => cur.fn = "receive" /\ mailbox = <<>>
    /\ Answering => (pend.what = "message" <=> cur.fn = "receive")
    /\ ~Answering => pend = NoReply
    /\ ready => (reply.what = "message" <=> outer = <<>> /\ cur.fn = "receive")
    /\ \A i \in DOMAIN outer : outer[i].fn = "load"

Flying == IF pend.what = "message" \/ (ready /\ reply.what = "message") THEN 1 ELSE 0

\* Where the messages are, by their numbers.
Numbers ==
    /\ \A i \in DOMAIN received : received[i] = i
    /\ Len(received) <= sent
    /\ pend.what = "message" => pend.n = Len(received) + 1 /\ pend.n <= sent
    /\ ready /\ reply.what = "message" => reply.n = Len(received) + 1 /\ reply.n <= sent
    /\ alive => /\ \A i \in DOMAIN mailbox : mailbox[i] = Len(received) + Flying + i
                /\ Len(received) + Flying + Len(mailbox) <= sent
                /\ HoldsFrom(inbox, Len(received) + Flying + Len(mailbox), sent)

MsgInv == QueuedShape /\ AnswerShape /\ Numbers

-----------------------------------------------------------------------------
(* The queue.                                                              *)

\* Every element of a queue but the first is one of its tail.
LEMMA TailBack ==
    ASSUME NEW S, NEW q \in Seq(S), q # <<>>
    PROVE  /\ \A i \in DOMAIN q : i # 1 => i - 1 \in DOMAIN Tail(q) /\ Tail(q)[i - 1] = q[i]
           /\ \A i \in DOMAIN q : i \in Nat /\ i >= 1
           /\ \A i \in DOMAIN Tail(q) : i \in Nat /\ i >= 1
  OBVIOUS

\* Every element of a queue stays in its place when a message is posted.
LEMMA AppendBack ==
    ASSUME NEW S, NEW q \in Seq(S), NEW e \in S
    PROVE  /\ \A i \in DOMAIN q : i \in DOMAIN Append(q, e) /\ Append(q, e)[i] = q[i]
           /\ Len(q) + 1 \in DOMAIN Append(q, e) /\ Append(q, e)[Len(q) + 1] = e
           /\ \A i \in DOMAIN q : i \in Nat /\ i < Len(q) + 1
           /\ Len(q) + 1 \in Nat
  OBVIOUS

\* The first JavaScript message of a queue is the next one in order, and
\* the others follow it.
LEMMA TakeJsMessage ==
    ASSUME NEW q \in Seq(Message), q # <<>>, NEW k \in Nat, NEW s \in Nat,
           HoldsFrom(q, k, s), Head(q).kind = "js_message"
    PROVE  /\ Head(q).n = k + 1 /\ k + 1 <= s
           /\ HoldsFrom(Tail(q), k + 1, s)
<1> DEFINE t == Tail(q)
<1>0. \A i, j \in DOMAIN q :
        q[i].kind = "js_message" /\ q[j].kind = "js_message" /\ i < j => q[i].n < q[j].n
  BY DEF HoldsFrom
<1>1. 1 \in DOMAIN q /\ q[1] = Head(q)
  BY TailElements
<1>2. \A i \in DOMAIN t : i \in Nat /\ i + 1 \in DOMAIN q /\ t[i] = q[i + 1] /\ i + 1 # 1
  BY TailElements, TailBack
<1>3. \A i \in DOMAIN q : /\ i \in Nat /\ i >= 1
                          /\ i # 1 => i - 1 \in DOMAIN t /\ t[i - 1] = q[i]
  BY TailBack
<1>4. \A i \in DOMAIN q : q[i].n \in Nat
  <2>1. \A i \in DOMAIN q : q[i] \in Message
    OBVIOUS
  <2> QED BY <2>1 DEF Message
<1> HIDE DEF t
<1>5. q[1].n \in k + 1..s /\ k + 1 \in k + 1..s
  BY <1>1, <1>4 DEF HoldsFrom
<1>6. q[1].n = k + 1
  <2>1. PICK i \in DOMAIN q : q[i].kind = "js_message" /\ q[i].n = k + 1
    BY <1>5 DEF HoldsFrom
  <2>2. i # 1 => q[1].n < q[i].n
    <3>1. i # 1 => 1 < i
      BY <1>3
    <3>2. q[1].kind = "js_message"
      BY <1>1
    <3> QED BY ONLY <1>0, <1>1, <2>1, <3>1, <3>2
  <2> QED BY <1>1, <1>4, <1>5, <2>1, <2>2
<1>7. ASSUME NEW i \in DOMAIN t, t[i].kind = "js_message"
      PROVE  t[i].n \in k + 1 + 1..s
  <2>1. i + 1 \in DOMAIN q /\ 1 < i + 1 /\ t[i] = q[i + 1]
    BY <1>2, <1>3
  <2>2. q[i + 1].n \in k + 1..s /\ q[1].n < q[i + 1].n
    BY <1>1, <1>7, <2>1 DEF HoldsFrom
  <2> QED BY <1>4, <1>6, <2>1, <2>2
<1>8. ASSUME NEW i \in DOMAIN t, NEW j \in DOMAIN t,
             t[i].kind = "js_message", t[j].kind = "js_message", i < j
      PROVE  t[i].n < t[j].n
  <2>1. i + 1 < j + 1
    BY <1>2, <1>8
  <2> QED BY ONLY <1>0, <1>2, <1>8, <2>1
<1>9. ASSUME NEW m \in k + 1 + 1..s
      PROVE  \E i \in DOMAIN t : t[i].kind = "js_message" /\ t[i].n = m
  <2>1. m \in k + 1..s /\ m # k + 1
    BY <1>9
  <2>2. PICK i \in DOMAIN q : q[i].kind = "js_message" /\ q[i].n = m
    BY <2>1 DEF HoldsFrom
  <2>3. i # 1
    BY <1>6, <2>1, <2>2
  <2> QED BY <1>3, <2>2, <2>3
<1>10. HoldsFrom(t, k + 1, s)
  BY <1>7, <1>8, <1>9 DEF HoldsFrom
<1> QED BY <1>1, <1>5, <1>6, <1>10 DEF t

\* Taking another message leaves the JavaScript messages as they were.
LEMMA TakeOther ==
    ASSUME NEW q \in Seq(Message), q # <<>>, NEW k \in Nat, NEW s \in Nat,
           HoldsFrom(q, k, s), Head(q).kind # "js_message"
    PROVE  HoldsFrom(Tail(q), k, s)
<1> DEFINE t == Tail(q)
<1>0. \A i, j \in DOMAIN q :
        q[i].kind = "js_message" /\ q[j].kind = "js_message" /\ i < j => q[i].n < q[j].n
  BY DEF HoldsFrom
<1>1. q[1] = Head(q)
  BY TailElements
<1>2. \A i \in DOMAIN t : i \in Nat /\ i + 1 \in DOMAIN q /\ t[i] = q[i + 1]
  BY TailElements, TailBack
<1>3. \A i \in DOMAIN q : i # 1 => i - 1 \in DOMAIN t /\ t[i - 1] = q[i]
  BY TailBack
<1> HIDE DEF t
<1>4. ASSUME NEW i \in DOMAIN t, t[i].kind = "js_message"
      PROVE  t[i].n \in k + 1..s
  BY <1>2, <1>4 DEF HoldsFrom
<1>5. ASSUME NEW i \in DOMAIN t, NEW j \in DOMAIN t,
             t[i].kind = "js_message", t[j].kind = "js_message", i < j
      PROVE  t[i].n < t[j].n
  <2>1. i + 1 < j + 1
    BY <1>2, <1>5
  <2> QED BY ONLY <1>0, <1>2, <1>5, <2>1
<1>6. ASSUME NEW m \in k + 1..s
      PROVE  \E i \in DOMAIN t : t[i].kind = "js_message" /\ t[i].n = m
  <2>1. PICK i \in DOMAIN q : q[i].kind = "js_message" /\ q[i].n = m
    BY DEF HoldsFrom
  <2> QED BY <1>1, <1>3, <2>1
<1>7. HoldsFrom(t, k, s)
  BY <1>4, <1>5, <1>6 DEF HoldsFrom
<1> QED BY <1>7 DEF t

\* Posting something else leaves them as they were too.
LEMMA PostOther ==
    ASSUME NEW q \in Seq(Message), NEW k \in Nat, NEW s \in Nat, HoldsFrom(q, k, s),
           NEW e \in Message, e.kind # "js_message"
    PROVE  HoldsFrom(Append(q, e), k, s)
<1> DEFINE t == Append(q, e)
<1>1. \A i \in DOMAIN t : t[i].kind = "js_message" => i \in DOMAIN q /\ t[i] = q[i]
  BY AppendElements
<1>2. \A i \in DOMAIN q : i \in DOMAIN t /\ t[i] = q[i]
  BY AppendBack
<1> HIDE DEF t
<1>3. \A m \in k + 1..s : \E i \in DOMAIN t : t[i].kind = "js_message" /\ t[i].n = m
  BY <1>2 DEF HoldsFrom
<1>4. HoldsFrom(t, k, s)
  BY <1>1, <1>3 DEF HoldsFrom
<1> QED BY <1>4 DEF t

\* A message that is sent comes after the others.
LEMMA PostJsMessage ==
    ASSUME NEW q \in Seq(Message), NEW k \in Nat, NEW s \in Nat, k <= s, HoldsFrom(q, k, s),
           NEW e \in Message, e.kind = "js_message", e.n = s + 1
    PROVE  HoldsFrom(Append(q, e), k, s + 1)
<1> DEFINE t == Append(q, e)
<1>1. \A i \in DOMAIN t : \/ i \in DOMAIN q /\ t[i] = q[i]
                          \/ i = Len(q) + 1 /\ t[i] = e
  BY AppendElements
<1>2. /\ \A i \in DOMAIN q : i \in DOMAIN t /\ t[i] = q[i] /\ i \in Nat /\ i < Len(q) + 1
      /\ Len(q) + 1 \in DOMAIN t /\ t[Len(q) + 1] = e
      /\ Len(q) + 1 \in Nat
  BY AppendBack
<1> HIDE DEF t
<1>3. \A i \in DOMAIN q : q[i].kind = "js_message" => q[i].n \in k + 1..s
  BY DEF HoldsFrom
<1>4. ASSUME NEW i \in DOMAIN t, t[i].kind = "js_message"
      PROVE  t[i].n \in k + 1..s + 1
  BY <1>1, <1>3, <1>4
<1>5. ASSUME NEW i \in DOMAIN t, NEW j \in DOMAIN t,
             t[i].kind = "js_message", t[j].kind = "js_message", i < j
      PROVE  t[i].n < t[j].n
  <2>1. i \in DOMAIN q
    BY <1>1, <1>2, <1>5
  <2>2. CASE j \in DOMAIN q
    BY <1>2, <1>5, <2>1, <2>2 DEF HoldsFrom
  <2>3. CASE j \notin DOMAIN q
    <3>1. t[j].n = s + 1 /\ t[i] = q[i] /\ q[i].n \in k + 1..s
      BY <1>1, <1>2, <1>3, <1>5, <2>1, <2>3
    <3> QED BY <3>1
  <2> QED BY <2>2, <2>3
<1>6. ASSUME NEW m \in k + 1..s + 1
      PROVE  \E i \in DOMAIN t : t[i].kind = "js_message" /\ t[i].n = m
  <2>1. CASE m = s + 1
    BY <1>2, <2>1
  <2>2. CASE m # s + 1
    <3>1. m \in k + 1..s
      BY <1>6, <2>2
    <3>2. PICK i \in DOMAIN q : q[i].kind = "js_message" /\ q[i].n = m
      BY <3>1 DEF HoldsFrom
    <3> QED BY <1>2, <3>2
  <2> QED BY <2>1, <2>2
<1>7. HoldsFrom(t, k, s + 1)
  BY <1>4, <1>5, <1>6 DEF HoldsFrom
<1> QED BY <1>7 DEF t

-----------------------------------------------------------------------------
(* The invariant is kept.                                                  *)

\* The numbers the proofs compute with are numbers, and an answer is at one
\* place at a time.
LEMMA MsgTypes ==
    ASSUME IInv, MsgInv
    PROVE  /\ Len(received) \in Nat /\ Len(mailbox) \in Nat /\ sent \in Nat
           /\ Flying \in {0, 1} /\ Len(received) + Flying + Len(mailbox) \in Nat
           /\ inbox \in Seq(Message) /\ mailbox \in Seq(Nat) /\ received \in Seq(Nat)
           /\ NoFrame.fn = "none" /\ NoFrame.at = "none" /\ NoReply.what = "none"
           /\ ready /\ reply.what = "message" => ~Answering /\ pend.what = "none"
<1>1. /\ Len(received) \in Nat /\ Len(mailbox) \in Nat /\ sent \in Nat
      /\ inbox \in Seq(Message) /\ mailbox \in Seq(Nat) /\ received \in Seq(Nat)
  BY DEF IInv, TypeOK
<1>2. Flying \in {0, 1}
  BY DEF Flying
<1>3. NoFrame.fn = "none" /\ NoFrame.at = "none" /\ NoReply.what = "none"
  BY DEF NoFrame, NoReply
<1>4. ready /\ reply.what = "message" => ~Answering /\ pend.what = "none"
  BY <1>3 DEF MsgInv, AnswerShape, IInv, OneTaken, Delivered
<1> QED BY <1>1, <1>2, <1>3, <1>4

\* A frame that moves on stays the frame of the same call.
LEMMA FrameKeepsCall ==
    ASSUME NEW f \in Frame \cup {NoFrame}, f.at # "none",
           NEW a \in {"test", "sleep", "wake"}
    PROVE  [f EXCEPT !.at = a].fn = f.fn /\ [f EXCEPT !.at = a].id = f.id
<1>1. f \in Frame
  BY DEF NoFrame
<1> QED BY <1>1 DEF Frame

\* The messages are where they were when no queue changes and the call in
\* progress stays the same.
LEMMA MsgUntouched ==
    ASSUME MsgInv, cur'.fn = cur.fn,
           UNCHANGED <<outer, received, ready, reply, alive, inbox, mailbox, awaiting, sent>>,
           Answering' <=> Answering, pend' = pend
    PROVE  MsgInv'
<1>1. QueuedShape'
  BY DEF MsgInv, QueuedShape
<1>2. AnswerShape'
  BY DEF MsgInv, AnswerShape
<1>3. Flying' = Flying
  BY DEF Flying
<1>4. Numbers'
  BY <1>3 DEF MsgInv, Numbers
<1> QED BY <1>1, <1>2, <1>4 DEF MsgInv

\* The steps of the thread that runs JavaScript.
LEMMA JsKeepsMsgInv ==
    ASSUME IInv, MsgInv, JsStep
    PROVE  MsgInv'
<1> USE DEF jsVars, replyVars, ownerVars
<1>0. /\ cur \in Frame \cup {NoFrame}
      /\ cur.at = "test" => cur # NoFrame /\ outer = <<>> /\ (ready => Delivered)
      /\ NoFrame.fn = "none" /\ NoReply.what = "none"
  BY MsgTypes DEF IInv, TypeOK, NoFrame, LockShape, Delivered
<1>1. CASE BeginEval
  BY <1>1, MsgUntouched DEF BeginEval, Answering
<1>2. CASE EndEval
  BY <1>2, MsgUntouched DEF EndEval, Answering, IInv, OneTaken
<1>3. ASSUME NEW fn \in FnClasses \cup {"load"}, NEW kind \in Requests, Enter(fn, kind),
             kind = "load_module" <=> fn = "load"
      PROVE  MsgInv'
  <2>1. CASE ~alive
    BY <1>3, <2>1, MsgUntouched DEF Enter, Answering
  <2>2. CASE alive
    <3> DEFINE e == [kind |-> kind, fn |-> fn, n |-> calls + 1]
    <3>1. /\ inbox' = Append(inbox, e) /\ cur'.fn = fn /\ e.fn = fn /\ e.kind = kind
          /\ e \in Message /\ e.kind # "js_message" /\ inbox \in Seq(Message)
      BY <1>3, <2>2 DEF Enter, Message, IInv, TypeOK, Requests
    <3> HIDE DEF e
    <3>2. cur = NoFrame /\ awaiting = 0 /\ ~Answering /\ ~Delivered
      BY <1>3 DEF Enter, IInv, OneTaken
    <3>3. \A i \in DOMAIN inbox : inbox[i].kind \notin Requests
      BY <3>2 DEF IInv, OneQueued
    <3>4. QueuedShape'
      <4>1. \A i \in DOMAIN inbox' : inbox'[i].kind \in Requests => inbox'[i] = e
        BY <3>1, <3>3, AppendElements
      <4> QED BY <1>3, <3>1, <4>1 DEF QueuedShape
    <3>5. UNCHANGED <<outer, received, ready, reply, alive, opc, pend, mailbox, awaiting, sent>>
      BY <1>3 DEF Enter
    <3>6. AnswerShape'
      BY <3>2, <3>5, <1>0 DEF MsgInv, AnswerShape, Answering, Delivered
    <3>7. Numbers'
      <4>1. Flying' = Flying
        BY <3>5 DEF Flying
      <4>2. HoldsFrom(inbox', Len(received) + Flying + Len(mailbox), sent)
        BY <2>2, <3>1, PostOther, MsgTypes DEF MsgInv, Numbers
      <4> QED BY <3>5, <4>1, <4>2 DEF MsgInv, Numbers
    <3> QED BY <3>4, <3>6, <3>7 DEF MsgInv
  <2> QED BY <2>1, <2>2 DEF IInv, TypeOK
<1>4. CASE \E fn \in HostFns : host_call_generic(fn)
  BY <1>3, <1>4, BridgeAssumption DEF host_call_generic, Requests, FnClasses
<1>5. CASE beamjs_module_loader
  BY <1>3, <1>5 DEF beamjs_module_loader, Requests
<1>6. CASE MutexLock
  <2>1. cur'.fn = cur.fn
    BY <1>0, <1>6, FrameKeepsCall DEF MutexLock
  <2> QED BY <1>6, <2>1, MsgUntouched DEF MutexLock, Answering
<1>7. CASE CondWait
  <2>1. cur'.fn = cur.fn
    BY <1>0, <1>7, FrameKeepsCall DEF CondWait
  <2> QED BY <1>7, <2>1, MsgUntouched DEF CondWait, Answering
<1>8. CASE SpuriousWakeup
  <2>1. cur'.fn = cur.fn
    BY <1>0, <1>8, FrameKeepsCall DEF SpuriousWakeup
  <2> QED BY <1>8, <2>1, MsgUntouched DEF SpuriousWakeup, Answering
\* A call that ends leaves no request, no answer and no waiting receive.
<1>9. ASSUME Delivered \/ (outer # <<>> /\ cur = NoFrame)
      PROVE  /\ \A i \in DOMAIN inbox : inbox[i].kind \notin Requests
             /\ awaiting = 0 /\ ~Answering /\ pend = NoReply
  BY <1>9 DEF IInv, OneQueued, OneTaken, MsgInv, AnswerShape
<1>10. CASE TakeReply
  <2>1. Delivered /\ outer = <<>> /\ ready
    BY <1>0, <1>10 DEF TakeReply
  <2>2. /\ UNCHANGED <<outer, alive, opc, pend, inbox, mailbox, awaiting, sent>>
        /\ cur' = NoFrame /\ ready' = FALSE
        /\ received' = IF reply.what = "message" THEN Append(received, reply.n) ELSE received
    BY <1>10 DEF TakeReply, ClearReply
  <2>3. QueuedShape' /\ AnswerShape'
    BY <1>9, <2>1, <2>2 DEF QueuedShape, AnswerShape, Answering, MsgInv
  <2>4. CASE reply.what = "message"
    <3>1. Flying = 1 /\ Flying' = 0
      BY <1>0, <1>9, <2>1, <2>2, <2>4 DEF Flying
    <3>2. /\ Len(received') = Len(received) + 1
          /\ \A i \in DOMAIN received' :
                \/ i \in DOMAIN received /\ received'[i] = received[i]
                \/ i = Len(received) + 1 /\ received'[i] = reply.n
      <4>1. received \in Seq(Nat) /\ reply.n \in Nat
        BY DEF IInv, TypeOK, Reply, NoReply
      <4> QED BY <2>2, <2>4, <4>1, AppendElements
    <3>3. reply.n = Len(received) + 1 /\ reply.n <= sent
      BY <2>1, <2>4 DEF MsgInv, Numbers
    <3>4. pend'.what # "message"
      BY <1>0, <1>9, <2>1, <2>2
    <3>5. \A i \in DOMAIN received' : received'[i] = i
      BY <3>2, <3>3 DEF MsgInv, Numbers
    <3>6. Len(received') + Flying' = Len(received) + Flying /\ Len(received') <= sent'
      BY <2>2, <3>1, <3>2, <3>3, MsgTypes
    <3> QED BY <2>2, <2>3, <3>4, <3>5, <3>6 DEF MsgInv, Numbers
  <2>5. CASE reply.what # "message"
    <3>1. received' = received /\ Flying' = Flying
      BY <2>2, <2>5 DEF Flying
    <3> QED BY <2>2, <2>3, <3>1 DEF MsgInv, Numbers
  <2> QED BY <2>4, <2>5
<1>11. CASE LoaderReply
  <2>1. Delivered /\ outer = <<>> /\ ready /\ reply.what # "message"
    BY <1>0, <1>11 DEF LoaderReply, MsgInv, AnswerShape
  <2>2. UNCHANGED <<received, alive, opc, pend, inbox, mailbox, awaiting, sent>> /\ cur' = NoFrame
    BY <1>11 DEF LoaderReply
  <2>3. /\ \A i \in DOMAIN outer' : outer'[i].fn = "load"
        /\ ready' => reply' = reply
    <3>1. CASE reply.what = "source"
      <4>1. outer' = <<cur>> /\ cur.fn = "load" /\ reply' = reply
        BY <1>11, <2>1, <3>1 DEF LoaderReply
      <4> QED BY <4>1
    <3>2. CASE reply.what # "source"
      BY <1>11, <2>1, <3>2 DEF LoaderReply, ClearReply
    <3> QED BY <3>1, <3>2
  <2>4. Flying' = Flying
    BY <2>1, <2>2, <2>3 DEF Flying
  <2>5. QueuedShape' /\ AnswerShape'
    BY <1>0, <1>9, <2>1, <2>2, <2>3 DEF QueuedShape, AnswerShape, Answering, MsgInv
  <2>6. Numbers'
    BY <2>1, <2>2, <2>3, <2>4 DEF MsgInv, Numbers
  <2> QED BY <2>5, <2>6 DEF MsgInv
<1>12. CASE LoaderDone
  <2>1. outer # <<>> /\ cur = NoFrame /\ ready /\ outer' = <<>>
    BY <1>12 DEF LoaderDone, IInv, LockShape, TypeOK
  <2>2. /\ UNCHANGED <<received, alive, opc, pend, inbox, mailbox, awaiting, sent, cur>>
        /\ ready' = FALSE
    BY <1>12 DEF LoaderDone, ClearReply
  <2>3. Flying' = Flying
    BY <2>1, <2>2 DEF Flying, MsgInv, AnswerShape
  <2>4. QueuedShape' /\ AnswerShape'
    BY <1>9, <2>1, <2>2 DEF QueuedShape, AnswerShape, Answering, MsgInv
  <2>5. Numbers'
    BY <2>2, <2>3 DEF MsgInv, Numbers
  <2> QED BY <2>4, <2>5 DEF MsgInv
<1> QED BY <1>1, <1>2, <1>4, <1>5, <1>6, <1>7, <1>8, <1>10, <1>11, <1>12 DEF JsStep

\* The steps of the owner and of the processes around it.
LEMMA OwnerKeepsMsgInv ==
    ASSUME IInv, MsgInv, OwnerStep \/ Kill \/ send_message \/ OtherMessage
    PROVE  MsgInv'
<1> USE DEF jsVars, replyVars, ownerVars
<1> DEFINE low == Len(received) + Flying + Len(mailbox)
<1>0. /\ inbox \in Seq(Message) /\ mailbox \in Seq(Nat) /\ sent \in Nat /\ low \in Nat
      /\ Len(received) \in Nat /\ Len(mailbox) \in Nat /\ Flying \in {0, 1}
      /\ NoReply.what = "none"
      /\ alive => low <= sent /\ HoldsFrom(inbox, low, sent)
  BY MsgTypes DEF MsgInv, Numbers
<1> HIDE DEF low
\* A handler that takes a request: nothing is on its way to JavaScript.
<1>1. ASSUME NEW kind \in Requests, Take(kind)
      PROVE  /\ Head(inbox).fn = cur.fn /\ (kind = "load_module" <=> cur.fn = "load")
             /\ \A i \in DOMAIN inbox' : inbox'[i].kind \notin Requests
             /\ awaiting = 0 /\ ~Answering /\ Flying = 0 /\ alive /\ pend.what # "message"
             /\ ready => reply.what # "message"
             /\ HoldsFrom(inbox', low, sent)
  <2>1. inbox # <<>> /\ inbox' = Tail(inbox) /\ Head(inbox).kind = kind /\ alive
    BY <1>1 DEF Take
  <2>2. 1 \in DOMAIN inbox /\ inbox[1] = Head(inbox) /\ inbox[1].kind \in Requests
    BY <1>0, <1>1, <2>1, TailElements
  <2>3. \A i \in DOMAIN inbox' : i + 1 \in DOMAIN inbox /\ inbox'[i] = inbox[i + 1] /\ i + 1 # 1
    BY <1>0, <2>1, TailElements
  <2>4. \A i \in DOMAIN inbox' : inbox'[i].kind \notin Requests
    BY <2>2, <2>3 DEF IInv, OneQueued
  <2>5. awaiting = 0 /\ ~Answering /\ ~Delivered
    BY <2>2 DEF IInv, OneQueued
  <2>6. pend.what # "message" /\ (ready => reply.what # "message")
    BY <1>0, <2>5 DEF MsgInv, AnswerShape, Delivered
  <2>7. HoldsFrom(inbox', low, sent)
    BY <1>0, <1>1, <2>1, TakeOther DEF Requests
  <2> QED BY <2>1, <2>2, <2>4, <2>5, <2>6, <2>7 DEF MsgInv, QueuedShape, Flying
\* A handler that takes another message leaves the requests as they were.
<1>2. ASSUME NEW kind, Take(kind), cur' = cur
      PROVE  QueuedShape'
  <2>1. inbox # <<>> /\ inbox' = Tail(inbox)
    BY <1>2 DEF Take
  <2>2. \A i \in DOMAIN inbox' : i + 1 \in DOMAIN inbox /\ inbox'[i] = inbox[i + 1]
    BY <1>0, <2>1, TailElements
  <2> QED BY <1>2, <2>2 DEF MsgInv, QueuedShape
<1>3. CASE handle_js_message
  <2>1. /\ Take("js_message") /\ alive /\ inbox # <<>> /\ inbox' = Tail(inbox)
        /\ Head(inbox).kind = "js_message"
        /\ UNCHANGED <<cur, outer, received, ready, reply, alive, sent>>
    BY <1>3 DEF handle_js_message, Take
  <2>2. Head(inbox).n = low + 1 /\ low + 1 <= sent /\ HoldsFrom(inbox', low + 1, sent)
    BY <1>0, <2>1, TakeJsMessage
  <2>3. QueuedShape'
    BY <1>2, <2>1
  <2>4. CASE awaiting # 0
    <3>1. /\ pend' = [to |-> awaiting, what |-> "message", n |-> Head(inbox).n]
          /\ opc' = "deliver" /\ awaiting' = 0 /\ mailbox' = mailbox
      BY <1>3, <2>4 DEF handle_js_message, Deliver
    <3>2. /\ mailbox = <<>> /\ ~Answering /\ ~Delivered /\ cur.fn = "receive"
          /\ pend = NoReply /\ (ready => reply.what # "message")
      BY <2>4 DEF IInv, OneTaken, MsgInv, AnswerShape, Delivered
    <3>3. Flying = 0 /\ Flying' = 1 /\ low = Len(received)
      BY <1>0, <3>1, <3>2 DEF Flying, low
    <3>4. pend'.what = "message" /\ pend'.n = Len(received') + 1 /\ pend'.n <= sent'
      BY <2>1, <2>2, <3>1, <3>3
    <3>5. AnswerShape'
      BY <2>1, <3>1, <3>2, <3>4 DEF MsgInv, AnswerShape, Answering
    <3>6. low + 1 = Len(received') + Flying' + Len(mailbox') /\ (ready' => reply'.what # "message")
      BY <1>0, <2>1, <3>1, <3>2, <3>3
    <3>7. Numbers'
      BY <2>1, <2>2, <3>1, <3>2, <3>4, <3>6 DEF MsgInv, Numbers
    <3> QED BY <2>3, <3>5, <3>7 DEF MsgInv
  <2>5. CASE awaiting = 0
    <3>1. /\ mailbox' = Append(mailbox, low + 1)
          /\ UNCHANGED <<awaiting, pend, opc>>
      BY <1>3, <2>2, <2>5 DEF handle_js_message
    <3>2. Flying' = Flying
      BY <2>1, <3>1 DEF Flying
    <3>3. /\ Len(mailbox') = Len(mailbox) + 1
          /\ \A i \in DOMAIN mailbox' :
                \/ i \in DOMAIN mailbox /\ mailbox'[i] = mailbox[i]
                \/ i = Len(mailbox) + 1 /\ mailbox'[i] = low + 1
      BY <1>0, <3>1, AppendElements
    <3>4. low + 1 = Len(received') + Flying' + Len(mailbox')
      BY <1>0, <2>1, <3>2, <3>3 DEF low
    <3>5. \A i \in DOMAIN mailbox' : mailbox'[i] = Len(received') + Flying' + i
      <4>1. \A i \in DOMAIN mailbox : mailbox[i] = Len(received) + Flying + i
        BY <2>1 DEF MsgInv, Numbers
      <4>2. low + 1 = Len(received) + Flying + (Len(mailbox) + 1)
        BY <1>0 DEF low
      <4> QED BY <2>1, <3>2, <3>3, <4>1, <4>2
    <3>6. AnswerShape'
      BY <2>1, <2>5, <3>1 DEF MsgInv, AnswerShape, Answering
    <3>7. Numbers'
      BY <2>1, <2>2, <3>1, <3>4, <3>5 DEF MsgInv, Numbers
    <3> QED BY <2>3, <3>6, <3>7 DEF MsgInv
  <2> QED BY <2>4, <2>5
<1>4. CASE handle_receive
  <2>1. /\ Take("host_call") /\ "host_call" \in Requests
        /\ Head(inbox).fn = "receive"
        /\ UNCHANGED <<cur, outer, received, ready, reply, alive, sent>>
    BY <1>4 DEF handle_receive, Requests
  <2>2. /\ cur.fn = "receive" /\ awaiting = 0 /\ ~Answering /\ Flying = 0
        /\ alive /\ pend.what # "message" /\ (ready => reply.what # "message")
        /\ HoldsFrom(inbox', low, sent)
    BY <1>1, <2>1
  <2>3. QueuedShape'
    BY <1>2, <2>1
  <2>4. \A i \in DOMAIN mailbox : mailbox[i] = Len(received) + i
    BY <1>0, <2>2 DEF MsgInv, Numbers
  <2>5. CASE mailbox # <<>>
    <3>1. /\ pend' = [to |-> Head(inbox).n, what |-> "message", n |-> Head(mailbox)]
          /\ opc' = "deliver" /\ mailbox' = Tail(mailbox) /\ awaiting' = awaiting
      BY <1>4, <2>5 DEF handle_receive, Deliver
    <3>2. /\ 1 \in DOMAIN mailbox /\ Head(mailbox) = mailbox[1]
          /\ Len(mailbox') + 1 = Len(mailbox) /\ Len(mailbox') \in Nat
      BY <1>0, <2>5, <3>1
    <3>3. \A i \in DOMAIN mailbox' : i \in Nat /\ i + 1 \in DOMAIN mailbox /\ mailbox'[i] = mailbox[i + 1]
      BY <1>0, <2>5, <3>1, TailElements, TailBack
    <3>4. pend'.what = "message" /\ pend'.n = Len(received') + 1 /\ pend'.n <= sent' /\ Flying' = 1
      <4>1. Len(received) + 1 <= sent
        BY <1>0, <2>2, <3>2 DEF low
      <4> QED BY <2>1, <2>4, <3>1, <3>2, <4>1 DEF Flying
    <3>5. \A i \in DOMAIN mailbox' : mailbox'[i] = Len(received') + Flying' + i
      <4>1. \A i \in DOMAIN mailbox' : mailbox'[i] = Len(received) + (i + 1) /\ i \in Nat
        BY <2>4, <3>3
      <4> QED BY <1>0, <2>1, <3>4, <4>1
    <3>6. low = Len(received') + Flying' + Len(mailbox')
      <4>1. /\ Len(received') = Len(received) /\ Len(received) \in Nat
            /\ Flying = 0 /\ Flying' = 1
        BY <1>0, <2>1, <2>2, <3>4
      <4>2. \A a, l, k \in Nat : k + 1 = l => a + 0 + l = a + 1 + k
        OBVIOUS
      <4>3. Len(received) + 0 + Len(mailbox) = Len(received) + 1 + Len(mailbox')
        <5>1. Len(mailbox) \in Nat
          BY <1>0
        <5> QED BY <3>2, <4>1, <4>2, <5>1
      <4> QED BY <4>1, <4>3 DEF low
    <3>7. AnswerShape'
      BY <2>1, <2>2, <3>1, <3>4 DEF MsgInv, AnswerShape, Answering
    <3>8. Numbers'
      BY <1>0, <2>1, <2>2, <3>4, <3>5, <3>6 DEF MsgInv, Numbers
    <3> QED BY <2>3, <3>7, <3>8 DEF MsgInv
  <2>6. CASE mailbox = <<>>
    <3>1. UNCHANGED <<mailbox, pend, opc>>
      BY <1>4, <2>6 DEF handle_receive
    <3>2. Flying' = Flying
      BY <2>1, <3>1 DEF Flying
    <3>3. AnswerShape'
      BY <2>1, <2>2, <2>6, <3>1 DEF MsgInv, AnswerShape, Answering
    <3>4. Numbers'
      BY <2>1, <2>2, <3>1, <3>2 DEF MsgInv, Numbers, low
    <3> QED BY <2>3, <3>3, <3>4 DEF MsgInv
  <2> QED BY <2>5, <2>6
\* A handler that takes a request other than receive and prepares its answer.
<1>5. ASSUME NEW kind \in Requests, Take(kind), cur.fn # "receive",
             pend'.what # "message", Answering',
             UNCHANGED <<jsVars, replyVars, alive, mailbox, awaiting, sent, ctx>>
      PROVE  MsgInv'
  <2>1. /\ awaiting = 0 /\ Flying = 0 /\ alive /\ pend.what # "message"
        /\ (ready => reply.what # "message") /\ HoldsFrom(inbox', low, sent)
    BY <1>1, <1>5
  <2>2. UNCHANGED <<cur, outer, received, ready, reply, alive, mailbox, awaiting, sent>>
    BY <1>5
  <2>3. QueuedShape'
    BY <1>2, <1>5, <2>2
  <2>4. AnswerShape'
    BY <1>5, <2>1, <2>2 DEF MsgInv, AnswerShape
  <2>5. Flying' = Flying
    BY <1>5, <2>1, <2>2 DEF Flying
  <2>6. Numbers'
    BY <1>5, <2>1, <2>2, <2>5 DEF MsgInv, Numbers, low
  <2> QED BY <2>3, <2>4, <2>6 DEF MsgInv
<1>6. CASE handle_host_call
  <2>1. Take("host_call") /\ "host_call" \in Requests
    BY <1>6 DEF handle_host_call, Requests
  <2>2. Head(inbox).fn # "receive" /\ pend'.what # "message" /\ Answering'
    BY <1>6 DEF handle_host_call, dispatch_pid, dispatch_local, dispatch_spawn, Deliver, Answering
  <2>3. cur.fn # "receive"
    BY <1>1, <2>1, <2>2
  <2> QED BY <1>5, <1>6, <2>1, <2>2, <2>3 DEF handle_host_call
<1>7. CASE handle_load_module
  <2>1. Take("load_module") /\ "load_module" \in Requests
    BY <1>7 DEF handle_load_module, Requests
  <2>2. pend'.what # "message" /\ Answering'
    BY <1>7 DEF handle_load_module, Deliver, Answering
  <2>3. cur.fn # "receive"
    BY <1>1, <2>1
  <2> QED BY <1>5, <1>7, <2>1, <2>2, <2>3 DEF handle_load_module
<1>8. CASE handle_other
  <2>1. /\ Take("other") /\ alive /\ inbox # <<>> /\ inbox' = Tail(inbox)
        /\ Head(inbox).kind # "js_message"
        /\ UNCHANGED <<cur, outer, received, ready, reply, alive, opc, pend, mailbox, awaiting, sent>>
    BY <1>8 DEF handle_other, Take
  <2>2. QueuedShape'
    BY <1>2, <2>1
  <2>3. HoldsFrom(inbox', low, sent) /\ Flying' = Flying
    BY <1>0, <2>1, TakeOther DEF Flying
  <2>4. AnswerShape'
    BY <2>1 DEF MsgInv, AnswerShape, Answering
  <2>5. Numbers'
    BY <2>1, <2>3 DEF MsgInv, Numbers, low
  <2> QED BY <2>2, <2>4, <2>5 DEF MsgInv
<1>9. CASE SpawnDone
  BY <1>9, MsgUntouched DEF SpawnDone, Answering
<1>10. CASE nif_deliver_host_reply
  <2>1. /\ Answering /\ lock = "free" /\ reply' = pend /\ ready' = TRUE
        /\ opc' = "loop" /\ pend' = NoReply
        /\ UNCHANGED <<outer, received, alive, inbox, mailbox, awaiting, sent>>
    BY <1>10 DEF nif_deliver_host_reply, Answering
  <2>2. cur'.fn = cur.fn
    <3>1. cur \in Frame \cup {NoFrame}
      BY DEF IInv, TypeOK
    <3> QED BY <1>10, <3>1, FrameKeepsCall DEF nif_deliver_host_reply
  <2>3. outer = <<>> /\ ~ready
    BY <2>1 DEF IInv, LockShape, OneTaken, Delivered
  <2>4. QueuedShape'
    BY <2>1, <2>2 DEF MsgInv, QueuedShape
  <2>5. AnswerShape'
    BY <2>1, <2>2, <2>3 DEF MsgInv, AnswerShape, Answering
  <2>6. Flying' = Flying /\ pend'.what # "message"
    BY <1>0, <2>1, <2>3 DEF Flying
  <2>7. Numbers'
    BY <2>1, <2>6 DEF MsgInv, Numbers
  <2> QED BY <2>4, <2>5, <2>7 DEF MsgInv
\* The owner's death leaves what was delivered.
<1>11. ASSUME OwnerGone, UNCHANGED <<cur, outer, received, ready, reply, sent>>
       PROVE  MsgInv'
  <2>1. /\ alive' = FALSE /\ inbox' = <<>> /\ mailbox' = <<>> /\ awaiting' = 0
        /\ pend' = NoReply /\ opc' = "loop"
    BY <1>11 DEF OwnerGone
  <2>2. QueuedShape' /\ AnswerShape'
    BY <1>11, <2>1 DEF MsgInv, QueuedShape, AnswerShape, Answering
  <2>3. Numbers'
    BY <1>0, <1>11, <2>1 DEF MsgInv, Numbers
  <2> QED BY <2>2, <2>3 DEF MsgInv
<1>12. CASE dispatch_exit \/ DispatchCrash \/ Kill
  BY <1>11, <1>12 DEF dispatch_exit, DispatchCrash, Kill
\* A message is posted that is no request.
<1>13. ASSUME NEW e \in Message, e.kind \notin Requests, inbox' = Append(inbox, e), alive,
              UNCHANGED <<jsVars, replyVars, alive, opc, pend, mailbox, awaiting, ctx>>,
              sent' \in Nat, sent <= sent', HoldsFrom(inbox', low, sent')
       PROVE  MsgInv'
  <2>1. \A i \in DOMAIN inbox' : inbox'[i].kind \in Requests =>
            i \in DOMAIN inbox /\ inbox'[i] = inbox[i]
    BY <1>0, <1>13, AppendElements
  <2>2. QueuedShape'
    BY <1>13, <2>1 DEF MsgInv, QueuedShape
  <2>3. AnswerShape'
    BY <1>13 DEF MsgInv, AnswerShape, Answering
  <2>4. Flying' = Flying
    BY <1>13 DEF Flying
  <2>5. Numbers'
    <3>1. \A k \in Nat : k <= sent => k <= sent'
      BY <1>0, <1>13
    <3>2. pend.n \in Nat /\ reply.n \in Nat
      BY DEF IInv, TypeOK, Reply, NoReply
    <3> QED BY <1>0, <1>13, <2>4, <3>1, <3>2 DEF MsgInv, Numbers, low
  <2> QED BY <2>2, <2>3, <2>5 DEF MsgInv
<1>14. CASE send_message
  <2> DEFINE e == [kind |-> "js_message", fn |-> "none", n |-> sent + 1]
  <2>1. /\ e \in Message /\ e.kind = "js_message" /\ e.n = sent + 1
        /\ sent' = sent + 1 /\ sent' \in Nat /\ sent <= sent'
    BY <1>0, <1>14 DEF send_message, Message
  <2>2. inbox' = Append(inbox, e) /\ alive
    BY <1>14 DEF send_message
  <2> HIDE DEF e
  <2>3. HoldsFrom(inbox', low, sent')
    BY <1>0, <2>1, <2>2, PostJsMessage
  <2> QED BY <1>13, <1>14, <2>1, <2>2, <2>3 DEF send_message, Requests
<1>15. CASE OtherMessage
  <2> DEFINE e == [kind |-> "other", fn |-> "none", n |-> 0]
  <2>1. e \in Message /\ e.kind = "other"
    BY DEF Message
  <2>2. inbox' = Append(inbox, e) /\ alive /\ sent' = sent
    BY <1>15 DEF OtherMessage
  <2> HIDE DEF e
  <2>3. HoldsFrom(inbox', low, sent') /\ sent <= sent'
    BY <1>0, <2>1, <2>2, PostOther
  <2> QED BY <1>0, <1>13, <1>15, <2>1, <2>2, <2>3 DEF OtherMessage, Requests
<1> QED
  BY <1>3, <1>4, <1>6, <1>7, <1>8, <1>9, <1>10, <1>12, <1>14, <1>15 DEF OwnerStep

\* Where the messages are, in every reachable state.
THEOREM MessagesAccounted == Spec => []MsgInv
<1>1. Init => MsgInv
  <2> SUFFICES ASSUME Init PROVE MsgInv
    OBVIOUS
  <2>1. QueuedShape /\ AnswerShape
    BY DEF Init, QueuedShape, AnswerShape, Answering
  <2>2. Flying = 0
    BY DEF Init, Flying, NoReply
  <2>3. HoldsFrom(<<>>, 0, 0)
    BY DEF HoldsFrom
  <2>4. Numbers
    BY <2>2, <2>3 DEF Init, Numbers, NoReply
  <2> QED BY <2>1, <2>4 DEF MsgInv
<1>2. IInv /\ MsgInv /\ [Next]_vars => MsgInv'
  <2>1. IInv /\ MsgInv /\ Next => MsgInv'
    BY JsKeepsMsgInv, OwnerKeepsMsgInv DEF Next
  <2>2. MsgInv /\ UNCHANGED vars => MsgInv'
    BY MsgUntouched DEF vars, Answering
  <2> QED BY <2>1, <2>2
<1> QED BY <1>1, <1>2, OneRequestAtATime, PTL DEF Spec

\* The elements of three sequences, one after the other.
LEMMA ThreeParts ==
    ASSUME NEW a \in Seq(Nat), NEW b \in Seq(Nat), NEW c \in Seq(Nat)
    PROVE  /\ a \o b \o c \in Seq(Nat)
           /\ Len(a \o b \o c) = Len(a) + Len(b) + Len(c)
           /\ \A i \in 1..Len(a \o b \o c) :
                 (a \o b \o c)[i] = IF i <= Len(a) THEN a[i]
                                    ELSE IF i <= Len(a) + Len(b) THEN b[i - Len(a)]
                                    ELSE c[i - Len(a) - Len(b)]
  OBVIOUS

\* JavaScript messages reach receive in the order they were sent, none twice
\* and, while the owner lives, none lost: for any number of messages before,
\* during and after any number of receives.
THEOREM MessagesKeepOrder == Spec => []MessagesInOrder
<1>1. IInv /\ MsgInv => MessagesInOrder
  <2> SUFFICES ASSUME IInv, MsgInv PROVE MessagesInOrder
    OBVIOUS
  <2>1. received = [i \in DOMAIN received |-> i]
    BY MsgTypes DEF MsgInv, Numbers
  <2>2. InFlight \in Seq(Nat) /\ Len(InFlight) = Flying
    BY DEF InFlight, Flying, IInv, TypeOK, Reply, NoReply
  <2>3. \A i \in DOMAIN InFlight : i = 1 /\ InFlight[i] = Len(received) + 1
    BY DEF InFlight, MsgInv, Numbers
  <2>4. ASSUME alive
        PROVE  /\ Got = [i \in DOMAIN Got |-> i]
               /\ Len(Got) = Len(received) + Flying + Len(mailbox)
    <3>0. /\ Len(received) \in Nat /\ Len(mailbox) \in Nat /\ Flying \in {0, 1}
          /\ DOMAIN received = 1..Len(received)
      BY MsgTypes
    <3>1. /\ Got \in Seq(Nat)
          /\ Len(Got) = Len(received) + Len(InFlight) + Len(mailbox)
          /\ \A i \in 1..Len(Got) :
                Got[i] = IF i <= Len(received) THEN received[i]
                         ELSE IF i <= Len(received) + Len(InFlight)
                         THEN InFlight[i - Len(received)]
                         ELSE mailbox[i - Len(received) - Len(InFlight)]
      <4>1. received \in Seq(Nat) /\ InFlight \in Seq(Nat) /\ mailbox \in Seq(Nat)
        BY <2>2, MsgTypes
      <4> QED BY ONLY <4>1, ThreeParts DEF Got
    <3>2. \A i \in 1..Len(Got) : Got[i] = i
      <4> SUFFICES ASSUME NEW i \in 1..Len(Got) PROVE Got[i] = i
        OBVIOUS
      <4>1. CASE i <= Len(received)
        <5>1. i \in DOMAIN received /\ Got[i] = received[i]
          BY <3>0, <3>1, <4>1
        <5> QED BY <5>1 DEF MsgInv, Numbers
      <4>2. CASE i > Len(received) /\ i <= Len(received) + Flying
        <5>1. Flying = 1 /\ i = Len(received) + 1
          BY <3>0, <4>2
        <5>2. 1 \in DOMAIN InFlight
          BY <2>2, <5>1
        <5>3. Got[i] = InFlight[i - Len(received)] /\ i - Len(received) = 1
          BY <2>2, <3>0, <3>1, <4>2, <5>1
        <5> QED BY <2>3, <5>1, <5>2, <5>3
      <4>3. CASE i > Len(received) + Flying
        <5> DEFINE j == i - Len(received) - Flying
        <5>1. j \in 1..Len(mailbox) /\ Len(received) + Flying + j = i /\ ~(i <= Len(received))
          <6>1. Len(Got) = Len(received) + Flying + Len(mailbox)
            BY <2>2, <3>1
          <6>2. \A a, f, m, x \in Nat : x \in 1..(a + f + m) /\ x > a + f =>
                   /\ x - a - f \in 1..m /\ a + f + (x - a - f) = x /\ ~(x <= a)
            OBVIOUS
          <6>3. Len(received) \in Nat /\ Flying \in Nat /\ Len(mailbox) \in Nat /\ i \in Nat
            BY <6>1, MsgTypes
          <6> QED BY <4>3, <6>1, <6>2, <6>3
        <5>2. Got[i] = mailbox[j]
          BY <2>2, <3>1, <4>3, <5>1, MsgTypes
        <5>3. j \in DOMAIN mailbox
          BY <5>1, MsgTypes
        <5> QED BY <2>4, <5>1, <5>2, <5>3 DEF MsgInv, Numbers
      <4> QED BY <4>1, <4>2, <4>3, MsgTypes
    <3> QED BY <2>2, <3>1, <3>2
  <2> QED BY <2>1, <2>4 DEF MessagesInOrder, MsgInv, Numbers
<1> QED BY <1>1, OneRequestAtATime, MessagesAccounted, PTL

-----------------------------------------------------------------------------
(* The bridge implements BridgeSpec.                                       *)

\* What BridgeSpec knows of a frame.
Brief(f) == [fn |-> f.fn, id |-> f.id]

\* The open calls, with and without a call in progress.
LEMMA OpenShapes ==
    ASSUME NEW f \in Frame, NEW c \in Frame
    PROVE  /\ OpenIn(<<>>, NoFrame) = <<>>
           /\ OpenIn(<<>>, c) = <<Brief(c)>>
           /\ OpenIn(<<f>>, NoFrame) = <<Brief(f)>>
           /\ OpenIn(<<f>>, c) = <<Brief(f), Brief(c)>>
<1>1. c # NoFrame
  BY DEF Frame, NoFrame, FnClasses
<1>2. OpenIn(<<>>, NoFrame) = <<>>
  BY DEF OpenIn
<1>3. OpenIn(<<>>, c) = <<Brief(c)>>
  <2>1. <<>> \o <<c>> = <<c>>
    OBVIOUS
  <2> QED BY <1>1, <2>1 DEF OpenIn, Brief
<1>4. OpenIn(<<f>>, NoFrame) = <<Brief(f)>>
  <2>1. <<f>> \o <<>> = <<f>>
    OBVIOUS
  <2> QED BY <2>1 DEF OpenIn, Brief
<1>5. OpenIn(<<f>>, c) = <<Brief(f), Brief(c)>>
  <2> DEFINE s == <<f>> \o <<c>>
  <2>1. s \in Seq(Frame) /\ Len(s) = 2 /\ s[1] = f /\ s[2] = c
    OBVIOUS
  <2> HIDE DEF s
  <2>2. s = <<f, c>>
    BY <2>1
  <2> QED BY <1>1, <2>2 DEF OpenIn, Brief, s
<1> QED BY <1>2, <1>3, <1>4, <1>5

\* At most one load is under way, so at most two calls are open.
LEMMA OpenCases ==
    ASSUME IInv, MsgInv
    PROVE  \/ outer = <<>>
           \/ \E f \in Frame : outer = <<f>> /\ f.fn = "load"
<1> SUFFICES ASSUME outer # <<>> PROVE \E f \in Frame : outer = <<f>> /\ f.fn = "load"
  OBVIOUS
<1>1. outer \in Seq(Frame) /\ Len(outer) = 1
  BY DEF IInv, TypeOK, LockShape
<1>2. outer[1] \in Frame /\ outer = <<outer[1]>> /\ 1 \in DOMAIN outer
  BY <1>1
<1> QED BY <1>2 DEF MsgInv, AnswerShape

\* A step that leaves the calls open, or moves one on, is not seen.
LEMMA NotSeen ==
    ASSUME IInv, MsgInv, outer' = outer,
           \/ cur' = cur
           \/ cur \in Frame /\ cur' \in Frame /\ cur'.fn = cur.fn /\ cur'.id = cur.id
    PROVE  Opened' = Opened
<1>1. CASE cur' = cur
  BY <1>1 DEF Opened
<1>2. CASE cur \in Frame /\ cur' \in Frame /\ cur'.fn = cur.fn /\ cur'.id = cur.id
  <2>1. Brief(cur) = Brief(cur')
    BY <1>2 DEF Brief
  <2>2. OpenIn(outer, cur) = OpenIn(outer, cur')
    <3>1. CASE outer = <<>>
      <4>1. OpenIn(<<>>, cur) = <<Brief(cur)>> /\ OpenIn(<<>>, cur') = <<Brief(cur')>>
        BY <1>2, OpenShapes
      <4> QED BY <2>1, <3>1, <4>1
    <3>2. CASE outer # <<>>
      <4>1. PICK f \in Frame : outer = <<f>>
        BY <3>2, OpenCases
      <4>2. /\ OpenIn(<<f>>, cur) = <<Brief(f), Brief(cur)>>
            /\ OpenIn(<<f>>, cur') = <<Brief(f), Brief(cur')>>
        BY <1>2, OpenShapes
      <4> QED BY <2>1, <4>1, <4>2
    <3> QED BY <3>1, <3>2
  <2> QED BY <2>2 DEF Opened
<1> QED BY <1>1, <1>2

\* The steps of the thread that runs JavaScript are calls, answers, or not
\* seen.
LEMMA JsImplements ==
    ASSUME IInv, MsgInv, JsStep
    PROVE  [Bridge!ANext]_(Bridge!avars)
<1> USE DEF jsVars, replyVars, ownerVars
<1>0. /\ cur \in Frame \cup {NoFrame} /\ NoFrame.fn = "none"
      /\ cur.at # "none" => cur \in Frame
      /\ cur.at = "test" => cur # NoFrame /\ outer = <<>> /\ (ready => Delivered)
  BY DEF IInv, TypeOK, NoFrame, LockShape, Delivered
<1>1. ASSUME UNCHANGED <<calls, done, sent, received, alive, outer>>,
             \/ cur' = cur
             \/ cur \in Frame /\ cur' \in Frame /\ cur'.fn = cur.fn /\ cur'.id = cur.id
      PROVE  UNCHANGED Bridge!avars
  BY <1>1, NotSeen DEF Bridge!avars
<1>2. CASE BeginEval \/ EndEval
  BY <1>1, <1>2 DEF BeginEval, EndEval
<1>3. CASE MutexLock \/ CondWait \/ SpuriousWakeup
  <2>1. UNCHANGED <<calls, done, sent, received, alive, outer>>
    BY <1>3 DEF MutexLock, CondWait, SpuriousWakeup
  <2>2. cur.at \in {"lock", "wake", "test", "sleep"}
        /\ \E a \in {"test", "sleep", "wake"} : cur' = [cur EXCEPT !.at = a]
    BY <1>3 DEF MutexLock, CondWait, SpuriousWakeup
  <2>3. cur \in Frame /\ cur' \in Frame /\ cur'.fn = cur.fn /\ cur'.id = cur.id
    <3>1. cur.at # "none"
      BY <2>2
    <3>2. PICK a \in {"test", "sleep", "wake"} : cur' = [cur EXCEPT !.at = a]
      BY <2>2
    <3>3. /\ cur \in Frame /\ [cur EXCEPT !.at = a] \in Frame
          /\ [cur EXCEPT !.at = a].fn = cur.fn /\ [cur EXCEPT !.at = a].id = cur.id
      BY <1>0, <3>1, FrameMoves, FrameKeepsCall
    <3> QED BY <3>2, <3>3
  <2> QED BY <1>1, <2>1, <2>3
<1>4. ASSUME NEW fn \in FnClasses \cup {"load"}, NEW kind \in Requests, Enter(fn, kind)
      PROVE  Bridge!Call(fn)
  <2> DEFINE f == [fn |-> fn, id |-> calls + 1, at |-> "lock"]
  <2>1. /\ cur = NoFrame /\ calls' = calls + 1
        /\ UNCHANGED <<outer, done, sent, received, alive>>
        /\ cur' = IF alive THEN f ELSE cur
    BY <1>4 DEF Enter
  <2>2. f \in Frame /\ Brief(f) = [fn |-> fn, id |-> calls + 1]
    BY DEF Frame, Brief, IInv, TypeOK
  <2> HIDE DEF f
  <2>3. \A i \in DOMAIN Opened : Opened[i].fn = "load"
    <3>1. CASE outer = <<>>
      <4>1. Opened = <<>>
        BY <2>1, <2>2, <3>1, OpenShapes DEF Opened
      <4> QED BY <4>1
    <3>2. CASE outer # <<>>
      <4>1. PICK g \in Frame : outer = <<g>> /\ g.fn = "load"
        BY <3>2, OpenCases
      <4>2. Opened = <<Brief(g)>>
        BY <2>1, <4>1, OpenShapes DEF Opened
      <4> QED BY <4>1, <4>2 DEF Brief
    <3> QED BY <3>1, <3>2
  <2>4. Opened' = IF alive THEN Append(Opened, Brief(f)) ELSE Opened
    <3>1. CASE ~alive
      BY <2>1, <3>1 DEF Opened
    <3>2. CASE alive /\ outer = <<>>
      <4>1. OpenIn(<<>>, NoFrame) = <<>> /\ OpenIn(<<>>, f) = <<Brief(f)>>
        BY <2>2, OpenShapes
      <4>2. Opened = <<>> /\ Opened' = <<Brief(f)>>
        BY <2>1, <3>2, <4>1 DEF Opened
      <4> QED BY <3>2, <4>2
    <3>3. CASE alive /\ outer # <<>>
      <4>1. PICK g \in Frame : outer = <<g>>
        BY <3>3, OpenCases
      <4>2. Opened = <<Brief(g)>> /\ Opened' = <<Brief(g), Brief(f)>>
        BY <2>1, <2>2, <3>3, <4>1, OpenShapes DEF Opened
      <4> QED BY <3>3, <4>2
    <3> QED BY <3>1, <3>2, <3>3
  <2> QED BY <2>1, <2>2, <2>3, <2>4 DEF Bridge!Call
<1>5. CASE \E fn \in HostFns : host_call_generic(fn)
  BY <1>4, <1>5, BridgeAssumption DEF host_call_generic, Requests, Bridge!ANext
<1>6. CASE beamjs_module_loader
  BY <1>4, <1>6 DEF beamjs_module_loader, Requests, Bridge!ANext
<1>7. CASE TakeReply
  <2>1. /\ cur \in Frame /\ outer = <<>> /\ ready /\ Delivered
        /\ cur' = NoFrame /\ outer' = outer /\ done' = done + 1
        /\ UNCHANGED <<calls, sent, alive>>
        /\ received' = IF reply.what = "message" THEN Append(received, reply.n) ELSE received
    BY <1>0, <1>7 DEF TakeReply
  <2>2. Opened = <<Brief(cur)>> /\ Opened' = <<>>
    BY <2>1, OpenShapes DEF Opened
  <2>3. Opened[1].fn = cur.fn /\ Len(Opened) = 1
    BY <2>2 DEF Brief
  <2>4. reply.what = "message" <=> cur.fn = "receive"
    BY <2>1 DEF MsgInv, AnswerShape
  <2>5. reply.what = "message" => reply.n = Len(received) + 1 /\ Len(received) < sent
    BY <2>1, MsgTypes DEF MsgInv, Numbers
  <2> QED BY <2>1, <2>2, <2>3, <2>4, <2>5 DEF Bridge!ANext, Bridge!Answer
<1>8. CASE LoaderReply
  <2>1. /\ cur \in Frame /\ cur.fn = "load" /\ outer = <<>> /\ cur' = NoFrame
        /\ UNCHANGED <<calls, sent, received, alive>>
    BY <1>0, <1>8 DEF LoaderReply
  <2>2. Opened = <<Brief(cur)>>
    BY <2>1, OpenShapes DEF Opened
  <2>3. CASE reply.what = "source"
    <3>1. outer' = <<cur>> /\ done' = done
      BY <1>8, <2>1, <2>3 DEF LoaderReply
    <3>2. Opened' = Opened
      <4>1. OpenIn(<<cur>>, NoFrame) = <<Brief(cur)>>
        BY <2>1, OpenShapes
      <4> QED BY <2>1, <2>2, <3>1, <4>1 DEF Opened
    <3> QED BY <2>1, <3>1, <3>2 DEF Bridge!avars
  <2>4. CASE reply.what # "source"
    <3>1. outer' = <<>> /\ done' = done + 1
      BY <1>8, <2>1, <2>4 DEF LoaderReply
    <3>2. Opened' = <<>>
      BY <2>1, <3>1, OpenShapes DEF Opened
    <3>3. Opened[1].fn = "load" /\ Len(Opened) = 1
      BY <2>1, <2>2 DEF Brief
    <3> QED BY <2>1, <3>1, <3>2, <3>3 DEF Bridge!ANext, Bridge!Answer
  <2> QED BY <2>3, <2>4
<1>9. CASE LoaderDone
  <2>1. /\ outer # <<>> /\ cur = NoFrame /\ cur' = cur /\ outer' = <<>> /\ done' = done + 1
        /\ UNCHANGED <<calls, sent, received, alive>>
    BY <1>9 DEF LoaderDone, IInv, LockShape, TypeOK
  <2>2. PICK g \in Frame : outer = <<g>> /\ g.fn = "load"
    BY <2>1, OpenCases
  <2>3. Opened = <<Brief(g)>> /\ Opened' = <<>>
    BY <2>1, <2>2, OpenShapes DEF Opened
  <2>4. Opened[1].fn = "load" /\ Len(Opened) = 1
    BY <2>2, <2>3 DEF Brief
  <2> QED BY <2>1, <2>3, <2>4 DEF Bridge!ANext, Bridge!Answer
<1> QED BY <1>2, <1>3, <1>5, <1>6, <1>7, <1>8, <1>9 DEF JsStep

\* The steps of the others are messages sent, the end of the owner, or not
\* seen.
LEMMA OwnerImplements ==
    ASSUME IInv, MsgInv, OwnerStep \/ Kill \/ send_message \/ OtherMessage
    PROVE  [Bridge!ANext]_(Bridge!avars)
<1> USE DEF jsVars, replyVars, ownerVars
<1>1. ASSUME UNCHANGED <<calls, done, sent, received, alive, cur, outer>>
      PROVE  UNCHANGED Bridge!avars
  BY <1>1, NotSeen DEF Bridge!avars
<1>2. CASE \/ handle_js_message \/ handle_receive \/ handle_host_call \/ handle_load_module
           \/ handle_other \/ SpawnDone \/ OtherMessage
  BY <1>1, <1>2 DEF handle_js_message, handle_receive, handle_host_call, handle_load_module,
                    handle_other, SpawnDone, OtherMessage
<1>3. CASE nif_deliver_host_reply
  <2>1. UNCHANGED <<calls, done, sent, received, alive, outer>>
    BY <1>3 DEF nif_deliver_host_reply
  <2>2. \/ cur' = cur
        \/ cur \in Frame /\ cur' \in Frame /\ cur'.fn = cur.fn /\ cur'.id = cur.id
    <3>1. cur \in Frame \cup {NoFrame}
      BY DEF IInv, TypeOK
    <3> QED BY <1>3, <3>1, FrameMoves, FrameKeepsCall DEF nif_deliver_host_reply
  <2>3. Opened' = Opened
    BY <2>1, <2>2, NotSeen
  <2> QED BY <2>1, <2>3 DEF Bridge!avars
<1>4. CASE dispatch_exit \/ DispatchCrash \/ Kill
  <2>1. /\ alive /\ alive' = FALSE
        /\ UNCHANGED <<calls, done, sent, received, cur, outer>>
    BY <1>4 DEF dispatch_exit, DispatchCrash, Kill, OwnerGone
  <2>2. Opened' = Opened
    BY <2>1, NotSeen
  <2> QED BY <2>1, <2>2 DEF Bridge!ANext, Bridge!Die
<1>5. CASE send_message
  <2>1. alive /\ sent' = sent + 1 /\ UNCHANGED <<calls, done, alive, received, cur, outer>>
    BY <1>5 DEF send_message
  <2>2. Opened' = Opened
    BY <2>1, NotSeen
  <2> QED BY <2>1, <2>2 DEF Bridge!ANext, Bridge!Send
<1> QED BY <1>2, <1>3, <1>4, <1>5 DEF OwnerStep

\* The bridge, with its one unnumbered reply slot, its mutex held during
\* loads, spurious wake-ups and an owner that dies anywhere, is to
\* JavaScript what BridgeSpec says: calls answered at most once and in their
\* nesting, receives answered with the messages in the order of sending.
THEOREM BridgeImplemented == Spec => ImplementsBridge
<1>1. Init => Bridge!AInit
  <2> SUFFICES ASSUME Init PROVE Bridge!AInit
    OBVIOUS
  <2>1. Opened = <<>>
    BY DEF Init, Opened, OpenIn
  <2> QED BY <2>1 DEF Init, Bridge!AInit
<1>2. IInv /\ MsgInv /\ [Next]_vars => [Bridge!ANext]_(Bridge!avars)
  <2>1. IInv /\ MsgInv /\ Next => [Bridge!ANext]_(Bridge!avars)
    BY JsImplements, OwnerImplements DEF Next
  <2>2. UNCHANGED vars => UNCHANGED Bridge!avars
    BY DEF vars, Bridge!avars, Opened
  <2> QED BY <2>1, <2>2
<1> QED BY <1>1, <1>2, OneRequestAtATime, MessagesAccounted, PTL
        DEF Spec, ImplementsBridge, Bridge!ASpec
=============================================================================
