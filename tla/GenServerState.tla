--------------------------- MODULE GenServerState ---------------------------
(***************************************************************************)
(* A JavaScript GenServer between two requests: its state lives in the     *)
(* global __genserver_state.  Each handler gets it with the request, and   *)
(* the state the handler returns goes to Erlang with the result of eval    *)
(* and back with set_global.  A request is handled in one step here; the   *)
(* NIF calls it is made of, the callers and the threads are in JsSystem.   *)
(* js_state, the copy in the Elixir struct, is written and never read.     *)
(***************************************************************************)
EXTENDS TermConvert

CONSTANTS
    Requests,   \* Erlang terms that clients send
    Values,     \* JavaScript values that init and the handlers make themselves
    MaxLen      \* bound on the arrays it builds by adding to them

\* A result holds a request and a state: these nest less than it does.
ASSUME SizeAssumption ==
    /\ MaxLen \in Nat /\ MaxDepth > 1
    /\ {"reply", "noreply", "stop", "error", "state", "items"} \subseteq Names
    /\ \A req \in Requests : req \in Terms[MaxDepth - 1]
    /\ \A v \in Values : v \in Js[MaxDepth - 1]

VARIABLES
    alive,      \* the process exists
    pending,    \* __pending_call_request or __pending_cast_request
    global,     \* __genserver_state
    returned    \* the state the last handler returned, if it was stored

vars == <<alive, pending, global, returned>>

\* The array a handler can add to, if the state is one.
Grows(g) == {a \in {g[k] : k \in DOMAIN g \cap {"arr"}} : Len(a) < MaxLen}

\* What a handler can make of the state g and the request r: keep either,
\* put the request in a list, add it to the list it has, or start afresh.
NewStates(g, r) ==
    {s \in {g, r, [arr |-> <<r>>], Object([items |-> [arr |-> <<r>>]])}
           \cup {[arr |-> Append(a, r)] : a \in Grows(g)}
           \cup Values : s \in Js[MaxDepth - 1]}

Init ==
    /\ alive = TRUE
    /\ pending = Nothing
    /\ global \in Values
    /\ returned = Nothing

\* A handler can change an object or an array in place.
InPlace(g) ==
    {g} \cup {v \in Values : \E k \in {"obj", "arr"} : Is(g, k) /\ Is(v, k)}

-----------------------------------------------------------------------------
\* set_global of the request.
Deliver(req) ==
    /\ alive
    /\ pending' = erl_term_to_js(req)

\* set_global of the state in the result.
Store(s) ==
    /\ global' = erl_term_to_js(js_value_to_erl(s))
    /\ returned' = s
    /\ alive' = TRUE

\* The handler leaves nothing to store, but may have changed the state.
LeaveAs(g) ==
    /\ global' = g
    /\ returned' = IF g = global THEN returned ELSE Nothing
    /\ alive' = TRUE

\* The process ends, and its context with it.
Ends ==
    /\ alive' = FALSE
    /\ global' = Prim("undefined")
    /\ returned' = Nothing

-----------------------------------------------------------------------------
(* What a handler returns.                                                 *)

HasKeys(v, names) == Is(v, "obj") /\ \A n \in names : v.obj[n] # Nothing

ReplyResult(v)     == HasKeys(v, {"reply", "state"})
NoReplyResult(v)   == HasKeys(v, {"noreply", "state"}) /\ v.obj["noreply"] = Prim("true")
StopResult(v)      == HasKeys(v, {"stop"})
StopReplyResult(v) == HasKeys(v, {"stop", "reply"})
NoHandlerResult(v) == HasKeys(v, {"error"}) /\ v.obj["error"] = [str |-> <<"no_handler">>]

\* The results the model tries: each documented shape, with a state or
\* without, and nothing at all.
Results(g, r) ==
    LET States == NewStates(g, r)
    IN  {Object([reply |-> r, state |-> s]) : s \in States}
        \cup {Object([noreply |-> Prim("true"), state |-> s]) : s \in States}
        \cup {Object([stop |-> r, reply |-> r, state |-> g]),
               Object([stop |-> r, reply |-> r]), Object([stop |-> r]),
               Object([error |-> [str |-> <<"no_handler">>]]), Prim("undefined")}

-----------------------------------------------------------------------------
(* handle_call({:js_call, request}, ...), by what the handler returns.  A  *)
(* result that cannot be converted raises in the NIF and ends the process. *)

CallReturns(req, v) ==
    /\ Deliver(req)
    /\ \/ Raises(v) /\ Ends
       \/ ~Raises(v) /\ (ReplyResult(v) \/ NoReplyResult(v)) /\ Store(v.obj["state"])
       \/ /\ ~Raises(v) /\ ~ReplyResult(v) /\ ~NoReplyResult(v)
          /\ IF ~StopReplyResult(v) /\ NoHandlerResult(v)
             THEN \E g \in InPlace(global) : LeaveAs(g)
             ELSE Ends

\* handle_cast({:js_cast, request}, ...); what is not a new state or a stop
\* is ignored.
CastReturns(req, v) ==
    /\ Deliver(req)
    /\ \/ Raises(v) /\ Ends
       \/ ~Raises(v) /\ NoReplyResult(v) /\ Store(v.obj["state"])
       \/ ~Raises(v) /\ ~NoReplyResult(v) /\ StopResult(v) /\ Ends
       \/ /\ ~Raises(v) /\ ~NoReplyResult(v) /\ ~StopResult(v)
          /\ \E g \in InPlace(global) : LeaveAs(g)

\* A handler throws: an error is the reply to a call, and is ignored in a
\* cast.  The thrown value is converted too, which may raise.
Throws(req) ==
    /\ Deliver(req)
    /\ Ends \/ \E g \in InPlace(global) : LeaveAs(g)

\* The supervisor starts the source again.
Restart ==
    /\ ~alive
    /\ alive' = TRUE
    /\ global' \in Values
    /\ pending' = Nothing /\ returned' = Nothing

Next ==
    \/ \E req \in Requests :
           \/ \E v \in Results(global, erl_term_to_js(req)) :
                  CallReturns(req, v) \/ CastReturns(req, v)
           \/ Throws(req)
    \/ Restart

Spec == Init /\ [][Next]_vars

-----------------------------------------------------------------------------
(* Properties.                                                             *)

\* The arrays that come back as text: they hold only strings, bytes and
\* such arrays, or nothing.
Texts[d \in Nat] ==
    IF d = 0 THEN {}
    ELSE [arr : Seq([num : 0..ByteMax] \cup [str : Seq(STRING)] \cup Texts[d - 1])]

\* The object that stands for a pid.
IsPidMap(v) == \E n \in Names : n = "__beamjs_type" /\ v.obj[n] = [str |-> <<"pid">>]

\* A reference definition of the values that survive the way to Erlang and
\* back, stated on JavaScript values alone.
PlainOver(S) ==
    (JsLeaf \ {Prim(x) : x \in {"function", "bigint", "NaN"}})
    \cup ([arr : Seq(S)] \ Texts[MaxDepth])
    \cup {v \in Objs(S) : ~IsPidMap(v)}

Plain[d \in Nat] == IF d = 0 THEN {} ELSE PlainOver(Plain[d - 1])

\* Values in which a property __beamjs_type holds no object and no array,
\* which could become the text "pid" on the way.
TameOver(S) ==
    JsLeaf \cup [arr : Seq(S)]
    \cup {v \in Objs(S) : v.obj["__beamjs_type"] \in JsLeaf \cup {Nothing}}

Tame[d \in Nat] == IF d = 0 THEN {} ELSE TameOver(Tame[d - 1])

\* The state the next handler gets is the state the last one returned,
\* exactly if that state is plain: no array in it, at any depth, is text,
\* and it holds no function, no BigInt and no pid.
KeptIfPlain ==
    returned # Nothing => (global = returned <=> returned \in Plain[MaxDepth])

\* What the conversion does to a state it does at once: a state that was
\* stored is not changed again by being returned as it is, over any number
\* of requests.  The exception is a property __beamjs_type that is no
\* primitive: {__beamjs_type: ["pid"]} becomes {__beamjs_type: "pid"} by
\* one request and its data by the next.
Settled ==
    returned # Nothing /\ returned \in Tame[MaxDepth]
        => erl_term_to_js(js_value_to_erl(global)) = global

\* README.md:182-186 and 198-199: JavaScript hands the pid it got from spawn,
\* whereis or self back, to send.  The object that stands for a pid is a pid
\* for deserialize_pid when JavaScript returns it as it was given.
PidComesBack ==
    pending = erl_term_to_js(serialize_pid) => deserialize_pid(js_value_to_erl(pending))
=============================================================================
