----------------------------- MODULE BridgeSpec -----------------------------
(***************************************************************************)
(* What the bridge promises to JavaScript, without threads, mutexes and    *)
(* queues: calls are open one inside the other, only an outermost call is  *)
(* answered, each at most once, and receive returns the messages that were *)
(* sent, one by one, in the order in which they were sent.                 *)
(***************************************************************************)
EXTENDS Naturals, Sequences

CONSTANT Fns    \* host functions, and "load" for an import

VARIABLES
    open,       \* calls in progress, the innermost last
    calls,      \* calls made so far
    answers,    \* calls answered so far
    sent,       \* messages sent to the owner
    received,   \* what receive has returned
    up          \* the owner exists

avars == <<open, calls, answers, sent, received, up>>

AInit ==
    /\ open = <<>>
    /\ calls = 0 /\ answers = 0 /\ sent = 0
    /\ received = <<>>
    /\ up = TRUE

\* A call with nobody to answer it throws.  Only a load has JavaScript run
\* inside it.
Call(fn) ==
    /\ \A i \in DOMAIN open : open[i].fn = "load"
    /\ calls' = calls + 1
    /\ open' = IF up THEN Append(open, [fn |-> fn, id |-> calls + 1]) ELSE open
    /\ UNCHANGED <<answers, sent, received, up>>

Answer ==
    /\ Len(open) = 1
    /\ open' = <<>>
    /\ answers' = answers + 1
    /\ IF open[1].fn = "receive"
       THEN /\ Len(received) < sent
            /\ received' = Append(received, Len(received) + 1)
       ELSE UNCHANGED received
    /\ UNCHANGED <<calls, sent, up>>

Send ==
    /\ up
    /\ sent' = sent + 1
    /\ UNCHANGED <<open, calls, answers, received, up>>

Die ==
    /\ up
    /\ up' = FALSE
    /\ UNCHANGED <<open, calls, answers, sent, received>>

ANext == (\E fn \in Fns : Call(fn)) \/ Answer \/ Send \/ Die

ASpec == AInit /\ [][ANext]_avars
=============================================================================
