----------------------------- MODULE MethodCall -----------------------------
(***************************************************************************)
(* The client's side of a method call: a stub sends the request, and the   *)
(* call ends with the reply, with the error libdbus makes up when the      *)
(* timeout expires, or with PendingCall::cancel().                         *)
(*                                                                         *)
(* One thread owns the dispatcher, so the actions of the user and those of *)
(* the event loop alternate.  A blocking call stops the event loop: while  *)
(* it waits libdbus reads replies into the queue of the connection, takes  *)
(* its own out of it and leaves the rest, and no timer fires.  A request   *)
(* of its own timeout, stub.m[timeout = t](args), leaves t in a variable   *)
(* of the thread that the next TimeoutRAIIHelper consumes.                 *)
(*                                                                         *)
(* External: libdbus keeps a pending call until a message with its serial  *)
(* is dispatched, stops its timer as soon as such a message is read, and   *)
(* drops a message nobody waits for; the bus forwards one reply per call.  *)
(***************************************************************************)
EXTENDS Integers, Sequences

CONSTANTS Calls,       \* the calls a client makes
          NoCall,
          Liberties    \* what may happen between m[timeout = t] and the send

\* "nested": the arguments contain another call; "throw": evaluating them
\* throws, and the call is not made.
Liberty == {"nested", "throw"}

ASSUME CallAssumption ==
    /\ NoCall \notin Calls
    /\ Liberties \subseteq Liberty

VARIABLES
    mode,      \* how each call is made
    state,     \* where it stands
    result,    \* what the caller was given, in order
    armed,     \* the timer of the pending call is enabled
    wire,      \* requests the other side has not replied to yet
    queue,     \* messages read from the connection and not dispatched
    blocked,   \* the call the thread waits for in dbus_pending_call_block()
    asking,    \* the call whose arguments are being evaluated after m[...]
    asked,     \* calls made with a timeout of their own
    request_specific_timeout, \* the thread's variable: whose timeout it holds
    timeout    \* whose timeout each call was sent with, NoCall for the default

vars == <<mode, state, result, armed, wire, queue, blocked, asking, asked,
          request_specific_timeout, timeout>>

timing == <<asking, asked, request_specific_timeout, timeout>>
-----------------------------------------------------------------------------
Modes  == {"none", "async", "blocking", "oneway"}
States == {"idle", "pending", "completed", "cancelled", "abandoned"}
Reply  == {"return", "error"}
Result == Reply \cup {"no_reply"}

Queued(c) == \E i \in 1..Len(queue) : queue[i].re = c

Init ==
    /\ mode = [c \in Calls |-> "none"]
    /\ state = [c \in Calls |-> "idle"]
    /\ result = [c \in Calls |-> <<>>]
    /\ armed = [c \in Calls |-> FALSE]
    /\ wire = {}
    /\ queue = <<>>
    /\ blocked = NoCall
    /\ asking = NoCall
    /\ asked = {}
    /\ request_specific_timeout = NoCall
    /\ timeout = [c \in Calls |-> NoCall]
-----------------------------------------------------------------------------
\* [mutant of Ask] a timeout that is in the variable already is kept
AskUnlessSet(c) ==
    /\ blocked = NoCall /\ asking = NoCall /\ state[c] = "idle"
    /\ asking' = c
    /\ asked' = asked \cup {c}
    /\ request_specific_timeout' = IF request_specific_timeout = NoCall THEN c
                                   ELSE request_specific_timeout
    /\ UNCHANGED <<mode, state, result, armed, wire, queue, blocked, timeout>>

\* ClientMethod::operator[]; the arguments are evaluated after it.
Ask(c) ==
    /\ blocked = NoCall /\ asking = NoCall /\ state[c] = "idle"
    /\ asking' = c
    /\ asked' = asked \cup {c}
    /\ request_specific_timeout' = c
    /\ UNCHANGED <<mode, state, result, armed, wire, queue, blocked, timeout>>

\* An exception leaves the evaluation of the arguments; the call is not made.
ArgumentsThrow ==
    /\ "throw" \in Liberties
    /\ blocked = NoCall /\ asking # NoCall
    /\ state' = [state EXCEPT ![asking] = "abandoned"]
    /\ asked' = asked \ {asking}
    /\ asking' = NoCall
    /\ UNCHANGED <<mode, result, armed, wire, queue, blocked,
                   request_specific_timeout, timeout>>

\* The thread is in the event loop, or in a callback it has called.
LoopRuns == blocked = NoCall /\ asking = NoCall

MayCall(c) ==
    /\ blocked = NoCall /\ state[c] = "idle"
    /\ asking \in {NoCall, c} \/ "nested" \in Liberties

\* [mutant of SendWithReply] ~TimeoutRAIIHelper() does not reset the variable
SendWithReplyNoReset(c, m) ==
    /\ mode' = [mode EXCEPT ![c] = m]
    /\ state' = [state EXCEPT ![c] = "pending"]
    /\ armed' = [armed EXCEPT ![c] = TRUE]
    /\ wire' = wire \cup {c}
    /\ timeout' = [timeout EXCEPT ![c] = request_specific_timeout]
    /\ asking' = IF asking = c THEN NoCall ELSE asking
    /\ UNCHANGED <<result, queue, asked, request_specific_timeout>>

\* dbus_connection_send_with_reply() with a TimeoutRAIIHelper: the request
\* takes the timeout the thread's variable holds and resets the variable.
SendWithReply(c, m) ==
    /\ mode' = [mode EXCEPT ![c] = m]
    /\ state' = [state EXCEPT ![c] = "pending"]
    /\ armed' = [armed EXCEPT ![c] = TRUE]
    /\ wire' = wire \cup {c}
    /\ timeout' = [timeout EXCEPT ![c] = request_specific_timeout]
    /\ request_specific_timeout' = NoCall
    /\ asking' = IF asking = c THEN NoCall ELSE asking
    /\ UNCHANGED <<result, queue, asked>>

\* method.async(...) >> f
CallAsync(c) ==
    /\ MayCall(c)
    /\ SendWithReply(c, "async")
    /\ UNCHANGED blocked

\* method(...): send_request_and_block()
CallBlocking(c) ==
    /\ MayCall(c)
    /\ SendWithReply(c, "blocking")
    /\ blocked' = c

\* A oneway method does not take a timeout and is done once it is sent.
CallOneway(c) ==
    /\ MayCall(c) /\ c # asking
    /\ mode' = [mode EXCEPT ![c] = "oneway"]
    /\ state' = [state EXCEPT ![c] = "completed"]
    /\ UNCHANGED <<result, armed, wire, queue, blocked, timing>>

\* property.get_async(): the default timeout, whatever the thread's variable holds
GetProperty(c) ==
    /\ MayCall(c) /\ c # asking
    /\ mode' = [mode EXCEPT ![c] = "async"]
    /\ state' = [state EXCEPT ![c] = "pending"]
    /\ armed' = [armed EXCEPT ![c] = TRUE]
    /\ wire' = wire \cup {c}
    /\ UNCHANGED <<result, queue, blocked, timing>>
-----------------------------------------------------------------------------
\* A reply is read from the connection; libdbus stops the timer of its call.
Read(c, kind) ==
    /\ c \in wire
    /\ wire' = wire \ {c}
    /\ queue' = Append(queue, [re |-> c, kind |-> kind])
    /\ armed' = [armed EXCEPT ![c] = FALSE]
    /\ UNCHANGED <<mode, state, result, blocked, timing>>

\* dbus_timeout_handle(): an error takes its place in the queue as if it had
\* been received, the request stays on the wire.
TimerFires(c) ==
    /\ LoopRuns
    /\ armed[c]
    /\ queue' = Append(queue, [re |-> c, kind |-> "no_reply"])
    /\ armed' = [armed EXCEPT ![c] = FALSE]
    /\ UNCHANGED <<mode, state, result, wire, blocked, timing>>

Complete(c, kind) ==
    /\ state' = [state EXCEPT ![c] = "completed"]
    /\ result' = [result EXCEPT ![c] = Append(@, kind)]
    /\ armed' = [armed EXCEPT ![c] = FALSE]

\* [mutant of Dispatch] the callback runs for a call that was cancelled
DispatchUnchecked ==
    /\ LoopRuns
    /\ queue # <<>>
    /\ queue' = Tail(queue)
    /\ Complete(Head(queue).re, Head(queue).kind)
    /\ UNCHANGED <<mode, wire, blocked, timing>>

\* dispatch() takes the oldest message; pending_notify() runs the callback if
\* the call is still pending.
Dispatch ==
    /\ LoopRuns
    /\ queue # <<>>
    /\ queue' = Tail(queue)
    /\ IF state[Head(queue).re] = "pending"
       THEN Complete(Head(queue).re, Head(queue).kind)
       ELSE UNCHANGED <<state, result, armed>>
    /\ UNCHANGED <<mode, wire, blocked, timing>>

\* dbus_pending_call_block() found its reply, wherever it is in the queue:
\* the reply is returned, or thrown if it is an error.
BlockingReturns ==
    /\ blocked # NoCall
    /\ \E i \in 1..Len(queue) :
          /\ queue[i].re = blocked
          /\ \A j \in 1..(i - 1) : queue[j].re # blocked
          /\ Complete(blocked, queue[i].kind)
          /\ queue' = SubSeq(queue, 1, i - 1) \o SubSeq(queue, i + 1, Len(queue))
    /\ blocked' = NoCall
    /\ UNCHANGED <<mode, wire, timing>>

\* [mutant of BlockingTimesOut] the deadline does not end the wait
BlockingWaitsForReply ==
    /\ blocked # NoCall /\ ~Queued(blocked) /\ blocked \notin wire
    /\ Complete(blocked, "no_reply")
    /\ blocked' = NoCall
    /\ UNCHANGED <<mode, wire, queue, timing>>

\* [mutant of BlockingTimesOut] the error is not the one of an asynchronous call
BlockingTimesOutOtherwise ==
    /\ blocked # NoCall /\ ~Queued(blocked)
    /\ Complete(blocked, "timeout")
    /\ blocked' = NoCall
    /\ UNCHANGED <<mode, wire, queue, timing>>

BlockingTimesOut ==
    /\ blocked # NoCall /\ ~Queued(blocked)
    /\ Complete(blocked, "no_reply")
    /\ blocked' = NoCall
    /\ UNCHANGED <<mode, wire, queue, timing>>

\* PendingCall::cancel()
Cancel(c) ==
    /\ LoopRuns
    /\ mode[c] = "async" /\ state[c] = "pending"
    /\ state' = [state EXCEPT ![c] = "cancelled"]
    /\ armed' = [armed EXCEPT ![c] = FALSE]
    /\ UNCHANGED <<mode, result, wire, queue, blocked, timing>>
-----------------------------------------------------------------------------
User == \E c \in Calls :
    \/ Ask(c) \/ CallAsync(c) \/ CallBlocking(c) \/ CallOneway(c)
    \/ GetProperty(c) \/ Cancel(c)

Loop == Dispatch \/ \E c \in Calls : TimerFires(c)

Blocking == BlockingReturns \/ BlockingTimesOut

Next ==
    \/ User
    \/ ArgumentsThrow
    \/ \E c \in Calls, kind \in Reply : Read(c, kind)
    \/ Loop
    \/ Blocking

Spec == Init /\ [][Next]_vars

\* The evaluation of arguments comes to an end, with the call or an exception.
FinishAsking ==
    \/ ArgumentsThrow
    \/ \E c \in Calls : c = asking /\ (CallAsync(c) \/ CallBlocking(c))

\* The event loop runs: it dispatches, and handles a timer that expired; a
\* blocking call ends, at the latest when its timeout does.  Replies may never
\* come.  Timers are served one at a time, so each one needs its own fairness.
Fairness ==
    /\ WF_vars(Dispatch)
    /\ \A c \in Calls : WF_vars(TimerFires(c))
    /\ WF_vars(Blocking)
    /\ WF_vars(FinishAsking)

FairSpec == Spec /\ Fairness
-----------------------------------------------------------------------------
(***************************************************************************)
(* Properties                                                              *)
(***************************************************************************)
Messages == [re : Calls, kind : Result]

\* The variables have their types.
TypeOK ==
    /\ mode \in [Calls -> Modes]
    /\ state \in [Calls -> States]
    /\ result \in [Calls -> Seq(Result)]
    /\ armed \in [Calls -> BOOLEAN]
    /\ wire \in SUBSET Calls
    /\ queue \in Seq(Messages)
    /\ blocked \in Calls \cup {NoCall}
    /\ asking \in Calls \cup {NoCall}
    /\ asked \in SUBSET Calls
    /\ request_specific_timeout \in Calls \cup {NoCall}
    /\ timeout \in [Calls -> Calls \cup {NoCall}]

\* A call ends once: with one result, be it the reply or the timeout, or without
\* any when it is cancelled; nothing that still arrives for it, a late reply or
\* a late timer, changes how it ended.
OneResult ==
    [][\A c \in Calls :
          \/ state'[c] = state[c] /\ result'[c] = result[c]
          \/ /\ state[c] \in {"idle", "pending"}
             /\ result[c] = <<>>
             /\ Len(result'[c]) =
                   IF state'[c] = "completed" /\ mode'[c] # "oneway" THEN 1 ELSE 0]_vars

\* A timeout given for one request serves at most one: whatever else the thread
\* sends, later calls have the default again.
TimeoutUsedOnce ==
    \A c, d \in Calls :
        c # d /\ timeout[c] # NoCall => timeout[d] # timeout[c]

\* A call made with a timeout of its own is sent with it.  The one thing that takes it
\* away is a call without a timeout among its arguments, which is then sent with it, and
\* what a call that was never made left in the thread's variable does not replace it.
TimeoutKept ==
    \A c \in asked : state[c] # "idle" =>
        \/ timeout[c] = c
        \/ timeout[c] = NoCall /\ \E d \in Calls \ asked : timeout[d] = c

\* "request specific timeout -> overrides default": a call made with a timeout
\* of its own is sent with it, and every other call with the default.
OwnTimeout ==
    \A c \in Calls : state[c] # "idle" =>
        timeout[c] = IF c \in asked THEN c ELSE NoCall

\* Every call ends, even if the other side never answers.
EveryCallEnds ==
    \A c \in Calls : state[c] = "pending" ~> state[c] \in {"completed", "cancelled"}
=============================================================================
