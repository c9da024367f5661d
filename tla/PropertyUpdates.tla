--------------------------- MODULE PropertyUpdates ---------------------------
(***************************************************************************)
(* The properties of one interface from the server to its clients.  A      *)
(* property stores its value or computes it in the callback on_read(); a   *)
(* client reads it with Get and GetAll, writes it with Set, and once it    *)
(* attached is told of changes by the signal PropertiesChanged.            *)
(*                                                                         *)
(* Server and clients are processes of their own, each with one thread.    *)
(* External: the bus forwards what the server sends in that order, signals *)
(* to the clients with a match rule when it handles them (SignalMatch has  *)
(* the bookkeeping of the rules).  Calls that time out are in MethodCall;  *)
(* here every request is answered, and the server does not go away.        *)
(***************************************************************************)
EXTENDS Naturals, Sequences, SequencesExt

CONSTANTS Clients,
          Properties,
          Values, Default,   \* of the type DataT, and DataT()
          Notifying, ReadWrite, Always, \* flags: sets of properties
          OnRead,      \* properties whose server sets on_read()
          OnWrite,     \* writable properties whose server sets a callback
          NoProperty,
          MaxChanges,  \* bound: the server itself changes nothing after so many changes
          MaxCalls     \* bound: requests of a client

ASSUME PropertyAssumption ==
    /\ Default \in Values
    /\ Notifying \cup ReadWrite \cup Always \cup OnRead \subseteq Properties
    /\ OnWrite \subseteq ReadWrite
    /\ NoProperty \notin Properties
    /\ MaxChanges \in Nat /\ MaxCalls \in Nat

VARIABLES
    t_,        \* BaseProperty::t_: a value or a callback, ver counts its changes
    requests,  \* requests on their way to the server
    outbox,    \* messages of the server the bus has not handled yet
    inbox,     \* of each client: messages not dispatched yet
    attached,  \* the flags of StubBase::properties_
    attaching, \* attach() is between its two steps
    calls,     \* the calls of each client, the position is the serial
    blocked,   \* the call a client waits for, or 0
    told,      \* what the callback of a property was called with last
    overtaken  \* history: messages at the head of inbox a blocking GetAll overtook

vars   == <<t_, requests, outbox, inbox, attached, attaching, calls, blocked, told, overtaken>>
client == <<attached, attaching, calls, blocked, told, overtaken>>
-----------------------------------------------------------------------------
Version  == [val : Values, ver : Nat]
Ops      == {"attach", "get", "set", "getall"}
Call     == [op : Ops, prop : Properties \cup {NoProperty}, done : BOOLEAN,
             watched : BOOLEAN]
Request  == [from : Clients, id : Nat, op : Ops, prop : Properties \cup {NoProperty},
             val : Values]
Signal   == [kind : {"changed", "invalidated"}, prop : Properties, now : Version]
Answer   == [kind : {"return", "error"}, to : Clients, id : Nat,
             now : [Properties -> Version]]
IsSignal(m) == m.kind \in {"changed", "invalidated"}

\* What eval() encodes: the stored value or the one on_read() computes.
Now(t, p) == [val |-> t[p].val, ver |-> t[p].ver]
Snapshot(t) == [p \in Properties |-> Now(t, p)]

Init ==
    /\ t_ = [p \in Properties |-> [cb |-> p \in OnRead, val |-> Default, ver |-> 0]]
    /\ requests = <<>>
    /\ outbox = <<>>
    /\ inbox = [c \in Clients |-> <<>>]
    /\ attached = [c \in Clients |-> {}]
    /\ attaching = [c \in Clients |-> NoProperty]
    /\ calls = [c \in Clients |-> <<>>]
    /\ blocked = [c \in Clients |-> 0]
    /\ told = [c \in Clients |-> [p \in Properties |->
                  [what |-> "nothing", now |-> [val |-> Default, ver |-> 0]]]]
    /\ overtaken = [c \in Clients |-> 0]
-----------------------------------------------------------------------------
\* The server

Changed(t, p)     == [kind |-> "changed", prop |-> p, now |-> Now(t, p)]
Invalidated(t, p) == [kind |-> "invalidated", prop |-> p, now |-> Now(t, p)]
AnswerTo(r, kind, t) == [kind |-> kind, to |-> r.from, id |-> r.id, now |-> Snapshot(t)]

Next_(t, p, v, cb) == [t EXCEPT ![p] = [cb |-> cb, val |-> v, ver |-> @.ver + 1]]

\* operator= compares with value(), which throws if a callback computes it.
AssignThrows(p) == p \in Notifying /\ t_[p].cb

\* Assigner: an unchanged value is stored and notified only with Always.
Assigns(p, v) == p \in Notifying \ Always => t_[p].val # v

Assigned(p, v) == IF Assigns(p, v) THEN Next_(t_, p, v, FALSE) ELSE t_
Notification(p, v) ==
    IF Assigns(p, v) /\ p \in Notifying THEN <<Changed(Assigned(p, v), p)>> ELSE <<>>

MayChange == MapThenSumSet(LAMBDA p : t_[p].ver, Properties) < MaxChanges

\* ServerProperty::operator= in code of the server
Assign(p, v) ==
    /\ MayChange /\ ~AssignThrows(p)
    /\ t_' = Assigned(p, v)
    /\ outbox' = outbox \o Notification(p, v)
    /\ UNCHANGED <<requests, inbox, client>>

\* What on_read() will compute changes and the server says so, with the new
\* value or with invalidate().
Notify(p, v) ==
    /\ MayChange /\ t_[p].cb
    /\ t_' = Next_(t_, p, v, TRUE)
    /\ outbox' = Append(outbox, Changed(t_', p))
    /\ UNCHANGED <<requests, inbox, client>>

Invalidate(p, v) ==
    /\ MayChange /\ t_[p].cb
    /\ t_' = Next_(t_, p, v, TRUE)
    /\ outbox' = Append(outbox, Invalidated(t_', p))
    /\ UNCHANGED <<requests, inbox, client>>

Serve(r, op) == requests # <<>> /\ r = Head(requests) /\ r.op \in op /\ requests' = Tail(requests)

\* [mutant of HandleGet] an exception of on_read() leaves without an answer
HandleGetSilently(r) ==
    /\ Serve(r, {"get", "attach"})
    /\ \E kind \in IF t_[r.prop].cb THEN {"return", "error"} ELSE {"return"} :
          outbox' = IF kind = "error" THEN outbox ELSE Append(outbox, AnswerTo(r, kind, t_))
    /\ UNCHANGED <<t_, inbox, client>>

\* handle_property_get_request(): what on_read() throws becomes an error.
HandleGet(r) ==
    /\ Serve(r, {"get", "attach"})
    /\ \E kind \in IF t_[r.prop].cb THEN {"return", "error"} ELSE {"return"} :
          outbox' = Append(outbox, AnswerTo(r, kind, t_))
    /\ UNCHANGED <<t_, inbox, client>>

HandleGetAll(r) ==
    /\ Serve(r, {"getall"})
    /\ outbox' = Append(outbox, AnswerTo(r, "return", t_))
    /\ UNCHANGED <<t_, inbox, client>>

\* [mutant of SetTakes] the value is stored without operator=
SetStores(r) ==
    /\ ~AssignThrows(r.prop)
    /\ t_' = Next_(t_, r.prop, r.val, FALSE)
    /\ outbox' = Append(outbox, AnswerTo(r, "return", t_'))

\* [mutant of SetTakes] the answer is sent before the assignment
SetAnswersFirst(r) ==
    /\ ~AssignThrows(r.prop)
    /\ t_' = Assigned(r.prop, r.val)
    /\ outbox' = Append(outbox, AnswerTo(r, "return", t_')) \o Notification(r.prop, r.val)

\* The value is assigned, PropertiesChanged leaves before the answer.
SetTakes(r) ==
    /\ ~AssignThrows(r.prop)
    /\ t_' = Assigned(r.prop, r.val)
    /\ outbox' = Append(outbox \o Notification(r.prop, r.val), AnswerTo(r, "return", t_'))

\* The write callback decides otherwise, or something throws.
SetRefuses(r) ==
    /\ UNCHANGED t_
    /\ \/ r.prop \in OnWrite /\ outbox' = Append(outbox, AnswerTo(r, "return", t_))
       \/ /\ r.prop \in OnWrite \/ AssignThrows(r.prop)
          /\ outbox' = Append(outbox, AnswerTo(r, "error", t_))

\* handle_property_set_request()
HandleSet(r) ==
    /\ Serve(r, {"set"})
    /\ SetTakes(r) \/ SetRefuses(r)
    /\ UNCHANGED <<inbox, client>>
-----------------------------------------------------------------------------
\* The bus hands the oldest message of the server on.
Route ==
    /\ outbox # <<>>
    /\ outbox' = Tail(outbox)
    /\ LET m == Head(outbox)
           receives(c) == IF IsSignal(m) THEN attached[c] # {} ELSE m.to = c
       IN inbox' = [c \in Clients |-> IF receives(c) THEN Append(inbox[c], m) ELSE inbox[c]]
    /\ UNCHANGED <<t_, requests, client>>
-----------------------------------------------------------------------------
\* The clients

Idle(c) == blocked[c] = 0 /\ attaching[c] = NoProperty

\* [mutant of Send] the serial is taken after the next request was counted
SendNextSerial(c, op, p, v, waits) ==
    /\ Len(calls[c]) < MaxCalls
    /\ calls' = [calls EXCEPT ![c] = Append(@,
                    [op |-> op, prop |-> p, done |-> FALSE, watched |-> p \in attached[c]])]
    /\ requests' = Append(requests,
                    [from |-> c, id |-> Len(calls[c]) + 1, op |-> op, prop |-> p, val |-> v])
    /\ blocked' = [blocked EXCEPT ![c] = IF waits THEN Len(calls[c]) + 2 ELSE 0]
    /\ UNCHANGED <<t_, outbox, inbox, attached, told, overtaken>>

\* A request is sent; the client waits for its answer, or a callback will.
Send(c, op, p, v, waits) ==
    /\ Len(calls[c]) < MaxCalls
    /\ calls' = [calls EXCEPT ![c] = Append(@,
                    [op |-> op, prop |-> p, done |-> FALSE, watched |-> p \in attached[c]])]
    /\ requests' = Append(requests,
                    [from |-> c, id |-> Len(calls[c]) + 1, op |-> op, prop |-> p, val |-> v])
    /\ blocked' = [blocked EXCEPT ![c] = IF waits THEN Len(calls[c]) + 1 ELSE 0]
    /\ UNCHANGED <<t_, outbox, inbox, attached, told, overtaken>>

\* attach(): the flag and the match rule first ...
attach_property(c, p) ==
    /\ Idle(c) /\ Len(calls[c]) < MaxCalls
    /\ attached' = [attached EXCEPT ![c] = @ \cup {p}]
    /\ attaching' = [attaching EXCEPT ![c] = p]
    /\ UNCHANGED <<t_, requests, outbox, inbox, calls, blocked, told, overtaken>>

\* [mutant of get_attached] attach() reads the property with get()
get_attached_blocking(c, p) ==
    /\ attaching[c] = p
    /\ attaching' = [attaching EXCEPT ![c] = NoProperty]
    /\ Send(c, "attach", p, Default, TRUE)

\* ... then a Get whose answer goes to the callback, attached or not.
get_attached(c, p) ==
    /\ attaching[c] = p
    /\ attaching' = [attaching EXCEPT ![c] = NoProperty]
    /\ Send(c, "attach", p, Default, FALSE)

detach_property(c, p) ==
    /\ Idle(c) /\ p \in attached[c]
    /\ attached' = [attached EXCEPT ![c] = @ \ {p}]
    /\ calls' = [calls EXCEPT ![c] = [i \in DOMAIN @ |->
                    IF @[i].prop = p THEN [@[i] EXCEPT !.watched = FALSE] ELSE @[i]]]
    /\ UNCHANGED <<t_, requests, outbox, inbox, attaching, blocked, told, overtaken>>

\* get(), get_async(), set(), set_async() and get_all_properties, of both kinds
Ask(c, waits) ==
    /\ Idle(c)
    /\ \/ \E p \in Properties : Send(c, "get", p, Default, waits)
       \/ \E p \in ReadWrite, v \in Values : Send(c, "set", p, v, waits)
       \/ Send(c, "getall", NoProperty, Default, waits)
    /\ UNCHANGED attaching

Evaluate(c, P, what, now) ==
    told' = [told EXCEPT ![c] = [p \in Properties |->
                IF p \in P THEN [what |-> what, now |-> now[p]] ELSE @[p]]]

Finish(c, id) == calls' = [calls EXCEPT ![c][id].done = TRUE]

\* What an answer means to the callbacks of the properties.
Answered(c, m) ==
    LET call == calls[c][m.id]
    IN CASE call.op = "attach" ->
              Evaluate(c, {call.prop}, IF m.kind = "return" THEN "value" ELSE "failed", m.now)
         [] call.op = "getall" -> Evaluate(c, Properties, "value", m.now)
         [] OTHER -> UNCHANGED told

\* try_handle_signal() and pending_notify(), from the event loop
Dispatch(c) ==
    /\ Idle(c) /\ inbox[c] # <<>>
    /\ inbox' = [inbox EXCEPT ![c] = Tail(@)]
    /\ overtaken' = [overtaken EXCEPT ![c] = IF @ = 0 THEN 0 ELSE @ - 1]
    /\ LET m == Head(inbox[c])
       IN IF IsSignal(m)
          THEN /\ UNCHANGED calls
               /\ Evaluate(c, attached[c] \cap {m.prop},
                           IF m.kind = "changed" THEN "value" ELSE "invalid",
                           [p \in {m.prop} |-> m.now])
          ELSE Answered(c, m) /\ Finish(c, m.id)
    /\ UNCHANGED <<t_, requests, outbox, attached, attaching, blocked>>

\* A blocking call takes its answer out of the queue, past older messages.
BlockingReturns(c) ==
    /\ blocked[c] # 0
    /\ \E i \in DOMAIN inbox[c] :
          LET m == inbox[c][i]
          IN /\ ~IsSignal(m) /\ m.id = blocked[c]
             /\ Answered(c, m) /\ Finish(c, m.id)
             /\ inbox' = [inbox EXCEPT ![c] = RemoveAt(@, i)]
             /\ overtaken' = [overtaken EXCEPT ![c] =
                                IF calls[c][m.id].op = "getall" THEN i - 1 ELSE @]
    /\ blocked' = [blocked EXCEPT ![c] = 0]
    /\ UNCHANGED <<t_, requests, outbox, attached, attaching>>
-----------------------------------------------------------------------------
Handle == \E r \in Range(requests) : HandleGet(r) \/ HandleGetAll(r) \/ HandleSet(r)

Next ==
    \/ \E p \in Properties, v \in Values : Assign(p, v) \/ Notify(p, v) \/ Invalidate(p, v)
    \/ Handle
    \/ Route
    \/ \E c \in Clients :
          \/ \E p \in Properties :
                attach_property(c, p) \/ get_attached(c, p) \/ detach_property(c, p)
          \/ \E waits \in BOOLEAN : Ask(c, waits)
          \/ Dispatch(c)
          \/ BlockingReturns(c)

Spec == Init /\ [][Next]_vars

\* Server and bus handle what they are sent, attach() comes to its end, and the
\* event loop of a client runs.
Fairness ==
    /\ WF_vars(Handle) /\ WF_vars(Route)
    /\ \A c \in Clients :
          /\ WF_vars(\E p \in Properties : get_attached(c, p))
          /\ WF_vars(Dispatch(c))
          /\ WF_vars(BlockingReturns(c))

FairSpec == Spec /\ Fairness
-----------------------------------------------------------------------------
(***************************************************************************)
(* Properties                                                              *)
(***************************************************************************)
\* The variables have their types.
TypeOK ==
    /\ t_ \in [Properties -> [cb : BOOLEAN, val : Values, ver : Nat]]
    /\ requests \in Seq(Request)
    /\ outbox \in Seq(Signal \cup Answer)
    /\ inbox \in [Clients -> Seq(Signal \cup Answer)]
    /\ attached \in [Clients -> SUBSET Properties]
    /\ attaching \in [Clients -> Properties \cup {NoProperty}]
    /\ calls \in [Clients -> Seq(Call)]
    /\ blocked \in [Clients -> 0..MaxCalls]
    /\ told \in [Clients -> [Properties ->
                   [what : {"nothing", "value", "invalid", "failed"}, now : Version]]]
    /\ overtaken \in [Clients -> Nat]

\* The server says when it changes: it has the flag, or notifies as on_read() demands.
Announced(p) == p \in Notifying \/ t_[p].cb

\* The client waits for nothing that concerns the property.
Quiet(c, p) ==
    /\ \A m \in Range(outbox) \cup Range(inbox[c]) : IsSignal(m) => m.prop # p
    /\ attaching[c] # p
    /\ \A i \in DOMAIN calls[c] :
          calls[c][i].op = "getall" \/ (calls[c][i].op = "attach" /\ calls[c][i].prop = p)
              => calls[c][i].done

UpToDate(c, p) == \/ told[c][p].what \in {"invalid", "failed"}
                  \/ told[c][p] = [what |-> "value", now |-> Now(t_, p)]

\* A client that attached and has nothing left to receive was told the value the
\* property has, unless it was told that it cannot know: between the match rule,
\* the Get of attach(), assignments, Sets and re-attaching no change is lost.
Converges ==
    \A c \in Clients : \A p \in attached[c] :
        Announced(p) /\ Quiet(c, p) => UpToDate(c, p)

\* The callback of a property is never taken back to an older value, except by
\* messages that a blocking GetAll overtook.
ToldInOrder ==
    [][\A c \in Clients, p \in Properties :
          overtaken[c] = 0 => told'[c][p].now.ver >= told[c][p].now.ver]_vars

\* tests/properties.cpp counts on it: when the callback of set_async() runs, the
\* callback of the attached property was told of the change before.
ToldBeforeSetCallback ==
    [][\A c \in Clients : \A i \in DOMAIN calls[c] :
          LET call == calls[c][i]
          IN /\ blocked[c] = 0 /\ ~call.done /\ calls'[c][i].done
             /\ call.op = "set" /\ call.watched /\ call.prop \in Notifying
             => told[c][call.prop].now.ver >= Head(inbox[c]).now[call.prop].ver]_vars

\* A client that stays attached is told in the end what the property has become,
\* however many calls of its own it waits for.
EventuallyUpToDate ==
    \A c \in Clients, p \in Properties :
        <>[](p \in attached[c] /\ Announced(p)) => <>[]UpToDate(c, p)
=============================================================================
