---------------------------- MODULE ServerRequest ----------------------------
(***************************************************************************)
(* The life of a request inside a skeleton: handle_request() finds what    *)
(* the message asks for, handle_interface_request() makes it the current   *)
(* request and runs the method of the user, which answers it, defers it    *)
(* into a ServerRequestDescriptor of its own, or lets it go; a deferred    *)
(* request is answered later with respond_on(), from any callback of the   *)
(* event loop.                                                             *)
(*                                                                         *)
(* Everything here runs in the thread of the dispatcher.  The asserts of   *)
(* the code are preconditions of the caller: they are guards here.         *)
(* Messages are counted references; refs counts those held by libdbus      *)
(* while the message is queued or dispatched, and by the descriptors.      *)
(***************************************************************************)
EXTENDS SkeletonRouting

CONSTANTS Requests,     \* identities of the messages that may be sent
          Messages,     \* their possible contents
          Slots,        \* the descriptors a server keeps for deferred requests
          Liberties,    \* what the methods of the user may do, see Liberty
          NoRequest     \* a null DBusMessage*

\* Legal C++ that the library accepts from a method or a property callback and
\* that costs a guarantee: throwing once the request was answered or deferred,
\* deferring into a descriptor that holds an unanswered request, and throwing
\* from a property callback during GetAll.
Liberty == {"throw_late", "overwrite_deferred", "throw_in_getall"}

Message == [interface : STRING, member : STRING, about : STRING,
            property : STRING, args_ok : BOOLEAN]
NoMessage == [interface |-> "", member |-> "", about |-> "", property |-> "",
              args_ok |-> FALSE]

ASSUME RequestAssumption ==
    /\ NoRequest \notin Requests
    /\ \A m \in Messages : m \in Message /\ m # NoMessage
    /\ Liberties \subseteq Liberty

VARIABLES
    content,          \* what each request asks for
    inbox,            \* requests queued on the connection
    serving,          \* the message handle_request() works on
    current_request_, \* SkeletonBase::current_request_
    held,             \* the descriptors of the user
    refs,             \* reference count of each message
    replied,          \* the replies sent for each request, in order
    let_go,           \* history: requests the user dropped without an answer
    registered,       \* the object path has its handler
    unwound           \* an exception left the dispatcher through libdbus

vars == <<content, inbox, serving, current_request_, held, refs, replied,
          let_go, registered, unwound>>
-----------------------------------------------------------------------------
\* ServerRequestDescriptor: requestor_ and msg_.
NoRequestor   == <<invalid_iface_id, "">>
NoDescriptor  == [requestor |-> NoRequestor, msg |-> NoRequest]
MethodNames   == UNION {Methods[i] : i \in OwnInterfaces}
Descriptor    == [requestor : (Indices \X MethodNames) \cup {NoRequestor},
                  msg : Requests \cup {NoRequest}]
IsSet(d) == d.requestor # NoRequestor

\* clear() of a descriptor, as far as the count is concerned.
Unref(n, d) == [r \in Requests |-> IF r = d.msg THEN n[r] - 1 ELSE n[r]]
Ref(n, r)   == [n EXCEPT ![r] = @ + 1]

Reply(r, kind) == replied' = [replied EXCEPT ![r] = Append(@, kind)]

Answered(r) == replied[r] # <<>>

Init ==
    /\ content = [r \in Requests |-> NoMessage]
    /\ inbox = <<>>
    /\ serving = NoRequest
    /\ current_request_ = NoDescriptor
    /\ held = [s \in Slots |-> NoDescriptor]
    /\ refs = [r \in Requests |-> 0]
    /\ replied = [r \in Requests |-> <<>>]
    /\ let_go = {}
    /\ registered = TRUE
    /\ unwound = FALSE
-----------------------------------------------------------------------------
\* The bus delivers a request; libdbus holds it until it is dispatched.
Arrive(r, m) ==
    /\ content[r] = NoMessage
    /\ content' = [content EXCEPT ![r] = m]
    /\ inbox' = Append(inbox, r)
    /\ refs' = [refs EXCEPT ![r] = 1]
    /\ UNCHANGED <<serving, current_request_, held, replied, let_go, registered, unwound>>

\* [mutant of CanDispatch] an unanswered deferred request holds up the queue
CanDispatchUnlessDeferred ==
    serving = NoRequest /\ inbox # <<>> /\ ~unwound /\ \A s \in Slots : ~IsSet(held[s])

CanDispatch == serving = NoRequest /\ inbox # <<>> /\ ~unwound

\* Replies handle_request() may send without the method of the user: what the
\* read or write callback of a property throws is turned into an error.
DirectAnswers(m) ==
    CASE Route(m) \in {"introspect", "getall"} -> {"return"}
      [] Route(m) \in {"get", "set"}           -> {"return", "error"}
      [] Route(m) = "method"                   -> {}
      [] OTHER                                 -> {"error"}

\* [mutant of HandleDirectly] what a property callback throws is swallowed
HandleSilently(r) ==
    /\ CanDispatch /\ r = Head(inbox) /\ registered
    /\ \E kind \in DirectAnswers(content[r]) :
          IF kind = "error" THEN UNCHANGED replied ELSE Reply(r, kind)
    /\ inbox' = Tail(inbox)
    /\ refs' = [refs EXCEPT ![r] = @ - 1]
    /\ UNCHANGED <<content, serving, current_request_, held, let_go, registered, unwound>>

\* One message is handled from end to end within the dispatch.
HandleDirectly(r) ==
    /\ CanDispatch /\ r = Head(inbox) /\ registered
    /\ \E kind \in DirectAnswers(content[r]) : Reply(r, kind)
    /\ inbox' = Tail(inbox)
    /\ refs' = [refs EXCEPT ![r] = @ - 1]
    /\ UNCHANGED <<content, serving, current_request_, held, let_go, registered, unwound>>

\* Nobody catches what a property callback throws during GetAll: it unwinds
\* the dispatch of libdbus, and the message is never answered nor released.
GetAllThrows(r) ==
    /\ CanDispatch /\ r = Head(inbox) /\ registered
    /\ Route(content[r]) = "getall"
    /\ "throw_in_getall" \in Liberties
    /\ inbox' = Tail(inbox)
    /\ unwound' = TRUE
    /\ UNCHANGED <<content, serving, current_request_, held, refs, replied, let_go, registered>>

\* libdbus answers for an object path nobody registered.
NoSuchObject(r) ==
    /\ CanDispatch /\ r = Head(inbox) /\ ~registered
    /\ Reply(r, "error")
    /\ inbox' = Tail(inbox)
    /\ refs' = [refs EXCEPT ![r] = @ - 1]
    /\ UNCHANGED <<content, serving, current_request_, held, let_go, registered, unwound>>

\* [mutant of BeginMethod] set() takes no reference of its own
BeginMethodUnreferenced(r) ==
    /\ CanDispatch /\ r = Head(inbox) /\ registered
    /\ Route(content[r]) = "method" /\ content[r].args_ok
    /\ inbox' = Tail(inbox)
    /\ serving' = r
    /\ current_request_' = [requestor |-> FindMethod(content[r]), msg |-> r]
    /\ UNCHANGED <<content, held, refs, replied, let_go, registered, unwound>>

\* current_request_.set() and the decoding of the arguments; the method of the
\* user runs next.
BeginMethod(r) ==
    /\ CanDispatch /\ r = Head(inbox) /\ registered
    /\ Route(content[r]) = "method" /\ content[r].args_ok
    /\ inbox' = Tail(inbox)
    /\ serving' = r
    /\ current_request_' = [requestor |-> FindMethod(content[r]), msg |-> r]
    /\ refs' = Ref(Unref(refs, current_request_), r)
    /\ UNCHANGED <<content, held, replied, let_go, registered, unwound>>

\* The arguments cannot be decoded: the DecoderError becomes InvalidArgs.
BadArguments(r) ==
    /\ CanDispatch /\ r = Head(inbox) /\ registered
    /\ Route(content[r]) = "method" /\ ~content[r].args_ok
    /\ inbox' = Tail(inbox)
    /\ Reply(r, "error")
    /\ current_request_' = NoDescriptor
    /\ refs' = [Unref(refs, current_request_) EXCEPT ![r] = @ - 1]
    /\ UNCHANGED <<content, serving, held, let_go, registered, unwound>>
-----------------------------------------------------------------------------
\* What the method of the user may do, in any order, until it returns or throws.

InMethod == serving # NoRequest

\* [mutant of RespondWith] the request stays the current one
RespondWithAgain(kind) ==
    /\ InMethod /\ IsSet(current_request_)
    /\ Reply(current_request_.msg, kind)
    /\ UNCHANGED <<content, inbox, serving, current_request_, held, refs, let_go,
                   registered, unwound>>

\* respond_with(), with a response or with an Error
RespondWith(kind) ==
    /\ InMethod /\ IsSet(current_request_)
    /\ Reply(current_request_.msg, kind)
    /\ refs' = Unref(refs, current_request_)
    /\ current_request_' = NoDescriptor
    /\ UNCHANGED <<content, inbox, serving, held, let_go, registered, unwound>>

\* [mutant of Defer] the descriptor is copied and the source keeps its members
DeferByCopy(s) ==
    /\ InMethod /\ IsSet(current_request_)
    /\ IsSet(held[s]) => "overwrite_deferred" \in Liberties
    /\ held' = [held EXCEPT ![s] = current_request_]
    /\ UNCHANGED <<content, inbox, serving, current_request_, refs, replied, let_go,
                   registered, unwound>>

\* held[s] = defer_response(): operator=(&&) takes over the members of the
\* source and does not release what the target held.
Defer(s) ==
    /\ InMethod /\ IsSet(current_request_)
    /\ IsSet(held[s]) => "overwrite_deferred" \in Liberties
    /\ held' = [held EXCEPT ![s] = current_request_]
    /\ current_request_' = NoDescriptor
    /\ UNCHANGED <<content, inbox, serving, refs, replied, let_go, registered, unwound>>

\* [mutant of RespondOn] the descriptor is not cleared
RespondOnAgain(s, kind) ==
    /\ IsSet(held[s]) /\ registered
    /\ Reply(held[s].msg, kind)
    /\ UNCHANGED <<content, inbox, serving, current_request_, held, refs, let_go,
                   registered, unwound>>

\* respond_on() from a method, a timer or any other callback of the event loop
RespondOn(s, kind) ==
    /\ IsSet(held[s]) /\ registered
    /\ Reply(held[s].msg, kind)
    /\ refs' = Unref(refs, held[s])
    /\ held' = [held EXCEPT ![s] = NoDescriptor]
    /\ UNCHANGED <<content, inbox, serving, current_request_, let_go, registered, unwound>>

\* The user destroys or clears a descriptor.
Discard(s) ==
    /\ IsSet(held[s])
    /\ refs' = Unref(refs, held[s])
    /\ let_go' = let_go \cup {held[s].msg}
    /\ held' = [held EXCEPT ![s] = NoDescriptor]
    /\ UNCHANGED <<content, inbox, serving, current_request_, replied, registered, unwound>>

\* [mutant of EndDispatch] the request is released though it was moved away
EndDispatchUnrefTwice ==
    /\ serving' = NoRequest
    /\ current_request_' = NoDescriptor
    /\ refs' = [refs EXCEPT ![serving] = @ - 2]

\* End of handle_interface_request(): the request is cleared if it is still
\* the current one, and libdbus releases the message.
EndDispatch ==
    /\ serving' = NoRequest
    /\ current_request_' = NoDescriptor
    /\ refs' = [Unref(refs, current_request_) EXCEPT ![serving] = @ - 1]

MethodReturns ==
    /\ InMethod
    /\ EndDispatch
    /\ let_go' = IF IsSet(current_request_) THEN let_go \cup {serving} ELSE let_go
    /\ UNCHANGED <<content, inbox, held, replied, registered, unwound>>

\* Whatever the method throws, an error is sent for the message, without a
\* look at current_request_.
MethodThrows ==
    /\ InMethod
    /\ ~IsSet(current_request_) => "throw_late" \in Liberties
    /\ Reply(serving, "error")
    /\ EndDispatch
    /\ UNCHANGED <<content, inbox, held, let_go, registered, unwound>>

\* The server object goes away, its descriptors with it: remove_server().
Destroy ==
    /\ registered /\ ~InMethod
    /\ registered' = FALSE
    /\ let_go' = let_go \cup ({held[s].msg : s \in Slots} \ {NoRequest})
    /\ refs' = [r \in Requests |->
                   IF \E s \in Slots : held[s].msg = r THEN refs[r] - 1 ELSE refs[r]]
    /\ held' = [s \in Slots |-> NoDescriptor]
    /\ UNCHANGED <<content, inbox, serving, current_request_, replied, unwound>>
-----------------------------------------------------------------------------
Dispatch == \E r \in Requests :
    HandleDirectly(r) \/ GetAllThrows(r) \/ NoSuchObject(r) \/ BeginMethod(r) \/ BadArguments(r)

Next ==
    \/ \E r \in Requests, m \in Messages : Arrive(r, m)
    \/ Dispatch
    \/ \E kind \in {"return", "error"} :
          \/ RespondWith(kind)
          \/ \E s \in Slots : RespondOn(s, kind)
    \/ \E s \in Slots : Defer(s) \/ Discard(s)
    \/ MethodReturns
    \/ MethodThrows
    \/ Destroy

Spec == Init /\ [][Next]_vars

\* run() keeps dispatching as long as nothing stops it, and a method of the
\* user comes to an end; nothing obliges the user to answer what was deferred.
Fairness == WF_vars(Dispatch) /\ WF_vars(MethodReturns \/ MethodThrows)

FairSpec == Spec /\ Fairness
-----------------------------------------------------------------------------
(***************************************************************************)
(* Properties                                                              *)
(***************************************************************************)
Descriptors == {current_request_} \cup {held[s] : s \in Slots}

Queued(r)      == \E i \in 1..Len(inbox) : inbox[i] = r
WithLibdbus(r) == r = serving \/ Queued(r)
IsCurrent(r)   == current_request_.msg = r
IsHeld(r)      == \E s \in Slots : held[s].msg = r

\* The variables have their types.
TypeOK ==
    /\ content \in [Requests -> Messages \cup {NoMessage}]
    /\ inbox \in Seq(Requests)
    /\ serving \in Requests \cup {NoRequest}
    /\ current_request_ \in Descriptor
    /\ held \in [Slots -> Descriptor]
    /\ refs \in [Requests -> Nat]
    /\ replied \in [Requests -> Seq({"return", "error"})]
    /\ let_go \in SUBSET Requests
    /\ registered \in BOOLEAN
    /\ unwound \in BOOLEAN

\* "only respond once!!!": no request is ever answered twice, in whatever way
\* answers, deferral, errors and the end of the method follow each other.
AnsweredOnce == \A r \in Requests : Len(replied[r]) <= 1

\* Nobody can answer the request any more: its dispatch unwound, or the
\* descriptor that held it was overwritten.
Lost(r) == content[r] # NoMessage /\ ~WithLibdbus(r) /\ ~Answered(r)
              /\ ~IsHeld(r) /\ r \notin let_go

\* A message has exactly the references of those who can still reach it: none
\* is leaked when a request is moved, answered, dropped or destroyed, and none
\* is released twice.  What is lost is leaked, too.
ReferencesExact ==
    \A r \in Requests :
        refs[r] = (IF WithLibdbus(r) THEN 1 ELSE 0)
                + (IF IsCurrent(r) \/ IsHeld(r) THEN 1 ELSE 0)
                + (IF Lost(r) THEN 1 ELSE 0)

\* Whatever the user does, no descriptor points to a message that was freed.
\* (Implied by ReferencesExact in a run, proved in ServerRequestProofs.)
DescriptorsAlive ==
    \A d \in Descriptors : IsSet(d) => d.msg # NoRequest /\ refs[d.msg] >= 1

\* Two descriptors never own the same request: a request can be moved, not copied.
SoleOwner ==
    /\ \A s \in Slots : IsSet(held[s]) => held[s].msg # current_request_.msg
    /\ \A s, t \in Slots : s # t /\ IsSet(held[s]) => held[s].msg # held[t].msg

\* The method a descriptor remembers, whose exception type respond_on() will use
\* much later, is the one declared by the interface the client named: the two
\* reversals of the interface index agree.
RequestorMatches ==
    \A d \in Descriptors : IsSet(d) =>
        LET m == content[d.msg]
        IN /\ iface(d.requestor[1]) = m.interface
           /\ d.requestor[2] = m.member
           /\ m.member \in Methods[m.interface]

\* The library itself loses no request: one that left the queue is answered,
\* owned by a descriptor, or dropped by the user, unless a property callback
\* throws through the dispatch or the user defers another request over it.
NoneLost ==
    [][\A r \in Requests : ~Lost(r) /\ Lost(r)' =>
          \/ ~unwound /\ unwound'
          \/ \E s \in Slots : held[s].msg = r /\ held'[s].msg \notin {r, NoRequest}]_vars

\* The skeleton keeps the promise of RequestContract.
ContractStatus ==
    [r \in Requests |->
        IF content[r] = NoMessage THEN "unsent"
        ELSE IF replied[r] = <<>> THEN IF r \in let_go THEN "dropped" ELSE "pending"
        ELSE IF Len(replied[r]) = 1 /\ r \notin let_go THEN Head(replied[r])
        ELSE "answered again"]

Contract == INSTANCE RequestContract WITH status <- ContractStatus

KeepsContract == Contract!Spec

\* Every request that arrives is answered or dropped, unless the user holds it
\* back or lost it: neither a queue of requests nor one that fails stops the
\* others.  Only an exception that leaves run() does.
EveryRequestSettles ==
    \A r \in Requests :
        content[r] # NoMessage ~>
            Answered(r) \/ IsHeld(r) \/ r \in let_go \/ Lost(r) \/ unwound
=============================================================================
