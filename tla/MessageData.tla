----------------------------- MODULE MessageData -----------------------------
(***************************************************************************)
(* A receiver of messages: it decodes the arguments of a call, a result,   *)
(* an error or a signal, from a peer that declares the same or from one    *)
(* that sends anything else, and keeps what it got in Anys and             *)
(* FileDescriptors.  Arguments that own nothing leave the state of         *)
(* Ownership alone, so they are exchanged before anything is owned: the    *)
(* order would make no difference.                                         *)
(***************************************************************************)
EXTENDS Declarations, Ownership

CONSTANTS Methods,    \* parameters of the methods that are declared
          Signals,    \* parameters of the signals
          Skeletons,  \* the interfaces a skeleton may have, a sequence of paths each
          Samples,    \* values that are sent
          Exceptions, \* exception objects
          Expected,   \* types another peer's message is decoded as
          Items       \* arguments of any peer

ASSUME MessageDataAssumption == \A Ps \in Methods : Valid(Ps)

VARIABLES
    kind,     \* "none", "call", "answer", "signal", "property", "error", "unhandled" or "foreign"
    declared, \* history: the parameters of its declaration
    server,   \* history: the interfaces of the skeleton and the one that is used
    header,   \* the names in the header
    sent,     \* history: the values that were sent
    thrown,   \* history: the exception object, as the user made or threw it
    content,  \* history: the arguments of the message
    types,    \* what is still to be decoded
    iter,     \* the iterator
    got,      \* what was decoded
    outcome   \* whether all could be decoded

history  == <<declared, server, sent, thrown, content>>
exchange == <<kind, history, header, types, iter, got, outcome>>

Role == <<"role">>
InvalidArgs == <<"org", ".", "freedesktop", ".", "DBus", ".", "Error", ".", "InvalidArgs">>
UnhandledException == <<"simppl", ".", "dbus", ".", "UnhandledException">>

\* An object with one interface is named after it, or both sides are given its names.
StubHeaders ==
    [list \in Skeletons |-> [k \in DOMAIN list |->
        IF Len(list) = 1 THEN StubNames(list[k], Role)
        ELSE StubNamesGiven(list[k], <<"bus">>, <<"/">>)]]

SkeletonHeaders ==
    [list \in Skeletons |->
        IF Len(list) = 1 THEN SkeletonNames(list[1], Role)
        ELSE SkeletonNamesGiven(list, <<"bus">>, <<"/">>)]

Nowhere == [list |-> <<>>, index |-> 0]
Nothing == Thrown(Error, NoName, 0, <<>>)
DecoderError == Thrown(Exception("DecoderError", <<>>), NoName, 0, <<>>)

Quiet ==
    /\ kind = "none"
    /\ declared = <<>> /\ server = Nowhere /\ sent = <<>> /\ thrown = Nothing /\ content = <<>>
    /\ header = <<>> /\ types = <<>> /\ iter = <<>> /\ got = <<>>
    /\ outcome = "ok"

DataInit == Init /\ Quiet
-----------------------------------------------------------------------------
\* The samples that are values of the types
Fitting(Ts) ==
    IF Ts = <<>> THEN {<<>>}
    ELSE {vs \in [DOMAIN Ts -> {v \in Samples : \E i \in DOMAIN Ts : v.type = Ts[i]}] :
             \A i \in DOMAIN Ts : vs[i].type = Ts[i]}

\* A message with arguments arrives, to be decoded as Ts.
Carries(how, vs, Ts) ==
    /\ kind' = how
    /\ sent' = vs
    /\ content' = encode_args(vs)
    /\ types' = Ts
    /\ iter' = content'
    /\ UNCHANGED <<thrown, got, outcome>>

\* A call through a stub for the k-th interface of the skeleton
Call(Ps, list, k) ==
    /\ \E vs \in Fitting(serializer_type(filter("in", Ps))) :
          Carries("call", vs, Decoded(args_type(Ps)))
    /\ declared' = Ps
    /\ server' = [list |-> list, index |-> k]
    /\ header' = StubHeaders[list][k]

\* respond_with() or respond_on() with the values of the method's results
Answers(Ps) ==
    /\ ~is_oneway_request(Ps)
    /\ \E vs \in Fitting(serializer_type(filter("out", Ps))) :
          Carries("answer", vs, Decoded(return_type(Ps)))
    /\ declared' = Ps
    /\ UNCHANGED <<server, header>>

Notifies(Ps) ==
    /\ \E vs \in Fitting([i \in DOMAIN Ps |-> Ps[i].type]) :
          Carries("signal", vs, Decoded(signal_args_type(Ps)))
    /\ declared' = Ps
    /\ UNCHANGED <<server, header>>

\* The answer to a Get, or the argument of a Set.
\* libdbus does not open a container for the incomplete signature of a buffer.
HasProperty(v) ==
    LET T == Property(v.type)
    IN /\ ~Trusting(v.type)
       /\ Carries("property", <<Value(T, 0, <<v>>)>>, <<T>>)
       /\ declared' = <<Plain(v.type)>>
       /\ UNCHANGED <<server, header>>

\* An error reply, made of e for the type E, arrives at a client that declares Ps.
\* Without any name libdbus refuses to make a message.
Refuses(Ps, E, e) ==
    /\ ~is_oneway_request(Ps)
    /\ declared' = Ps
    /\ header' = error_name(E, e)
    /\ IF header' = NoName
       THEN outcome' = "aborts" /\ UNCHANGED <<content, types, iter>>
       ELSE /\ content' = reply(E, e)
            /\ types' = init(get_exception_type(Ps), content')
            /\ iter' = content'
            /\ UNCHANGED outcome
    /\ UNCHANGED <<server, sent, got>>

\* respond_with() or respond_on() with an exception object.  The exception of a property
\* callback is answered like that of a method that declares none.
Fails_with(Ps, e) ==
    /\ kind' = "error"
    /\ thrown' = e
    /\ Refuses(Ps, get_exception_type(Ps), e)

\* An exception leaves the method: an error of the library answers in its place,
\* whatever was thrown and whatever the method declares.
Throws(Ps, e) ==
    /\ kind' = "unhandled"
    /\ thrown' = e
    /\ Refuses(Ps, Error,
               Thrown(Error, IF e = DecoderError THEN InvalidArgs ELSE UnhandledException,
                      0, <<>>))

\* A peer sends what it likes.
ArrivesForeign(Ts, items) ==
    /\ kind' = "foreign"
    /\ content' = items
    /\ types' = Ts
    /\ iter' = content'
    /\ UNCHANGED <<declared, server, header, sent, thrown, got, outcome>>

\* The next argument is decoded.  An exception ends it.
DecodeNext ==
    /\ types # <<>>
    /\ LET r == decode(Head(types), iter)
       IN /\ outcome' = r.outcome
          /\ iter' = r.rest
          /\ IF r.outcome = "ok"
             THEN types' = Tail(types) /\ got' = Append(got, r.value)
             ELSE types' = <<>> /\ UNCHANGED got
    /\ UNCHANGED <<kind, header, history>>

Over == kind # "none" /\ types = <<>>

\* The handler, or the caller, is done with it.
Finish ==
    /\ Over
    /\ kind' = "none"
    /\ declared' = <<>> /\ server' = Nowhere /\ sent' = <<>> /\ thrown' = Nothing /\ content' = <<>>
    /\ header' = <<>> /\ types' = <<>> /\ iter' = <<>> /\ got' = <<>> /\ outcome' = "ok"

Arrives ==
    /\ kind = "none"
    /\ \/ \E Ps \in Methods :
             \/ \E list \in Skeletons : \E k \in DOMAIN list : Call(Ps, list, k)
             \/ Answers(Ps)
             \/ \E e \in Exceptions : Fails_with(Ps, e)
             \/ \E e \in Exceptions \cup {DecoderError} : Throws(Ps, e)
       \/ \E Ps \in Signals : Notifies(Ps)
       \/ \E v \in Samples : HasProperty(v)
       \/ \E T \in Expected, item \in Items : ArrivesForeign(<<T>>, <<item>>)
       \/ \E e \in Exceptions, item \in Items :
             \E items \in {<<>>, <<item>>, <<encode(Basic(String, e.text)), item>>} :
                 ArrivesForeign(init(e.type, items), items)

Exchange == Arrives \/ DecodeNext \/ Finish

DataNext ==
    \/ Init /\ Exchange /\ UNCHANGED vars
    \/ Quiet /\ Next /\ UNCHANGED exchange

DataSpec == DataInit /\ [][DataNext]_<<vars, exchange>>
-----------------------------------------------------------------------------
(***************************************************************************)
(* Properties                                                              *)
(***************************************************************************)
\* What one side sends as an argument, a result, a signal or a property the other side
\* gets, if both declare the same, and all that is behind it too: nested containers,
\* empty ones, variants whose alternatives differ, and an Any asked for the type that was
\* put into it.  A single std::tuple as a result is excepted.
RoundTrip ==
    \/ \E i \in DOMAIN sent : ~Distinct(sent[i].type)
    \/ kind = "answer" /\ Len(sent) = 1 /\ sent[1].type.is = "tuple"
    \/ kind \in {"call", "answer", "signal", "property"} =>
          /\ outcome = "ok"
          /\ \A i \in DOMAIN sent : Honest(content[i])
          /\ \A i \in DOMAIN got : Same(got[i], sent[i])
          /\ Over => Len(got) = Len(sent) /\ iter = <<>>

\* Whatever arrives and whatever is expected, what is decoded was in the message,
\* each value in its place; otherwise decoding throws, or fails an assert.  Buffers
\* are excepted, their decoder reads behind what was sent.
NothingInvented ==
    \A i \in DOMAIN got : Trusting(got[i].type) \/ Part(Shown(got[i]), content[i])

\* What a skeleton tells about itself fits what goes over the bus: a stub made for one of
\* its interfaces addresses the skeleton and that interface by the dotted name, and the
\* signature of a call, an answer, a signal or a property is that of the arguments that
\* are told, in their order, wherever the markers of the declaration stand.  Buffers are
\* excepted, their signature is incomplete.
Described ==
    LET shown == introspect_args(declared)
        told(direction) ==
            FlattenSeq([i \in DOMAIN shown |->
                           IF shown[i].direction = direction THEN shown[i].type ELSE <<>>])
        path      == server.list[server.index]
        skeleton  == SkeletonHeaders[server.list]
    IN /\ kind = "call" =>
             /\ header.iface = Joined(Pieces(path), <<".">>)
             /\ header.iface = skeleton.ifaces[server.index]
             /\ Len(skeleton.ifaces) = Len(server.list)
             /\ header.objectpath = skeleton.objectpath /\ header.busname = skeleton.busname
       /\ \/ \E i \in DOMAIN sent : Trusting(sent[i].type)
          \/ CASE kind = "call"                   -> Signatures(content) = told("in")
               [] kind \in {"answer", "signal"}   -> Signatures(content) = told("out")
               [] kind = "property"               -> content[1].of[1].sig = told("out")
               [] OTHER                           -> TRUE

\* An exception object that answers a request reaches the client as it was made: its
\* name, or the name of the declared type if it has none, its text, and its members if
\* client and server declare its type; one of another type has none.  Excepted is a
\* nameless exception in a method that declares none, for which there is no name.  Of an
\* exception that was thrown out of a method nothing reaches the client, but what does is
\* decoded as an error without members, also by a client that declares some.
ErrorsTold ==
    LET E == get_exception_type(declared)
    IN /\ kind = "error" /\ (thrown.name = NoName => E # Error) =>
             /\ outcome = "ok"
             /\ header = IF thrown.name # NoName THEN thrown.name ELSE Joined(Pieces(Path[E.name]), <<".">>)
             /\ Over => /\ got[1] = Basic(String, thrown.text)
                        /\ IF E # Error /\ thrown.type = E
                           THEN Len(got) = 2 /\ got[2].of = thrown.of ELSE Len(got) = 1
                        /\ iter = <<>>
       /\ kind = "unhandled" => outcome = "ok" /\ (Over => Len(got) = 1 /\ iter = <<>>)
=============================================================================
