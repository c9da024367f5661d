---------------------------- MODULE ObjectManager ----------------------------
(***************************************************************************)
(* Lifetime tracking with org.freedesktop.DBus.ObjectManager: a server     *)
(* tells its clients which objects it has with the signals InterfacesAdded *)
(* and InterfacesRemoved, and all of them at once in the answer to         *)
(* GetManagedObjects.  A client attaches to the signals, asks for the      *)
(* objects whenever it is told Connected, synchronously or not, asks again *)
(* if that fails, and keeps what it learns in view.                        *)
(*                                                                         *)
(* The server may die at any time and be started again.  What it has sent  *)
(* reaches the bus later and is lost if it dies before.  The values of the *)
(* properties are left out, which properties are reported where is not.    *)
(***************************************************************************)
EXTENDS Integers, Sequences, Functions

CONSTANTS Objects,     \* the skeletons a server may manage
          Interfaces,  \* Interfaces[o]: the interface list of Skeleton<Is...> o
          Properties,  \* Properties[i]: names of the properties interface i declares
          MayThrow,    \* objects with a property whose callback may throw
          MaxInFlight, \* bounds the signals on their way
          MaxCrashes,  \* bounds the deaths of the server
          MaxTimeouts  \* bounds the calls that time out

\* C++ forbids one base class twice, and a skeleton that serves requests has at
\* least one interface.
ASSUME ObjectManagerAssumption ==
    /\ \A o \in Objects :
          /\ Interfaces[o] \in Seq(DOMAIN Properties) /\ Len(Interfaces[o]) > 0
          /\ \A j, k \in 1..Len(Interfaces[o]) : Interfaces[o][j] = Interfaces[o][k] => j = k
    /\ MayThrow \subseteq Objects
    /\ MaxInFlight \in Nat /\ MaxCrashes \in Nat /\ MaxTimeouts \in Nat

VARIABLES
    up,          \* the server runs
    objects_,    \* ObjectManagerMixin::objects_
    unannounced, \* history: objects_ that were inserted and not announced
    requests,    \* calls of GetManagedObjects the server has to answer, by serial
    outgoing,    \* what the server sent and the bus has not got
    queue,       \* what the bus sent to the client
    connected,   \* what the stub was told last
    view,        \* what the client knows: object -> interface -> properties
    serial,      \* the last serial the client used
    asked,       \* the serial of the pending call, 0 if there is none
    blocked,     \* the pending call is a blocking one
    crashes,
    timeouts

server == <<up, objects_, unannounced, crashes>>
client == <<connected, view, serial, asked, blocked, timeouts>>
vars   == <<server, requests, outgoing, queue, client>>
-----------------------------------------------------------------------------
NoMethods(list) == [i \in {list[k] : k \in 1..Len(list)} |-> {}]

Skeleton(InterfaceList, Methods) == INSTANCE SkeletonRouting

\* The lists of a skeleton as its members hold them.
ifaces_(o)         == Skeleton(Interfaces[o], NoMethods(Interfaces[o]))!ifaces_
property_heads_(o) == Skeleton(Interfaces[o], NoMethods(Interfaces[o]))!property_heads_
iface(o, i)        == Skeleton(Interfaces[o], NoMethods(Interfaces[o]))!iface(i)

\* The name with index i goes with the properties with id i, although ids run
\* the other way round.
serialize_object(o) ==
    LET index == DOMAIN ifaces_(o)
    IN [n \in {ifaces_(o)[i] : i \in index} |->
           property_heads_(o)[CHOOSE i \in index : ifaces_(o)[i] = n]]

\* What the object says of itself: introspect_interface() of each index.
introspect(o) ==
    LET index == DOMAIN ifaces_(o)
    IN [n \in {iface(o, i) : i \in index} |->
           property_heads_(o)[CHOOSE i \in index : iface(o, i) = n]]

InterfacesAdded(o)   == [kind |-> "added", object |-> o, interfaces |-> serialize_object(o)]
InterfacesRemoved(o) == [kind |-> "removed", object |-> o,
                         interfaces |-> {ifaces_(o)[i] : i \in DOMAIN ifaces_(o)}]
Managed(s, objects)  == [kind |-> "managed", re |-> s,
                         objects |-> [o \in objects |-> serialize_object(o)]]
Failure(s)           == [kind |-> "failed", re |-> s]
Connected            == [kind |-> "connected"]
Disconnected         == [kind |-> "disconnected"]

NothingKnown == [o \in {} |-> {}]

Init ==
    /\ up = FALSE
    /\ objects_ = {}
    /\ unannounced = {}
    /\ requests = <<>>
    /\ outgoing = <<>>
    /\ queue = <<>>
    /\ connected = FALSE
    /\ view = NothingKnown
    /\ serial = 0
    /\ asked = 0
    /\ blocked = FALSE
    /\ crashes = 0
    /\ timeouts = 0
-----------------------------------------------------------------------------
(***************************************************************************)
(* The server and the bus                                                  *)
(***************************************************************************)
Start ==
    /\ ~up
    /\ up' = TRUE
    /\ queue' = Append(queue, Connected)
    /\ UNCHANGED <<objects_, unannounced, crashes, requests, outgoing, client>>

\* The process dies, for instance because a property callback throws while
\* GetManagedObjects is answered: nobody catches that.  The bus tells that the
\* name is gone and fails the calls nobody will answer.
Crash ==
    /\ up /\ crashes < MaxCrashes
    /\ up' = FALSE
    /\ objects_' = {}
    /\ unannounced' = {}
    /\ requests' = <<>>
    /\ outgoing' = <<>>
    /\ crashes' = crashes + 1
    /\ LET unanswered == \/ \E i \in 1..Len(requests) : requests[i] = asked
                         \/ \E i \in 1..Len(outgoing) :
                               outgoing[i].kind = "managed" /\ outgoing[i].re = asked
           failures == IF unanswered THEN <<Failure(asked)>> ELSE <<>>
       IN \/ queue' = queue \o failures \o <<Disconnected>>
          \/ queue' = queue \o <<Disconnected>> \o failures
    /\ UNCHANGED client

Room == Len(outgoing) + Len(queue) < MaxInFlight

\* The object is inserted first: if one of its properties throws while it is
\* serialized, it stays in the set and no signal is sent.
add_managed_object(o) ==
    /\ up /\ Room
    /\ objects_' = objects_ \cup {o}
    /\ \/ /\ outgoing' = Append(outgoing, InterfacesAdded(o))
          /\ unannounced' = unannounced \ {o}
       \/ /\ o \in MayThrow
          /\ unannounced' = IF o \in objects_ THEN unannounced ELSE unannounced \cup {o}
          /\ UNCHANGED outgoing
    /\ UNCHANGED <<up, crashes, requests, queue, client>>

\* [mutant of remove_managed_object] no signal is sent
remove_managed_object_silently(o) ==
    /\ up /\ Room
    /\ objects_' = objects_ \ {o}
    /\ unannounced' = unannounced \ {o}
    /\ UNCHANGED <<up, crashes, requests, outgoing, queue, client>>

\* The signal is sent for objects that are not managed, too.
remove_managed_object(o) ==
    /\ up /\ Room
    /\ objects_' = objects_ \ {o}
    /\ unannounced' = unannounced \ {o}
    /\ outgoing' = Append(outgoing, InterfacesRemoved(o))
    /\ UNCHANGED <<up, crashes, requests, queue, client>>

\* [mutant of handle_objectmanager_request] the answer is not sent
handle_objectmanager_request_unanswered ==
    /\ up /\ requests # <<>>
    /\ requests' = Tail(requests)
    /\ UNCHANGED <<server, outgoing, queue, client>>

\* Any member of the interface is answered like this; stubs offer GetManagedObjects only.
handle_objectmanager_request ==
    /\ up /\ requests # <<>>
    /\ requests' = Tail(requests)
    /\ outgoing' = Append(outgoing, Managed(Head(requests), objects_))
    /\ UNCHANGED <<server, queue, client>>

Forward ==
    /\ outgoing # <<>>
    /\ outgoing' = Tail(outgoing)
    /\ queue' = Append(queue, Head(outgoing))
    /\ UNCHANGED <<server, requests, client>>
-----------------------------------------------------------------------------
(***************************************************************************)
(* The client                                                              *)
(***************************************************************************)
\* GetManagedObjects is called while rest is still queued.
Ask(rest, block) ==
    /\ serial' = serial + 1
    /\ asked' = serial + 1
    /\ blocked' = block
    /\ IF up
       THEN requests' = Append(requests, serial + 1) /\ queue' = rest
       ELSE queue' = Append(rest, Failure(serial + 1)) /\ UNCHANGED requests

Continue(rest) ==
    /\ queue' = rest
    /\ UNCHANGED <<requests, serial, asked, blocked>>

Receives(kind) == ~blocked /\ queue # <<>> /\ Head(queue).kind = kind

\* A callback for Connected asks, if it does not wait for an answer already.
OnConnected ==
    /\ Receives("connected")
    /\ connected' = TRUE
    /\ IF asked = 0 THEN \E block \in BOOLEAN : Ask(Tail(queue), block)
                    ELSE Continue(Tail(queue))
    /\ UNCHANGED <<server, outgoing, view, timeouts>>

OnDisconnected ==
    /\ Receives("disconnected")
    /\ connected' = FALSE
    /\ view' = NothingKnown
    /\ Continue(Tail(queue))
    /\ UNCHANGED <<server, outgoing, timeouts>>

OnInterfacesAdded ==
    /\ Receives("added")
    /\ LET m == Head(queue)
       IN view' = [o \in DOMAIN view \cup {m.object} |->
                      IF o = m.object THEN m.interfaces ELSE view[o]]
    /\ Continue(Tail(queue))
    /\ UNCHANGED <<server, outgoing, connected, timeouts>>

\* An object without interfaces is gone.
OnInterfacesRemoved ==
    /\ Receives("removed")
    /\ LET m    == Head(queue)
           left == [o \in DOMAIN view |->
                       IF o = m.object
                       THEN Restrict(view[o], DOMAIN view[o] \ m.interfaces)
                       ELSE view[o]]
       IN view' = Restrict(left, {o \in DOMAIN left : DOMAIN left[o] # {}})
    /\ Continue(Tail(queue))
    /\ UNCHANGED <<server, outgoing, connected, timeouts>>

\* What becomes of the pending call when its answer m has been taken.
Answer(m, rest) ==
    IF m.kind = "managed"
    THEN /\ view' = m.objects
         /\ asked' = 0 /\ blocked' = FALSE
         /\ queue' = rest
         /\ UNCHANGED <<requests, serial>>
    ELSE /\ UNCHANGED view
         /\ IF connected
            THEN Ask(rest, FALSE)
            ELSE /\ asked' = 0 /\ blocked' = FALSE
                 /\ queue' = rest
                 /\ UNCHANGED <<requests, serial>>

\* A reply nobody waits for any more is dropped.
OnReply ==
    /\ Receives("managed") \/ Receives("failed")
    /\ IF Head(queue).re = asked
       THEN Answer(Head(queue), Tail(queue))
       ELSE Continue(Tail(queue)) /\ UNCHANGED view
    /\ UNCHANGED <<server, outgoing, connected, timeouts>>

\* A blocking call takes its answer out of the middle of the queue: the signals
\* before it are handled later.
BlockingReturns ==
    /\ blocked
    /\ \E i \in 1..Len(queue) :
          /\ queue[i].kind \in {"managed", "failed"} /\ queue[i].re = asked
          /\ Answer(queue[i], SubSeq(queue, 1, i - 1) \o SubSeq(queue, i + 1, Len(queue)))
    /\ UNCHANGED <<server, outgoing, connected, timeouts>>

Timeout ==
    /\ asked # 0 /\ timeouts < MaxTimeouts
    /\ timeouts' = timeouts + 1
    /\ Answer(Failure(asked), queue)
    /\ UNCHANGED <<server, outgoing, connected>>

Client == OnConnected \/ OnDisconnected \/ OnInterfacesAdded \/ OnInterfacesRemoved
              \/ OnReply \/ BlockingReturns

Next ==
    \/ Start \/ Crash
    \/ \E o \in Objects : add_managed_object(o) \/ remove_managed_object(o)
    \/ handle_objectmanager_request
    \/ Forward
    \/ Client
    \/ Timeout

Spec == Init /\ [][Next]_vars

\* Both event loops run, and the bus forwards what it is sent.
FairSpec == Spec /\ WF_vars(handle_objectmanager_request) /\ WF_vars(Forward) /\ WF_vars(Client)
-----------------------------------------------------------------------------
(***************************************************************************)
(* Properties                                                              *)
(***************************************************************************)
Quiet == requests = <<>> /\ outgoing = <<>> /\ queue = <<>> /\ asked = 0

\* When nothing is on its way, the client knows the objects the server manages
\* and no others, however signals, answers that overtake them, lost answers and
\* deaths of the server followed each other.  Only an object whose announcement
\* failed may be missing.
ViewConverges ==
    Quiet => /\ DOMAIN view \subseteq objects_
             /\ objects_ \ unannounced \subseteq DOMAIN view

\* "ifaces_[0] has the highest ID (e.g. N-1)": what a client is told of an object, by
\* signals and answers, is what introspection tells, each interface with the properties
\* that it declares.
AsIntrospected == \A o \in DOMAIN view : view[o] = introspect(o)

\* An object that stays is known in the end, and one that stays away is
\* forgotten, its server having died included.
KnownInTheEnd ==
    \A o \in Objects :
        /\ <>[](o \in objects_ \ unannounced) => <>[](o \in DOMAIN view)
        /\ <>[](o \notin objects_) => <>[](o \notin DOMAIN view)
=============================================================================
