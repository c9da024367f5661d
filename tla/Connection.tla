----------------------------- MODULE Connection -----------------------------
(***************************************************************************)
(* How a stub learns whether its server is on the bus.  The dispatcher     *)
(* keeps busnames_, filled once from ListNames and then by the signals     *)
(* NameOwnerChanged; a change of a name is passed on to the stubs bound to *)
(* it.  A stub that appears, or gets its callback, when its name is        *)
(* already known is told from the event loop: the dispatcher sends itself  *)
(* the signal notify_client, which travels over the bus and arrives behind *)
(* whatever the bus has sent before.                                       *)
(*                                                                         *)
(* External: the bus delivers to one connection in the order in which it   *)
(* acts; OwnerChanges is what other processes do.                          *)
(***************************************************************************)
EXTENDS Naturals, Sequences, SequencesExt

CONSTANTS Stubs,       \* the stubs a client may create
          Names,       \* well-known bus names
          Paths,       \* object paths
          Owners,      \* connections that may own a name
          NoOwner,     \* the empty string in NameOwnerChanged
          Addresses,   \* pairs of a bus name and an object path, one per server
          MaxChanges   \* bound: how often the ownership of a name changes

ASSUME ConnectionAssumption ==
    /\ NoOwner \notin Owners
    /\ Addresses \subseteq Names \X Paths
    /\ MaxChanges \in Nat

VARIABLES
    owner,       \* the bus: who owns each name
    changes,     \* how often the ownership changed
    phase,       \* how far Dispatcher::init() got
    out,         \* messages sent to the bus and not routed yet
    wire,        \* messages routed to this connection and not dispatched yet
    busnames_,   \* Dispatcher::Private::busnames_
    address,     \* of the stubs: whose server each is created for
    life,        \* of the stubs: "new", registered in stubs_, or "gone"
    conn_state_, \* StubBase::Connected::conn_state_
    cb_,         \* the stub has a callback
    told         \* history: what the callback of each stub was called with

vars  == <<owner, changes, phase, out, wire, busnames_, address, life, conn_state_, cb_, told>>

ConnectionState == {"Connected", "Disconnected"}

busname(s)    == address[s][1]
objectpath(s) == address[s][2]

NameOwnerChanged(n, old, new) ==
    [member |-> "NameOwnerChanged", name |-> n, old |-> old, new |-> new]
NotifyClient(s) ==
    [member |-> "notify_client", name |-> busname(s), path |-> objectpath(s)]

Messages ==
    [member : {"NameOwnerChanged"}, name : Names, old : Owners \cup {NoOwner},
     new : Owners \cup {NoOwner}]
    \cup [member : {"notify_client"}, name : Names, path : Paths]

stubs_ == {s \in Stubs : life[s] = "added"}

Init ==
    /\ owner \in [Names -> Owners \cup {NoOwner}]
    /\ changes = 0
    /\ phase = "connecting"
    /\ out = <<>>
    /\ wire = <<>>
    /\ busnames_ = {}
    /\ address \in [Stubs -> Addresses]
    /\ life = [s \in Stubs |-> "new"]
    /\ conn_state_ = [s \in Stubs |-> "Disconnected"]
    /\ cb_ = [s \in Stubs |-> FALSE]
    /\ told = [s \in Stubs |-> <<>>]
-----------------------------------------------------------------------------
\* A signal reaches the connection once the bus has its match rule.
Deliver(m) == IF phase = "connecting" THEN wire ELSE Append(wire, m)

\* A name gets its first owner, loses its last one, or passes from one to the
\* next one that queued for it.
OwnerChanges(n, new) ==
    /\ changes < MaxChanges
    /\ owner[n] # new
    /\ owner' = [owner EXCEPT ![n] = new]
    /\ changes' = changes + 1
    /\ wire' = Deliver(NameOwnerChanged(n, owner[n], new))
    /\ UNCHANGED <<phase, out, busnames_, life, conn_state_, cb_, told, address>>

\* The bus sends notify_client back to where it came from.
Route ==
    /\ out # <<>>
    /\ wire' = Append(wire, Head(out))
    /\ out' = Tail(out)
    /\ UNCHANGED <<owner, changes, phase, busnames_, life, conn_state_, cb_, told, address>>

\* Dispatcher::init(): the match for NameOwnerChanged comes first ...
AddMatch ==
    /\ phase = "connecting"
    /\ phase' = "subscribed"
    /\ UNCHANGED <<owner, changes, out, wire, busnames_, life, conn_state_, cb_, told, address>>

\* ... then ListNames, while the signals of changes in between wait in the queue.
ListNames ==
    /\ phase = "subscribed"
    /\ phase' = "running"
    /\ busnames_' = {n \in Names : owner[n] # NoOwner}
    /\ UNCHANGED <<owner, changes, out, wire, life, conn_state_, cb_, told, address>>
-----------------------------------------------------------------------------
notify_connected(s) == out' = Append(out, NotifyClient(s))

\* [mutant of add_client] the stub waits for the next NameOwnerChanged
add_client_silently(s) ==
    /\ phase = "running" /\ life[s] = "new"
    /\ life' = [life EXCEPT ![s] = "added"]
    /\ UNCHANGED <<owner, changes, phase, out, wire, busnames_, conn_state_, cb_, told, address>>

add_client(s) ==
    /\ phase = "running" /\ life[s] = "new"
    /\ life' = [life EXCEPT ![s] = "added"]
    /\ IF busname(s) \in busnames_ THEN notify_connected(s) ELSE UNCHANGED out
    /\ UNCHANGED <<owner, changes, phase, wire, busnames_, conn_state_, cb_, told, address>>

\* [mutant of set_callback] who comes after the fact is not told
set_callback_silently(s) ==
    /\ life[s] = "added" /\ ~cb_[s]
    /\ cb_' = [cb_ EXCEPT ![s] = TRUE]
    /\ UNCHANGED <<owner, changes, phase, out, wire, busnames_, life, conn_state_, told, address>>

set_callback(s) ==
    /\ life[s] = "added" /\ ~cb_[s]
    /\ cb_' = [cb_ EXCEPT ![s] = TRUE]
    /\ IF conn_state_[s] = "Connected" THEN notify_connected(s) ELSE UNCHANGED out
    /\ UNCHANGED <<owner, changes, phase, wire, busnames_, life, conn_state_, told, address>>

\* The destructor of the stub; what was sent for it stays on its way.
remove_client(s) ==
    /\ life[s] = "added"
    /\ life' = [life EXCEPT ![s] = "gone"]
    /\ UNCHANGED <<owner, changes, phase, out, wire, busnames_, conn_state_, cb_, told, address>>
-----------------------------------------------------------------------------
\* Connected::state_changed() of each stub in S
state_changed(S, state, force) ==
    LET changed == {s \in S : force \/ conn_state_[s] # state}
    IN /\ conn_state_' = [s \in Stubs |-> IF s \in changed THEN state ELSE conn_state_[s]]
       /\ told' = [s \in Stubs |-> IF s \in changed /\ cb_[s]
                                   THEN Append(told[s], state) ELSE told[s]]
       /\ UNCHANGED <<owner, changes, phase, out, life, cb_, address>>

notify_clients(n, state) ==
    state_changed({s \in stubs_ : busname(s) = n}, state, FALSE)

Receive(m) ==
    /\ phase = "running"
    /\ wire # <<>> /\ m = Head(wire)
    /\ wire' = Tail(wire)

\* [mutant of NotifyClientReceived] no check that the server is still there
NotifyClientUnchecked(m) ==
    /\ Receive(m) /\ m.member = "notify_client"
    /\ state_changed({s \in stubs_ : objectpath(s) = m.path}, "Connected", TRUE)
    /\ UNCHANGED busnames_

\* The signal tells every stub of the object path, whatever its bus name, and
\* is dropped if the server went away meanwhile.
NotifyClientReceived(m) ==
    /\ Receive(m) /\ m.member = "notify_client"
    /\ IF m.name \in busnames_
       THEN state_changed({s \in stubs_ : objectpath(s) = m.path}, "Connected", TRUE)
       ELSE UNCHANGED <<owner, changes, phase, out, life, conn_state_, cb_, told, address>>
    /\ UNCHANGED busnames_

\* [mutant of NameAppeared] the arguments of the signal are mixed up
NameAppearedByOwner(m) ==
    /\ Receive(m) /\ m.member = "NameOwnerChanged"
    /\ m.old = NoOwner
    /\ busnames_' = busnames_ \cup {m.new}
    /\ notify_clients(m.name, "Connected")

NameAppeared(m) ==
    /\ Receive(m) /\ m.member = "NameOwnerChanged"
    /\ m.old = NoOwner
    /\ busnames_' = busnames_ \cup {m.name}
    /\ notify_clients(m.name, "Connected")

\* [mutant of NameVanished] any signal about an owned name ends it
NameVanishedOrPassed(m) ==
    /\ Receive(m) /\ m.member = "NameOwnerChanged"
    /\ m.old # NoOwner
    /\ busnames_' = busnames_ \ {m.name}
    /\ notify_clients(m.name, "Disconnected")

NameVanished(m) ==
    /\ Receive(m) /\ m.member = "NameOwnerChanged"
    /\ m.old # NoOwner /\ m.new = NoOwner
    /\ busnames_' = busnames_ \ {m.name}
    /\ notify_clients(m.name, "Disconnected")

\* The name passed to another server: nobody is told.
NameTransferred(m) ==
    /\ Receive(m) /\ m.member = "NameOwnerChanged"
    /\ m.old # NoOwner /\ m.new # NoOwner
    /\ UNCHANGED <<owner, changes, phase, out, busnames_, life, conn_state_, cb_, told, address>>

try_handle_signal ==
    /\ wire # <<>>
    /\ LET m == Head(wire)
       IN \/ NotifyClientReceived(m) \/ NameAppeared(m)
          \/ NameVanished(m) \/ NameTransferred(m)

Next ==
    \/ \E n \in Names, o \in Owners \cup {NoOwner} : OwnerChanges(n, o)
    \/ Route \/ AddMatch \/ ListNames
    \/ \E s \in Stubs : add_client(s) \/ set_callback(s) \/ remove_client(s)
    \/ try_handle_signal

Spec == Init /\ [][Next]_vars

\* The constructor of the dispatcher comes to an end, the bus routes what it is
\* sent, and run() keeps dispatching.
Fairness == WF_vars(AddMatch) /\ WF_vars(ListNames) /\ WF_vars(Route) /\ WF_vars(try_handle_signal)

FairSpec == Spec /\ Fairness
-----------------------------------------------------------------------------
(***************************************************************************)
(* Properties                                                              *)
(***************************************************************************)
Incoming == Range(wire) \cup Range(out)

\* Nothing that concerns the name is on its way.
Quiet(n) == phase = "running" /\ \A m \in Incoming : m.name # n

Owned(n) == owner[n] # NoOwner

\* The variables have their types.
TypeOK ==
    /\ owner \in [Names -> Owners \cup {NoOwner}]
    /\ changes \in 0..MaxChanges
    /\ phase \in {"connecting", "subscribed", "running"}
    /\ out \in Seq(Messages)
    /\ wire \in Seq(Messages)
    /\ busnames_ \subseteq Names
    /\ address \in [Stubs -> Addresses]
    /\ life \in [Stubs -> {"new", "added", "gone"}]
    /\ conn_state_ \in [Stubs -> ConnectionState]
    /\ cb_ \in [Stubs -> BOOLEAN]
    /\ told \in [Stubs -> Seq(ConnectionState)]

\* No change of ownership slips between the match and ListNames, and replaying
\* the signals queued before the answer of ListNames leaves the list right: once
\* they are handled, busnames_ is what the bus says.
BusnamesFollow ==
    phase = "running" =>
        \A n \in Names :
            (\A m \in Range(wire) : m.member = "NameOwnerChanged" => m.name # n)
                => (n \in busnames_ <=> Owned(n))

\* "emitted as soon as the server registers itself on the bus (remember the
\* busname)": once the signals about its bus name are handled, a stub is
\* connected exactly if that name has an owner, whenever the stub was created.
StubsFollow ==
    \A s \in stubs_ : Quiet(busname(s)) =>
        (conn_state_[s] = "Connected" <=> Owned(busname(s)))

\* The callback of a stub was told the state the stub is in, no matter whether
\* it was set before or after the stub was connected; one that was told nothing
\* belongs to a stub that is not connected.
CallbackInformed ==
    \A s \in stubs_ : cb_[s] /\ Quiet(busname(s)) =>
        IF told[s] = <<>> THEN conn_state_[s] = "Disconnected"
                          ELSE Last(told[s]) = conn_state_[s]

\* A stub with a callback whose server stays is told so and keeps believing it,
\* and one whose server stays away is not left connected.
ConnectionSettles ==
    \A s \in Stubs :
        /\ <>[](s \in stubs_ /\ cb_[s] /\ Owned(busname(s)))
              => <>[](told[s] # <<>> /\ Last(told[s]) = "Connected")
        /\ <>[](s \in stubs_ /\ ~Owned(busname(s)))
              => <>[](conn_state_[s] = "Disconnected")
=============================================================================
