--------------------------- MODULE ConnectionProofs ---------------------------
(***************************************************************************)
(* Proofs about Connection for every set of stubs, names, owners and       *)
(* addresses: what the dispatcher and the stubs believe about the bus is   *)
(* right as soon as what the bus has sent is handled.                      *)
(***************************************************************************)
EXTENDS Connection, SequenceTheorems, TLAPS

-----------------------------------------------------------------------------
(***************************************************************************)
(* The messages of a sequence                                              *)
(***************************************************************************)

\* What is appended is one more element.
LEMMA RangeOfAppend ==
    ASSUME NEW S, NEW q \in Seq(S), NEW e \in S
    PROVE  Append(q, e) \in Seq(S) /\ Range(Append(q, e)) = Range(q) \cup {e}
<1>1. /\ Append(q, e) \in Seq(S) /\ Len(q) \in Nat
      /\ Len(Append(q, e)) = Len(q) + 1
      /\ \A i \in 1..Len(q) : Append(q, e)[i] = q[i]
      /\ Append(q, e)[Len(q) + 1] = e
  BY AppendProperties, LenProperties
<1>2. 1..(Len(q) + 1) = 1..Len(q) \cup {Len(q) + 1}
  BY <1>1
<1>3. Range(q) = {q[i] : i \in 1..Len(q)}
  BY RangeEquality
<1>4. Range(Append(q, e)) = {Append(q, e)[i] : i \in 1..(Len(q) + 1)}
  BY <1>1, RangeEquality
<1>. QED
  BY <1>1, <1>2, <1>3, <1>4

\* Without its head a sequence has the other elements, and perhaps that one again.
LEMMA RangeOfTail ==
    ASSUME NEW S, NEW q \in Seq(S), q # <<>>
    PROVE  /\ Head(q) \in S /\ Tail(q) \in Seq(S)
           /\ Range(q) = {Head(q)} \cup Range(Tail(q))
<1>1. /\ Head(q) \in S /\ Head(q) = q[1] /\ Tail(q) \in Seq(S)
      /\ Len(q) \in Nat /\ Len(q) > 0 /\ Len(Tail(q)) = Len(q) - 1
      /\ \A i \in 1..Len(Tail(q)) : Tail(q)[i] = q[i + 1]
  BY HeadTailProperties, EmptySeq, LenProperties
<1>2. Range(q) = {q[i] : i \in 1..Len(q)} /\ Range(Tail(q)) = {Tail(q)[i] : i \in 1..Len(Tail(q))}
  <2>1. PICK t \in Seq(S) : t = Tail(q)
    BY <1>1
  <2>2. Range(t) = {t[i] : i \in 1..Len(t)} /\ Range(q) = {q[i] : i \in 1..Len(q)}
    BY RangeEquality
  <2>. QED
    BY <2>1, <2>2
<1>3. \A i \in 1..Len(q) : i = 1 \/ (i - 1 \in 1..Len(Tail(q)) /\ (i - 1) + 1 = i)
  BY <1>1
<1>4. \A i \in 1..Len(Tail(q)) : i + 1 \in 1..Len(q)
  BY <1>1
<1>5. Range(q) \subseteq {Head(q)} \cup Range(Tail(q))
  <2>1. ASSUME NEW i \in 1..Len(q)
        PROVE  q[i] \in {Head(q)} \cup Range(Tail(q))
    <3>1. CASE i = 1
      BY <1>1, <3>1
    <3>2. CASE i - 1 \in 1..Len(Tail(q)) /\ (i - 1) + 1 = i
      <4>1. Tail(q)[i - 1] = q[i]
        BY <1>1, <3>2
      <4>. QED
        BY <1>2, <3>2, <4>1
    <3>. QED
      BY <1>3, <3>1, <3>2
  <2>. QED
    BY <1>2, <2>1
<1>6. {Head(q)} \cup Range(Tail(q)) \subseteq Range(q)
  BY <1>1, <1>2, <1>4
<1>. QED
  BY <1>1, <1>5, <1>6

\* The empty sequence has no element.
LEMMA RangeOfEmpty ==
    ASSUME NEW S
    PROVE  <<>> \in Seq(S) /\ Len(<<>>) = 0 /\ Range(<<>>) = {}
<1>1. <<>> \in Seq(S) /\ Len(<<>>) = 0
  BY EmptySeq
<1>2. DOMAIN <<>> = {}
  BY <1>1, LenProperties
<1>. QED
  BY <1>1, <1>2 DEF Range

\* An element at a position is an element.
LEMMA ElementInRange ==
    ASSUME NEW S, NEW q \in Seq(S), NEW i \in 1..Len(q)
    PROVE  q[i] \in Range(q)
BY RangeEquality

\* What is appended is the last element.
LEMMA LastOfAppend ==
    ASSUME NEW S, NEW q \in Seq(S), NEW e \in S
    PROVE  Append(q, e) \in Seq(S) /\ Append(q, e) # <<>> /\ Last(Append(q, e)) = e
BY AppendProperties DEF Last
-----------------------------------------------------------------------------
(***************************************************************************)
(* What is on its way                                                      *)
(***************************************************************************)

\* A signal by which the name gets its first owner or loses its last one.
Turns(m, n) == /\ m.member = "NameOwnerChanged" /\ m.name = n
               /\ m.old = NoOwner \/ m.new = NoOwner

\* The bus reports changes only.
RealChanges == \A m \in Range(wire) : m.member = "NameOwnerChanged" => m.old # m.new

\* Nothing is sent before the connection has its match rule.
NothingBefore == phase = "connecting" => wire = <<>>
NobodyBefore  == phase # "running" => stubs_ = {} /\ out = <<>>

\* The last such signal in the queue tells whether the name has an owner now,
\* whatever comes before it or was counted twice by ListNames ...
LastTurnRight == \A n \in Names : \A i \in 1..Len(wire) :
    Turns(wire[i], n) /\ (\A j \in 1..Len(wire) : j > i => ~Turns(wire[j], n))
        => (wire[i].new # NoOwner <=> Owned(n))

\* ... and without one busnames_ does.
NamesRight == phase = "running" =>
    \A n \in Names : (\A m \in Range(wire) : ~Turns(m, n)) => (n \in busnames_ <=> Owned(n))

\* Only notify_client is sent to the bus, for a stub that was created.
Notifies ==
    /\ \A m \in Range(out) : m.member = "notify_client"
    /\ \A m \in Incoming : m.member = "notify_client" => <<m.name, m.path>> \in Addresses

NInv == /\ TypeOK /\ RealChanges /\ NothingBefore /\ NobodyBefore
        /\ LastTurnRight /\ NamesRight /\ Notifies

\* Before the client starts, nothing is known and nothing under way.
LEMMA InitNInv == Init => NInv
<1>. SUFFICES ASSUME Init PROVE NInv
  OBVIOUS
<1>1. wire \in Seq(Messages) /\ out \in Seq(Messages) /\ Len(wire) = 0 /\ Range(wire) = {}
  BY RangeOfEmpty DEF Init
<1>2. \A s \in Stubs : told[s] \in Seq(ConnectionState)
  BY EmptySeq DEF Init
<1>3. TypeOK
  BY <1>1, <1>2, ConnectionAssumption DEF Init, TypeOK, ConnectionState
<1>4. NobodyBefore
  BY DEF Init, NobodyBefore, stubs_
<1>5. Notifies
  BY <1>1, RangeOfEmpty DEF Init, Notifies, Incoming
<1>. QED
  BY <1>1, <1>3, <1>4, <1>5
     DEF Init, NInv, RealChanges, NothingBefore, LastTurnRight, NamesRight

\* The queue grows by a message that changes nothing about who has an owner, or by
\* the one that does.
LEMMA QueueGrows ==
    ASSUME NInv, phase # "connecting", NEW m \in Messages, wire' = Append(wire, m),
           m.member = "NameOwnerChanged" => m.old # m.new,
           \A n \in Names : Turns(m, n) => (m.new # NoOwner <=> Owned(n)'),
           \A n \in Names : ~Turns(m, n) => (Owned(n)' <=> Owned(n)),
           UNCHANGED <<phase, busnames_>>
    PROVE  /\ wire' \in Seq(Messages) /\ Range(wire') = Range(wire) \cup {m}
           /\ RealChanges' /\ NothingBefore' /\ LastTurnRight' /\ NamesRight'
<1>. USE DEF NInv
<1>1. wire' \in Seq(Messages) /\ Range(wire') = Range(wire) \cup {m}
  BY RangeOfAppend DEF TypeOK
<1>2. /\ Len(wire) \in Nat /\ Len(wire') = Len(wire) + 1
      /\ \A i \in 1..Len(wire) : wire'[i] = wire[i]
      /\ wire'[Len(wire) + 1] = m
  BY AppendProperties, LenProperties DEF TypeOK
<1>3. RealChanges'
  BY <1>1 DEF RealChanges
<1>4. NothingBefore'
  BY DEF NothingBefore
<1>5. LastTurnRight'
  <2>. SUFFICES ASSUME NEW n \in Names, NEW i \in 1..Len(wire'), Turns(wire'[i], n),
                       \A j \in 1..Len(wire') : j > i => ~Turns(wire'[j], n)
                PROVE  wire'[i].new # NoOwner <=> Owned(n)'
    BY DEF LastTurnRight, Turns
  <2>1. CASE i = Len(wire) + 1
    BY <1>2, <2>1
  <2>2. CASE i \in 1..Len(wire)
    <3>1. ~Turns(m, n)
      BY <1>2, <2>2
    <3>2. \A j \in 1..Len(wire) : j > i => ~Turns(wire[j], n)
      BY <1>2
    <3>. QED
      BY <1>2, <2>2, <3>1, <3>2 DEF LastTurnRight
  <2>. QED
    BY <1>2, <2>1, <2>2
<1>6. NamesRight'
  BY <1>1 DEF NamesRight, Turns
<1>. QED
  BY <1>1, <1>3, <1>4, <1>5, <1>6

\* The head of the queue is handled and changes busnames_ as it says.
LEMMA QueueShrinks ==
    ASSUME NInv, phase = "running", NEW m, m = Head(wire), wire # <<>>, wire' = Tail(wire),
           \A n \in Names : Turns(m, n) => (n \in busnames_' <=> m.new # NoOwner),
           \A n \in Names : ~Turns(m, n) => (n \in busnames_' <=> n \in busnames_),
           UNCHANGED <<owner, phase>>
    PROVE  /\ m \in Messages /\ wire' \in Seq(Messages)
           /\ Range(wire) = {m} \cup Range(wire')
           /\ RealChanges' /\ NothingBefore' /\ NobodyBefore' /\ LastTurnRight' /\ NamesRight'
<1>. USE DEF NInv
<1>1. /\ m \in Messages /\ wire' \in Seq(Messages)
      /\ Range(wire) = {m} \cup Range(wire')
  BY RangeOfTail DEF TypeOK
<1>2. /\ Len(wire) \in Nat /\ Len(wire) > 0 /\ Len(wire') = Len(wire) - 1 /\ m = wire[1]
      /\ \A i \in 1..Len(wire') : wire'[i] = wire[i + 1] /\ i + 1 \in 1..Len(wire)
  BY HeadTailProperties, EmptySeq, LenProperties DEF TypeOK
<1>3. RealChanges'
  BY <1>1 DEF RealChanges
<1>4. NothingBefore' /\ NobodyBefore'
  BY DEF NothingBefore, NobodyBefore
<1>5. LastTurnRight'
  <2>. SUFFICES ASSUME NEW n \in Names, NEW i \in 1..Len(wire'), Turns(wire'[i], n),
                       \A j \in 1..Len(wire') : j > i => ~Turns(wire'[j], n)
                PROVE  wire'[i].new # NoOwner <=> Owned(n)'
    BY DEF LastTurnRight, Turns
  <2>1. i + 1 \in 1..Len(wire) /\ wire'[i] = wire[i + 1]
    BY <1>2
  <2>2. ASSUME NEW j \in 1..Len(wire), j > i + 1
        PROVE  ~Turns(wire[j], n)
    <3>1. j - 1 \in 1..Len(wire') /\ j - 1 > i /\ (j - 1) + 1 = j
      BY <1>2, <2>2
    <3>2. wire'[j - 1] = wire[j]
      BY <1>2, <3>1
    <3>. QED
      BY <3>1, <3>2
  <2>. QED
    BY <2>1, <2>2 DEF LastTurnRight, Owned
<1>6. NamesRight'
  <2>. SUFFICES ASSUME NEW n \in Names, \A x \in Range(wire') : ~Turns(x, n)
                PROVE  n \in busnames_' <=> Owned(n)'
    BY DEF NamesRight, Turns
  <2>1. CASE Turns(m, n)
    <3>1. ASSUME NEW j \in 1..Len(wire), j > 1
          PROVE  ~Turns(wire[j], n)
      <4>1. j - 1 \in 1..Len(wire') /\ (j - 1) + 1 = j
        BY <1>2, <3>1
      <4>2. wire'[j - 1] = wire[j]
        BY <1>2, <4>1
      <4>3. wire'[j - 1] \in Range(wire')
        BY <1>1, <4>1, ElementInRange
      <4>. QED
        BY <4>2, <4>3
    <3>2. m.new # NoOwner <=> Owned(n)
      BY <1>2, <2>1, <3>1 DEF LastTurnRight
    <3>. QED
      BY <2>1, <3>2 DEF Owned
  <2>2. CASE ~Turns(m, n)
    <3>1. \A x \in Range(wire) : ~Turns(x, n)
      BY <1>1, <2>2
    <3>. QED
      BY <2>2, <3>1 DEF NamesRight, Owned
  <2>. QED
    BY <2>1, <2>2
<1>. QED
  BY <1>1, <1>3, <1>4, <1>5, <1>6

\* The stubs concerned take over the state, and their callbacks are told.
LEMMA StateChanged ==
    ASSUME TypeOK, NEW S, NEW state \in ConnectionState, NEW force \in BOOLEAN,
           state_changed(S, state, force)
    PROVE  /\ conn_state_' \in [Stubs -> ConnectionState]
           /\ told' \in [Stubs -> Seq(ConnectionState)]
           /\ \A s \in Stubs :
                 IF s \in S /\ (force \/ conn_state_[s] # state)
                 THEN /\ conn_state_'[s] = state
                      /\ told'[s] = IF cb_[s] THEN Append(told[s], state) ELSE told[s]
                 ELSE conn_state_'[s] = conn_state_[s] /\ told'[s] = told[s]
           /\ UNCHANGED <<owner, changes, phase, out, life, cb_, address>>
<1>1. /\ UNCHANGED <<owner, changes, phase, out, life, cb_, address>>
      /\ conn_state_' = [s \in Stubs |-> IF s \in S /\ (force \/ conn_state_[s] # state)
                                         THEN state ELSE conn_state_[s]]
      /\ told' = [s \in Stubs |-> IF s \in S /\ (force \/ conn_state_[s] # state) /\ cb_[s]
                                  THEN Append(told[s], state) ELSE told[s]]
  BY DEF state_changed
<1>2. \A s \in Stubs : Append(told[s], state) \in Seq(ConnectionState)
  BY LastOfAppend DEF TypeOK
<1>3. told' \in [Stubs -> Seq(ConnectionState)]
  BY <1>1, <1>2 DEF TypeOK
<1>4. conn_state_' \in [Stubs -> ConnectionState]
  BY <1>1 DEF TypeOK
<1>. QED
  BY <1>1, <1>3, <1>4

\* The messages, told apart.
LEMMA MessageKinds ==
    ASSUME NEW m \in Messages
    PROVE  \/ /\ m.member = "NameOwnerChanged" /\ m.name \in Names
              /\ m.old \in Owners \cup {NoOwner} /\ m.new \in Owners \cup {NoOwner}
           \/ m.member = "notify_client" /\ m.name \in Names /\ m.path \in Paths
BY DEF Messages

\* notify_client is addressed to one stub by name and path.
LEMMA NotifyMessage ==
    ASSUME TypeOK, NEW s \in Stubs
    PROVE  /\ NotifyClient(s) \in Messages /\ NotifyClient(s).member = "notify_client"
           /\ NotifyClient(s).name = busname(s) /\ NotifyClient(s).path = objectpath(s)
           /\ <<busname(s), objectpath(s)>> \in Addresses /\ busname(s) \in Names
<1>1. address[s] \in Addresses /\ Addresses \subseteq Names \X Paths
  BY ConnectionAssumption DEF TypeOK
<1>2. busname(s) \in Names /\ objectpath(s) \in Paths /\ <<busname(s), objectpath(s)>> = address[s]
  BY <1>1 DEF busname, objectpath
<1>. QED
  BY <1>1, <1>2 DEF NotifyClient, Messages

\* A name that appears or disappears while the dispatcher watches it is signalled.
LEMMA OwnerChangesStep ==
    ASSUME NInv, NEW n \in Names, NEW o \in Owners \cup {NoOwner}, OwnerChanges(n, o)
    PROVE  NInv'
<1>. USE DEF NInv
<1>0. PICK m : m = NameOwnerChanged(n, owner[n], o)
  OBVIOUS
<1>1. /\ changes < MaxChanges /\ owner[n] # o /\ changes' = changes + 1
      /\ owner' = [owner EXCEPT ![n] = o]
      /\ wire' = IF phase = "connecting" THEN wire ELSE Append(wire, m)
      /\ UNCHANGED <<phase, out, busnames_, life, conn_state_, cb_, told, address>>
  BY <1>0 DEF OwnerChanges, Deliver
<1>2. /\ m \in Messages /\ m.member = "NameOwnerChanged" /\ m.name = n
      /\ m.old = owner[n] /\ m.new = o
  BY <1>0 DEF NameOwnerChanged, Messages, TypeOK
<1>3. owner' \in [Names -> Owners \cup {NoOwner}] /\ changes' \in 0..MaxChanges
  BY <1>1, ConnectionAssumption DEF TypeOK
<1>4. \A k \in Names : owner'[k] = IF k = n THEN o ELSE owner[k]
  BY <1>1 DEF TypeOK
<1>5. NobodyBefore'
  BY <1>1 DEF NobodyBefore, stubs_
<1>6. CASE phase = "connecting"
  <2>1. wire = <<>> /\ wire' = <<>> /\ Len(wire') = 0
    BY <1>1, <1>6, RangeOfEmpty DEF NothingBefore
  <2>2. LastTurnRight' /\ NamesRight' /\ NothingBefore' /\ RealChanges'
    BY <1>1, <1>6, <2>1 DEF LastTurnRight, NamesRight, NothingBefore, RealChanges
  <2>3. TypeOK' /\ Notifies'
    BY <1>1, <1>3, <2>1 DEF TypeOK, Notifies, Incoming
  <2>. QED
    BY <1>5, <2>2, <2>3
<1>7. CASE phase # "connecting"
  <2>1. \A k \in Names : /\ Turns(m, k) => (m.new # NoOwner <=> Owned(k)')
                         /\ ~Turns(m, k) => (Owned(k)' <=> Owned(k))
    BY <1>2, <1>4 DEF Turns, Owned
  <2>2. /\ wire' \in Seq(Messages) /\ Range(wire') = Range(wire) \cup {m}
        /\ RealChanges' /\ NothingBefore' /\ LastTurnRight' /\ NamesRight'
    BY <1>1, <1>2, <1>7, <2>1, QueueGrows
  <2>3. TypeOK' /\ Notifies'
    BY <1>1, <1>2, <1>3, <2>2 DEF TypeOK, Notifies, Incoming
  <2>. QED
    BY <1>5, <2>2, <2>3
<1>. QED
  BY <1>6, <1>7

\* The bus returns what was sent; no name turns by it.
LEMMA RouteStep ==
    ASSUME NInv, Route
    PROVE  NInv'
<1>. USE DEF NInv
<1>0. PICK m : m = Head(out)
  OBVIOUS
<1>1. /\ out # <<>> /\ wire' = Append(wire, m) /\ out' = Tail(out)
      /\ UNCHANGED <<owner, changes, phase, busnames_, life, conn_state_, cb_, told, address>>
  BY <1>0 DEF Route
<1>2. /\ m \in Messages /\ out' \in Seq(Messages) /\ Range(out) = {m} \cup Range(out')
  BY <1>0, <1>1, RangeOfTail DEF TypeOK
<1>3. m.member = "notify_client" /\ phase = "running"
  BY <1>1, <1>2 DEF Notifies, NobodyBefore
<1>4. \A n \in Names : ~Turns(m, n) /\ (Owned(n)' <=> Owned(n))
  BY <1>1, <1>3 DEF Turns, Owned
<1>5. /\ wire' \in Seq(Messages) /\ Range(wire') = Range(wire) \cup {m}
      /\ RealChanges' /\ NothingBefore' /\ LastTurnRight' /\ NamesRight'
  BY <1>1, <1>2, <1>3, <1>4, QueueGrows
<1>6. TypeOK'
  BY <1>1, <1>2, <1>5 DEF TypeOK
<1>7. Notifies' /\ NobodyBefore'
  BY <1>1, <1>2, <1>3, <1>5 DEF Notifies, Incoming, NobodyBefore
<1>. QED
  BY <1>5, <1>6, <1>7

\* Dispatcher::init(): what ListNames answers is right at once, and stays right
\* when the signals that are queued are counted once more.
LEMMA StartStep ==
    ASSUME NInv, AddMatch \/ ListNames
    PROVE  NInv'
<1>. USE DEF NInv
<1>1. /\ phase # "running" /\ phase' # "connecting"
      /\ UNCHANGED <<owner, changes, out, wire, life, conn_state_, cb_, told, address>>
  BY DEF AddMatch, ListNames
<1>2. TypeOK'
  BY DEF AddMatch, ListNames, TypeOK
<1>3. RealChanges' /\ NothingBefore' /\ LastTurnRight' /\ Notifies'
  BY <1>1 DEF RealChanges, NothingBefore, LastTurnRight, Owned, Notifies, Incoming
<1>4. NobodyBefore'
  BY <1>1 DEF NobodyBefore, stubs_
<1>5. NamesRight'
  BY <1>1 DEF AddMatch, ListNames, NamesRight, Owned
<1>. QED
  BY <1>2, <1>3, <1>4, <1>5

\* A stub appears, gets its callback or is destroyed.
LEMMA StubStep ==
    ASSUME NInv, NEW s \in Stubs, add_client(s) \/ set_callback(s) \/ remove_client(s)
    PROVE  /\ NInv'
           /\ out' = out \/ Range(out') = Range(out) \cup {NotifyClient(s)}
<1>. USE DEF NInv
<1>1. /\ UNCHANGED <<owner, changes, phase, wire, busnames_, conn_state_, told, address>>
      /\ out' = out \/ out' = Append(out, NotifyClient(s))
  BY DEF add_client, set_callback, remove_client, notify_connected
<1>2. /\ out' \in Seq(Messages)
      /\ out' = out \/ Range(out') = Range(out) \cup {NotifyClient(s)}
  <2>1. NotifyClient(s) \in Messages
    BY NotifyMessage
  <2>2. out \in Seq(Messages)
    BY DEF TypeOK
  <2>3. ASSUME out' = Append(out, NotifyClient(s))
        PROVE  out' \in Seq(Messages) /\ Range(out') = Range(out) \cup {NotifyClient(s)}
    BY <2>1, <2>2, <2>3, RangeOfAppend
  <2>. QED
    BY <1>1, <2>2, <2>3
<1>3. TypeOK'
  BY <1>1, <1>2 DEF TypeOK, add_client, set_callback, remove_client
<1>4. phase = "running"
  BY DEF add_client, set_callback, remove_client, NobodyBefore, stubs_
<1>5. RealChanges' /\ NothingBefore' /\ LastTurnRight' /\ NamesRight' /\ NobodyBefore'
  BY <1>1, <1>4 DEF RealChanges, NothingBefore, LastTurnRight, NamesRight, Owned, NobodyBefore
<1>6. Notifies'
  BY <1>1, <1>2, NotifyMessage DEF Notifies, Incoming
<1>. QED
  BY <1>1, <1>2, <1>3, <1>5, <1>6

\* The bookkeeping of a signal that is handled, without the stubs it tells.
LEMMA ReceiveStep ==
    ASSUME NInv, NEW m,
           NotifyClientReceived(m) \/ NameAppeared(m) \/ NameVanished(m) \/ NameTransferred(m)
    PROVE  /\ NInv'
           /\ m \in Messages /\ phase = "running"
           /\ Range(wire) = {m} \cup Range(wire')
           /\ UNCHANGED <<owner, changes, phase, out, life, cb_, address>>
<1>. USE DEF NInv
<1>1. phase = "running" /\ wire # <<>> /\ m = Head(wire) /\ wire' = Tail(wire)
  BY DEF NotifyClientReceived, NameAppeared, NameVanished, NameTransferred, Receive
<1>2. m \in Messages /\ m \in Range(wire)
  BY <1>1, RangeOfTail DEF TypeOK
<1>3. m.member = "NameOwnerChanged" => m.old # m.new /\ m.name \in Names
  BY <1>2, MessageKinds DEF RealChanges
<1>4. /\ UNCHANGED <<owner, changes, phase, out, life, cb_, address>>
      /\ conn_state_' \in [Stubs -> ConnectionState]
      /\ told' \in [Stubs -> Seq(ConnectionState)]
  BY StateChanged DEF NotifyClientReceived, NameAppeared, NameVanished, NameTransferred,
                      notify_clients, ConnectionState, TypeOK
<1>5. \A n \in Names : /\ Turns(m, n) => (n \in busnames_' <=> m.new # NoOwner)
                       /\ ~Turns(m, n) => (n \in busnames_' <=> n \in busnames_)
  BY <1>3 DEF NotifyClientReceived, NameAppeared, NameVanished, NameTransferred, Turns
<1>6. busnames_' \subseteq Names
  BY <1>3 DEF NotifyClientReceived, NameAppeared, NameVanished, NameTransferred, TypeOK
<1>7. /\ wire' \in Seq(Messages) /\ Range(wire) = {m} \cup Range(wire')
      /\ RealChanges' /\ NothingBefore' /\ LastTurnRight' /\ NamesRight'
  BY <1>1, <1>4, <1>5, QueueShrinks
<1>8. TypeOK'
  BY <1>4, <1>6, <1>7 DEF TypeOK
<1>9. Notifies' /\ NobodyBefore'
  BY <1>1, <1>4, <1>7 DEF Notifies, Incoming, NobodyBefore
<1>. QED
  BY <1>1, <1>2, <1>4, <1>7, <1>8, <1>9

\* Every step keeps the invariant of the names.
LEMMA NextNInv == NInv /\ [Next]_vars => NInv'
<1>. SUFFICES ASSUME NInv, [Next]_vars PROVE NInv'
  OBVIOUS
<1>1. CASE UNCHANGED vars
  BY <1>1 DEF vars, NInv, TypeOK, RealChanges, NothingBefore, NobodyBefore, stubs_, LastTurnRight,
              NamesRight, Owned, Notifies, Incoming
<1>. QED
  BY <1>1, OwnerChangesStep, RouteStep, StartStep, StubStep, ReceiveStep DEF Next, try_handle_signal

\* The variables keep their types.
THEOREM TypeCorrect == Spec => []TypeOK
<1>1. NInv => TypeOK
  BY DEF NInv
<1>. QED
  BY <1>1, InitNInv, NextNInv, PTL DEF Spec

\* For every number of names and changes, whichever of them fall between the match
\* rule and ListNames: once the signals about a name are handled, the dispatcher
\* knows whether it has an owner.
THEOREM NamesKnown == Spec => []BusnamesFollow
<1>1. NInv => BusnamesFollow
  BY DEF NInv, NamesRight, BusnamesFollow, Turns
<1>. QED
  BY <1>1, InitNInv, NextNInv, PTL DEF Spec
-----------------------------------------------------------------------------
(***************************************************************************)
(* What the stubs believe, provided that servers of different bus names    *)
(* have different object paths                                             *)
(***************************************************************************)
PathsDiffer == \A a, b \in Addresses : a[2] = b[2] => a[1] = b[1]

\* The stub is going to be told by a notify_client of its own.
Pending(s) == NotifyClient(s) \in Incoming

\* What the user was told last.
ToldNothing(s) == told[s] = <<>>

View(s) == IF ToldNothing(s) THEN "Disconnected" ELSE Last(told[s])

\* A stub that was not registered yet is disconnected and has no callback.
NewFresh == \A s \in Stubs : life[s] = "new" => conn_state_[s] = "Disconnected" /\ ~cb_[s]

\* A stub follows busnames_, at the latest when its notify_client arrives.
FollowsNames == \A s \in stubs_ :
    /\ conn_state_[s] = "Connected" => busname(s) \in busnames_
    /\ busname(s) \in busnames_ => conn_state_[s] = "Connected" \/ Pending(s)

\* A callback follows its stub, at the latest when its notify_client arrives.
FollowsStub == \A s \in Stubs :
    /\ ~cb_[s] => ToldNothing(s)
    /\ s \in stubs_ /\ cb_[s] =>
          View(s) = conn_state_[s] \/ (conn_state_[s] = "Connected" /\ Pending(s))

Follows == NewFresh /\ FollowsNames /\ FollowsStub

SInv == NInv /\ Follows

\* Nobody is told anything, and nothing is taken from the queue.
LEMMA NobodyTold ==
    ASSUME Follows, Incoming \subseteq Incoming',
           UNCHANGED <<busnames_, life, conn_state_, cb_, told, address>>
    PROVE  Follows'
<1>1. \A s \in Stubs : /\ (Pending(s) => Pending(s)') /\ View(s)' = View(s)
                       /\ (ToldNothing(s)' <=> ToldNothing(s)) /\ busname(s)' = busname(s)
  BY DEF Pending, View, ToldNothing, NotifyClient, busname, objectpath
<1>2. stubs_' = stubs_ /\ stubs_ \subseteq Stubs
  BY DEF stubs_
<1>3. NewFresh' /\ FollowsNames'
  BY <1>1, <1>2 DEF Follows, NewFresh, FollowsNames
<1>4. FollowsStub'
  <2>. SUFFICES ASSUME NEW s \in Stubs
                PROVE  /\ ~cb_[s] => ToldNothing(s)'
                       /\ s \in stubs_ /\ cb_[s] =>
                             View(s)' = conn_state_[s] \/ (conn_state_[s] = "Connected" /\ Pending(s)')
    BY <1>2 DEF FollowsStub
  <2>. QED
    BY <1>1 DEF Follows, FollowsStub
<1>. QED
  BY <1>3, <1>4 DEF Follows

\* A message is taken that no stub of a known name waits for, and nobody is told.
LEMMA TakenFromDead ==
    ASSUME SInv, UNCHANGED <<busnames_, life, conn_state_, cb_, told, address>>,
           \A s \in stubs_ : busname(s) \in busnames_ => (Pending(s) => Pending(s)')
    PROVE  Follows'
<1>1. \A s \in Stubs : /\ View(s)' = View(s) /\ busname(s)' = busname(s)
                       /\ ToldNothing(s)' <=> ToldNothing(s)
  BY DEF View, ToldNothing, busname
<1>2. stubs_' = stubs_ /\ stubs_ \subseteq Stubs
  BY DEF stubs_
<1>3. NewFresh' /\ FollowsNames'
  BY <1>1, <1>2 DEF SInv, Follows, NewFresh, FollowsNames
<1>4. FollowsStub'
  <2>. SUFFICES ASSUME NEW s \in Stubs
                PROVE  /\ ~cb_[s] => ToldNothing(s)'
                       /\ s \in stubs_ /\ cb_[s] =>
                             \/ View(s)' = conn_state_[s]
                             \/ conn_state_[s] = "Connected" /\ Pending(s)'
    BY <1>2 DEF FollowsStub
  <2>. QED
    BY <1>1 DEF SInv, Follows, FollowsNames, FollowsStub
<1>. QED
  BY <1>3, <1>4 DEF Follows

\* A message for the path of a stub is the notify_client of that stub.
LEMMA ForThisStub ==
    ASSUME PathsDiffer, NInv, NEW m \in Incoming, m \in Messages, m.member = "notify_client",
           NEW s \in Stubs, objectpath(s) = m.path
    PROVE  m = NotifyClient(s) /\ m.name = busname(s)
<1>1. <<m.name, m.path>> \in Addresses
  BY DEF NInv, Notifies
<1>2. <<busname(s), objectpath(s)>> \in Addresses
  BY NotifyMessage DEF NInv
<1>3. m.name = busname(s)
  BY <1>1, <1>2 DEF PathsDiffer
<1>4. m = [member |-> "notify_client", name |-> m.name, path |-> m.path]
  BY DEF Messages
<1>. QED
  BY <1>3, <1>4 DEF NotifyClient

\* A stub that is created, or sets its callback, starts from what is known.
LEMMA StubFollows ==
    ASSUME SInv, NInv', NEW s \in Stubs, add_client(s) \/ set_callback(s) \/ remove_client(s)
    PROVE  Follows'
<1>. USE DEF SInv, NInv
<1>1. /\ UNCHANGED <<wire, busnames_, conn_state_, told, address>>
      /\ out' = out \/ Range(out') = Range(out) \cup {NotifyClient(s)}
  BY StubStep DEF add_client, set_callback, remove_client
<1>2. \A t \in Stubs : /\ (Pending(t) => Pending(t)') /\ View(t)' = View(t)
                       /\ (ToldNothing(t)' <=> ToldNothing(t)) /\ busname(t)' = busname(t)
  BY <1>1 DEF Pending, Incoming, View, ToldNothing, NotifyClient, busname, objectpath
<1>3. ASSUME out' = Append(out, NotifyClient(s))
      PROVE  Pending(s)'
  <2>1. Range(out') = Range(out) \cup {NotifyClient(s)}
    BY <1>3, NotifyMessage, RangeOfAppend DEF TypeOK
  <2>. QED
    BY <1>1, <2>1 DEF Pending, Incoming, NotifyClient, busname, objectpath
<1>4. CASE add_client(s)
  <2>1. /\ life[s] = "new" /\ UNCHANGED cb_ /\ stubs_' = stubs_ \cup {s}
        /\ \A t \in Stubs : life'[t] = "new" => life[t] = "new"
        /\ busname(s) \in busnames_ => out' = Append(out, NotifyClient(s))
    BY <1>4 DEF add_client, notify_connected, stubs_, TypeOK
  <2>2. conn_state_[s] = "Disconnected" /\ ~cb_[s]
    BY <2>1 DEF Follows, NewFresh
  <2>3. NewFresh' /\ FollowsStub'
    <3>1. NewFresh'
      BY <1>1, <2>1 DEF Follows, NewFresh
    <3>2. \A t \in Stubs : t \in stubs_' /\ cb_[t] => t \in stubs_
      BY <2>1, <2>2
    <3>3. FollowsStub'
      <4>. SUFFICES ASSUME NEW t \in Stubs
                    PROVE  /\ ~cb_[t] => ToldNothing(t)'
                           /\ t \in stubs_' /\ cb_[t] =>
                                 \/ View(t)' = conn_state_[t]
                                 \/ conn_state_[t] = "Connected" /\ Pending(t)'
        BY <1>1, <2>1 DEF FollowsStub
      <4>. QED
        BY <1>2, <3>2 DEF Follows, FollowsStub
    <3>. QED
      BY <3>1, <3>3
  <2>4. FollowsNames'
    BY <1>1, <1>2, <1>3, <2>1, <2>2 DEF Follows, FollowsNames, stubs_
  <2>. QED
    BY <2>3, <2>4 DEF Follows
<1>5. CASE set_callback(s)
  <2>1. /\ s \in stubs_ /\ ~cb_[s] /\ UNCHANGED life /\ stubs_' = stubs_
        /\ \A t \in Stubs : cb_'[t] = IF t = s THEN TRUE ELSE cb_[t]
        /\ conn_state_[s] = "Connected" => out' = Append(out, NotifyClient(s))
    BY <1>5 DEF set_callback, notify_connected, stubs_, TypeOK
  <2>2. View(s) = "Disconnected" /\ conn_state_[s] \in ConnectionState
    BY <2>1 DEF Follows, FollowsStub, View, TypeOK, stubs_
  <2>3. NewFresh' /\ FollowsNames'
    BY <1>1, <1>2, <2>1 DEF Follows, NewFresh, FollowsNames, stubs_
  <2>4. FollowsStub'
    <3>. SUFFICES ASSUME NEW t \in Stubs
                  PROVE  /\ t # s /\ ~cb_[t] => ToldNothing(t)'
                         /\ t \in stubs_ /\ (t = s \/ cb_[t]) =>
                               \/ View(t)' = conn_state_[t]
                               \/ conn_state_[t] = "Connected" /\ Pending(t)'
      BY <1>1, <2>1 DEF FollowsStub
    <3>1. CASE t = s
      BY <1>2, <1>3, <2>1, <2>2, <3>1 DEF ConnectionState
    <3>2. CASE t # s
      BY <1>2, <3>2 DEF Follows, FollowsStub
    <3>. QED
      BY <3>1, <3>2
  <2>. QED
    BY <2>3, <2>4 DEF Follows
<1>6. CASE remove_client(s)
  <2>1. /\ UNCHANGED cb_ /\ stubs_' \subseteq stubs_
        /\ \A t \in Stubs : life'[t] = "new" => life[t] = "new"
    BY <1>6 DEF remove_client, stubs_, TypeOK
  <2>2. stubs_ \subseteq Stubs
    BY DEF stubs_
  <2>3. NewFresh' /\ FollowsNames'
    BY <1>1, <1>2, <2>1, <2>2 DEF Follows, NewFresh, FollowsNames
  <2>4. FollowsStub'
    <3>. SUFFICES ASSUME NEW t \in Stubs
                  PROVE  /\ ~cb_[t] => ToldNothing(t)'
                         /\ t \in stubs_ /\ cb_[t] =>
                               \/ View(t)' = conn_state_[t]
                               \/ conn_state_[t] = "Connected" /\ Pending(t)'
      BY <1>1, <2>1 DEF FollowsStub
    <3>. QED
      BY <1>2 DEF Follows, FollowsStub
  <2>. QED
    BY <2>3, <2>4 DEF Follows
<1>. QED
  BY <1>4, <1>5, <1>6

\* Stubs are told a state that agrees with busnames_: they and their callbacks
\* follow; for the others nothing changes.
LEMMA ToldFollow ==
    ASSUME SInv, NInv', NEW m, NEW S \in SUBSET stubs_, NEW state \in ConnectionState,
           NEW force \in BOOLEAN, state_changed(S, state, force),
           Incoming \subseteq {m} \cup Incoming',
           \A s \in S : state = "Connected" <=> busname(s) \in busnames_',
           \A s \in stubs_ \ S : /\ NotifyClient(s) # m
                                 /\ busname(s) \in busnames_' <=> busname(s) \in busnames_,
           force \/ \A s \in S : NotifyClient(s) # m
    PROVE  Follows'
<1>. USE DEF SInv, NInv
<1>1. /\ \A s \in Stubs :
            IF s \in S /\ (force \/ conn_state_[s] # state)
            THEN /\ conn_state_'[s] = state
                 /\ told'[s] = IF cb_[s] THEN Append(told[s], state) ELSE told[s]
            ELSE conn_state_'[s] = conn_state_[s] /\ told'[s] = told[s]
      /\ UNCHANGED <<owner, changes, phase, out, life, cb_, address>>
  BY StateChanged
<1>2. stubs_' = stubs_
  BY <1>1 DEF stubs_
<1>3. \A s \in Stubs : /\ busname(s)' = busname(s)
                       /\ NotifyClient(s) # m => (Pending(s) => Pending(s)')
  BY <1>1 DEF busname, objectpath, Pending, NotifyClient
<1>4. ASSUME NEW s \in S, force \/ conn_state_[s] # state
      PROVE  conn_state_'[s] = state /\ (cb_[s] => View(s)' = state)
                /\ (~cb_[s] => (ToldNothing(s)' <=> ToldNothing(s)))
  <2>1. s \in Stubs
    BY DEF stubs_
  <2>2. told[s] \in Seq(ConnectionState)
    BY <2>1 DEF TypeOK
  <2>3. Append(told[s], state) # <<>> /\ Last(Append(told[s], state)) = state
    BY <2>2, LastOfAppend
  <2>. QED
    BY <1>1, <1>4, <2>1, <2>3 DEF View, ToldNothing
<1>5. ASSUME NEW s \in Stubs, s \notin S \/ ~(force \/ conn_state_[s] # state)
      PROVE  /\ conn_state_'[s] = conn_state_[s] /\ View(s)' = View(s)
             /\ ToldNothing(s)' <=> ToldNothing(s)
  BY <1>1, <1>5 DEF View, ToldNothing
<1>6. NewFresh'
  <2>1. \A s \in S : life[s] # "new"
    BY DEF stubs_
  <2>. QED
    BY <1>1, <1>5, <2>1 DEF Follows, NewFresh
<1>7. FollowsNames'
  <2>. SUFFICES ASSUME NEW s \in stubs_
                PROVE  /\ conn_state_'[s] = "Connected" => busname(s) \in busnames_'
                       /\ busname(s) \in busnames_' => conn_state_'[s] = "Connected" \/ Pending(s)'
    BY <1>2, <1>3 DEF FollowsNames, stubs_
  <2>1. s \in Stubs
    BY DEF stubs_
  <2>2. CASE s \in S
    <3>1. conn_state_'[s] = state
      BY <1>4, <1>5, <2>1, <2>2
    <3>. QED
      BY <2>2, <3>1
  <2>3. CASE s \notin S
    BY <1>3, <1>5, <2>1, <2>3 DEF Follows, FollowsNames
  <2>. QED
    BY <2>2, <2>3
<1>8. FollowsStub'
  <2>. SUFFICES ASSUME NEW s \in Stubs
                PROVE  /\ ~cb_[s] => ToldNothing(s)'
                       /\ s \in stubs_ /\ cb_[s] =>
                             \/ View(s)' = conn_state_'[s]
                             \/ conn_state_'[s] = "Connected" /\ Pending(s)'
    BY <1>1, <1>2 DEF FollowsStub
  <2>1. CASE s \in S /\ (force \/ conn_state_[s] # state)
    BY <1>4, <2>1 DEF Follows, FollowsStub
  <2>2. CASE ~(s \in S /\ (force \/ conn_state_[s] # state))
    <3>1. /\ conn_state_'[s] = conn_state_[s] /\ View(s)' = View(s)
          /\ ToldNothing(s)' <=> ToldNothing(s)
      BY <1>5, <2>2
    <3>2. s \in stubs_ => NotifyClient(s) # m
      BY <2>2
    <3>. QED
      BY <1>3, <3>1, <3>2 DEF Follows, FollowsStub
  <2>. QED
    BY <2>1, <2>2
<1>. QED
  BY <1>6, <1>7, <1>8 DEF Follows

\* The handlers of NameOwnerChanged tell the stubs of the name, the one of
\* notify_client those of the object path: by PathsDiffer its own stubs.
LEMMA ReceiveFollows ==
    ASSUME PathsDiffer, SInv, NEW m,
           NotifyClientReceived(m) \/ NameAppeared(m) \/ NameVanished(m) \/ NameTransferred(m)
    PROVE  Follows'
<1>. USE DEF SInv, NInv
<1>1. /\ NInv' /\ m \in Messages /\ phase = "running"
      /\ Range(wire) = {m} \cup Range(wire')
      /\ UNCHANGED <<owner, changes, phase, out, life, cb_, address>>
  BY ReceiveStep
<1>2. m \in Incoming /\ Incoming = {m} \cup Incoming'
  BY <1>1 DEF Incoming
<1>3. stubs_ \subseteq Stubs
  BY DEF stubs_
<1>4. \A s \in stubs_ : /\ NotifyClient(s).member = "notify_client"
                        /\ NotifyClient(s).path = objectpath(s)
  BY <1>3, NotifyMessage
<1>5. CASE NotifyClientReceived(m)
  <2>1. m.member = "notify_client" /\ UNCHANGED busnames_
    BY <1>5 DEF NotifyClientReceived
  <2>2. CASE m.name \in busnames_
    <3>1. PICK S \in SUBSET stubs_ : S = {s \in stubs_ : objectpath(s) = m.path}
      OBVIOUS
    <3>2. state_changed(S, "Connected", TRUE)
      BY <1>5, <2>2, <3>1 DEF NotifyClientReceived
    <3>3. \A s \in S : busname(s) \in busnames_'
      BY <1>1, <1>2, <1>3, <2>1, <2>2, <3>1, ForThisStub
    <3>4. \A s \in stubs_ \ S : NotifyClient(s) # m
      BY <1>4, <3>1
    <3>. QED
      BY <1>1, <1>2, <2>1, <3>2, <3>3, <3>4, ToldFollow DEF ConnectionState
  <2>3. CASE m.name \notin busnames_
    <3>1. UNCHANGED <<conn_state_, told>>
      BY <1>5, <2>3 DEF NotifyClientReceived
    <3>2. \A s \in stubs_ : /\ busname(s) \in busnames_ => (Pending(s) => Pending(s)')
      BY <1>1, <1>2, <1>3, <2>3, NotifyMessage DEF Pending, NotifyClient, busname, objectpath
    <3>. QED
      BY <1>1, <2>1, <3>1, <3>2, TakenFromDead
  <2>. QED
    BY <2>2, <2>3
<1>6. ASSUME NEW state \in ConnectionState, m.member = "NameOwnerChanged",
             notify_clients(m.name, state),
             \A n \in Names : n \in busnames_' <=> IF n = m.name THEN state = "Connected"
                                                                ELSE n \in busnames_
      PROVE  Follows'
  <2>1. PICK S \in SUBSET stubs_ : S = {s \in stubs_ : busname(s) = m.name}
    OBVIOUS
  <2>2. state_changed(S, state, FALSE)
    BY <1>6, <2>1 DEF notify_clients
  <2>3. \A s \in stubs_ : busname(s) \in Names /\ NotifyClient(s) # m
    BY <1>3, <1>4, <1>6, NotifyMessage
  <2>4. /\ \A s \in S : state = "Connected" <=> busname(s) \in busnames_'
        /\ \A s \in stubs_ \ S : busname(s) \in busnames_' <=> busname(s) \in busnames_
    BY <1>6, <2>1, <2>3
  <2>5. Incoming \subseteq {m} \cup Incoming'
    BY <1>2
  <2>6. /\ \A s \in stubs_ \ S : /\ NotifyClient(s) # m
                                 /\ busname(s) \in busnames_' <=> busname(s) \in busnames_
        /\ \A s \in S : NotifyClient(s) # m
    BY <2>3, <2>4
  <2>7. \A s \in S : state = "Connected" <=> busname(s) \in busnames_'
    BY <2>4
  <2>8. SInv /\ NInv'
    BY <1>1
  <2>. HIDE DEF SInv, NInv
  <2>9. PICK force \in BOOLEAN : force = FALSE
    OBVIOUS
  <2>10. state_changed(S, state, force) /\ (force \/ \A s \in S : NotifyClient(s) # m)
    BY <2>2, <2>6, <2>9
  <2>. QED
    BY <1>6, <2>5, <2>6, <2>7, <2>8, <2>10, ToldFollow
<1>7. CASE NameAppeared(m)
  BY <1>6, <1>7 DEF NameAppeared, ConnectionState
<1>8. CASE NameVanished(m)
  BY <1>6, <1>8 DEF NameVanished, ConnectionState
<1>9. CASE NameTransferred(m)
  <2>1. m.member = "NameOwnerChanged" /\ UNCHANGED <<busnames_, conn_state_, told>>
    BY <1>9 DEF NameTransferred
  <2>2. \A s \in stubs_ : Pending(s) => Pending(s)'
    BY <1>1, <1>2, <1>3, <1>4, <2>1 DEF Pending, NotifyClient, busname, objectpath
  <2>. QED
    BY <1>1, <2>1, <2>2, TakenFromDead
<1>. QED
  BY <1>5, <1>7, <1>8, <1>9

\* In the beginning there are no stubs.
LEMMA InitSInv == Init => SInv
<1>. SUFFICES ASSUME Init PROVE SInv
  OBVIOUS
<1>1. NInv /\ stubs_ = {}
  BY InitNInv DEF Init, stubs_
<1>. QED
  BY <1>1 DEF Init, SInv, Follows, NewFresh, FollowsNames, FollowsStub, ToldNothing

\* Every step keeps the invariant of the stubs.
LEMMA NextSInv == ASSUME PathsDiffer, SInv, [Next]_vars PROVE SInv'
<1>1. NInv'
  BY NextNInv DEF SInv
<1>. SUFFICES Follows'
  BY <1>1 DEF SInv
<1>2. CASE UNCHANGED vars
  <2>1. Incoming \subseteq Incoming'
    BY <1>2 DEF vars, Incoming
  <2>. QED
    BY <1>2, <2>1, NobodyTold DEF vars, SInv
<1>3. ASSUME NEW n \in Names, NEW o \in Owners \cup {NoOwner}, OwnerChanges(n, o)
      PROVE  Follows'
  <2>0. PICK m : m = NameOwnerChanged(n, owner[n], o)
    OBVIOUS
  <2>1. /\ UNCHANGED <<phase, out, busnames_, life, conn_state_, cb_, told, address>>
        /\ wire' = wire \/ wire' = Append(wire, m)
    BY <1>3, <2>0 DEF OwnerChanges, Deliver
  <2>2. m \in Messages
    BY <2>0 DEF NameOwnerChanged, Messages, SInv, NInv, TypeOK
  <2>3. Incoming \subseteq Incoming'
    <3>1. wire \in Seq(Messages)
      BY DEF SInv, NInv, TypeOK
    <3>2. Range(Append(wire, m)) = Range(wire) \cup {m}
      BY <2>2, <3>1, RangeOfAppend
    <3>. QED
      BY <2>1, <3>2 DEF Incoming
  <2>. QED
    BY <2>1, <2>3, NobodyTold DEF SInv
<1>4. CASE Route
  <2>1. /\ Range(wire') = Range(wire) \cup {Head(out)} /\ Range(out) = {Head(out)} \cup Range(out')
        /\ UNCHANGED <<busnames_, life, conn_state_, cb_, told, address>>
    BY <1>4, RangeOfAppend, RangeOfTail DEF Route, SInv, NInv, TypeOK
  <2>2. Incoming \subseteq Incoming'
    BY <2>1 DEF Incoming
  <2>. QED
    BY <2>1, <2>2, NobodyTold DEF SInv
<1>5. CASE AddMatch \/ ListNames
  <2>1. /\ phase # "running"
        /\ UNCHANGED <<owner, changes, out, wire, life, conn_state_, cb_, told, address>>
    BY <1>5 DEF AddMatch, ListNames
  <2>2. stubs_ = {} /\ stubs_' = {}
    BY <2>1 DEF SInv, NInv, NobodyBefore, stubs_
  <2>3. NewFresh' /\ FollowsNames'
    BY <2>1, <2>2 DEF SInv, Follows, NewFresh, FollowsNames
  <2>4. FollowsStub'
    BY <2>1, <2>2 DEF SInv, Follows, FollowsStub, ToldNothing
  <2>. QED
    BY <2>3, <2>4 DEF Follows
<1>6. ASSUME NEW s \in Stubs, add_client(s) \/ set_callback(s) \/ remove_client(s)
      PROVE  Follows'
  BY <1>1, <1>6, StubFollows
<1>7. CASE try_handle_signal
  BY <1>7, ReceiveFollows DEF try_handle_signal
<1>. QED
  BY <1>2, <1>3, <1>4, <1>5, <1>6, <1>7 DEF Next

\* When the signals about its name are handled, a stub is connected exactly if the
\* name has an owner, for every order of appearing, disappearing, subscribing and
\* being created.  Without the premise it is false: a notify_client for one server
\* tells the stubs of all servers with the same object path.
THEOREM StubsFollowNames == ASSUME PathsDiffer PROVE Spec => []StubsFollow
<1>1. SInv => StubsFollow
  <2>. SUFFICES ASSUME SInv, NEW s \in stubs_, Quiet(busname(s))
                PROVE  conn_state_[s] = "Connected" <=> Owned(busname(s))
    BY DEF StubsFollow
  <2>1. s \in Stubs
    BY DEF stubs_
  <2>2. ~Pending(s) /\ busname(s) \in Names
    BY <2>1, NotifyMessage DEF Quiet, Pending, SInv, NInv
  <2>3. busname(s) \in busnames_ <=> Owned(busname(s))
    BY <2>2 DEF SInv, NInv, NamesRight, Quiet, Turns, Incoming
  <2>. QED
    BY <2>2, <2>3 DEF SInv, Follows, FollowsNames
<1>2. SInv /\ [Next]_vars => SInv'
  BY NextSInv
<1>. QED
  BY <1>1, <1>2, InitSInv, PTL DEF Spec

\* Nor is a callback left behind its stub, whenever it was set.
THEOREM CallbacksInformed == ASSUME PathsDiffer PROVE Spec => []CallbackInformed
<1>1. SInv => CallbackInformed
  <2>. SUFFICES ASSUME SInv, NEW s \in stubs_, cb_[s], Quiet(busname(s))
                PROVE  IF told[s] = <<>> THEN conn_state_[s] = "Disconnected"
                                         ELSE Last(told[s]) = conn_state_[s]
    BY DEF CallbackInformed
  <2>1. s \in Stubs
    BY DEF stubs_
  <2>2. ~Pending(s)
    BY <2>1, NotifyMessage DEF Quiet, Pending, SInv, NInv
  <2>3. View(s) = conn_state_[s]
    BY <2>1, <2>2 DEF SInv, Follows, FollowsStub
  <2>. QED
    BY <2>3 DEF View, ToldNothing
<1>2. SInv /\ [Next]_vars => SInv'
  BY NextSInv
<1>. QED
  BY <1>1, <1>2, InitSInv, PTL DEF Spec
=============================================================================
