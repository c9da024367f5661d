------------------------- MODULE ServerRequestProofs -------------------------
(***************************************************************************)
(* Proofs about ServerRequest for every list of interfaces, every set of   *)
(* requests and descriptors, and every liberty taken by the user.          *)
(***************************************************************************)
EXTENDS ServerRequest, TLAPS, SequenceTheorems

-----------------------------------------------------------------------------
(***************************************************************************)
(* The two reversals of the interface index                                *)
(***************************************************************************)

\* find_interface() answers with an index of an interface or with -1, and iface()
\* undoes it: the code of skeletonbase.cpp and of skeletonbase.h agree.
LEMMA FindInterface ==
    ASSUME NEW n, find_interface(n) # invalid_iface_id
    PROVE  /\ find_interface(n) \in Indices
           /\ iface(find_interface(n)) = n
<1>1. Count \in Nat /\ Count > 0
  BY RoutingAssumption DEF Count
<1>2. \E i \in Indices : ifaces_[i] = n
  BY DEF find_interface
<1>. DEFINE c == CHOOSE i \in Indices : ifaces_[i] = n
<1>3. c \in Indices /\ ifaces_[c] = n
  BY <1>2
<1>4. find_interface(n) = Count - c - 1
  BY <1>2 DEF find_interface
<1>. HIDE DEF c
<1>5. Count - (Count - c - 1) - 1 = c
  BY <1>1, <1>3 DEF Indices
<1>. QED
  BY <1>1, <1>3, <1>4, <1>5 DEF Indices, iface

\* The list of methods an id leads to is the one its interface declares.
LEMMA MethodHeads ==
    ASSUME NEW id \in Indices
    PROVE  method_heads_[id] = Methods[iface(id)]
<1>1. Count \in Nat
  BY RoutingAssumption DEF Count
<1>2. \A k \in 1..Count : InterfaceId(k) = id <=> k = Count - id
  BY <1>1 DEF Indices, InterfaceId
<1>3. Count - id \in 1..Count
  BY <1>1 DEF Indices
<1>4. (CHOOSE k \in 1..Count : InterfaceId(k) = id) = Count - id
  BY <1>2, <1>3
<1>5. Count - id - 1 \in Indices /\ (Count - id - 1) + 1 = Count - id
  BY <1>1 DEF Indices
<1>6. iface(id) = InterfaceList[Count - id]
  BY <1>5 DEF iface, ifaces_
<1>. QED
  BY <1>4, <1>6 DEF method_heads_

\* A message that reaches a method reaches one that the interface it names declares.
LEMMA RouteToMethod ==
    ASSUME NEW m, Route(m) = "method"
    PROVE  /\ find_interface(m.interface) \in Indices
           /\ iface(find_interface(m.interface)) = m.interface
           /\ m.member \in Methods[m.interface]
           /\ FindMethod(m) \in Indices \X MethodNames
<1>1. InterfaceRoute(m) = "method"
  <2>1. PropertyRoute(m) # "method"
    BY DEF PropertyRoute
  <2>. QED
    BY <2>1 DEF Route
<1>2. /\ find_interface(m.interface) # invalid_iface_id
      /\ m.member \in method_heads_[find_interface(m.interface)]
  BY <1>1 DEF InterfaceRoute
<1>3. /\ find_interface(m.interface) \in Indices
      /\ iface(find_interface(m.interface)) = m.interface
      /\ m.member \in Methods[m.interface]
  BY <1>2, FindInterface, MethodHeads
<1>4. m.interface \in OwnInterfaces
  <2>1. Count \in Nat
    BY RoutingAssumption DEF Count
  <2>2. \A i \in Indices : Count - i - 1 \in Indices /\ (Count - i - 1) + 1 \in 1..Count
    BY <2>1 DEF Indices
  <2>3. \A i \in Indices : iface(i) \in OwnInterfaces
    BY <2>1, <2>2 DEF iface, ifaces_, OwnInterfaces, Count
  <2>. QED
    BY <1>3, <2>3
<1>5. m.member \in MethodNames
  BY <1>3, <1>4 DEF MethodNames
<1>. QED
  BY <1>3, <1>5 DEF FindMethod

-----------------------------------------------------------------------------
(***************************************************************************)
(* The inductive invariant                                                 *)
(***************************************************************************)
Owned(r) == IsCurrent(r) \/ IsHeld(r)

\* The types, the counts of references aside: that they never fall below zero
\* follows from the rest of the invariant.
Types ==
    /\ content \in [Requests -> Messages \cup {NoMessage}]
    /\ inbox \in Seq(Requests)
    /\ serving \in Requests \cup {NoRequest}
    /\ current_request_ \in Descriptor
    /\ held \in [Slots -> Descriptor]
    /\ refs \in [Requests -> Int]
    /\ replied \in [Requests -> Seq({"return", "error"})]
    /\ let_go \in SUBSET Requests
    /\ registered \in BOOLEAN
    /\ unwound \in BOOLEAN

\* A message is queued once.
QueuedOnce == \A i, j \in 1..Len(inbox) : inbox[i] = inbox[j] => i = j

\* Nobody but the queue knows a queued message.
QueuedFresh == \A r \in Requests : Queued(r) =>
    /\ r # serving
    /\ ~Owned(r)
    /\ replied[r] = <<>>
    /\ r \notin let_go

\* Nobody knows a message that was not sent.
UnsentFresh == \A r \in Requests : content[r] = NoMessage =>
    /\ ~WithLibdbus(r)
    /\ ~Owned(r)
    /\ replied[r] = <<>>
    /\ r \notin let_go
    /\ refs[r] = 0

\* A descriptor has a message and a method, or neither.
Whole(d) == d.msg = NoRequest <=> ~IsSet(d)

AllWhole == Whole(current_request_) /\ \A s \in Slots : Whole(held[s])

\* The current request is the one whose message is dispatched, not yet answered.
CurrentServed == current_request_.msg # NoRequest =>
    /\ current_request_.msg = serving
    /\ replied[serving] = <<>>

\* No two descriptors have the same message.
OwnedOnce ==
    /\ \A s \in Slots : held[s].msg # NoRequest => held[s].msg # current_request_.msg
    /\ \A s, t \in Slots : s # t /\ held[s].msg # NoRequest => held[s].msg # held[t].msg

\* The references a message needs; more of them are a leak.
Needed(r) == (IF WithLibdbus(r) THEN 1 ELSE 0) + (IF Owned(r) THEN 1 ELSE 0)

Referenced == \A r \in Requests : refs[r] >= Needed(r)

IInv == /\ Types /\ QueuedOnce /\ QueuedFresh /\ UnsentFresh /\ AllWhole
        /\ CurrentServed /\ OwnedOnce /\ Referenced
-----------------------------------------------------------------------------
\* Taking the head off the queue.
LEMMA Taken ==
    ASSUME inbox \in Seq(Requests), QueuedOnce, inbox # <<>>, inbox' = Tail(inbox)
    PROVE  /\ inbox' \in Seq(Requests)
           /\ Head(inbox) \in Requests
           /\ Queued(Head(inbox))
           /\ QueuedOnce'
           /\ \A q \in Requests : Queued(q)' <=> Queued(q) /\ q # Head(inbox)
<1>1. /\ Len(inbox) \in Nat /\ Len(inbox) > 0
      /\ Head(inbox) = inbox[1] /\ Head(inbox) \in Requests
      /\ inbox' \in Seq(Requests)
      /\ Len(inbox') = Len(inbox) - 1
      /\ \A i \in 1..Len(inbox') : inbox'[i] = inbox[i + 1]
  BY HeadTailProperties, EmptySeq, LenProperties
<1>2. Queued(Head(inbox))
  BY <1>1 DEF Queued
<1>3. \A i \in 1..Len(inbox') : i + 1 \in 1..Len(inbox) /\ i + 1 # 1
  BY <1>1
<1>4. QueuedOnce'
  BY <1>1, <1>3 DEF QueuedOnce
<1>5. ASSUME NEW q \in Requests
      PROVE  Queued(q)' <=> Queued(q) /\ q # Head(inbox)
  <2>1. ASSUME Queued(q)'
        PROVE  Queued(q) /\ q # Head(inbox)
    <3>1. PICK i \in 1..Len(inbox') : inbox'[i] = q
      BY <2>1 DEF Queued
    <3>2. inbox[i + 1] = q /\ i + 1 \in 1..Len(inbox) /\ i + 1 # 1 /\ 1 \in 1..Len(inbox)
      BY <1>1, <1>3, <3>1
    <3>. QED
      BY <1>1, <3>2 DEF Queued, QueuedOnce
  <2>2. ASSUME Queued(q), q # Head(inbox)
        PROVE  Queued(q)'
    <3>1. PICK i \in 1..Len(inbox) : inbox[i] = q
      BY <2>2 DEF Queued
    <3>2. i # 1
      BY <1>1, <2>2, <3>1
    <3>3. i - 1 \in 1..Len(inbox') /\ (i - 1) + 1 = i
      BY <1>1, <3>2
    <3>4. inbox'[i - 1] = q
      BY <1>1, <3>1, <3>3
    <3>. QED
      BY <3>3, <3>4 DEF Queued
  <2>. QED
    BY <2>1, <2>2
<1>. QED
  BY <1>1, <1>2, <1>4, <1>5

\* A cleared descriptor.
LEMMA NoDescriptorFacts ==
    /\ NoDescriptor \in Descriptor
    /\ NoDescriptor.msg = NoRequest
    /\ ~IsSet(NoDescriptor)
<1>3. NoDescriptor \in Descriptor
  BY DEF NoDescriptor, Descriptor
<1>4. NoDescriptor.msg = NoRequest
  BY DEF NoDescriptor
<1>5. NoDescriptor.requestor = NoRequestor
  BY DEF NoDescriptor
<1>6. ~IsSet(NoDescriptor)
  BY <1>5 DEF IsSet
<1>. QED
  BY <1>3, <1>4, <1>6

\* In the beginning there is no request.
LEMMA InitIInv == Init => IInv
<1>. SUFFICES ASSUME Init PROVE IInv
  OBVIOUS
<1>1. NoDescriptor \in Descriptor /\ NoDescriptor.msg = NoRequest /\ ~IsSet(NoDescriptor)
  BY NoDescriptorFacts
<1>2. inbox \in Seq(Requests) /\ Len(inbox) = 0
  BY EmptySeq DEF Init
<1>3. \A r \in Requests : ~Queued(r) /\ ~WithLibdbus(r) /\ ~Owned(r)
  BY <1>1, <1>2, RequestAssumption DEF Init, Queued, WithLibdbus, Owned, IsCurrent, IsHeld
<1>4. Types
  <2>1. <<>> \in Seq({"return", "error"})
    BY EmptySeq
  <2>2. replied \in [Requests -> Seq({"return", "error"})]
    BY <2>1 DEF Init
  <2>3. held \in [Slots -> Descriptor] /\ current_request_ \in Descriptor
    BY <1>1 DEF Init
  <2>4. refs \in [Requests -> Int] /\ content \in [Requests -> Messages \cup {NoMessage}]
    BY DEF Init
  <2>. QED
    BY <1>2, <2>2, <2>3, <2>4 DEF Init, Types
<1>5. QueuedOnce
  BY <1>2 DEF QueuedOnce
<1>6. QueuedFresh /\ UnsentFresh
  BY <1>3 DEF Init, QueuedFresh, UnsentFresh
<1>7. AllWhole /\ CurrentServed /\ OwnedOnce
  BY <1>1 DEF Init, AllWhole, Whole, CurrentServed, OwnedOnce
<1>8. Referenced
  BY <1>3 DEF Init, Referenced, Needed
<1>. QED
  BY <1>4, <1>5, <1>6, <1>7, <1>8 DEF IInv

\* A request that is handled from end to end within its dispatch.
LEMMA DirectStep ==
    ASSUME IInv, NEW r \in Requests, HandleDirectly(r) \/ NoSuchObject(r)
    PROVE  IInv'
<1>. USE DEF IInv
<1>1. PICK kind \in {"return", "error"} : Reply(r, kind)
  BY DEF HandleDirectly, NoSuchObject, DirectAnswers
<1>2. /\ inbox # <<>> /\ r = Head(inbox) /\ inbox' = Tail(inbox) /\ serving = NoRequest
      /\ refs' = [refs EXCEPT ![r] = @ - 1]
      /\ UNCHANGED <<content, serving, current_request_, held, let_go, registered, unwound>>
  BY DEF HandleDirectly, NoSuchObject, CanDispatch
<1>3. /\ inbox' \in Seq(Requests) /\ Queued(r) /\ QueuedOnce'
      /\ \A q \in Requests : Queued(q)' <=> Queued(q) /\ q # r
  BY <1>2, Taken DEF Types
<1>4. \A q \in Requests : Owned(q)' <=> Owned(q)
  BY <1>2 DEF Owned, IsCurrent, IsHeld
<1>5. /\ \A q \in Requests \ {r} : replied'[q] = replied[q] /\ refs'[q] = refs[q]
      /\ refs'[r] = refs[r] - 1
  BY <1>1, <1>2 DEF Types, Reply
<1>6. Types'
  BY <1>1, <1>2, <1>3 DEF Types, Reply
<1>7. QueuedFresh'
  BY <1>2, <1>3, <1>4, <1>5 DEF QueuedFresh
<1>8. UnsentFresh'
  BY <1>2, <1>3, <1>4, <1>5 DEF UnsentFresh, WithLibdbus
<1>9. AllWhole' /\ OwnedOnce'
  BY <1>2 DEF AllWhole, Whole, IsSet, OwnedOnce
<1>10. CurrentServed'
  BY <1>2, RequestAssumption DEF CurrentServed, Types
<1>11. Referenced'
  <2>. SUFFICES ASSUME NEW q \in Requests
                PROVE  refs'[q] >= Needed(q)'
    BY DEF Referenced
  <2>1. refs[q] >= Needed(q) /\ refs[q] \in Int /\ (Owned(q)' <=> Owned(q))
    BY <1>4 DEF Referenced, Types
  <2>2. CASE q = r
    <3>1. WithLibdbus(q) /\ ~WithLibdbus(q)'
      BY <1>2, <1>3, <2>2, RequestAssumption DEF WithLibdbus
    <3>2. refs'[q] = refs[q] - 1
      BY <1>5, <2>2
    <3>. QED
      BY <2>1, <3>1, <3>2 DEF Needed
  <2>3. CASE q # r
    <3>1. refs'[q] = refs[q] /\ (WithLibdbus(q)' <=> WithLibdbus(q))
      BY <1>2, <1>3, <1>5, <2>3 DEF WithLibdbus
    <3>. QED
      BY <2>1, <3>1 DEF Needed
  <2>. QED
    BY <2>2, <2>3
<1>. QED
  BY <1>3, <1>6, <1>7, <1>8, <1>9, <1>10, <1>11

\* What is known of the head of the queue when it is dispatched.
LEMMA AtDispatch ==
    ASSUME IInv, inbox # <<>>, NEW r, r = Head(inbox), inbox' = Tail(inbox),
           serving = NoRequest
    PROVE  /\ r \in Requests /\ r # NoRequest /\ inbox' \in Seq(Requests)
           /\ ~Owned(r) /\ replied[r] = <<>> /\ r \notin let_go
           /\ content[r] # NoMessage /\ refs[r] >= 1
           /\ current_request_.msg = NoRequest
           /\ Queued(r) /\ QueuedOnce'
           /\ \A q \in Requests : Queued(q)' <=> Queued(q) /\ q # r
<1>. USE DEF IInv
<1>1. /\ r \in Requests /\ r # NoRequest /\ inbox' \in Seq(Requests)
      /\ Queued(r) /\ QueuedOnce'
      /\ \A q \in Requests : Queued(q)' <=> Queued(q) /\ q # r
  BY Taken, RequestAssumption DEF Types
<1>2. ~Owned(r) /\ replied[r] = <<>> /\ r \notin let_go
  BY <1>1 DEF QueuedFresh
<1>3. content[r] # NoMessage
  BY <1>1 DEF UnsentFresh, WithLibdbus
<1>4. refs[r] >= 1
  BY <1>1, <1>2 DEF Referenced, Needed, WithLibdbus, Types
<1>5. current_request_.msg = NoRequest
  BY DEF CurrentServed
<1>. QED
  BY <1>1, <1>2, <1>3, <1>4, <1>5

\* An exception unwinds the dispatch: the message only leaves the queue.
LEMMA GetAllThrowsStep ==
    ASSUME IInv, NEW r \in Requests, GetAllThrows(r)
    PROVE  IInv'
<1>. USE DEF IInv
<1>1. /\ inbox # <<>> /\ r = Head(inbox) /\ inbox' = Tail(inbox) /\ serving = NoRequest
      /\ unwound' = TRUE
      /\ UNCHANGED <<content, serving, current_request_, held, refs, replied, let_go, registered>>
  BY DEF GetAllThrows, CanDispatch
<1>2. /\ inbox' \in Seq(Requests) /\ QueuedOnce'
      /\ \A q \in Requests : Queued(q)' <=> Queued(q) /\ q # r
  BY <1>1, AtDispatch
<1>3. \A q \in Requests : Owned(q)' <=> Owned(q)
  BY <1>1 DEF Owned, IsCurrent, IsHeld
<1>4. Types'
  BY <1>1, <1>2 DEF Types
<1>5. QueuedFresh' /\ UnsentFresh'
  BY <1>1, <1>2, <1>3 DEF QueuedFresh, UnsentFresh, WithLibdbus
<1>6. AllWhole'
  BY <1>1 DEF AllWhole, Whole, IsSet
<1>7. OwnedOnce' /\ CurrentServed'
  BY <1>1 DEF OwnedOnce, CurrentServed
<1>8. Referenced'
  BY <1>1, <1>2, <1>3 DEF Referenced, Needed, WithLibdbus, Types
<1>. QED
  BY <1>2, <1>4, <1>5, <1>6, <1>7, <1>8

\* The request becomes the current one.
LEMMA BeginMethodStep ==
    ASSUME IInv, NEW r \in Requests, BeginMethod(r)
    PROVE  IInv'
<1>. USE DEF IInv
<1>1. /\ inbox # <<>> /\ r = Head(inbox) /\ inbox' = Tail(inbox) /\ serving = NoRequest
      /\ serving' = r
      /\ current_request_' = [requestor |-> FindMethod(content[r]), msg |-> r]
      /\ refs' = Ref(Unref(refs, current_request_), r)
      /\ Route(content[r]) = "method"
      /\ UNCHANGED <<content, held, replied, let_go, registered, unwound>>
  BY DEF BeginMethod, CanDispatch
<1>2. /\ inbox' \in Seq(Requests) /\ QueuedOnce' /\ Queued(r) /\ r # NoRequest
      /\ ~Owned(r) /\ replied[r] = <<>> /\ content[r] # NoMessage
      /\ current_request_.msg = NoRequest
      /\ \A q \in Requests : Queued(q)' <=> Queued(q) /\ q # r
  BY <1>1, AtDispatch
<1>3. refs' = [refs EXCEPT ![r] = @ + 1]
  <2>1. Unref(refs, current_request_) = refs
    BY <1>2, RequestAssumption DEF Unref, Types
  <2>. QED
    BY <1>1, <2>1 DEF Ref
<1>4. /\ current_request_'.msg = r
      /\ current_request_' \in Descriptor
      /\ IsSet(current_request_')
  <2>1. FindMethod(content[r]) \in Indices \X MethodNames
    BY <1>1, RouteToMethod
  <2>2. FindMethod(content[r]) # NoRequestor
    <3>1. find_interface(content[r].interface) \in Indices
      BY <1>1, RouteToMethod
    <3>2. invalid_iface_id \notin Indices
      BY DEF invalid_iface_id, Indices
    <3>. QED
      BY <3>1, <3>2 DEF FindMethod, NoRequestor
  <2>. QED
    BY <1>1, <2>1, <2>2 DEF Descriptor, IsSet
<1>5. \A q \in Requests : Owned(q)' <=> Owned(q) \/ q = r
  BY <1>1, <1>2, <1>4, RequestAssumption DEF Owned, IsCurrent, IsHeld
<1>6. Types'
  <2>1. refs' \in [Requests -> Int]
    BY <1>3 DEF Types
  <2>. QED
    BY <1>1, <1>2, <1>4, <2>1 DEF Types
<1>7. QueuedFresh' /\ UnsentFresh'
  BY <1>1, <1>2, <1>3, <1>5 DEF QueuedFresh, UnsentFresh, WithLibdbus, Types
<1>8. AllWhole'
  BY <1>1, <1>2, <1>4 DEF AllWhole, Whole, IsSet
<1>9. OwnedOnce'
  BY <1>1, <1>2, <1>4 DEF OwnedOnce, Owned, IsHeld
<1>10. CurrentServed'
  BY <1>1, <1>2, <1>4 DEF CurrentServed
<1>11. Referenced'
  <2>1. ASSUME NEW q \in Requests, q # r
        PROVE  Needed(q)' = Needed(q) /\ refs'[q] = refs[q]
    <3>1. (WithLibdbus(q)' <=> WithLibdbus(q)) /\ (Owned(q)' <=> Owned(q))
      BY <1>1, <1>2, <1>5, <2>1, RequestAssumption DEF WithLibdbus
    <3>2. refs'[q] = refs[q]
      BY <1>3, <2>1 DEF Types
    <3>. QED
      BY <3>1, <3>2 DEF Needed
  <2>2. Needed(r)' = 2 /\ Needed(r) = 1
    <3>1. WithLibdbus(r) /\ WithLibdbus(r)' /\ ~Owned(r) /\ Owned(r)'
      BY <1>1, <1>2, <1>5 DEF WithLibdbus
    <3>. QED
      BY <3>1 DEF Needed
  <2>4. refs'[r] = refs[r] + 1
    BY <1>3 DEF Types
  <2>3. refs[r] \in Int
    BY DEF Types
  <2>. QED
    BY <2>1, <2>2, <2>3, <2>4 DEF Referenced
<1>. QED
  BY <1>2, <1>6, <1>7, <1>8, <1>9, <1>10, <1>11

\* The request is answered with an error before it reaches the method.
LEMMA BadArgumentsStep ==
    ASSUME IInv, NEW r \in Requests, BadArguments(r)
    PROVE  IInv'
<1>. USE DEF IInv
<1>1. /\ inbox # <<>> /\ r = Head(inbox) /\ inbox' = Tail(inbox) /\ serving = NoRequest
      /\ current_request_' = NoDescriptor
      /\ Reply(r, "error")
      /\ refs' = [Unref(refs, current_request_) EXCEPT ![r] = @ - 1]
      /\ UNCHANGED <<content, serving, held, let_go, registered, unwound>>
  BY DEF BadArguments, CanDispatch
<1>2. /\ inbox' \in Seq(Requests) /\ QueuedOnce' /\ Queued(r) /\ r # NoRequest
      /\ ~Owned(r) /\ content[r] # NoMessage /\ current_request_.msg = NoRequest
      /\ \A q \in Requests : Queued(q)' <=> Queued(q) /\ q # r
  BY <1>1, AtDispatch
<1>3. refs' = [refs EXCEPT ![r] = @ - 1]
  BY <1>1, <1>2, RequestAssumption DEF Unref, Types
<1>4. /\ current_request_'.msg = NoRequest /\ current_request_' \in Descriptor
      /\ ~IsSet(current_request_')
  BY <1>1, NoDescriptorFacts
<1>5. \A q \in Requests : Owned(q)' <=> Owned(q)
  BY <1>1, <1>2, <1>4, RequestAssumption DEF Owned, IsCurrent, IsHeld
<1>6. Types'
  <2>1. PICK kind \in {"return", "error"} : Reply(r, kind)
    BY <1>1
  <2>2. replied' \in [Requests -> Seq({"return", "error"})]
    BY <2>1 DEF Types, Reply
  <2>3. refs' \in [Requests -> Int]
    BY <1>3 DEF Types
  <2>. QED
    BY <1>1, <1>2, <1>4, <2>2, <2>3 DEF Types
<1>7. \A q \in Requests \ {r} : replied'[q] = replied[q] /\ refs'[q] = refs[q]
  BY <1>1, <1>3 DEF Types, Reply
<1>8. QueuedFresh' /\ UnsentFresh'
  BY <1>1, <1>2, <1>5, <1>7 DEF QueuedFresh, UnsentFresh, WithLibdbus, Types
<1>9. AllWhole' /\ OwnedOnce' /\ CurrentServed'
  BY <1>1, <1>4, RequestAssumption DEF AllWhole, Whole, IsSet, OwnedOnce, CurrentServed, Types
<1>10. Referenced'
  <2>. SUFFICES ASSUME NEW q \in Requests
                PROVE  refs'[q] >= Needed(q)'
    BY DEF Referenced
  <2>1. refs[q] >= Needed(q) /\ refs[q] \in Int /\ (Owned(q)' <=> Owned(q))
    BY <1>5 DEF Referenced, Types
  <2>2. CASE q = r
    <3>1. WithLibdbus(q) /\ ~WithLibdbus(q)'
      BY <1>1, <1>2, <2>2, RequestAssumption DEF WithLibdbus
    <3>2. refs'[q] = refs[q] - 1
      BY <1>3, <2>2 DEF Types
    <3>. QED
      BY <2>1, <3>1, <3>2 DEF Needed
  <2>3. CASE q # r
    <3>1. refs'[q] = refs[q] /\ (WithLibdbus(q)' <=> WithLibdbus(q))
      BY <1>1, <1>2, <1>7, <2>3 DEF WithLibdbus
    <3>. QED
      BY <2>1, <3>1 DEF Needed
  <2>. QED
    BY <2>2, <2>3
<1>. QED
  BY <1>2, <1>6, <1>8, <1>9, <1>10

\* A message arrives that nobody knew.
LEMMA ArriveStep ==
    ASSUME IInv, NEW r \in Requests, NEW m \in Messages, Arrive(r, m)
    PROVE  IInv'
<1>. USE DEF IInv
<1>1. /\ content[r] = NoMessage
      /\ content' = [content EXCEPT ![r] = m]
      /\ inbox' = Append(inbox, r)
      /\ refs' = [refs EXCEPT ![r] = 1]
      /\ UNCHANGED <<serving, current_request_, held, replied, let_go, registered, unwound>>
  BY DEF Arrive
<1>2. ~WithLibdbus(r) /\ ~Owned(r) /\ replied[r] = <<>> /\ r \notin let_go
  BY <1>1 DEF UnsentFresh
<1>3. /\ inbox' \in Seq(Requests) /\ Len(inbox') = Len(inbox) + 1 /\ Len(inbox) \in Nat
      /\ \A i \in 1..Len(inbox) : inbox'[i] = inbox[i]
      /\ inbox'[Len(inbox) + 1] = r
  BY <1>1, LenProperties DEF Types
<1>4. QueuedOnce'
  BY <1>2, <1>3 DEF QueuedOnce, WithLibdbus, Queued
<1>5. \A q \in Requests : Queued(q)' <=> Queued(q) \/ q = r
  <2>1. 1..Len(inbox') = 1..Len(inbox) \cup {Len(inbox) + 1}
    BY <1>3
  <2>. QED
    BY <1>3, <2>1 DEF Queued
<1>6. \A q \in Requests : Owned(q)' <=> Owned(q)
  BY <1>1 DEF Owned, IsCurrent, IsHeld
<1>7. Types'
  BY <1>1, <1>3 DEF Types
<1>8. /\ refs'[r] = 1 /\ content'[r] # NoMessage
      /\ \A q \in Requests \ {r} : refs'[q] = refs[q] /\ content'[q] = content[q]
  BY <1>1, RequestAssumption DEF Types
<1>9. QueuedFresh' /\ UnsentFresh'
  BY <1>1, <1>2, <1>5, <1>6, <1>8 DEF QueuedFresh, UnsentFresh, WithLibdbus
<1>10. AllWhole' /\ OwnedOnce' /\ CurrentServed'
  BY <1>1 DEF AllWhole, Whole, IsSet, OwnedOnce, CurrentServed
<1>11. Referenced'
  <2>1. ASSUME NEW q \in Requests, q # r
        PROVE  Needed(q)' = Needed(q)
    BY <1>1, <1>5, <1>6, <2>1 DEF Needed, WithLibdbus
  <2>2. Needed(r)' = 1
    BY <1>1, <1>2, <1>5, <1>6 DEF Needed, WithLibdbus
  <2>. QED
    BY <1>8, <2>1, <2>2 DEF Referenced
<1>. QED
  BY <1>4, <1>7, <1>9, <1>10, <1>11

\* clear() releases the message of the descriptor.
LEMMA UnrefOne ==
    ASSUME refs \in [Requests -> Int], NEW d, d.msg \in Requests
    PROVE  Unref(refs, d) = [refs EXCEPT ![d.msg] = @ - 1]
BY DEF Unref

\* What is known of the current request while a method runs.
LEMMA Current ==
    ASSUME IInv, InMethod, IsSet(current_request_)
    PROVE  /\ current_request_.msg = serving /\ serving \in Requests
           /\ serving # NoRequest
           /\ replied[serving] = <<>> /\ ~Queued(serving) /\ ~IsHeld(serving)
           /\ content[serving] # NoMessage
<1>. USE DEF IInv
<1>1. current_request_.msg # NoRequest
  BY DEF AllWhole, Whole
<1>2. current_request_.msg = serving /\ replied[serving] = <<>>
  BY <1>1 DEF CurrentServed
<1>3. serving \in Requests /\ serving # NoRequest
  BY DEF InMethod, Types
<1>4. ~Queued(serving)
  BY <1>3 DEF QueuedFresh
<1>5. ~IsHeld(serving)
  BY <1>2, <1>3 DEF IsHeld, OwnedOnce
<1>6. content[serving] # NoMessage
  BY <1>3 DEF UnsentFresh, WithLibdbus
<1>. QED
  BY <1>2, <1>3, <1>4, <1>5, <1>6

\* The current request is answered and cleared.
LEMMA RespondWithStep ==
    ASSUME IInv, NEW kind \in {"return", "error"}, RespondWith(kind)
    PROVE  IInv'
<1>. USE DEF IInv
<1>1. /\ InMethod /\ IsSet(current_request_)
      /\ Reply(current_request_.msg, kind)
      /\ refs' = Unref(refs, current_request_)
      /\ current_request_' = NoDescriptor
      /\ UNCHANGED <<content, inbox, serving, held, let_go, registered, unwound>>
  BY DEF RespondWith
<1>2. /\ current_request_.msg = serving /\ serving \in Requests /\ serving # NoRequest
      /\ ~Queued(serving) /\ ~IsHeld(serving) /\ content[serving] # NoMessage
  BY <1>1, Current
<1>3. refs' = [refs EXCEPT ![serving] = @ - 1]
  BY <1>1, <1>2, UnrefOne DEF Types
<1>4. /\ current_request_'.msg = NoRequest /\ current_request_' \in Descriptor
      /\ ~IsSet(current_request_')
  BY <1>1, NoDescriptorFacts
<1>5. /\ \A q \in Requests : Owned(q)' <=> Owned(q) /\ q # serving
      /\ \A q \in Requests : Queued(q)' <=> Queued(q)
  BY <1>1, <1>2, <1>4, RequestAssumption DEF Owned, IsCurrent, IsHeld, Queued
<1>6. \A q \in Requests \ {serving} : replied'[q] = replied[q] /\ refs'[q] = refs[q]
  BY <1>1, <1>2, <1>3 DEF Types, Reply
<1>7. Types'
  <2>1. replied' \in [Requests -> Seq({"return", "error"})]
    BY <1>1, <1>2 DEF Types, Reply
  <2>2. refs' \in [Requests -> Int]
    BY <1>2, <1>3 DEF Types
  <2>. QED
    BY <1>1, <1>4, <2>1, <2>2 DEF Types
<1>8. QueuedOnce'
  BY <1>1 DEF QueuedOnce
<1>9. QueuedFresh' /\ UnsentFresh'
  BY <1>1, <1>2, <1>5, <1>6 DEF QueuedFresh, UnsentFresh, WithLibdbus
<1>10. AllWhole' /\ OwnedOnce' /\ CurrentServed'
  BY <1>1, <1>4 DEF AllWhole, Whole, IsSet, OwnedOnce, CurrentServed
<1>11. Referenced'
  <2>1. ASSUME NEW q \in Requests, q # serving
        PROVE  Needed(q)' = Needed(q)
    BY <1>1, <1>5, <2>1 DEF Needed, WithLibdbus
  <2>2. Needed(serving)' = 1 /\ Needed(serving) = 2
    <3>1. WithLibdbus(serving) /\ WithLibdbus(serving)' /\ Owned(serving) /\ ~Owned(serving)'
      BY <1>1, <1>2, <1>5 DEF WithLibdbus, Owned, IsCurrent
    <3>. QED
      BY <3>1 DEF Needed
  <2>3. refs'[serving] = refs[serving] - 1 /\ refs[serving] \in Int
    BY <1>2, <1>3 DEF Types
  <2>4. refs[serving] >= 2
    BY <1>2, <2>2 DEF Referenced
  <2>5. refs'[serving] >= Needed(serving)'
    BY <2>2, <2>3, <2>4
  <2>. QED
    BY <1>1, <1>6, <2>1, <2>5 DEF Referenced
<1>. QED
  BY <1>7, <1>8, <1>9, <1>10, <1>11

\* The current request moves into a descriptor of the user.
LEMMA DeferStep ==
    ASSUME IInv, NEW s \in Slots, Defer(s)
    PROVE  IInv'
<1>. USE DEF IInv
<1>1. /\ InMethod /\ IsSet(current_request_)
      /\ held' = [held EXCEPT ![s] = current_request_]
      /\ current_request_' = NoDescriptor
      /\ UNCHANGED <<content, inbox, serving, refs, replied, let_go, registered, unwound>>
  BY DEF Defer
<1>2. /\ current_request_.msg = serving /\ serving \in Requests /\ serving # NoRequest
      /\ ~Queued(serving) /\ ~IsHeld(serving) /\ content[serving] # NoMessage
  BY <1>1, Current
<1>3. /\ current_request_'.msg = NoRequest /\ current_request_' \in Descriptor
      /\ ~IsSet(current_request_')
  BY <1>1, NoDescriptorFacts
<1>4. /\ held'[s] = current_request_
      /\ \A t \in Slots \ {s} : held'[t] = held[t]
  BY <1>1 DEF Types
<1>5. /\ \A q \in Requests : Owned(q)' => Owned(q)
      /\ \A q \in Requests : Queued(q)' <=> Queued(q)
  BY <1>1, <1>2, <1>3, <1>4, RequestAssumption DEF Owned, IsCurrent, IsHeld, Queued
<1>6. Types'
  BY <1>1, <1>3 DEF Types
<1>7. QueuedOnce'
  BY <1>1 DEF QueuedOnce
<1>8. QueuedFresh' /\ UnsentFresh'
  BY <1>1, <1>5 DEF QueuedFresh, UnsentFresh, WithLibdbus
<1>9. AllWhole'
  BY <1>3, <1>4 DEF AllWhole, Whole, IsSet
<1>10. OwnedOnce'
  BY <1>2, <1>3, <1>4 DEF OwnedOnce, IsHeld
<1>11. CurrentServed'
  BY <1>3 DEF CurrentServed
<1>12. Referenced'
  <2>1. ASSUME NEW q \in Requests
        PROVE  Needed(q)' <= Needed(q) /\ Needed(q)' \in Int /\ Needed(q) \in Int
    BY <1>1, <1>5 DEF Needed, WithLibdbus
  <2>. QED
    BY <1>1, <2>1 DEF Referenced, Types
<1>. QED
  BY <1>6, <1>7, <1>8, <1>9, <1>10, <1>11, <1>12

\* A descriptor of the user is cleared, by respond_on() or by the user.
LEMMA ReleaseHeld ==
    ASSUME IInv, NEW s \in Slots, IsSet(held[s]),
           refs' = Unref(refs, held[s]),
           held' = [held EXCEPT ![s] = NoDescriptor],
           UNCHANGED <<content, inbox, serving, current_request_>>
    PROVE  /\ held[s].msg \in Requests /\ ~Queued(held[s].msg)
           /\ content[held[s].msg] # NoMessage /\ current_request_.msg # held[s].msg
           /\ refs' \in [Requests -> Int] /\ held' \in [Slots -> Descriptor]
           /\ \A q \in Requests \ {held[s].msg} : refs'[q] = refs[q]
           /\ \A q \in Requests : Owned(q)' => Owned(q) /\ q # held[s].msg
           /\ \A q \in Requests : Queued(q)' <=> Queued(q)
           /\ QueuedOnce' /\ AllWhole' /\ OwnedOnce' /\ Referenced'
<1>. USE DEF IInv
<1>. DEFINE h == held[s].msg
<1>1. h \in Requests /\ h # NoRequest
  <2>1. h # NoRequest
    BY DEF AllWhole, Whole
  <2>. QED
    BY <2>1 DEF Types, Descriptor
<1>2. Owned(h) /\ current_request_.msg # h
  BY <1>1 DEF Owned, IsHeld, OwnedOnce
<1>3. ~Queued(h) /\ content[h] # NoMessage
  BY <1>1, <1>2 DEF QueuedFresh, UnsentFresh
<1>4. refs' = [refs EXCEPT ![h] = @ - 1]
  BY <1>1, UnrefOne DEF Types
<1>5. /\ held'[s].msg = NoRequest /\ ~IsSet(held'[s])
      /\ held' \in [Slots -> Descriptor]
      /\ \A t \in Slots \ {s} : held'[t] = held[t]
  BY NoDescriptorFacts DEF Types
<1>. HIDE DEF h
<1>6. \A q \in Requests : Owned(q)' <=> Owned(q) /\ q # h
  <2>1. ASSUME NEW q \in Requests, Owned(q)'
        PROVE  Owned(q) /\ q # h
    <3>1. CASE IsCurrent(q)'
      BY <1>2, <3>1 DEF IsCurrent, Owned
    <3>2. CASE IsHeld(q)'
      <4>1. PICK t \in Slots : held'[t].msg = q
        BY <3>2 DEF IsHeld
      <4>2. t # s /\ held[t].msg = q
        BY <1>5, <4>1, RequestAssumption
      <4>3. h # q
        BY <1>1, <4>2 DEF OwnedOnce, h
      <4>. QED
        BY <4>2, <4>3 DEF Owned, IsHeld
    <3>. QED
      BY <2>1, <3>1, <3>2 DEF Owned
  <2>2. ASSUME NEW q \in Requests, Owned(q), q # h
        PROVE  Owned(q)'
    BY <1>5, <2>2 DEF Owned, IsCurrent, IsHeld, h
  <2>. QED
    BY <2>1, <2>2
<1>7. refs' \in [Requests -> Int] /\ refs'[h] = refs[h] - 1
      /\ \A q \in Requests \ {h} : refs'[q] = refs[q]
  BY <1>1, <1>4 DEF Types
<1>8. \A q \in Requests : Queued(q)' <=> Queued(q)
  BY DEF Queued
<1>9. QueuedOnce'
  BY DEF QueuedOnce
<1>10. AllWhole'
  BY <1>5 DEF AllWhole, Whole, IsSet
<1>11. OwnedOnce'
  BY <1>5 DEF OwnedOnce
<1>12. Referenced'
  <2>1. \A q \in Requests : WithLibdbus(q)' <=> WithLibdbus(q)
    BY <1>8 DEF WithLibdbus
  <2>2. ASSUME NEW q \in Requests
        PROVE  refs'[q] >= Needed(q)'
    <3>1. CASE q = h
      <4>1. ~Owned(q)' /\ (WithLibdbus(q)' <=> WithLibdbus(q)) /\ Owned(q)
        BY <1>2, <1>6, <2>1, <3>1
      <4>2. Needed(q)' = Needed(q) - 1 /\ Needed(q) \in Int
        BY <4>1 DEF Needed
      <4>3. refs[q] >= Needed(q) /\ refs[q] \in Int /\ refs'[q] = refs[q] - 1
        BY <1>7, <3>1 DEF Referenced, Types
      <4>. QED
        BY <4>2, <4>3
    <3>2. CASE q # h
      <4>1. Needed(q)' = Needed(q) /\ refs'[q] = refs[q]
        BY <1>6, <1>7, <2>1, <3>2 DEF Needed
      <4>. QED
        BY <4>1 DEF Referenced
    <3>. QED
      BY <3>1, <3>2
  <2>. QED
    BY <2>2 DEF Referenced
<1>. QED
  BY <1>1, <1>2, <1>3, <1>5, <1>6, <1>7, <1>8, <1>9, <1>10, <1>11, <1>12 DEF h

\* A kept request is answered and its message released.
LEMMA RespondOnStep ==
    ASSUME IInv, NEW s \in Slots, NEW kind \in {"return", "error"}, RespondOn(s, kind)
    PROVE  IInv'
<1>. USE DEF IInv
<1>. DEFINE h == held[s].msg
<1>1. /\ IsSet(held[s]) /\ Reply(h, kind)
      /\ refs' = Unref(refs, held[s]) /\ held' = [held EXCEPT ![s] = NoDescriptor]
      /\ UNCHANGED <<content, inbox, serving, current_request_, let_go, registered, unwound>>
  BY DEF RespondOn
<1>2. /\ h \in Requests /\ ~Queued(h) /\ content[h] # NoMessage
      /\ current_request_.msg # h
      /\ refs' \in [Requests -> Int] /\ held' \in [Slots -> Descriptor]
      /\ \A q \in Requests \ {h} : refs'[q] = refs[q]
      /\ \A q \in Requests : Owned(q)' => Owned(q)
      /\ \A q \in Requests : Queued(q)' <=> Queued(q)
      /\ QueuedOnce' /\ AllWhole' /\ OwnedOnce' /\ Referenced'
  BY <1>1, ReleaseHeld
<1>. HIDE DEF h
<1>3. /\ replied' \in [Requests -> Seq({"return", "error"})]
      /\ \A q \in Requests \ {h} : replied'[q] = replied[q]
  BY <1>1, <1>2 DEF Types, Reply
<1>4. Types'
  BY <1>1, <1>2, <1>3 DEF Types
<1>5. QueuedFresh' /\ UnsentFresh'
  BY <1>1, <1>2, <1>3 DEF QueuedFresh, UnsentFresh, WithLibdbus
<1>6. CurrentServed'
  BY <1>1, <1>2, <1>3 DEF CurrentServed, Types
<1>. QED
  BY <1>2, <1>4, <1>5, <1>6

\* A kept request is destroyed without an answer.
LEMMA DiscardStep ==
    ASSUME IInv, NEW s \in Slots, Discard(s)
    PROVE  IInv'
<1>. USE DEF IInv
<1>. DEFINE h == held[s].msg
<1>1. /\ IsSet(held[s]) /\ let_go' = let_go \cup {h}
      /\ refs' = Unref(refs, held[s]) /\ held' = [held EXCEPT ![s] = NoDescriptor]
      /\ UNCHANGED <<content, inbox, serving, current_request_, replied, registered, unwound>>
  BY DEF Discard
<1>2. /\ h \in Requests /\ ~Queued(h) /\ content[h] # NoMessage
      /\ refs' \in [Requests -> Int] /\ held' \in [Slots -> Descriptor]
      /\ \A q \in Requests \ {h} : refs'[q] = refs[q]
      /\ \A q \in Requests : Owned(q)' => Owned(q)
      /\ \A q \in Requests : Queued(q)' <=> Queued(q)
      /\ QueuedOnce' /\ AllWhole' /\ OwnedOnce' /\ Referenced'
  BY <1>1, ReleaseHeld
<1>. HIDE DEF h
<1>3. Types'
  BY <1>1, <1>2 DEF Types
<1>4. QueuedFresh' /\ UnsentFresh'
  BY <1>1, <1>2 DEF QueuedFresh, UnsentFresh, WithLibdbus
<1>5. CurrentServed'
  BY <1>1 DEF CurrentServed
<1>. QED
  BY <1>2, <1>3, <1>4, <1>5

\* What the end of handle_interface_request() leaves behind.
LEMMA EndDispatchFacts ==
    ASSUME IInv, InMethod, EndDispatch, UNCHANGED <<content, inbox, held>>
    PROVE  /\ serving \in Requests /\ serving # NoRequest
           /\ ~Queued(serving) /\ content[serving] # NoMessage
           /\ serving' = NoRequest /\ current_request_' \in Descriptor
           /\ refs' \in [Requests -> Int]
           /\ \A q \in Requests \ {serving} : refs'[q] = refs[q]
           /\ \A q \in Requests : Owned(q)' => Owned(q)
           /\ \A q \in Requests : Queued(q)' <=> Queued(q)
           /\ QueuedOnce' /\ AllWhole' /\ OwnedOnce' /\ CurrentServed' /\ Referenced'
<1>. USE DEF IInv
<1>1. serving \in Requests /\ serving # NoRequest
  BY DEF InMethod, Types
<1>2. ~Queued(serving) /\ content[serving] # NoMessage
  BY <1>1 DEF QueuedFresh, UnsentFresh, WithLibdbus
<1>3. /\ serving' = NoRequest /\ current_request_' = NoDescriptor
      /\ refs' = [Unref(refs, current_request_) EXCEPT ![serving] = @ - 1]
  BY DEF EndDispatch
<1>4. /\ current_request_'.msg = NoRequest /\ current_request_' \in Descriptor
      /\ ~IsSet(current_request_')
  BY <1>3, NoDescriptorFacts
<1>5. \A q \in Requests : Queued(q)' <=> Queued(q)
  BY DEF Queued
<1>6. \A q \in Requests : IsHeld(q)' <=> IsHeld(q)
  BY DEF IsHeld
<1>7. \A q \in Requests : Owned(q)' <=> IsHeld(q)
  BY <1>4, <1>6, RequestAssumption DEF Owned, IsCurrent
<1>8. \A q \in Requests : WithLibdbus(q)' <=> Queued(q)
  BY <1>3, <1>5, RequestAssumption DEF WithLibdbus
<1>9. /\ refs' \in [Requests -> Int]
      /\ \A q \in Requests \ {serving} : refs'[q] = refs[q]
      /\ refs'[serving] = IF IsCurrent(serving) THEN refs[serving] - 2 ELSE refs[serving] - 1
  <2>1. CASE current_request_.msg = NoRequest
    <3>1. Unref(refs, current_request_) = refs /\ ~IsCurrent(serving)
      BY <1>1, <2>1, RequestAssumption DEF Unref, Types, IsCurrent
    <3>. QED
      BY <1>1, <1>3, <3>1 DEF Types
  <2>2. CASE current_request_.msg # NoRequest
    <3>1. current_request_.msg = serving
      BY <2>2 DEF CurrentServed
    <3>2. Unref(refs, current_request_) = [refs EXCEPT ![serving] = @ - 1]
      BY <1>1, <3>1, UnrefOne DEF Types
    <3>. QED
      BY <1>1, <1>3, <3>1, <3>2 DEF Types, IsCurrent
  <2>. QED
    BY <2>1, <2>2
<1>10. Referenced'
  <2>1. ASSUME NEW q \in Requests, q # serving
        PROVE  refs'[q] >= Needed(q)'
    <3>1. ~IsCurrent(q)
      BY <2>1, RequestAssumption DEF IsCurrent, CurrentServed
    <3>2. (WithLibdbus(q)' <=> WithLibdbus(q)) /\ (Owned(q)' <=> Owned(q))
      BY <1>7, <1>8, <2>1, <3>1 DEF WithLibdbus, Owned
    <3>3. Needed(q)' = Needed(q) /\ refs'[q] = refs[q]
      BY <1>9, <2>1, <3>2 DEF Needed
    <3>. QED
      BY <3>3 DEF Referenced
  <2>2. ASSUME NEW q \in Requests, q = serving
        PROVE  refs'[q] >= Needed(q)'
    <3>1. WithLibdbus(q) /\ ~WithLibdbus(q)'
      BY <1>2, <1>8, <2>2 DEF WithLibdbus
    <3>2. refs[q] >= Needed(q) /\ refs[q] \in Int
      BY DEF Referenced, Types
    <3>3. CASE IsCurrent(q)
      <4>1. Owned(q) /\ ~Owned(q)'
        BY <1>1, <1>7, <2>2, <3>3 DEF Owned, IsCurrent, IsHeld, OwnedOnce
      <4>2. Needed(q) = 2 /\ Needed(q)' = 0
        BY <3>1, <4>1 DEF Needed
      <4>3. refs'[q] = refs[q] - 2
        BY <1>9, <2>2, <3>3
      <4>. QED
        BY <3>2, <4>2, <4>3
    <3>4. CASE ~IsCurrent(q)
      <4>1. Owned(q)' <=> Owned(q)
        BY <1>7, <3>4 DEF Owned
      <4>2. Needed(q)' = Needed(q) - 1 /\ Needed(q) \in Int
        BY <3>1, <4>1 DEF Needed
      <4>3. refs'[q] = refs[q] - 1
        BY <1>9, <2>2, <3>4
      <4>. QED
        BY <3>2, <4>2, <4>3
    <3>. QED
      BY <3>3, <3>4
  <2>. QED
    BY <2>1, <2>2 DEF Referenced
<1>11. QueuedOnce'
  BY DEF QueuedOnce
<1>12. AllWhole' /\ OwnedOnce' /\ CurrentServed'
  BY <1>4 DEF AllWhole, Whole, IsSet, OwnedOnce, CurrentServed
<1>. QED
  BY <1>1, <1>2, <1>3, <1>4, <1>5, <1>7, <1>9, <1>10, <1>11, <1>12 DEF Owned

\* A method that returns is answered unless it deferred the answer.
LEMMA MethodReturnsStep ==
    ASSUME IInv, MethodReturns
    PROVE  IInv'
<1>. USE DEF IInv
<1>1. /\ InMethod /\ EndDispatch
      /\ let_go' = IF IsSet(current_request_) THEN let_go \cup {serving} ELSE let_go
      /\ UNCHANGED <<content, inbox, held, replied, registered, unwound>>
  BY DEF MethodReturns
<1>2. /\ serving \in Requests /\ ~Queued(serving) /\ content[serving] # NoMessage
      /\ serving' = NoRequest /\ current_request_' \in Descriptor
      /\ refs' \in [Requests -> Int]
      /\ \A q \in Requests \ {serving} : refs'[q] = refs[q]
      /\ \A q \in Requests : Owned(q)' => Owned(q)
      /\ \A q \in Requests : Queued(q)' <=> Queued(q)
      /\ QueuedOnce' /\ AllWhole' /\ OwnedOnce' /\ CurrentServed' /\ Referenced'
  BY <1>1, EndDispatchFacts
<1>3. let_go' \subseteq let_go \cup {serving}
  BY <1>1
<1>4. Types'
  BY <1>1, <1>2, <1>3 DEF Types
<1>5. QueuedFresh' /\ UnsentFresh'
  BY <1>1, <1>2, <1>3, RequestAssumption DEF QueuedFresh, UnsentFresh, WithLibdbus
<1>. QED
  BY <1>2, <1>4, <1>5

\* A method throws: an answer is sent for the request, deferred or not.
LEMMA MethodThrowsStep ==
    ASSUME IInv, MethodThrows
    PROVE  IInv'
<1>. USE DEF IInv
<1>1. /\ InMethod /\ EndDispatch
      /\ UNCHANGED <<content, inbox, held, let_go, registered, unwound>>
  BY DEF MethodThrows
<1>2. PICK kind \in {"return", "error"} : Reply(serving, kind)
  BY DEF MethodThrows
<1>3. /\ serving \in Requests /\ ~Queued(serving) /\ content[serving] # NoMessage
      /\ serving' = NoRequest /\ current_request_' \in Descriptor
      /\ refs' \in [Requests -> Int]
      /\ \A q \in Requests \ {serving} : refs'[q] = refs[q]
      /\ \A q \in Requests : Owned(q)' => Owned(q)
      /\ \A q \in Requests : Queued(q)' <=> Queued(q)
      /\ QueuedOnce' /\ AllWhole' /\ OwnedOnce' /\ CurrentServed' /\ Referenced'
  BY <1>1, EndDispatchFacts
<1>4. /\ replied' \in [Requests -> Seq({"return", "error"})]
      /\ \A q \in Requests \ {serving} : replied'[q] = replied[q]
  BY <1>2, <1>3 DEF Types, Reply
<1>5. Types'
  BY <1>1, <1>3, <1>4 DEF Types
<1>6. QueuedFresh' /\ UnsentFresh'
  BY <1>1, <1>3, <1>4, RequestAssumption DEF QueuedFresh, UnsentFresh, WithLibdbus
<1>. QED
  BY <1>3, <1>5, <1>6

\* The server goes away and releases what it held.
LEMMA DestroyStep ==
    ASSUME IInv, Destroy
    PROVE  IInv'
<1>. USE DEF IInv
<1>1. /\ serving = NoRequest /\ registered' = FALSE
      /\ let_go' = let_go \cup ({held[s].msg : s \in Slots} \ {NoRequest})
      /\ refs' = [r \in Requests |-> IF IsHeld(r) THEN refs[r] - 1 ELSE refs[r]]
      /\ held' = [s \in Slots |-> NoDescriptor]
      /\ UNCHANGED <<content, inbox, serving, current_request_, replied, unwound>>
  BY DEF Destroy, InMethod, IsHeld
<1>2. current_request_.msg = NoRequest
  BY <1>1 DEF CurrentServed
<1>3. \A s \in Slots : held'[s] \in Descriptor /\ held'[s].msg = NoRequest /\ ~IsSet(held'[s])
  BY <1>1, NoDescriptorFacts
<1>4. \A q \in Requests : ~Owned(q)' /\ (Owned(q) <=> IsHeld(q))
  BY <1>1, <1>2, <1>3, RequestAssumption DEF Owned, IsCurrent, IsHeld
<1>5. \A q \in Requests : Queued(q)' <=> Queued(q)
  BY <1>1 DEF Queued
<1>6. \A q \in Requests : q \in let_go' <=> q \in let_go \/ IsHeld(q)
  BY <1>1, RequestAssumption DEF IsHeld
<1>7. Types'
  <2>1. let_go' \subseteq Requests
    BY <1>1 DEF Types, Descriptor
  <2>2. held' \in [Slots -> Descriptor]
    BY <1>1, <1>3
  <2>3. refs' \in [Requests -> Int]
    BY <1>1 DEF Types
  <2>4. let_go' \in SUBSET Requests /\ registered' \in BOOLEAN
    BY <1>1, <2>1
  <2>. QED
    BY <1>1, <2>2, <2>3, <2>4 DEF Types
<1>8. QueuedOnce'
  BY <1>1 DEF QueuedOnce
<1>9. \A q \in Requests : refs'[q] = IF IsHeld(q) THEN refs[q] - 1 ELSE refs[q]
  BY <1>1
<1>10. QueuedFresh' /\ UnsentFresh'
  BY <1>1, <1>4, <1>5, <1>6, <1>9 DEF QueuedFresh, UnsentFresh, WithLibdbus
<1>11. AllWhole' /\ OwnedOnce' /\ CurrentServed'
  BY <1>1, <1>2, <1>3 DEF AllWhole, Whole, IsSet, OwnedOnce, CurrentServed
<1>12. Referenced'
  <2>1. ASSUME NEW q \in Requests
        PROVE  refs'[q] >= Needed(q)'
    <3>1. (WithLibdbus(q)' <=> WithLibdbus(q)) /\ ~Owned(q)' /\ (Owned(q) <=> IsHeld(q))
      BY <1>1, <1>4, <1>5 DEF WithLibdbus
    <3>2. refs[q] >= Needed(q) /\ refs[q] \in Int
      BY DEF Referenced, Types
    <3>3. Needed(q) \in Int /\ Needed(q)' = IF IsHeld(q) THEN Needed(q) - 1 ELSE Needed(q)
      BY <3>1 DEF Needed
    <3>. QED
      BY <1>9, <3>2, <3>3
  <2>. QED
    BY <2>1 DEF Referenced
<1>. QED
  BY <1>7, <1>8, <1>10, <1>11, <1>12

\* Every step preserves the invariant, whatever the user does.
LEMMA NextIInv == IInv /\ [Next]_vars => IInv'
<1>. SUFFICES ASSUME IInv, [Next]_vars PROVE IInv'
  OBVIOUS
<1>1. CASE \E r \in Requests, m \in Messages : Arrive(r, m)
  BY <1>1, ArriveStep
<1>2. CASE Dispatch
  BY <1>2, DirectStep, GetAllThrowsStep, BeginMethodStep, BadArgumentsStep DEF Dispatch
<1>3. CASE \E kind \in {"return", "error"} :
             RespondWith(kind) \/ \E s \in Slots : RespondOn(s, kind)
  BY <1>3, RespondWithStep, RespondOnStep
<1>4. CASE \E s \in Slots : Defer(s) \/ Discard(s)
  BY <1>4, DeferStep, DiscardStep
<1>5. CASE MethodReturns \/ MethodThrows \/ Destroy
  BY <1>5, MethodReturnsStep, MethodThrowsStep, DestroyStep
<1>6. CASE UNCHANGED vars
  <2>1. /\ Types' /\ QueuedOnce' /\ AllWhole' /\ OwnedOnce' /\ CurrentServed'
    BY <1>6 DEF IInv, vars, Types, QueuedOnce, AllWhole, Whole, IsSet, OwnedOnce, CurrentServed
  <2>2. \A q \in Requests : /\ Queued(q)' <=> Queued(q)
                            /\ Owned(q)' <=> Owned(q)
    BY <1>6 DEF vars, Queued, Owned, IsCurrent, IsHeld
  <2>3. \A q \in Requests : WithLibdbus(q)' <=> WithLibdbus(q)
    BY <1>6, <2>2 DEF vars, WithLibdbus
  <2>4. QueuedFresh' /\ UnsentFresh'
    BY <1>6, <2>2, <2>3 DEF IInv, vars, QueuedFresh, UnsentFresh
  <2>5. Referenced'
    <3>1. \A q \in Requests : Needed(q)' = Needed(q)
      BY <2>2, <2>3 DEF Needed
    <3>2. refs' = refs
      BY <1>6 DEF vars
    <3>. QED
      BY <3>1, <3>2 DEF IInv, Referenced
  <2>. QED
    BY <2>1, <2>4, <2>5 DEF IInv
<1>. QED
  BY <1>1, <1>2, <1>3, <1>4, <1>5, <1>6 DEF Next

\* The invariant holds of every state that is reached.
THEOREM Invariance == Spec => []IInv
BY InitIInv, NextIInv, PTL DEF Spec
-----------------------------------------------------------------------------
(***************************************************************************)
(* The theorems                                                            *)
(***************************************************************************)

\* The variables keep their types; in particular no count of references falls
\* below zero, whatever the methods of the user do.
THEOREM TypeCorrect == Spec => []TypeOK
<1>1. IInv => TypeOK
  <2>. SUFFICES ASSUME IInv PROVE TypeOK
    OBVIOUS
  <2>1. ASSUME NEW r \in Requests
        PROVE  refs[r] \in Nat
    <3>1. refs[r] >= Needed(r) /\ refs[r] \in Int
      BY DEF IInv, Referenced, Types
    <3>2. Needed(r) \in Int /\ Needed(r) >= 0
      BY DEF Needed
    <3>. QED
      BY <3>1, <3>2
  <2>2. refs \in [Requests -> Nat]
    BY <2>1 DEF IInv, Types
  <2>. QED
    BY <2>2 DEF IInv, Types, TypeOK
<1>. QED
  BY <1>1, Invariance, PTL

\* defer_response() moves a request: no two descriptors ever own the same one.
THEOREM RequestsMoved == Spec => []SoleOwner
<1>1. IInv => SoleOwner
  BY DEF IInv, SoleOwner, OwnedOnce, AllWhole, Whole
<1>. QED
  BY <1>1, Invariance, PTL

\* No descriptor points to a message that was freed, whatever is thrown,
\* deferred twice, overwritten or destroyed.
THEOREM MessagesAlive == Spec => []DescriptorsAlive
<1>1. IInv => DescriptorsAlive
  <2>. SUFFICES ASSUME IInv, NEW d \in Descriptors, IsSet(d)
                PROVE  d.msg # NoRequest /\ refs[d.msg] >= 1
    BY DEF DescriptorsAlive
  <2>1. d.msg # NoRequest
    BY DEF IInv, AllWhole, Whole, Descriptors
  <2>2. d.msg \in Requests
    BY <2>1 DEF IInv, Types, Descriptors, Descriptor
  <2>3. Owned(d.msg)
    BY DEF Descriptors, Owned, IsCurrent, IsHeld
  <2>4. refs[d.msg] >= Needed(d.msg) /\ refs[d.msg] \in Int
    BY <2>2 DEF IInv, Types, Referenced
  <2>5. Needed(d.msg) \in Int /\ Needed(d.msg) >= 1
    BY <2>3 DEF Needed
  <2>. QED
    BY <2>1, <2>4, <2>5
<1>. QED
  BY <1>1, Invariance, PTL
-----------------------------------------------------------------------------
(***************************************************************************)
(* A request is answered once, provided that no method throws after it     *)
(* answered or deferred its request                                        *)
(***************************************************************************)
HeldUnanswered == \A q \in Requests : IsHeld(q) => replied[q] = <<>>

AInv == IInv /\ HeldUnanswered /\ AnsweredOnce

\* Replying to a request that has no reply and is in no descriptor afterwards.
LEMMA FirstReply ==
    ASSUME AInv, NEW x \in Requests, NEW kind \in {"return", "error"},
           replied[x] = <<>>, Reply(x, kind),
           \A q \in Requests : IsHeld(q)' => IsHeld(q) /\ q # x
    PROVE  HeldUnanswered' /\ AnsweredOnce'
<1>1. \A q \in Requests \ {x} : replied'[q] = replied[q]
  BY DEF Reply, AInv, IInv, Types
<1>2. replied'[x] = Append(<<>>, kind)
  BY DEF Reply, AInv, IInv, Types
<1>3. Len(replied'[x]) = 1
  <2>1. <<>> \in Seq({"return", "error"})
    BY EmptySeq
  <2>2. Len(Append(<<>>, kind)) = Len(<<>>) + 1
    BY <2>1
  <2>. QED
    BY <1>2, <2>2, EmptySeq
<1>4. HeldUnanswered'
  <2>1. ASSUME NEW q \in Requests, IsHeld(q)'
        PROVE  replied'[q] = <<>>
    <3>1. IsHeld(q) /\ q \in Requests \ {x}
      BY <2>1
    <3>2. replied[q] = <<>>
      BY <3>1 DEF AInv, HeldUnanswered
    <3>. QED
      BY <1>1, <3>1, <3>2
  <2>. QED
    BY <2>1 DEF HeldUnanswered
<1>5. AnsweredOnce'
  <2>1. ASSUME NEW q \in Requests \ {x}
        PROVE  Len(replied'[q]) <= 1
    <3>1. replied'[q] = replied[q]
      BY <1>1
    <3>2. Len(replied[q]) <= 1
      BY DEF AInv, AnsweredOnce
    <3>. QED
      BY <3>1, <3>2
  <2>2. Len(replied'[x]) <= 1
    BY <1>3
  <2>3. \A q \in Requests : Len(replied'[q]) <= 1
    BY <2>1, <2>2
  <2>. QED
    BY <2>3 DEF AnsweredOnce
<1>. QED
  BY <1>4, <1>5

\* No reply is sent.
LEMMA NoReply ==
    ASSUME AInv, UNCHANGED replied, \A q \in Requests : IsHeld(q)' => replied[q] = <<>>
    PROVE  HeldUnanswered' /\ AnsweredOnce'
BY DEF AInv, HeldUnanswered, AnsweredOnce

\* As long as no method throws after it answered or deferred its request, every step
\* keeps it that no request is answered twice.
LEMMA NextAInv ==
    ASSUME "throw_late" \notin Liberties
    PROVE  AInv /\ [Next]_vars => AInv'
<1>. SUFFICES ASSUME AInv, [Next]_vars PROVE HeldUnanswered' /\ AnsweredOnce'
  BY NextIInv DEF AInv
<1>. USE DEF AInv
<1>0. ASSUME UNCHANGED held
      PROVE  \A q \in Requests : IsHeld(q)' => IsHeld(q) /\ replied[q] = <<>>
  BY <1>0 DEF IsHeld, HeldUnanswered
<1>1. CASE \E r \in Requests, m \in Messages : Arrive(r, m)
  BY <1>0, <1>1, NoReply DEF Arrive
<1>2. ASSUME NEW r \in Requests, HandleDirectly(r) \/ NoSuchObject(r) \/ BadArguments(r)
      PROVE  HeldUnanswered' /\ AnsweredOnce'
  <2>1. /\ inbox # <<>> /\ r = Head(inbox) /\ inbox' = Tail(inbox) /\ serving = NoRequest
        /\ UNCHANGED held
    BY <1>2 DEF HandleDirectly, NoSuchObject, BadArguments, CanDispatch
  <2>2. PICK kind \in {"return", "error"} : Reply(r, kind)
    BY <1>2 DEF HandleDirectly, NoSuchObject, BadArguments, DirectAnswers
  <2>3. replied[r] = <<>> /\ ~IsHeld(r)
    BY <2>1, AtDispatch DEF Owned
  <2>. QED
    BY <1>0, <2>1, <2>2, <2>3, FirstReply
<1>3. ASSUME NEW r \in Requests, GetAllThrows(r) \/ BeginMethod(r)
      PROVE  HeldUnanswered' /\ AnsweredOnce'
  BY <1>0, <1>3, NoReply DEF GetAllThrows, BeginMethod
<1>4. ASSUME NEW kind \in {"return", "error"}, RespondWith(kind)
      PROVE  HeldUnanswered' /\ AnsweredOnce'
  <2>1. /\ InMethod /\ IsSet(current_request_) /\ UNCHANGED held
        /\ Reply(current_request_.msg, kind)
    BY <1>4 DEF RespondWith
  <2>2. /\ current_request_.msg = serving /\ serving \in Requests
        /\ replied[serving] = <<>> /\ ~IsHeld(serving)
    BY <2>1, Current
  <2>. QED
    BY <1>0, <2>1, <2>2, FirstReply
<1>5. ASSUME NEW s \in Slots, NEW kind \in {"return", "error"}, RespondOn(s, kind)
      PROVE  HeldUnanswered' /\ AnsweredOnce'
  <2>1. /\ IsSet(held[s]) /\ Reply(held[s].msg, kind)
        /\ refs' = Unref(refs, held[s]) /\ held' = [held EXCEPT ![s] = NoDescriptor]
        /\ UNCHANGED <<content, inbox, serving, current_request_>>
    BY <1>5 DEF RespondOn
  <2>2. /\ held[s].msg \in Requests /\ held' \in [Slots -> Descriptor]
        /\ \A q \in Requests : Owned(q)' => Owned(q) /\ q # held[s].msg
    BY <2>1, ReleaseHeld
  <2>3. replied[held[s].msg] = <<>>
    BY <2>2 DEF HeldUnanswered, IsHeld
  <2>4. \A t \in Slots : held'[t].msg = held[t].msg \/ held'[t].msg = NoRequest
    BY <2>1, NoDescriptorFacts DEF IInv, Types
  <2>5. \A q \in Requests : IsHeld(q)' => IsHeld(q) /\ q # held[s].msg
    BY <2>2, <2>4, RequestAssumption DEF Owned, IsHeld
  <2>. QED
    BY <2>1, <2>2, <2>3, <2>5, FirstReply
<1>6. ASSUME NEW s \in Slots, Defer(s)
      PROVE  HeldUnanswered' /\ AnsweredOnce'
  <2>1. /\ InMethod /\ IsSet(current_request_) /\ UNCHANGED replied
        /\ held' = [held EXCEPT ![s] = current_request_]
    BY <1>6 DEF Defer
  <2>2. current_request_.msg = serving /\ replied[serving] = <<>>
    BY <2>1, Current
  <2>3. \A t \in Slots : held'[t] = held[t] \/ held'[t].msg = serving
    BY <2>1, <2>2 DEF IInv, Types
  <2>4. \A q \in Requests : IsHeld(q)' => replied[q] = <<>>
    BY <2>2, <2>3 DEF IsHeld, HeldUnanswered
  <2>. QED
    BY <2>1, <2>4, NoReply
<1>7. ASSUME NEW s \in Slots, Discard(s)
      PROVE  HeldUnanswered' /\ AnsweredOnce'
  <2>1. UNCHANGED replied /\ held' = [held EXCEPT ![s] = NoDescriptor]
    BY <1>7 DEF Discard
  <2>2. \A t \in Slots : held'[t].msg = held[t].msg \/ held'[t].msg = NoRequest
    BY <2>1, NoDescriptorFacts DEF IInv, Types
  <2>3. \A q \in Requests : IsHeld(q)' => replied[q] = <<>>
    BY <2>2, RequestAssumption DEF IsHeld, HeldUnanswered
  <2>. QED
    BY <2>1, <2>3, NoReply
<1>8. CASE MethodReturns
  BY <1>0, <1>8, NoReply DEF MethodReturns
<1>9. CASE MethodThrows
  <2>1. /\ InMethod /\ IsSet(current_request_) /\ UNCHANGED held
        /\ Reply(serving, "error")
    BY <1>9 DEF MethodThrows
  <2>2. serving \in Requests /\ replied[serving] = <<>> /\ ~IsHeld(serving)
    BY <2>1, Current
  <2>. QED
    BY <1>0, <2>1, <2>2, FirstReply
<1>10. CASE Destroy
  <2>1. UNCHANGED replied /\ held' = [s \in Slots |-> NoDescriptor]
    BY <1>10 DEF Destroy
  <2>2. \A q \in Requests : ~IsHeld(q)'
    BY <2>1, NoDescriptorFacts, RequestAssumption DEF IsHeld
  <2>. QED
    BY <2>1, <2>2, NoReply
<1>11. CASE UNCHANGED vars
  BY <1>0, <1>11, NoReply DEF vars
<1>. QED
  BY <1>1, <1>2, <1>3, <1>4, <1>5, <1>6, <1>7, <1>8, <1>9, <1>10, <1>11 DEF Next, Dispatch

\* "only respond once!!!": unless a method throws after it answered or deferred,
\* no request gets two replies, in whatever order answers, deferrals, errors and
\* the destruction of the server follow each other.
THEOREM RespondOnlyOnce ==
    ASSUME "throw_late" \notin Liberties
    PROVE  Spec => []AnsweredOnce
<1>1. Init => AInv
  <2>. SUFFICES ASSUME Init PROVE HeldUnanswered /\ AnsweredOnce
    BY InitIInv DEF AInv
  <2>1. \A r \in Requests : replied[r] = <<>>
    BY DEF Init
  <2>2. Len(<<>>) = 0
    BY EmptySeq
  <2>. QED
    BY <2>1, <2>2 DEF HeldUnanswered, AnsweredOnce
<1>2. AInv => AnsweredOnce
  BY DEF AInv
<1>. QED
  BY <1>1, <1>2, NextAInv, PTL DEF Spec
-----------------------------------------------------------------------------
(***************************************************************************)
(* A descriptor remembers the method the client asked for                  *)
(***************************************************************************)
Asked(d) ==
    LET m == content[d.msg]
    IN /\ iface(d.requestor[1]) = m.interface
       /\ d.requestor[2] = m.member
       /\ m.member \in Methods[m.interface]

RInv == IInv /\ RequestorMatches

\* Descriptors are moved or cleared, and the content of their messages stays.
LEMMA DescriptorsMoved ==
    ASSUME RInv,
           \A d \in Descriptors' : d = NoDescriptor \/ d \in Descriptors,
           \A q \in Requests : content[q] # NoMessage => content'[q] = content[q]
    PROVE  RequestorMatches'
<1>. SUFFICES ASSUME NEW d \in Descriptors', IsSet(d)
              PROVE  Asked(d)'
  BY DEF RequestorMatches, Asked, IsSet
<1>1. d \in Descriptors
  BY NoDescriptorFacts
<1>2. Asked(d)
  BY <1>1 DEF RInv, RequestorMatches, Asked
<1>3. d.msg \in Requests /\ Owned(d.msg)
  <2>1. d.msg # NoRequest
    BY <1>1 DEF RInv, IInv, AllWhole, Whole, Descriptors
  <2>2. d.msg \in Requests
    BY <1>1, <2>1 DEF RInv, IInv, Types, Descriptors, Descriptor
  <2>. QED
    BY <1>1, <2>2 DEF Owned, IsCurrent, IsHeld, Descriptors
<1>4. content'[d.msg] = content[d.msg]
  BY <1>3 DEF RInv, IInv, UnsentFresh
<1>. QED
  BY <1>2, <1>4 DEF Asked

\* Every step keeps the invariant of the requestors.
LEMMA NextRInv == RInv /\ [Next]_vars => RInv'
<1>. SUFFICES ASSUME RInv, [Next]_vars PROVE RequestorMatches'
  BY NextIInv DEF RInv
<1>1. ASSUME NEW r \in Requests, NEW m \in Messages, Arrive(r, m)
      PROVE  RequestorMatches'
  <2>1. /\ content[r] = NoMessage /\ content' = [content EXCEPT ![r] = m]
        /\ UNCHANGED <<current_request_, held>>
    BY <1>1 DEF Arrive
  <2>2. \A q \in Requests : content[q] # NoMessage => content'[q] = content[q]
    BY <2>1 DEF RInv, IInv, Types
  <2>. QED
    BY <2>1, <2>2, DescriptorsMoved DEF Descriptors
<1>2. ASSUME NEW r \in Requests, HandleDirectly(r) \/ NoSuchObject(r) \/ GetAllThrows(r)
      PROVE  RequestorMatches'
  <2>1. UNCHANGED <<content, current_request_, held>>
    BY <1>2 DEF HandleDirectly, NoSuchObject, GetAllThrows
  <2>. QED
    BY <2>1, DescriptorsMoved DEF Descriptors
<1>3. ASSUME NEW r \in Requests, BadArguments(r)
      PROVE  RequestorMatches'
  <2>1. current_request_' = NoDescriptor /\ UNCHANGED <<content, held>>
    BY <1>3 DEF BadArguments
  <2>. QED
    BY <2>1, DescriptorsMoved DEF Descriptors
<1>4. ASSUME NEW r \in Requests, BeginMethod(r)
      PROVE  RequestorMatches'
  <2>1. /\ Route(content[r]) = "method" /\ UNCHANGED <<content, held>>
        /\ current_request_' = [requestor |-> FindMethod(content[r]), msg |-> r]
    BY <1>4 DEF BeginMethod
  <2>. DEFINE m == content[r]
  <2>2. /\ iface(find_interface(m.interface)) = m.interface
        /\ m.member \in Methods[m.interface]
    BY <2>1, RouteToMethod
  <2>3. /\ current_request_'.msg = r
        /\ current_request_'.requestor[1] = find_interface(m.interface)
        /\ current_request_'.requestor[2] = m.member
    BY <2>1 DEF FindMethod
  <2>4. \A s \in Slots : IsSet(held[s]) => Asked(held[s])
    BY DEF RInv, RequestorMatches, Descriptors, Asked
  <2>. QED
    BY <2>1, <2>2, <2>3, <2>4 DEF RequestorMatches, Descriptors, Asked, IsSet
<1>5. ASSUME NEW kind \in {"return", "error"}, RespondWith(kind)
      PROVE  RequestorMatches'
  <2>1. current_request_' = NoDescriptor /\ UNCHANGED <<content, held>>
    BY <1>5 DEF RespondWith
  <2>. QED
    BY <2>1, DescriptorsMoved DEF Descriptors
<1>6. ASSUME NEW s \in Slots, NEW kind \in {"return", "error"},
             RespondOn(s, kind) \/ Discard(s)
      PROVE  RequestorMatches'
  <2>1. /\ held' = [held EXCEPT ![s] = NoDescriptor]
        /\ UNCHANGED <<content, current_request_>>
    BY <1>6 DEF RespondOn, Discard
  <2>2. \A t \in Slots : held'[t] = NoDescriptor \/ held'[t] = held[t]
    BY <2>1 DEF RInv, IInv, Types
  <2>. QED
    BY <2>1, <2>2, DescriptorsMoved DEF Descriptors
<1>7. ASSUME NEW s \in Slots, Defer(s)
      PROVE  RequestorMatches'
  <2>1. /\ held' = [held EXCEPT ![s] = current_request_]
        /\ current_request_' = NoDescriptor /\ UNCHANGED content
    BY <1>7 DEF Defer
  <2>2. \A t \in Slots : held'[t] = current_request_ \/ held'[t] = held[t]
    BY <2>1 DEF RInv, IInv, Types
  <2>. QED
    BY <2>1, <2>2, DescriptorsMoved DEF Descriptors
<1>8. CASE MethodReturns \/ MethodThrows
  <2>1. current_request_' = NoDescriptor /\ UNCHANGED <<content, held>>
    BY <1>8 DEF MethodReturns, MethodThrows, EndDispatch
  <2>. QED
    BY <2>1, DescriptorsMoved DEF Descriptors
<1>9. CASE Destroy
  <2>1. held' = [s \in Slots |-> NoDescriptor] /\ UNCHANGED <<content, current_request_>>
    BY <1>9 DEF Destroy
  <2>. QED
    BY <2>1, DescriptorsMoved DEF Descriptors
<1>10. CASE UNCHANGED vars
  <2>1. UNCHANGED <<content, current_request_, held>>
    BY <1>10 DEF vars
  <2>. QED
    BY <2>1, DescriptorsMoved DEF Descriptors
<1>. QED
  BY <1>1, <1>2, <1>3, <1>4, <1>5, <1>6, <1>7, <1>8, <1>9, <1>10 DEF Next, Dispatch

\* For every list of interfaces: what a descriptor remembers until respond_on() is
\* the method of the interface the client named.
THEOREM RequestorRemembered == Spec => []RequestorMatches
<1>1. Init => RInv
  <2>. SUFFICES ASSUME Init PROVE RequestorMatches
    BY InitIInv DEF RInv
  <2>1. \A d \in Descriptors : d = NoDescriptor
    BY DEF Init, Descriptors
  <2>. QED
    BY <2>1, NoDescriptorFacts DEF RequestorMatches
<1>2. RInv => RequestorMatches
  BY DEF RInv
<1>. QED
  BY <1>1, <1>2, NextRInv, PTL DEF Spec
-----------------------------------------------------------------------------
(***************************************************************************)
(* What a step may do to one request.  The exact count of references, the  *)
(* fate of each request and the contract follow from these alone.          *)
(***************************************************************************)
Sent(r) == content[r] # NoMessage

Becomes(r, lib, cur, hld) == /\ WithLibdbus(r)' <=> lib
                             /\ IsCurrent(r)' <=> cur
                             /\ IsHeld(r)' <=> hld

Known(r)   == content'[r] = content[r]
Kept(r)    == r \in let_go' <=> r \in let_go
Silent(r)  == Known(r) /\ Kept(r) /\ replied'[r] = replied[r]
Drops(r)   == Known(r) /\ r \in let_go' /\ replied'[r] = replied[r]
Answers(r) == /\ Known(r) /\ Kept(r)
              /\ \E kind \in {"return", "error"} : replied'[r] = Append(replied[r], kind)

Stays(r)     == /\ Silent(r) /\ refs'[r] = refs[r]
                /\ Becomes(r, WithLibdbus(r), IsCurrent(r), IsHeld(r))
Arrives(r)   == /\ ~Sent(r) /\ Sent(r)' /\ Kept(r) /\ replied'[r] = replied[r]
                /\ Becomes(r, TRUE, FALSE, FALSE) /\ refs'[r] = 1
IsHandled(r) == Queued(r) /\ Becomes(r, FALSE, FALSE, FALSE) /\ Answers(r) /\ refs'[r] = refs[r] - 1
Unwinds(r)   == /\ Queued(r) /\ Becomes(r, FALSE, FALSE, FALSE) /\ Silent(r) /\ refs'[r] = refs[r]
                /\ ~unwound /\ unwound'
Begins(r)    == Queued(r) /\ Becomes(r, TRUE, TRUE, FALSE) /\ Silent(r) /\ refs'[r] = refs[r] + 1
Responds(r)  == IsCurrent(r) /\ Becomes(r, TRUE, FALSE, FALSE) /\ Answers(r) /\ refs'[r] = refs[r] - 1
IsDeferred(r) == IsCurrent(r) /\ Becomes(r, TRUE, FALSE, TRUE) /\ Silent(r) /\ refs'[r] = refs[r]
Overwritten(r) ==
    /\ \E s \in Slots : held[s].msg = r /\ held'[s].msg \notin {r, NoRequest}
    /\ ~WithLibdbus(r) /\ Becomes(r, FALSE, FALSE, FALSE) /\ Silent(r) /\ refs'[r] = refs[r]
RespondsLater(r) ==
    /\ IsHeld(r) /\ Becomes(r, WithLibdbus(r), FALSE, FALSE) /\ Answers(r)
    /\ refs'[r] = refs[r] - 1
IsDropped(r) ==
    /\ IsHeld(r) /\ Becomes(r, WithLibdbus(r), FALSE, FALSE) /\ Drops(r)
    /\ refs'[r] = refs[r] - 1
Returns(r) ==
    /\ r = serving /\ Becomes(r, FALSE, FALSE, IsHeld(r))
    /\ IF IsCurrent(r) THEN Drops(r) /\ refs'[r] = refs[r] - 2
                       ELSE Silent(r) /\ refs'[r] = refs[r] - 1
Throws(r) ==
    /\ r = serving /\ Becomes(r, FALSE, FALSE, IsHeld(r)) /\ Answers(r)
    /\ IF IsCurrent(r) THEN refs'[r] = refs[r] - 2
                       ELSE refs'[r] = refs[r] - 1 /\ "throw_late" \in Liberties

Fate(r) ==
    \/ Stays(r) \/ Arrives(r) \/ IsHandled(r) \/ Unwinds(r) \/ Begins(r)
    \/ Responds(r) \/ IsDeferred(r) \/ Overwritten(r) \/ RespondsLater(r) \/ IsDropped(r)
    \/ Returns(r) \/ Throws(r)

\* A step concerns one request, except the destruction of the server.
OneAtATime ==
    \/ \E x \in Requests : \A q \in Requests \ {x} : Silent(q)
    \/ \A q \in Requests : Silent(q) \/ (IsDropped(q) /\ ~WithLibdbus(q))

\* While nothing but request x is touched, the others stay as they are.
LEMMA OthersStay ==
    ASSUME NEW x \in Requests, Fate(x),
           \A q \in Requests \ {x} : Stays(q) \/ Overwritten(q)
    PROVE  (\A q \in Requests : Fate(q)) /\ OneAtATime
<1>1. \A q \in Requests \ {x} : Silent(q) /\ Fate(q)
  BY DEF Stays, Overwritten, Fate
<1>. QED
  BY <1>1 DEF OneAtATime

\* A request at the head of the queue, handled or handed to its method.
LEMMA DispatchFate ==
    ASSUME IInv, NEW r \in Requests,
           \/ HandleDirectly(r) \/ NoSuchObject(r) \/ BadArguments(r)
           \/ GetAllThrows(r) \/ BeginMethod(r)
    PROVE  (\A q \in Requests : Fate(q)) /\ OneAtATime
<1>. USE DEF IInv
<1>1. /\ inbox # <<>> /\ r = Head(inbox) /\ inbox' = Tail(inbox) /\ serving = NoRequest
      /\ UNCHANGED <<content, held, let_go>>
  BY DEF HandleDirectly, NoSuchObject, BadArguments, GetAllThrows, BeginMethod, CanDispatch
<1>2. /\ r # NoRequest /\ ~Owned(r) /\ Queued(r) /\ current_request_.msg = NoRequest
      /\ \A q \in Requests : Queued(q)' <=> Queued(q) /\ q # r
  BY <1>1, AtDispatch
<1>3. \A q \in Requests : IsHeld(q)' <=> IsHeld(q)
  BY <1>1 DEF IsHeld
<1>4. Unref(refs, current_request_) = refs
  BY <1>2, RequestAssumption DEF Unref, Types
<1>5. CASE HandleDirectly(r) \/ NoSuchObject(r) \/ BadArguments(r)
  <2>1. PICK kind \in {"return", "error"} : Reply(r, kind)
    BY <1>5 DEF HandleDirectly, NoSuchObject, BadArguments, DirectAnswers
  <2>2. refs' = [refs EXCEPT ![r] = @ - 1] /\ serving' = NoRequest
    BY <1>1, <1>4, <1>5 DEF HandleDirectly, NoSuchObject, BadArguments
  <2>3. current_request_'.msg = NoRequest
    BY <1>2, <1>5, NoDescriptorFacts DEF HandleDirectly, NoSuchObject, BadArguments
  <2>4. \A q \in Requests : /\ IsCurrent(q)' <=> IsCurrent(q)
                            /\ WithLibdbus(q)' <=> WithLibdbus(q) /\ q # r
    BY <1>1, <1>2, <2>2, <2>3, RequestAssumption DEF IsCurrent, WithLibdbus
  <2>5. \A q \in Requests \ {r} : replied'[q] = replied[q] /\ refs'[q] = refs[q]
    BY <2>1, <2>2 DEF Types, Reply
  <2>6. replied'[r] = Append(replied[r], kind) /\ refs'[r] = refs[r] - 1
    BY <2>1, <2>2 DEF Types, Reply
  <2>7. \A q \in Requests \ {r} : Stays(q)
    BY <1>1, <1>3, <2>4, <2>5 DEF Stays, Silent, Known, Kept, Becomes
  <2>8. IsHandled(r)
    BY <1>1, <1>2, <1>3, <2>4, <2>6 DEF IsHandled, Answers, Known, Kept, Becomes, Owned
  <2>. QED
    BY <2>7, <2>8, OthersStay DEF Fate
<1>6. CASE GetAllThrows(r)
  <2>1. /\ ~unwound /\ unwound' /\ UNCHANGED <<refs, replied, serving, current_request_>>
    BY <1>6 DEF GetAllThrows, CanDispatch
  <2>2. \A q \in Requests : /\ IsCurrent(q)' <=> IsCurrent(q)
                            /\ WithLibdbus(q)' <=> WithLibdbus(q) /\ q # r
    BY <1>1, <1>2, <2>1, RequestAssumption DEF IsCurrent, WithLibdbus
  <2>3. \A q \in Requests \ {r} : Stays(q)
    BY <1>1, <1>3, <2>1, <2>2 DEF Stays, Silent, Known, Kept, Becomes
  <2>4. Unwinds(r)
    BY <1>1, <1>2, <1>3, <2>1, <2>2 DEF Unwinds, Silent, Known, Kept, Becomes, Owned
  <2>. QED
    BY <2>3, <2>4, OthersStay DEF Fate
<1>7. CASE BeginMethod(r)
  <2>1. /\ serving' = r /\ current_request_'.msg = r /\ UNCHANGED replied
        /\ refs' = [refs EXCEPT ![r] = @ + 1]
    BY <1>4, <1>7 DEF BeginMethod, Ref
  <2>2. \A q \in Requests : /\ IsCurrent(q)' <=> q = r
                            /\ WithLibdbus(q)' <=> WithLibdbus(q)
                            /\ ~IsCurrent(q)
    BY <1>1, <1>2, <2>1, RequestAssumption DEF IsCurrent, WithLibdbus
  <2>3. refs'[r] = refs[r] + 1 /\ \A q \in Requests \ {r} : refs'[q] = refs[q]
    BY <2>1 DEF Types
  <2>4. \A q \in Requests \ {r} : Stays(q)
    BY <1>1, <1>3, <2>1, <2>2, <2>3 DEF Stays, Silent, Known, Kept, Becomes
  <2>5. Begins(r)
    BY <1>1, <1>2, <1>3, <2>1, <2>2, <2>3
       DEF Begins, Silent, Known, Kept, Becomes, Owned, WithLibdbus
  <2>. QED
    BY <2>4, <2>5, OthersStay DEF Fate
<1>. QED
  BY <1>5, <1>6, <1>7

\* A request that arrives was nobody's before, and nothing else changes.
LEMMA ArriveFate ==
    ASSUME IInv, NEW r \in Requests, NEW m \in Messages, Arrive(r, m)
    PROVE  (\A q \in Requests : Fate(q)) /\ OneAtATime
<1>. USE DEF IInv
<1>1. /\ content[r] = NoMessage /\ inbox' = Append(inbox, r)
      /\ content' = [content EXCEPT ![r] = m] /\ refs' = [refs EXCEPT ![r] = 1]
      /\ UNCHANGED <<serving, current_request_, held, replied, let_go>>
  BY DEF Arrive
<1>2. ~WithLibdbus(r) /\ ~Owned(r)
  BY <1>1 DEF UnsentFresh
<1>3. \A q \in Requests : Queued(q)' <=> Queued(q) \/ q = r
  <2>1. /\ Len(inbox') = Len(inbox) + 1 /\ Len(inbox) \in Nat
        /\ \A i \in 1..Len(inbox) : inbox'[i] = inbox[i]
        /\ inbox'[Len(inbox) + 1] = r
    BY <1>1, AppendProperties, LenProperties DEF Types
  <2>2. 1..Len(inbox') = 1..Len(inbox) \cup {Len(inbox) + 1}
    BY <2>1
  <2>. QED
    BY <2>1, <2>2 DEF Queued
<1>4. \A q \in Requests : /\ IsCurrent(q)' <=> IsCurrent(q)
                          /\ IsHeld(q)' <=> IsHeld(q)
                          /\ WithLibdbus(q)' <=> WithLibdbus(q) \/ q = r
  BY <1>1, <1>3 DEF IsCurrent, IsHeld, WithLibdbus
<1>5. /\ content'[r] = m /\ m # NoMessage /\ refs'[r] = 1
      /\ \A q \in Requests \ {r} : content'[q] = content[q] /\ refs'[q] = refs[q]
  BY <1>1, RequestAssumption DEF Types
<1>6. \A q \in Requests \ {r} : Stays(q)
  BY <1>1, <1>4, <1>5 DEF Stays, Silent, Known, Kept, Becomes
<1>7. Arrives(r)
  BY <1>1, <1>2, <1>4, <1>5 DEF Arrives, Sent, Kept, Becomes, Owned
<1>. QED
  BY <1>6, <1>7, OthersStay DEF Fate

\* What the method of the user does with the current request.
LEMMA CurrentFate ==
    ASSUME IInv,
           \/ \E kind \in {"return", "error"} : RespondWith(kind)
           \/ \E s \in Slots : Defer(s)
    PROVE  (\A q \in Requests : Fate(q)) /\ OneAtATime
<1>. USE DEF IInv
<1>1. /\ InMethod /\ IsSet(current_request_) /\ current_request_' = NoDescriptor
      /\ UNCHANGED <<content, inbox, serving, let_go>>
  BY DEF RespondWith, Defer
<1>2. /\ current_request_.msg = serving /\ serving \in Requests /\ serving # NoRequest
      /\ ~Queued(serving) /\ ~IsHeld(serving)
  BY <1>1, Current
<1>3. \A q \in Requests : /\ ~IsCurrent(q)' /\ (IsCurrent(q) <=> q = serving)
                          /\ WithLibdbus(q)' <=> WithLibdbus(q)
  BY <1>1, <1>2, NoDescriptorFacts, RequestAssumption DEF IsCurrent, WithLibdbus, Queued
<1>4. ASSUME NEW kind \in {"return", "error"}, RespondWith(kind)
      PROVE  (\A q \in Requests : Fate(q)) /\ OneAtATime
  <2>1. Reply(serving, kind) /\ refs' = [refs EXCEPT ![serving] = @ - 1] /\ UNCHANGED held
    BY <1>2, <1>4, UnrefOne DEF RespondWith, Types
  <2>2. /\ replied'[serving] = Append(replied[serving], kind)
        /\ refs'[serving] = refs[serving] - 1
        /\ \A q \in Requests \ {serving} : replied'[q] = replied[q] /\ refs'[q] = refs[q]
        /\ \A q \in Requests : IsHeld(q)' <=> IsHeld(q)
    BY <1>2, <2>1 DEF Types, Reply, IsHeld
  <2>3. \A q \in Requests \ {serving} : Stays(q)
    BY <1>1, <1>3, <2>2 DEF Stays, Silent, Known, Kept, Becomes
  <2>4. Responds(serving)
    BY <1>1, <1>2, <1>3, <2>2 DEF Responds, Answers, Known, Kept, Becomes, WithLibdbus
  <2>. QED
    BY <1>2, <2>3, <2>4, OthersStay DEF Fate
<1>5. ASSUME NEW s \in Slots, Defer(s)
      PROVE  (\A q \in Requests : Fate(q)) /\ OneAtATime
  <2>1. /\ held'[s].msg = serving /\ UNCHANGED <<replied, refs>>
        /\ \A t \in Slots \ {s} : held'[t] = held[t]
    BY <1>2, <1>5 DEF Defer, Types
  <2>2. IsDeferred(serving)
    BY <1>1, <1>2, <1>3, <2>1 DEF IsDeferred, Silent, Known, Kept, Becomes, WithLibdbus, IsHeld
  <2>3. ASSUME NEW q \in Requests \ {serving}
        PROVE  Stays(q) \/ Overwritten(q)
    <3>1. CASE held[s].msg = q
      <4>1. ~WithLibdbus(q)
        BY <3>1 DEF WithLibdbus, QueuedFresh, Owned, IsHeld
      <4>2. ~IsHeld(q)'
        BY <2>1, <2>3, <3>1, RequestAssumption DEF IsHeld, OwnedOnce
      <4>3. held'[s].msg \notin {q, NoRequest}
        BY <1>2, <2>1, <2>3
      <4>. QED
        BY <1>1, <1>3, <2>1, <3>1, <4>1, <4>2, <4>3
           DEF Overwritten, Silent, Known, Kept, Becomes
    <3>2. CASE held[s].msg # q
      <4>1. IsHeld(q)' <=> IsHeld(q)
        BY <2>1, <2>3, <3>2 DEF IsHeld
      <4>. QED
        BY <1>1, <1>3, <2>1, <2>3, <4>1 DEF Stays, Silent, Known, Kept, Becomes
    <3>. QED
      BY <3>1, <3>2
  <2>. QED
    BY <1>2, <2>2, <2>3, OthersStay DEF Fate
<1>. QED
  BY <1>4, <1>5

\* What anybody does with a deferred request.
LEMMA HeldFate ==
    ASSUME IInv, NEW s \in Slots,
           Discard(s) \/ \E kind \in {"return", "error"} : RespondOn(s, kind)
    PROVE  (\A q \in Requests : Fate(q)) /\ OneAtATime
<1>. USE DEF IInv
<1>0. PICK h : h = held[s].msg
  OBVIOUS
<1>1. /\ IsSet(held[s]) /\ refs' = Unref(refs, held[s])
      /\ held' = [held EXCEPT ![s] = NoDescriptor]
      /\ UNCHANGED <<content, inbox, serving, current_request_>>
  BY DEF Discard, RespondOn
<1>2. /\ h \in Requests /\ current_request_.msg # h
      /\ \A q \in Requests \ {h} : refs'[q] = refs[q]
      /\ \A q \in Requests : Queued(q)' <=> Queued(q)
  BY <1>0, <1>1, ReleaseHeld
<1>3. h # NoRequest /\ refs'[h] = refs[h] - 1 /\ IsHeld(h)
  BY <1>0, <1>1, <1>2, RequestAssumption DEF Unref, IsHeld
<1>4. held'[s].msg = NoRequest /\ \A t \in Slots \ {s} : held'[t] = held[t] /\ held[t].msg # h
  BY <1>0, <1>1, <1>3, NoDescriptorFacts DEF Types, OwnedOnce
<1>5. \A q \in Requests : /\ IsHeld(q)' <=> IsHeld(q) /\ q # h
                          /\ IsCurrent(q)' <=> IsCurrent(q)
                          /\ WithLibdbus(q)' <=> WithLibdbus(q)
  BY <1>0, <1>1, <1>2, <1>4, RequestAssumption DEF IsHeld, IsCurrent, WithLibdbus
<1>6. CASE Discard(s)
  <2>1. let_go' = let_go \cup {h} /\ UNCHANGED replied
    BY <1>0, <1>6 DEF Discard
  <2>2. \A q \in Requests \ {h} : Stays(q)
    BY <1>1, <1>2, <1>5, <2>1 DEF Stays, Silent, Known, Kept, Becomes
  <2>3. IsDropped(h)
    BY <1>1, <1>2, <1>3, <1>5, <2>1 DEF IsDropped, Drops, Known, Becomes, IsCurrent
  <2>. QED
    BY <1>2, <2>2, <2>3, OthersStay DEF Fate
<1>7. ASSUME NEW kind \in {"return", "error"}, RespondOn(s, kind)
      PROVE  (\A q \in Requests : Fate(q)) /\ OneAtATime
  <2>1. Reply(h, kind) /\ UNCHANGED let_go
    BY <1>0, <1>7 DEF RespondOn
  <2>2. /\ replied'[h] = Append(replied[h], kind)
        /\ \A q \in Requests \ {h} : replied'[q] = replied[q]
    BY <1>2, <2>1 DEF Types, Reply
  <2>3. \A q \in Requests \ {h} : Stays(q)
    BY <1>1, <1>2, <1>5, <2>1, <2>2 DEF Stays, Silent, Known, Kept, Becomes
  <2>4. RespondsLater(h)
    BY <1>1, <1>2, <1>3, <1>5, <2>1, <2>2
       DEF RespondsLater, Answers, Known, Kept, Becomes, IsCurrent
  <2>. QED
    BY <1>2, <2>3, <2>4, OthersStay DEF Fate
<1>. QED
  BY <1>6, <1>7

\* How a method ends.
LEMMA MethodFate ==
    ASSUME IInv, MethodReturns \/ MethodThrows
    PROVE  (\A q \in Requests : Fate(q)) /\ OneAtATime
<1>. USE DEF IInv
<1>0. PICK x : x = serving
  OBVIOUS
<1>1. /\ InMethod /\ serving' = NoRequest /\ current_request_'.msg = NoRequest
      /\ refs' = [Unref(refs, current_request_) EXCEPT ![serving] = @ - 1]
      /\ UNCHANGED <<content, inbox, held>>
  BY NoDescriptorFacts DEF MethodReturns, MethodThrows, EndDispatch
<1>2. x \in Requests /\ x # NoRequest /\ ~Queued(x)
  BY <1>0, <1>1 DEF InMethod, Types, QueuedFresh
<1>3. /\ \A q \in Requests : IsCurrent(q) => q = x
      /\ IsSet(current_request_) <=> IsCurrent(x)
  BY <1>0, <1>2, RequestAssumption DEF CurrentServed, IsCurrent, AllWhole, Whole
<1>4. \A q \in Requests : /\ ~IsCurrent(q)' /\ (IsHeld(q)' <=> IsHeld(q))
                          /\ WithLibdbus(q)' <=> WithLibdbus(q) /\ q # x
  BY <1>0, <1>1, <1>2, RequestAssumption DEF IsCurrent, IsHeld, WithLibdbus, Queued
<1>5. /\ \A q \in Requests \ {x} : refs'[q] = refs[q]
      /\ refs'[x] = IF IsCurrent(x) THEN refs[x] - 2 ELSE refs[x] - 1
  <2>1. refs[x] \in Int
    BY <1>2 DEF Types
  <2>2. \A q \in Requests : Unref(refs, current_request_)[q]
                               = IF IsCurrent(q) THEN refs[q] - 1 ELSE refs[q]
    BY DEF Unref, IsCurrent
  <2>3. DOMAIN Unref(refs, current_request_) = Requests
    BY DEF Unref
  <2>4. /\ refs'[x] = Unref(refs, current_request_)[x] - 1
        /\ \A q \in Requests \ {x} : refs'[q] = Unref(refs, current_request_)[q]
    BY <1>0, <1>1, <1>2, <2>3
  <2>. QED
    BY <1>0, <1>2, <1>3, <2>1, <2>2, <2>4
<1>6. IsCurrent(x) => ~IsHeld(x)
  BY <1>0, <1>2 DEF IsCurrent, IsHeld, OwnedOnce
<1>7. CASE MethodReturns
  <2>1. /\ let_go' = IF IsCurrent(x) THEN let_go \cup {x} ELSE let_go
        /\ UNCHANGED replied
    BY <1>0, <1>3, <1>7 DEF MethodReturns
  <2>2. \A q \in Requests \ {x} : Stays(q)
    BY <1>0, <1>1, <1>3, <1>4, <1>5, <2>1 DEF Stays, Silent, Known, Kept, Becomes
  <2>3. Returns(x)
    BY <1>0, <1>1, <1>2, <1>4, <1>5, <2>1 DEF Returns, Silent, Drops, Known, Kept, Becomes
  <2>. QED
    BY <1>2, <2>2, <2>3, OthersStay DEF Fate
<1>8. CASE MethodThrows
  <2>1. Reply(x, "error") /\ UNCHANGED let_go
    BY <1>0, <1>8 DEF MethodThrows
  <2>2. IsCurrent(x) \/ "throw_late" \in Liberties
    BY <1>0, <1>3, <1>8 DEF MethodThrows
  <2>3. /\ replied'[x] = Append(replied[x], "error")
        /\ \A q \in Requests \ {x} : replied'[q] = replied[q]
    BY <1>0, <1>2, <2>1 DEF Types, Reply
  <2>4. \A q \in Requests \ {x} : Stays(q)
    BY <1>0, <1>1, <1>3, <1>4, <1>5, <2>1, <2>3 DEF Stays, Silent, Known, Kept, Becomes
  <2>5. Throws(x)
    BY <1>0, <1>1, <1>2, <1>4, <1>5, <2>1, <2>2, <2>3 DEF Throws, Answers, Known, Kept, Becomes
  <2>. QED
    BY <1>2, <2>4, <2>5, OthersStay DEF Fate
<1>. QED
  BY <1>7, <1>8

\* The server object goes away: what it held is dropped, the rest stays.
LEMMA DestroyFate ==
    ASSUME IInv, Destroy
    PROVE  (\A q \in Requests : Fate(q)) /\ OneAtATime
<1>. USE DEF IInv
<1>1. /\ serving = NoRequest
      /\ let_go' = let_go \cup ({held[s].msg : s \in Slots} \ {NoRequest})
      /\ refs' = [r \in Requests |-> IF IsHeld(r) THEN refs[r] - 1 ELSE refs[r]]
      /\ held' = [s \in Slots |-> NoDescriptor]
      /\ UNCHANGED <<content, inbox, serving, current_request_, replied>>
  BY DEF Destroy, InMethod, IsHeld
<1>2. \A q \in Requests : /\ ~IsHeld(q)' /\ ~IsCurrent(q) /\ ~IsCurrent(q)'
                          /\ WithLibdbus(q)' <=> WithLibdbus(q)
                          /\ q \in let_go' <=> q \in let_go \/ IsHeld(q)
  BY <1>1, NoDescriptorFacts, RequestAssumption
     DEF IsHeld, IsCurrent, WithLibdbus, Queued, CurrentServed
<1>3. \A q \in Requests : IsHeld(q) => ~WithLibdbus(q)
  BY <1>1, RequestAssumption DEF WithLibdbus, QueuedFresh, Owned
<1>4. ASSUME NEW q \in Requests
      PROVE  Stays(q) \/ (IsDropped(q) /\ ~WithLibdbus(q))
  <2>1. CASE IsHeld(q)
    BY <1>1, <1>2, <1>3, <2>1 DEF IsDropped, Drops, Known, Becomes
  <2>2. CASE ~IsHeld(q)
    BY <1>1, <1>2, <2>2 DEF Stays, Silent, Known, Kept, Becomes
  <2>. QED
    BY <2>1, <2>2
<1>. QED
  BY <1>4 DEF Fate, OneAtATime, Stays

\* What a step may do to a request, whichever step it is.
LEMMA Fates ==
    ASSUME IInv, [Next]_vars
    PROVE  (\A q \in Requests : Fate(q)) /\ OneAtATime
<1>1. CASE \E r \in Requests, m \in Messages : Arrive(r, m)
  BY <1>1, ArriveFate
<1>2. CASE Dispatch
  BY <1>2, DispatchFate DEF Dispatch
<1>3. CASE \E kind \in {"return", "error"} :
             RespondWith(kind) \/ \E s \in Slots : RespondOn(s, kind)
  BY <1>3, CurrentFate, HeldFate
<1>4. CASE \E s \in Slots : Defer(s) \/ Discard(s)
  BY <1>4, CurrentFate, HeldFate
<1>5. CASE MethodReturns \/ MethodThrows \/ Destroy
  BY <1>5, MethodFate, DestroyFate
<1>6. CASE UNCHANGED vars
  <2>1. \A q \in Requests : Stays(q)
    BY <1>6 DEF vars, Stays, Silent, Known, Kept, Becomes, WithLibdbus, Queued, IsCurrent, IsHeld
  <2>. QED
    BY <2>1 DEF Fate, OneAtATime, Stays
<1>. QED
  BY <1>1, <1>2, <1>3, <1>4, <1>5, <1>6 DEF Next
-----------------------------------------------------------------------------
(***************************************************************************)
(* No request is lost                                                      *)
(***************************************************************************)

\* The request that is dispatched is still somebody's, or it was settled.
Settled == \A r \in Requests : r = serving =>
    IsCurrent(r) \/ IsHeld(r) \/ Answered(r) \/ r \in let_go

SInv == IInv /\ Settled

\* A reply makes a request answered.
LEMMA AnsweredBy ==
    ASSUME IInv, NEW r \in Requests, Answers(r)
    PROVE  Answered(r)' /\ (replied[r] = <<>> => replied'[r] \in {<<"return">>, <<"error">>})
<1>1. PICK kind \in {"return", "error"} : replied'[r] = Append(replied[r], kind)
  BY DEF Answers
<1>2. replied[r] \in Seq({"return", "error"})
  BY DEF IInv, Types
<1>3. replied'[r] # <<>>
  <2>1. Len(replied'[r]) = Len(replied[r]) + 1 /\ Len(replied[r]) \in Nat
    BY <1>1, <1>2, AppendProperties, LenProperties
  <2>. QED
    BY <2>1, EmptySeq
<1>4. replied[r] = <<>> => replied'[r] = <<kind>>
  BY <1>1
<1>. QED
  BY <1>1, <1>3, <1>4 DEF Answered

\* A request is dispatched by making it the current one.
LEMMA ServingBegins ==
    ASSUME IInv, [Next]_vars, NEW r \in Requests, r = serving'
    PROVE  r = serving \/ IsCurrent(r)'
<1>1. r # NoRequest
  BY RequestAssumption
<1>2. ASSUME NEW q \in Requests, BeginMethod(q)
      PROVE  serving' = q /\ current_request_'.msg = q
  BY <1>2 DEF BeginMethod
<1>3. CASE \E q \in Requests : BeginMethod(q)
  BY <1>2, <1>3 DEF IsCurrent
<1>4. CASE ~\E q \in Requests : BeginMethod(q)
  <2>1. serving' \in {serving, NoRequest}
    BY <1>4 DEF Next, Dispatch, vars, Arrive, HandleDirectly, GetAllThrows, NoSuchObject,
                BadArguments, RespondWith, RespondOn, Defer, Discard, MethodReturns,
                MethodThrows, EndDispatch, Destroy
  <2>. QED
    BY <1>1, <2>1
<1>. QED
  BY <1>3, <1>4

\* Every step keeps it that the request being dispatched is somebody's or settled.
LEMMA NextSInv == SInv /\ [Next]_vars => SInv'
<1>. SUFFICES ASSUME SInv, [Next]_vars, NEW r \in Requests, r = serving'
              PROVE  IsCurrent(r)' \/ IsHeld(r)' \/ Answered(r)' \/ r \in let_go'
  BY NextIInv DEF SInv, Settled
<1>. USE DEF SInv
<1>1. CASE IsCurrent(r)'
  BY <1>1
<1>2. CASE r = serving /\ ~IsCurrent(r)'
  <2>1. IsCurrent(r) \/ IsHeld(r) \/ Answered(r) \/ r \in let_go
    BY <1>2 DEF Settled
  <2>2. WithLibdbus(r) /\ WithLibdbus(r)'
    BY <1>2 DEF WithLibdbus
  <2>3. ~Queued(r) /\ Sent(r)
    BY <1>2, <2>2 DEF IInv, QueuedFresh, UnsentFresh, Sent
  <2>4. Fate(r)
    BY Fates
  <2>5. CASE Answers(r)
    BY <2>5, AnsweredBy
  <2>6. CASE ~Answers(r)
    BY <1>2, <2>1, <2>2, <2>3, <2>4, <2>6
       DEF Fate, Stays, Arrives, IsHandled, Unwinds, Begins, Responds, IsDeferred, Overwritten,
           RespondsLater, IsDropped, Returns, Throws, Becomes, Silent, Kept, Drops, Answered
  <2>. QED
    BY <2>5, <2>6
<1>. QED
  BY <1>1, <1>2, ServingBegins

\* What makes a request unreachable without an answer.
LEMMA HowLost ==
    ASSUME SInv, [Next]_vars, NEW r \in Requests, ~Lost(r), Lost(r)'
    PROVE  Unwinds(r) \/ Overwritten(r)
<1>1. Sent(r)' /\ ~WithLibdbus(r)' /\ ~Answered(r)' /\ ~IsHeld(r)' /\ r \notin let_go'
  BY DEF Lost, Sent
<1>2. ~Answers(r)
  BY <1>1, AnsweredBy DEF SInv
<1>3. Fate(r)
  BY Fates DEF SInv
<1>4. ~Stays(r)
  BY <1>1 DEF Lost, Stays, Silent, Known, Kept, Becomes, Sent, Answered
<1>5. ~Returns(r)
  <2>. SUFFICES ASSUME Returns(r) PROVE FALSE
    OBVIOUS
  <2>1. Silent(r) /\ ~IsCurrent(r) /\ ~IsHeld(r) /\ r = serving
    BY <1>1 DEF Returns, Drops, Becomes
  <2>2. ~Answered(r) /\ r \notin let_go
    BY <1>1, <2>1 DEF Silent, Kept, Answered
  <2>. QED
    BY <2>1, <2>2 DEF SInv, Settled
<1>. QED
  BY <1>1, <1>2, <1>3, <1>4, <1>5
     DEF Fate, Arrives, IsHandled, Begins, Responds, IsDeferred, RespondsLater, IsDropped,
         Throws, Drops, Becomes

\* In the beginning no request is dispatched.
LEMMA InitSInv == Init => SInv
<1>. SUFFICES ASSUME Init PROVE Settled
  BY InitIInv DEF SInv
<1>. QED
  BY RequestAssumption DEF Init, Settled

\* The library loses no request: whatever the methods of the user answer, defer,
\* throw or destroy, a request gets out of reach unanswered only when a property
\* callback throws through the dispatch or when the user defers over it.
THEOREM NoRequestLost == Spec => NoneLost
<1>1. ASSUME SInv, [Next]_vars
      PROVE  \A r \in Requests : ~Lost(r) /\ Lost(r)' =>
                \/ ~unwound /\ unwound'
                \/ \E s \in Slots : held[s].msg = r /\ held'[s].msg \notin {r, NoRequest}
  BY <1>1, HowLost DEF Unwinds, Overwritten
<1>. QED
  BY <1>1, InitSInv, NextSInv, PTL DEF Spec, NoneLost
-----------------------------------------------------------------------------
(***************************************************************************)
(* References are exact, and the contract is kept, provided that no method *)
(* throws after it answered or deferred its request                        *)
(***************************************************************************)

\* What the user let go of is nobody's any more and was not answered.
LetGoUnowned == \A r \in Requests : r \in let_go => ~Owned(r) /\ replied[r] = <<>>

CInv == AInv /\ Settled /\ LetGoUnowned

\* A request has one owner, and the current one is being dispatched.
LEMMA OneOwner ==
    ASSUME IInv, NEW r \in Requests
    PROVE  /\ IsCurrent(r) => ~IsHeld(r) /\ r = serving /\ WithLibdbus(r) /\ replied[r] = <<>>
           /\ Queued(r) => WithLibdbus(r) /\ r # serving /\ ~Owned(r)
                              /\ replied[r] = <<>> /\ r \notin let_go
           /\ WithLibdbus(r) \/ Owned(r) => Sent(r)
           /\ refs[r] \in Int
<1>1. IsCurrent(r) => ~IsHeld(r) /\ r = serving /\ replied[r] = <<>>
  BY RequestAssumption DEF IInv, IsCurrent, IsHeld, OwnedOnce, CurrentServed
<1>2. Queued(r) => r # serving /\ ~Owned(r) /\ replied[r] = <<>> /\ r \notin let_go
  BY DEF IInv, QueuedFresh
<1>3. WithLibdbus(r) \/ Owned(r) => Sent(r)
  BY DEF IInv, UnsentFresh, Sent
<1>. QED
  BY <1>1, <1>2, <1>3 DEF WithLibdbus, IInv, Types

\* Only what was neither answered nor dropped is answered or dropped.
LEMMA SettledOnce ==
    ASSUME CInv, [Next]_vars, "throw_late" \notin Liberties, NEW r \in Requests,
           Answers(r) \/ Drops(r)
    PROVE  Silent(r) \/ (Sent(r) /\ replied[r] = <<>> /\ r \notin let_go)
<1>. USE DEF CInv, AInv
<1>1. Fate(r)
  BY Fates
<1>2. CASE Queued(r) \/ IsCurrent(r) \/ IsHeld(r)
  BY <1>2, OneOwner DEF HeldUnanswered, LetGoUnowned, Owned
<1>3. CASE ~Queued(r) /\ ~IsCurrent(r) /\ ~IsHeld(r)
  <2>1. Stays(r) \/ Arrives(r) \/ Returns(r)
    BY <1>1, <1>3 DEF Fate, IsHandled, Unwinds, Begins, Responds, IsDeferred, Overwritten,
                      RespondsLater, IsDropped, Throws, IsHeld
  <2>2. Silent(r)
    BY <1>3, <2>1 DEF Stays, Arrives, Returns, Answers, Drops, Known, Sent
  <2>. QED
    BY <2>2
<1>. QED
  BY <1>2, <1>3

\* As long as no method throws after it answered or deferred its request, every step
\* keeps the three facts together.
LEMMA NextCInv ==
    ASSUME "throw_late" \notin Liberties
    PROVE  CInv /\ [Next]_vars => CInv'
<1>. SUFFICES ASSUME CInv, [Next]_vars, NEW r \in Requests, r \in let_go'
              PROVE  ~Owned(r)' /\ replied'[r] = <<>>
  BY NextAInv, NextSInv DEF CInv, SInv, AInv, LetGoUnowned
<1>. USE DEF CInv, AInv
<1>1. Fate(r)
  BY Fates
<1>2. ~Answers(r) \/ Silent(r)
  BY SettledOnce DEF Answers, Kept
<1>3. CASE r \in let_go
  <2>1. ~Owned(r) /\ replied[r] = <<>> /\ ~Queued(r) /\ Sent(r)
    BY <1>3, OneOwner DEF LetGoUnowned, IInv, UnsentFresh, Sent
  <2>2. Stays(r) \/ Returns(r)
    BY <1>1, <2>1 DEF Fate, Arrives, IsHandled, Unwinds, Begins, Responds, IsDeferred,
                      Overwritten, RespondsLater, IsDropped, Throws, Owned, IsHeld
  <2>. QED
    BY <2>1, <2>2 DEF Stays, Returns, Silent, Drops, Becomes, Owned
<1>4. CASE r \notin let_go
  <2>1. Drops(r)
    BY <1>1, <1>4 DEF Fate, Stays, Arrives, IsHandled, Unwinds, Begins, Responds, IsDeferred,
                      Overwritten, RespondsLater, IsDropped, Returns, Throws, Silent, Answers, Kept
  <2>2. replied[r] = <<>>
    BY <1>4, <2>1, SettledOnce DEF Silent, Kept
  <2>3. ~Owned(r)'
    <3>1. IsDropped(r) \/ (Returns(r) /\ IsCurrent(r))
      BY <1>1, <1>4 DEF Fate, Stays, Arrives, IsHandled, Unwinds, Begins, Responds, IsDeferred,
                        Overwritten, RespondsLater, IsDropped, Returns, Throws, Silent, Answers,
                        Kept
    <3>2. IsCurrent(r) => ~IsHeld(r)
      BY OneOwner
    <3>. QED
      BY <3>1, <3>2 DEF IsDropped, Returns, Becomes, Owned
  <2>. QED
    BY <2>1, <2>2, <2>3 DEF Drops
<1>. QED
  BY <1>3, <1>4

\* In the beginning no request has an answer or an owner.
LEMMA InitCInv == Init => CInv
<1>. SUFFICES ASSUME Init PROVE CInv
  OBVIOUS
<1>1. HeldUnanswered /\ AnsweredOnce
  BY EmptySeq DEF Init, HeldUnanswered, AnsweredOnce
<1>2. LetGoUnowned
  BY DEF Init, LetGoUnowned
<1>. QED
  BY <1>1, <1>2, InitSInv DEF CInv, AInv, SInv

\* The references that reach a message, the lost one of a lost message included.
Reached(r) == (IF WithLibdbus(r) THEN 1 ELSE 0)
            + (IF IsCurrent(r) \/ IsHeld(r) THEN 1 ELSE 0)
            + (IF Lost(r) THEN 1 ELSE 0)

\* A step takes and gives back references exactly as it changes who holds the message.
LEMMA CountsFollow ==
    ASSUME CInv, [Next]_vars, "throw_late" \notin Liberties, NEW r \in Requests,
           refs[r] = Reached(r)
    PROVE  refs'[r] = Reached(r)'
<1>. USE DEF CInv, AInv
<1>1. Fate(r)
  BY Fates
<1>2. Owned(r) => replied[r] = <<>> /\ r \notin let_go
  BY OneOwner DEF HeldUnanswered, LetGoUnowned, Owned
<1>3. Lost(r) <=> Sent(r) /\ ~WithLibdbus(r) /\ ~Answered(r) /\ ~IsHeld(r) /\ r \notin let_go
  BY DEF Lost, Sent
<1>4. Lost(r)' <=> Sent(r)' /\ ~WithLibdbus(r)' /\ ~Answered(r)' /\ ~IsHeld(r)' /\ r \notin let_go'
  BY DEF Lost, Sent
<1>5. Answers(r) => ~Lost(r)'
  BY <1>4, AnsweredBy
<1>6. refs[r] \in Int
  BY OneOwner
<1>7. CASE Stays(r)
  BY <1>3, <1>4, <1>7 DEF Stays, Silent, Known, Kept, Becomes, Reached, Sent, Answered
<1>8. CASE Arrives(r)
  <2>1. ~Lost(r)'
    BY <1>4, <1>8 DEF Arrives, Becomes
  <2>. QED
    BY <1>8, <2>1 DEF Arrives, Becomes, Reached
<1>9. CASE IsHandled(r) \/ Responds(r) \/ RespondsLater(r) \/ Throws(r)
  <2>1. ~Lost(r) /\ ~Lost(r)'
    BY <1>3, <1>5, <1>9, OneOwner DEF IsHandled, Responds, RespondsLater, Throws, WithLibdbus
  <2>2. CASE IsHandled(r)
    BY <1>6, <2>1, <2>2, OneOwner DEF IsHandled, Becomes, Reached, Owned
  <2>3. CASE Responds(r)
    BY <1>6, <2>1, <2>3, OneOwner DEF Responds, Becomes, Reached, Owned
  <2>4. CASE RespondsLater(r)
    BY <1>6, <2>1, <2>4, OneOwner DEF RespondsLater, Becomes, Reached, Owned
  <2>5. CASE Throws(r)
    <3>1. IsCurrent(r) /\ ~IsHeld(r) /\ WithLibdbus(r) /\ refs'[r] = refs[r] - 2
      BY <2>5, OneOwner DEF Throws
    <3>. QED
      BY <1>6, <2>1, <2>5, <3>1 DEF Throws, Becomes, Reached
  <2>. QED
    BY <1>9, <2>2, <2>3, <2>4, <2>5
<1>10. CASE Unwinds(r)
  <2>1. /\ WithLibdbus(r) /\ ~IsCurrent(r) /\ ~IsHeld(r) /\ ~Lost(r) /\ Lost(r)'
        /\ refs'[r] = refs[r]
    BY <1>3, <1>4, <1>10, OneOwner
       DEF Unwinds, Silent, Known, Kept, Becomes, Sent, Answered, Owned
  <2>. QED
    BY <1>10, <2>1 DEF Unwinds, Becomes, Reached
<1>11. CASE Begins(r)
  <2>1. WithLibdbus(r) /\ ~IsCurrent(r) /\ ~IsHeld(r) /\ ~Lost(r) /\ ~Lost(r)'
    BY <1>3, <1>4, <1>11, OneOwner DEF Begins, Becomes, Owned
  <2>. QED
    BY <1>6, <1>11, <2>1 DEF Begins, Becomes, Reached
<1>12. CASE IsDeferred(r)
  <2>1. WithLibdbus(r) /\ ~Lost(r) /\ ~Lost(r)'
    BY <1>3, <1>4, <1>12, OneOwner DEF IsDeferred, Becomes
  <2>. QED
    BY <1>12, <2>1 DEF IsDeferred, Becomes, Reached
<1>13. CASE Overwritten(r)
  <2>1. IsHeld(r) /\ Owned(r)
    BY <1>13 DEF Overwritten, IsHeld, Owned
  <2>2. ~IsCurrent(r) /\ ~Lost(r) /\ Lost(r)'
    BY <1>2, <1>3, <1>4, <1>13, <2>1, OneOwner
       DEF Overwritten, Silent, Known, Kept, Becomes, Sent, Answered
  <2>. QED
    BY <1>13, <2>1, <2>2 DEF Overwritten, Becomes, Reached
<1>14. CASE IsDropped(r)
  <2>1. ~IsCurrent(r) /\ ~Lost(r) /\ ~Lost(r)'
    BY <1>3, <1>4, <1>14, OneOwner DEF IsDropped, Drops
  <2>. QED
    BY <1>6, <1>14, <2>1 DEF IsDropped, Becomes, Reached
<1>15. CASE Returns(r)
  <2>1. ~Queued(r) /\ WithLibdbus(r) /\ ~Lost(r)
    BY <1>3, <1>15, OneOwner DEF Returns, WithLibdbus
  <2>2. CASE IsCurrent(r)
    <3>1. ~IsHeld(r) /\ ~Lost(r)' /\ refs'[r] = refs[r] - 2
      BY <1>4, <1>15, <2>2, OneOwner DEF Returns, Drops
    <3>. QED
      BY <1>6, <1>15, <2>1, <2>2, <3>1 DEF Returns, Becomes, Reached
  <2>3. CASE ~IsCurrent(r)
    <3>1. IsHeld(r) \/ Answered(r) \/ r \in let_go
      BY <1>15, <2>3 DEF Settled, Returns
    <3>2. ~Lost(r)' /\ refs'[r] = refs[r] - 1
      BY <1>4, <1>15, <2>3, <3>1 DEF Returns, Becomes, Silent, Kept, Answered
    <3>. QED
      BY <1>6, <1>15, <2>1, <2>3, <3>2 DEF Returns, Becomes, Reached
  <2>. QED
    BY <2>2, <2>3
<1>. QED
  BY <1>1, <1>7, <1>8, <1>9, <1>10, <1>11, <1>12, <1>13, <1>14, <1>15 DEF Fate

\* For every number of requests and descriptors: a message has exactly the
\* references of those who can still reach it, so that none is leaked or released
\* twice by moving, answering, dropping or destroying.  The premise is needed: a
\* held request answered by a late throw is leaked when it is deferred over.
THEOREM NoLeak ==
    ASSUME "throw_late" \notin Liberties
    PROVE  Spec => []ReferencesExact
<1>1. Init => CInv /\ ReferencesExact
  <2>. SUFFICES ASSUME Init PROVE ReferencesExact
    BY InitCInv
  <2>1. inbox = <<>> /\ Len(inbox) = 0
    BY EmptySeq DEF Init
  <2>2. ASSUME NEW r \in Requests
        PROVE  /\ ~WithLibdbus(r) /\ ~IsCurrent(r) /\ ~IsHeld(r) /\ ~Lost(r)
               /\ refs[r] = 0
    BY <2>1, NoDescriptorFacts, RequestAssumption
       DEF Init, WithLibdbus, Queued, IsCurrent, IsHeld, Lost
  <2>. QED
    BY <2>2 DEF ReferencesExact
<1>2. CInv /\ ReferencesExact /\ [Next]_vars => CInv' /\ ReferencesExact'
  <2>. SUFFICES ASSUME CInv, ReferencesExact, [Next]_vars, NEW r \in Requests
                PROVE  refs'[r] = Reached(r)'
    BY NextCInv DEF ReferencesExact, Reached
  <2>1. refs[r] = Reached(r)
    BY DEF ReferencesExact, Reached
  <2>. QED
    BY <2>1, CountsFollow
<1>. QED
  BY <1>1, <1>2, PTL DEF Spec
-----------------------------------------------------------------------------
(***************************************************************************)
(* The skeleton implements RequestContract                                 *)
(***************************************************************************)
St(r) == ContractStatus[r]

\* What the contract knows of a request.
LEMMA StatusIs ==
    ASSUME NEW r \in Requests
    PROVE  /\ ~Sent(r) => St(r) = "unsent"
           /\ Sent(r) /\ replied[r] = <<>> /\ r \notin let_go => St(r) = "pending"
           /\ Sent(r) /\ replied[r] = <<>> /\ r \in let_go => St(r) = "dropped"
           /\ \A kind \in {"return", "error"} :
                 Sent(r) /\ replied[r] = <<kind>> /\ r \notin let_go => St(r) = kind
<1>1. St(r) = IF content[r] = NoMessage THEN "unsent"
              ELSE IF replied[r] = <<>> THEN IF r \in let_go THEN "dropped" ELSE "pending"
              ELSE IF Len(replied[r]) = 1 /\ r \notin let_go THEN Head(replied[r])
              ELSE "answered again"
  BY DEF St, ContractStatus
<1>2. \A kind \in {"return", "error"} : <<kind>> # <<>> /\ Len(<<kind>>) = 1 /\ Head(<<kind>>) = kind
  OBVIOUS
<1>. QED
  BY <1>1, <1>2 DEF Sent

\* The same in the next state.
LEMMA StatusNext ==
    ASSUME NEW r \in Requests
    PROVE  /\ ~Sent(r)' => St(r)' = "unsent"
           /\ Sent(r)' /\ replied'[r] = <<>> /\ r \notin let_go' => St(r)' = "pending"
           /\ Sent(r)' /\ replied'[r] = <<>> /\ r \in let_go' => St(r)' = "dropped"
           /\ \A kind \in {"return", "error"} :
                 Sent(r)' /\ replied'[r] = <<kind>> /\ r \notin let_go' => St(r)' = kind
<1>1. St(r)' = IF content'[r] = NoMessage THEN "unsent"
               ELSE IF replied'[r] = <<>> THEN IF r \in let_go' THEN "dropped" ELSE "pending"
               ELSE IF Len(replied'[r]) = 1 /\ r \notin let_go' THEN Head(replied'[r])
               ELSE "answered again"
  BY DEF St, ContractStatus
<1>2. \A kind \in {"return", "error"} : <<kind>> # <<>> /\ Len(<<kind>>) = 1 /\ Head(<<kind>>) = kind
  OBVIOUS
<1>. QED
  BY <1>1, <1>2 DEF Sent

\* What a step means for the contract, request by request.
LEMMA StatusStep ==
    ASSUME CInv, [Next]_vars, "throw_late" \notin Liberties, NEW r \in Requests
    PROVE  /\ Silent(r) => St(r)' = St(r)
           /\ ~Silent(r) => \/ St(r) = "unsent" /\ St(r)' = "pending"
                            \/ St(r) = "pending" /\ St(r)' \in Contract!Outcome
           /\ Drops(r) /\ ~Silent(r) => St(r) = "pending" /\ St(r)' = "dropped"
<1>. USE DEF CInv, AInv
<1>1. Fate(r)
  BY Fates
<1>2. Silent(r) => St(r)' = St(r)
  BY DEF Silent, Known, Kept, St, ContractStatus
<1>3. ASSUME Drops(r), ~Silent(r)
      PROVE  St(r) = "pending" /\ St(r)' = "dropped"
  <2>1. Sent(r) /\ replied[r] = <<>> /\ r \notin let_go
    BY <1>3, SettledOnce
  <2>2. Sent(r)' /\ replied'[r] = <<>> /\ r \in let_go'
    BY <1>3, <2>1 DEF Drops, Known, Sent
  <2>. QED
    BY <2>1, <2>2, StatusIs, StatusNext
<1>4. ASSUME Answers(r), ~Silent(r)
      PROVE  St(r) = "pending" /\ St(r)' \in {"return", "error"}
  <2>1. Sent(r) /\ replied[r] = <<>> /\ r \notin let_go
    BY <1>4, SettledOnce
  <2>2. Sent(r)' /\ r \notin let_go' /\ replied'[r] \in {<<"return">>, <<"error">>}
    BY <1>4, <2>1, AnsweredBy DEF Answers, Known, Kept, Sent
  <2>. QED
    BY <2>1, <2>2, StatusIs, StatusNext
<1>5. ASSUME Arrives(r)
      PROVE  St(r) = "unsent" /\ St(r)' = "pending"
  <2>1. replied[r] = <<>> /\ r \notin let_go
    BY <1>5 DEF Arrives, IInv, UnsentFresh, Sent
  <2>. QED
    BY <1>5, <2>1, StatusIs, StatusNext DEF Arrives, Kept
<1>6. Silent(r) \/ Arrives(r) \/ Answers(r) \/ Drops(r)
  BY <1>1 DEF Fate, Stays, IsHandled, Unwinds, Begins, Responds, IsDeferred, Overwritten,
              RespondsLater, IsDropped, Returns, Throws
<1>. QED
  BY <1>2, <1>3, <1>4, <1>5, <1>6 DEF Contract!Outcome

\* A request gets one answer or is dropped, and nothing happens to it after that,
\* for every number of requests and descriptors: the skeleton implements the
\* contract unless a method throws after it answered or deferred its request.
THEOREM ImplementsContract ==
    ASSUME "throw_late" \notin Liberties
    PROVE  Spec => KeepsContract
<1>1. Init => Contract!Init
  BY DEF Init, Contract!Init, ContractStatus
<1>2. ASSUME CInv, [Next]_vars
      PROVE  [Contract!Next]_ContractStatus
  <2>0. /\ DOMAIN ContractStatus = Requests /\ DOMAIN ContractStatus' = Requests
        /\ ContractStatus = [r \in Requests |-> ContractStatus[r]]
        /\ ContractStatus' = [r \in Requests |-> ContractStatus'[r]]
    BY DEF ContractStatus
  <2>1. OneAtATime
    BY <1>2, Fates DEF CInv, AInv
  <2>2. CASE \E x \in Requests : \A q \in Requests \ {x} : Silent(q)
    <3>1. PICK x \in Requests : \A q \in Requests \ {x} : Silent(q)
      BY <2>2
    <3>2. \A q \in Requests \ {x} : ContractStatus'[q] = ContractStatus[q]
      BY <1>2, <3>1, StatusStep DEF St
    <3>3. ContractStatus' = [ContractStatus EXCEPT ![x] = ContractStatus'[x]]
      BY <2>0, <3>2
    <3>4. \/ ContractStatus'[x] = ContractStatus[x]
          \/ ContractStatus[x] = "unsent" /\ ContractStatus'[x] = "pending"
          \/ ContractStatus[x] = "pending" /\ ContractStatus'[x] \in Contract!Outcome
      BY <1>2, StatusStep DEF St
    <3>5. CASE ContractStatus'[x] = ContractStatus[x]
      BY <2>0, <3>3, <3>5
    <3>6. CASE ContractStatus[x] = "unsent" /\ ContractStatus'[x] = "pending"
      BY <3>3, <3>6 DEF Contract!Next, Contract!Arrive
    <3>7. CASE ContractStatus[x] = "pending" /\ ContractStatus'[x] \in Contract!Outcome
      BY <3>3, <3>7 DEF Contract!Next, Contract!Finish
    <3>. QED
      BY <3>4, <3>5, <3>6, <3>7
  <2>3. CASE \A q \in Requests : Silent(q) \/ (IsDropped(q) /\ ~WithLibdbus(q))
    <3>. DEFINE gone == {q \in Requests : ~Silent(q)}
    <3>1. \A q \in gone : ContractStatus[q] = "pending" /\ ContractStatus'[q] = "dropped"
      BY <1>2, <2>3, StatusStep DEF St, IsDropped
    <3>2. \A q \in Requests \ gone : ContractStatus'[q] = ContractStatus[q]
      BY <1>2, StatusStep DEF St
    <3>3. gone \in SUBSET {q \in Requests : ContractStatus[q] = "pending"}
      BY <3>1
    <3>4. ContractStatus' = [q \in Requests |-> IF q \in gone THEN "dropped"
                                                ELSE ContractStatus[q]]
      BY <2>0, <3>1, <3>2
    <3>. QED
      BY <3>3, <3>4 DEF Contract!Next
  <2>. QED
    BY <2>1, <2>2, <2>3 DEF OneAtATime
<1>3. Init => CInv
  BY InitCInv
<1>4. CInv /\ [Next]_vars => CInv'
  BY NextCInv
<1>. QED
  BY <1>1, <1>2, <1>3, <1>4, PTL DEF Spec, KeepsContract, Contract!Spec
=============================================================================
