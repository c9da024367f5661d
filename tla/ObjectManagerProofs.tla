------------------------- MODULE ObjectManagerProofs -------------------------
(***************************************************************************)
(* Proofs about ObjectManager, for any number of objects, interfaces,      *)
(* deaths of the server and calls that time out: a client that has nothing *)
(* left to receive knows the objects the server manages, and of those with *)
(* one interface their properties.                                         *)
(*                                                                         *)
(* What is under way to the client is one sequence, what it has not        *)
(* handled followed by what the bus has not got.  The invariants are about *)
(* the last message in it that says something about an object.             *)
(***************************************************************************)
EXTENDS ObjectManager, SequenceTheorems, TLAPS

Messages == {InterfacesAdded(o) : o \in Objects} \cup {InterfacesRemoved(o) : o \in Objects}
                \cup {Managed(n, X) : n \in Nat, X \in SUBSET Objects}
                \cup {Failure(n) : n \in Nat} \cup {Connected, Disconnected}

Stream == queue \o outgoing

\* What a message tells of an object, a signal of its own and GetManagedObjects of all.
About(m, o)   == m.kind \in {"added", "removed"} /\ m.object = o
Telling(m, o) == About(m, o) \/ m.kind = "managed"
Told(m) == CASE m.kind = "managed" -> DOMAIN m.objects
             [] m.kind = "added"   -> {m.object}
             [] OTHER              -> {}
-----------------------------------------------------------------------------
(***************************************************************************)
(* The invariants.  s is what is under way, u whether the server runs, X   *)
(* the objects it manages and N those it did not announce; c is what the   *)
(* client was told of the connection, w the objects it knows and a the     *)
(* call it waits for.                                                      *)
(***************************************************************************)
Types ==
    /\ queue \in Seq(Messages) /\ outgoing \in Seq(Messages) /\ requests \in Seq(Nat)
    /\ up \in BOOLEAN /\ connected \in BOOLEAN
    /\ objects_ \in SUBSET Objects
    /\ serial \in Nat /\ asked \in Nat
    /\ DOMAIN view \subseteq Objects
    /\ \A o \in DOMAIN view : view[o] = serialize_object(o)

\* A server that does not run manages nothing and has nothing left to send.
DeadIsEmpty == ~up => objects_ = {} /\ outgoing = <<>>

\* Knowing of Y what it has of o is right.
Right(X, N, o, Y) == (o \in Y => o \in X) /\ (o \in X \ N => o \in Y)

Lacks(s, kind) == \A i \in DOMAIN s : s[i].kind # kind

\* s[i] was sent by the server that runs now, if one does.
Current(s, i) == \A j \in DOMAIN s : j > i => s[j].kind # "disconnected"

LastAbout(s, i, o) == \A j \in DOMAIN s : j > i => ~About(s[j], o)

\* What the server that runs says last of an object is right, unless it is an answer
\* and a signal of the object follows.
StreamRight(s, u, X, N) ==
    \A i \in DOMAIN s :
        Current(s, i) =>
            /\ s[i].kind \in {"connected", "added", "removed", "managed"} => u
            /\ \A o \in Objects :
                  Telling(s[i], o) /\ LastAbout(s, i, o) => Right(X, N, o, Told(s[i]))

\* A server that was told to be gone is, unless it is told to be back.
Alternation(s, u) ==
    \A i \in DOMAIN s :
        s[i].kind = "disconnected" /\ (\A j \in DOMAIN s : j > i => s[j].kind # "connected") => ~u

\* What the client knows is right where nothing under way tells it better.
Known(s, u, c, X, N, w, a) ==
    /\ c /\ Lacks(s, "disconnected") => u
    /\ ~c /\ Lacks(s, "connected") => ~u
    /\ ~u /\ Lacks(s, "disconnected") => w = {}
    /\ u /\ Lacks(s, "connected") /\ a = 0 =>
          \A o \in Objects : (\A i \in DOMAIN s : ~About(s[i], o)) => Right(X, N, o, w)

Good(s, u, c, X, N, w, a) ==
    StreamRight(s, u, X, N) /\ Alternation(s, u) /\ Known(s, u, c, X, N, w, a)

ViewGood == Good(Stream, up, connected, objects_, unannounced, DOMAIN view, asked)

IInv == Types /\ DeadIsEmpty /\ ViewGood
-----------------------------------------------------------------------------
(***************************************************************************)
(* What an object reports                                                  *)
(***************************************************************************)
Names(o) == {Interfaces[o][k] : k \in 1..Len(Interfaces[o])}

\* An object has at least one interface, all of different names.
LEMMA NamesDiffer ==
    ASSUME NEW o \in Objects
    PROVE  /\ Len(Interfaces[o]) \in Nat /\ Len(Interfaces[o]) > 0
           /\ \A k \in 1..Len(Interfaces[o]) : Interfaces[o][k] \in DOMAIN Properties
           /\ \A j, k \in 1..Len(Interfaces[o]) : Interfaces[o][j] = Interfaces[o][k] => j = k
<1>1. Interfaces[o] \in Seq(DOMAIN Properties)
  BY ObjectManagerAssumption
<1>. QED
  BY <1>1, ObjectManagerAssumption, LenProperties, ElementOfSeq

\* The vectors of a skeleton: the list of names runs one way, the ids the other.
LEMMA Lists ==
    ASSUME NEW o \in Objects
    PROVE  LET n == Len(Interfaces[o])
           IN /\ DOMAIN ifaces_(o) = 0..(n - 1)
              /\ \A i \in 0..(n - 1) : /\ ifaces_(o)[i] = Interfaces[o][i + 1]
                                       /\ iface(o, i) = Interfaces[o][n - i]
                                       /\ property_heads_(o)[i] = Properties[Interfaces[o][n - i]]
<1>. DEFINE n == Len(Interfaces[o])
<1>1. n \in Nat
  BY NamesDiffer
<1>2. ifaces_(o) = [i \in 0..(n - 1) |-> Interfaces[o][i + 1]]
  BY DEF ifaces_, Skeleton!ifaces_, Skeleton!Indices, Skeleton!Count
<1>3. ASSUME NEW i \in 0..(n - 1)
      PROVE  iface(o, i) = Interfaces[o][n - i]
  <2>1. iface(o, i) = ifaces_(o)[n - i - 1]
    BY DEF iface, Skeleton!iface, ifaces_, Skeleton!Count
  <2>2. n - i - 1 \in 0..(n - 1) /\ (n - i - 1) + 1 = n - i
    BY <1>1
  <2>. QED
    BY <1>2, <2>1, <2>2
<1>4. ASSUME NEW i \in 0..(n - 1)
      PROVE  property_heads_(o)[i] = Properties[Interfaces[o][n - i]]
  <2>1. property_heads_(o)[i] = Properties[Interfaces[o][CHOOSE k \in 1..n : n - k = i]]
    BY DEF property_heads_, Skeleton!property_heads_, Skeleton!Indices, Skeleton!Count,
           Skeleton!InterfaceId
  <2>2. n - i \in 1..n /\ n - (n - i) = i /\ \A k \in 1..n : n - k = i => k = n - i
    BY <1>1
  <2>3. (CHOOSE k \in 1..n : n - k = i) = n - i
    BY <2>2
  <2>. QED
    BY <2>1, <2>3
<1>. QED
  BY <1>2, <1>3, <1>4

\* Signals and answers report each interface once, with the properties of one that is
\* as far from the other end of the list.
LEMMA Serialized ==
    ASSUME NEW o \in Objects
    PROVE  LET n == Len(Interfaces[o])
           IN /\ DOMAIN serialize_object(o) = Names(o)
              /\ \A k \in 1..n : serialize_object(o)[Interfaces[o][k]]
                                     = Properties[Interfaces[o][n + 1 - k]]
              /\ DOMAIN introspect(o) = Names(o)
              /\ \A k \in 1..n : introspect(o)[Interfaces[o][k]] = Properties[Interfaces[o][k]]
              /\ InterfacesRemoved(o).interfaces = Names(o)
              /\ Names(o) # {}
<1>. DEFINE n == Len(Interfaces[o])
            index == DOMAIN ifaces_(o)
<1>1. /\ n \in Nat /\ n > 0
      /\ \A j, k \in 1..n : Interfaces[o][j] = Interfaces[o][k] => j = k
  BY NamesDiffer
<1>2. /\ index = 0..(n - 1)
      /\ \A i \in 0..(n - 1) : /\ ifaces_(o)[i] = Interfaces[o][i + 1]
                               /\ iface(o, i) = Interfaces[o][n - i]
                               /\ property_heads_(o)[i] = Properties[Interfaces[o][n - i]]
  BY Lists
<1>3. \A k \in 1..n : /\ k - 1 \in 0..(n - 1) /\ (k - 1) + 1 = k
                      /\ n - k \in 0..(n - 1) /\ n - (n - k) = k /\ n - (k - 1) = n + 1 - k
  BY <1>1
<1>4. \A i \in 0..(n - 1) : i + 1 \in 1..n /\ n - i \in 1..n
  BY <1>1
<1>. HIDE DEF n, index
<1>5. {ifaces_(o)[i] : i \in index} = Names(o)
  <2>1. \A i \in index : ifaces_(o)[i] \in Names(o)
    BY <1>2, <1>4 DEF Names, n
  <2>2. \A k \in 1..n : \E i \in index : ifaces_(o)[i] = Interfaces[o][k]
    BY <1>2, <1>3
  <2>. QED
    BY <2>1, <2>2 DEF Names, n
<1>6. {iface(o, i) : i \in index} = Names(o)
  <2>1. \A i \in index : iface(o, i) \in Names(o)
    BY <1>2, <1>4 DEF Names, n
  <2>2. \A k \in 1..n : \E i \in index : iface(o, i) = Interfaces[o][k]
    BY <1>2, <1>3
  <2>. QED
    BY <2>1, <2>2 DEF Names, n
<1>7. ASSUME NEW k \in 1..n
      PROVE  (CHOOSE i \in index : ifaces_(o)[i] = Interfaces[o][k]) = k - 1
  <2>1. k - 1 \in index /\ ifaces_(o)[k - 1] = Interfaces[o][k]
    BY <1>2, <1>3
  <2>2. ASSUME NEW i \in index, ifaces_(o)[i] = Interfaces[o][k]
        PROVE  i = k - 1
    <3>1. i + 1 \in 1..n /\ Interfaces[o][i + 1] = Interfaces[o][k] /\ i \in 0..(n - 1)
      BY <1>2, <1>4, <2>2
    <3>2. i + 1 = k
      BY <1>1, <3>1
    <3>. QED
      BY <1>1, <3>1, <3>2
  <2>. QED
    BY <2>1, <2>2
<1>8. ASSUME NEW k \in 1..n
      PROVE  (CHOOSE i \in index : iface(o, i) = Interfaces[o][k]) = n - k
  <2>1. n - k \in index /\ iface(o, n - k) = Interfaces[o][k]
    BY <1>2, <1>3
  <2>2. ASSUME NEW i \in index, iface(o, i) = Interfaces[o][k]
        PROVE  i = n - k
    <3>1. n - i \in 1..n /\ Interfaces[o][n - i] = Interfaces[o][k] /\ i \in 0..(n - 1)
      BY <1>2, <1>4, <2>2
    <3>2. n - i = k
      BY <1>1, <3>1
    <3>. QED
      BY <1>1, <3>1, <3>2
  <2>. QED
    BY <2>1, <2>2
<1>9. \A k \in 1..n : Interfaces[o][k] \in Names(o)
  BY DEF Names, n
<1>10. DOMAIN serialize_object(o) = Names(o) /\ DOMAIN introspect(o) = Names(o)
  BY <1>5, <1>6 DEF serialize_object, introspect, index
<1>11. ASSUME NEW k \in 1..n
       PROVE  serialize_object(o)[Interfaces[o][k]] = Properties[Interfaces[o][n + 1 - k]]
  <2>1. serialize_object(o)[Interfaces[o][k]] = property_heads_(o)[k - 1]
    BY <1>5, <1>7, <1>9 DEF serialize_object, index
  <2>. QED
    BY <1>2, <1>3, <2>1
<1>12. ASSUME NEW k \in 1..n
       PROVE  introspect(o)[Interfaces[o][k]] = Properties[Interfaces[o][k]]
  <2>1. introspect(o)[Interfaces[o][k]] = property_heads_(o)[n - k]
    BY <1>6, <1>8, <1>9 DEF introspect, index
  <2>. QED
    BY <1>2, <1>3, <2>1
<1>13. InterfacesRemoved(o).interfaces = Names(o)
  BY <1>5 DEF InterfacesRemoved, index
<1>14. Names(o) # {}
  <2>1. 1 \in 1..n
    BY <1>1
  <2>. QED
    BY <1>9, <2>1
<1>. QED
  BY <1>10, <1>11, <1>12, <1>13, <1>14 DEF n

\* An object with a single interface is reported as it is: read from either end, the
\* list is the same.
LEMMA SingleReported ==
    ASSUME NEW o \in Objects, Len(Interfaces[o]) = 1
    PROVE  serialize_object(o) = introspect(o)
<1>1. /\ DOMAIN serialize_object(o) = Names(o) /\ DOMAIN introspect(o) = Names(o)
      /\ serialize_object(o)[Interfaces[o][1]] = Properties[Interfaces[o][1]]
      /\ introspect(o)[Interfaces[o][1]] = Properties[Interfaces[o][1]]
  BY Serialized
<1>2. \A n \in Names(o) : n = Interfaces[o][1]
  BY DEF Names
<1>3. \A n \in Names(o) : serialize_object(o)[n] = introspect(o)[n]
  BY <1>1, <1>2
<1>4. /\ serialize_object(o) = [n \in Names(o) |-> serialize_object(o)[n]]
      /\ introspect(o) = [n \in Names(o) |-> introspect(o)[n]]
  <2>1. serialize_object(o) = [n \in DOMAIN serialize_object(o) |-> serialize_object(o)[n]]
    BY DEF serialize_object
  <2>2. introspect(o) = [n \in DOMAIN introspect(o) |-> introspect(o)[n]]
    BY DEF introspect
  <2>. QED
    BY <1>1, <2>1, <2>2
<1>. QED
  BY <1>3, <1>4
-----------------------------------------------------------------------------
(***************************************************************************)
(* Sequences: r is s with m appended, or s without its element i           *)
(***************************************************************************)
Plus(r, s, m) ==
    /\ Len(s) \in Nat /\ DOMAIN s = 1..Len(s) /\ DOMAIN r = 1..(Len(s) + 1)
    /\ \A k \in 1..Len(s) : r[k] = s[k]
    /\ r[Len(s) + 1] = m

Without(r, s, i) ==
    /\ Len(s) \in Nat /\ DOMAIN s = 1..Len(s) /\ i \in 1..Len(s) /\ DOMAIN r = 1..(Len(s) - 1)
    /\ \A k \in 1..(Len(s) - 1) : r[k] = IF k < i THEN s[k] ELSE s[k + 1]

\* A message sent behind what is under way comes last.
LEMMA SentLast ==
    ASSUME NEW S, NEW a \in Seq(S), NEW b \in Seq(S), NEW e \in S
    PROVE  /\ Append(b, e) \in Seq(S) /\ Plus(a \o Append(b, e), a \o b, e)
           /\ Append(a, e) \in Seq(S) /\ (b = <<>> => Plus(Append(a, e) \o b, a \o b, e))
<1>1. a \o b \in Seq(S) /\ Append(b, e) \in Seq(S) /\ Append(a, e) \in Seq(S)
  BY ConcatProperties, AppendProperties
<1>2. a \o Append(b, e) = Append(a \o b, e)
  <2>1. <<e>> \in Seq(S) /\ Append(b, e) = b \o <<e>> /\ Append(a \o b, e) = (a \o b) \o <<e>>
    BY <1>1, AppendIsConcat
  <2>. QED
    BY <2>1, ConcatAssociative
<1>3. ASSUME NEW q \in Seq(S)
      PROVE  Plus(Append(q, e), q, e)
  BY AppendProperties, LenProperties DEF Plus
<1>4. b = <<>> => a \o b = a /\ Append(a, e) \o b = Append(a, e)
  BY <1>1, ConcatEmptySeq
<1>. QED
  BY <1>1, <1>2, <1>3, <1>4

\* What the bus hands over is still under way.
LEMMA HandedOver ==
    ASSUME NEW S, NEW a \in Seq(S), NEW b \in Seq(S), Len(b) # 0
    PROVE  /\ Append(a, Head(b)) \in Seq(S) /\ Tail(b) \in Seq(S)
           /\ Append(a, Head(b)) \o Tail(b) = a \o b
<1>1. /\ Head(b) \in S /\ Head(b) = b[1] /\ Tail(b) \in Seq(S) /\ Len(Tail(b)) = Len(b) - 1
      /\ \A k \in 1..Len(Tail(b)) : Tail(b)[k] = b[k + 1]
  BY HeadTailProperties, EmptySeq
<1>2. PICK n \in Nat, m \in Nat : n = Len(a) /\ m = Len(b)
  BY LenProperties
<1>3. PICK x \in Seq(S), y \in Seq(S) : x = Append(a, Head(b)) /\ y = Tail(b)
  BY <1>1, AppendProperties
<1>4. /\ Len(x) = n + 1 /\ x[n + 1] = b[1]
      /\ \A k \in 1..n : x[k] = a[k]
  BY <1>1, <1>2, <1>3, AppendProperties
<1>5. Len(y) = m - 1 /\ \A k \in 1..(m - 1) : y[k] = b[k + 1]
  BY <1>1, <1>2, <1>3
<1>6. PICK c \in Seq(S), d \in Seq(S) : c = x \o y /\ d = a \o b
  BY ConcatProperties
<1>7. Len(d) = n + m /\ \A k \in 1..(n + m) : d[k] = IF k <= n THEN a[k] ELSE b[k - n]
  BY <1>2, <1>6, ConcatProperties
<1>8. Len(c) = n + m /\ \A k \in 1..(n + m) : c[k] = IF k <= n + 1 THEN x[k] ELSE y[k - (n + 1)]
  <2>1. /\ Len(c) = Len(x) + Len(y)
        /\ \A k \in 1..(Len(x) + Len(y)) : c[k] = IF k <= Len(x) THEN x[k] ELSE y[k - Len(x)]
    BY <1>6, ConcatProperties
  <2>2. Len(x) = n + 1 /\ Len(x) + Len(y) = n + m
    BY <1>4, <1>5
  <2>. QED
    BY <2>1, <2>2
<1>9. c \in [1..(n + m) -> S] /\ d \in [1..(n + m) -> S]
  BY <1>7, <1>8, LenProperties
<1>10. ASSUME NEW k \in 1..(n + m)
       PROVE  c[k] = d[k]
  <2>1. CASE k <= n
    <3>1. k \in 1..n /\ k <= n + 1
      BY <1>2, <2>1
    <3>. QED
      BY <1>4, <1>7, <1>8, <2>1, <3>1
  <2>2. CASE k = n + 1
    <3>1. ~(k <= n) /\ k <= n + 1 /\ k - n = 1
      BY <1>2, <2>2
    <3>. QED
      BY <1>4, <1>7, <1>8, <2>2, <3>1
  <2>3. CASE k > n + 1
    <3>1. PICK z \in 1..(m - 1) : z = k - (n + 1) /\ z + 1 = k - n
      <4>1. k - (n + 1) \in 1..(m - 1)
        BY <1>2, <2>3
      <4>2. (k - (n + 1)) + 1 = k - n
        BY <1>2
      <4>. QED
        BY <4>1, <4>2
    <3>2. ~(k <= n) /\ ~(k <= n + 1)
      BY <1>2, <2>3
    <3>3. c[k] = y[z]
      BY <1>8, <3>1, <3>2
    <3>4. d[k] = b[z + 1]
      BY <1>7, <3>1, <3>2
    <3>5. y[z] = b[z + 1]
      BY <1>5, <3>1
    <3>. QED
      BY <3>3, <3>4, <3>5
  <2>4. k <= n \/ k = n + 1 \/ k > n + 1
    BY <1>2
  <2>. QED
    BY <2>1, <2>2, <2>3, <2>4
<1>11. c = d
  BY <1>9, <1>10
<1>. QED
  BY <1>3, <1>6, <1>11

\* The first message is taken.
LEMMA FirstTaken ==
    ASSUME NEW S, NEW a \in Seq(S), a # <<>>
    PROVE  Tail(a) \in Seq(S) /\ Head(a) \in S /\ Head(a) = a[1] /\ Without(Tail(a), a, 1)
<1>1. /\ Head(a) \in S /\ Tail(a) \in Seq(S) /\ Len(Tail(a)) = Len(a) - 1
      /\ \A k \in 1..Len(Tail(a)) : Tail(a)[k] = a[k + 1]
  BY HeadTailProperties
<1>2. Len(a) \in Nat /\ Len(a) # 0 /\ DOMAIN a = 1..Len(a) /\ DOMAIN Tail(a) = 1..Len(Tail(a))
  BY <1>1, LenProperties, EmptySeq
<1>3. \A k \in 1..(Len(a) - 1) : ~(k < 1)
  BY <1>2
<1>. QED
  BY <1>1, <1>2, <1>3 DEF Without

\* A blocking call takes a message from the middle.
LEMMA MiddleTaken ==
    ASSUME NEW S, NEW q \in Seq(S), NEW i \in DOMAIN q
    PROVE  LET t == SubSeq(q, 1, i - 1) \o SubSeq(q, i + 1, Len(q))
           IN t \in Seq(S) /\ q[i] \in S /\ Without(t, q, i)
<1>1. Len(q) \in Nat /\ DOMAIN q = 1..Len(q) /\ i \in 1..Len(q) /\ \A k \in 1..Len(q) : q[k] \in S
  BY LenProperties, ElementOfSeq
<1>. DEFINE a == SubSeq(q, 1, i - 1)
            b == SubSeq(q, i + 1, Len(q))
<1>2. a \in Seq(S) /\ Len(a) = i - 1 /\ \A k \in 1..(i - 1) : a[k] = q[k]
  <2>1. 1 \in Int /\ i - 1 \in Int /\ \A k \in 1..(i - 1) : q[k] \in S
    BY <1>1
  <2>2. /\ a \in Seq(S) /\ Len(a) = IF 1 <= i - 1 THEN (i - 1) - 1 + 1 ELSE 0
        /\ \A k \in 1..((i - 1) - 1 + 1) : a[k] = q[1 + k - 1]
    BY <2>1, SubSeqProperties
  <2>. QED
    BY <1>1, <2>2
<1>3. b \in Seq(S) /\ Len(b) = Len(q) - i /\ \A k \in 1..(Len(q) - i) : b[k] = q[i + k]
  <2>1. i + 1 \in Int /\ Len(q) \in Int /\ \A k \in (i + 1)..Len(q) : q[k] \in S
    BY <1>1
  <2>2. /\ b \in Seq(S) /\ Len(b) = IF i + 1 <= Len(q) THEN Len(q) - (i + 1) + 1 ELSE 0
        /\ \A k \in 1..(Len(q) - (i + 1) + 1) : b[k] = q[(i + 1) + k - 1]
    BY <2>1, SubSeqProperties
  <2>. HIDE DEF b
  <2>3. Len(q) - (i + 1) + 1 = Len(q) - i /\ (i + 1 <= Len(q) \/ Len(q) - i = 0)
    BY <1>1
  <2>4. ASSUME NEW k \in 1..(Len(q) - i)
        PROVE  b[k] = q[i + k]
    <3>1. (i + 1) + k - 1 = i + k
      BY <1>1
    <3>. QED
      BY <2>2, <2>3, <3>1
  <2>5. Len(b) = Len(q) - i
    BY <2>2, <2>3
  <2>. QED
    BY <2>2, <2>4, <2>5
<1>4. /\ a \o b \in Seq(S) /\ Len(a \o b) = Len(q) - 1 /\ DOMAIN (a \o b) = 1..(Len(q) - 1)
      /\ \A k \in 1..(Len(q) - 1) : (a \o b)[k] = IF k <= i - 1 THEN a[k] ELSE b[k - (i - 1)]
  <2>1. /\ a \o b \in Seq(S) /\ Len(a \o b) = Len(a) + Len(b)
        /\ \A k \in 1..(Len(a) + Len(b)) : (a \o b)[k] = IF k <= Len(a) THEN a[k] ELSE b[k - Len(a)]
    BY <1>2, <1>3, ConcatProperties
  <2>2. DOMAIN (a \o b) = 1..Len(a \o b)
    BY <2>1, LenProperties
  <2>. HIDE DEF a, b
  <2>3. Len(a) + Len(b) = Len(q) - 1 /\ Len(a) = i - 1
    BY <1>1, <1>2, <1>3
  <2>. QED
    BY <2>1, <2>2, <2>3
<1>. HIDE DEF a, b
<1>5. ASSUME NEW k \in 1..(Len(q) - 1)
      PROVE  (a \o b)[k] = IF k < i THEN q[k] ELSE q[k + 1]
  <2>1. CASE k < i
    <3>1. k \in 1..(i - 1) /\ k <= i - 1
      BY <1>1, <2>1
    <3>. QED
      BY <1>2, <1>4, <2>1, <3>1
  <2>2. CASE ~(k < i)
    <3>1. PICK x \in 1..(Len(q) - i) : x = k - (i - 1)
      BY <1>1, <2>2
    <3>2. b[x] = q[i + x] /\ i + x = k + 1 /\ ~(k <= i - 1)
      <4>1. i + x = k + 1 /\ ~(k <= i - 1)
        BY <1>1, <2>2, <3>1
      <4>. QED
        BY <1>3, <4>1
    <3>3. (a \o b)[k] = b[x]
      BY <1>4, <3>1, <3>2
    <3>. QED
      BY <2>2, <3>2, <3>3
  <2>. QED
    BY <2>1, <2>2
<1>6. Without(a \o b, q, i)
  BY <1>1, <1>4, <1>5 DEF Without
<1>. QED
  BY <1>1, <1>4, <1>6 DEF a, b

\* What was sent later stays behind what is left.
LEMMA RestStays ==
    ASSUME NEW S, NEW t \in Seq(S), NEW a \in Seq(S), NEW b \in Seq(S), NEW i, Without(t, a, i)
    PROVE  Without(t \o b, a \o b, i)
<1>. DEFINE n == Len(a)
            m == Len(b)
            s == a \o b
            r == t \o b
<1>1. /\ n \in Nat /\ m \in Nat /\ i \in 1..n /\ DOMAIN t = 1..(n - 1)
      /\ \A k \in 1..(n - 1) : t[k] = IF k < i THEN a[k] ELSE a[k + 1]
  BY LenProperties DEF Without
<1>2. Len(t) = n - 1
  BY <1>1, LenProperties
<1>3. /\ Len(s) = n + m /\ DOMAIN s = 1..(n + m)
      /\ \A k \in 1..(n + m) : s[k] = IF k <= n THEN a[k] ELSE b[k - n]
  BY ConcatProperties, LenProperties
<1>4. /\ DOMAIN r = 1..(n + m - 1)
      /\ \A k \in 1..(n + m - 1) : r[k] = IF k <= n - 1 THEN t[k] ELSE b[k - (n - 1)]
  <2>1. /\ r \in Seq(S) /\ Len(r) = Len(t) + Len(b)
        /\ \A k \in 1..(Len(t) + Len(b)) : r[k] = IF k <= Len(t) THEN t[k] ELSE b[k - Len(t)]
    BY ConcatProperties
  <2>2. DOMAIN r = 1..Len(r)
    BY <2>1, LenProperties
  <2>3. Len(t) + Len(b) = n + m - 1
    BY <1>1, <1>2
  <2>. HIDE DEF n, m, r
  <2>. QED
    BY <1>2, <2>1, <2>2, <2>3
<1>. HIDE DEF n, m, s, r
<1>5. i \in 1..(n + m)
  BY <1>1
<1>6. ASSUME NEW k \in 1..(n + m - 1)
      PROVE  r[k] = IF k < i THEN s[k] ELSE s[k + 1]
  <2>1. CASE k < i
    <3>1. k \in 1..(n - 1) /\ k \in 1..(n + m) /\ k <= n /\ k <= n - 1
      BY <1>1, <2>1
    <3>. QED
      BY <1>1, <1>3, <1>4, <2>1, <3>1
  <2>2. CASE k >= i /\ k <= n - 1
    <3>1. PICK x \in 1..(n + m) : x = k + 1
      BY <1>1
    <3>2. s[x] = a[x] /\ t[k] = a[x]
      BY <1>1, <1>3, <2>2, <3>1
    <3>. QED
      BY <1>1, <1>4, <2>2, <3>1, <3>2
  <2>3. CASE k > n - 1
    <3>1. PICK x \in 1..(n + m) : x = k + 1
      BY <1>1
    <3>2. x - n = k - (n - 1) /\ ~(x <= n) /\ ~(k <= n - 1) /\ ~(k < i)
      BY <1>1, <2>3, <3>1
    <3>3. s[x] = b[k - (n - 1)] /\ r[k] = b[k - (n - 1)]
      BY <1>3, <1>4, <3>2
    <3>. QED
      BY <3>1, <3>2, <3>3
  <2>4. k < i \/ (k >= i /\ k <= n - 1) \/ k > n - 1
    BY <1>1
  <2>. QED
    BY <2>1, <2>2, <2>3, <2>4
<1>7. n + m \in Nat
  BY <1>1
<1>8. Without(r, s, i)
  <2>1. Len(s) = n + m /\ Len(s) - 1 = n + m - 1
    BY <1>1, <1>3
  <2>. QED
    BY <1>3, <1>4, <1>5, <1>6, <1>7, <2>1, Zenon DEF Without
<1>. QED
  BY <1>8 DEF s, r
-----------------------------------------------------------------------------
(***************************************************************************)
(* The invariant over what is sent, lost and taken                         *)
(***************************************************************************)

\* With m the server comes, or it is the one that runs that sends m.
Lives(m, u, v) ==
    /\ m.kind # "disconnected" /\ (m.kind = "connected" \/ (u <=> v))
    /\ m.kind \in {"connected", "added", "removed", "managed"} => v

\* With m the objects X, of which N are not announced, become Y and M: what m tells is
\* right, and what was right of the objects it is not about stays right.
Accounts(m, X, N, Y, M) ==
    /\ \A o \in Objects : Telling(m, o) => Right(Y, M, o, Told(m))
    /\ \A o \in Objects : \A Z : ~About(m, o) /\ Right(X, N, o, Z) => Right(Y, M, o, Z)

\* The server does something that changes what is right for the objects it tells of.
LEMMA Grown ==
    ASSUME NEW r, NEW s, NEW m, NEW u \in BOOLEAN, NEW v \in BOOLEAN, NEW c \in BOOLEAN,
           NEW X, NEW N, NEW Y, NEW M, NEW w, NEW a,
           Plus(r, s, m), Good(s, u, c, X, N, w, a), Lives(m, u, v), Accounts(m, X, N, Y, M)
    PROVE  Good(r, v, c, Y, M, w, a)
<1>. USE DEF Lives, Accounts
<1>. DEFINE n == Len(s)
<1>1. /\ n \in Nat /\ DOMAIN s = 1..n /\ DOMAIN r = 1..(n + 1)
      /\ \A k \in 1..n : r[k] = s[k]
      /\ r[n + 1] = m
  BY DEF Plus
<1>. HIDE DEF n
<1>2. \A k \in 1..n : k \in 1..(n + 1) /\ n + 1 > k
  BY <1>1
<1>3. n + 1 \in 1..(n + 1) /\ \A k \in 1..(n + 1) : k = n + 1 \/ k \in 1..n
  BY <1>1
<1>4. StreamRight(s, u, X, N) /\ Alternation(s, u) /\ Known(s, u, c, X, N, w, a)
  BY DEF Good
<1>5. u => v
  OBVIOUS
<1>6. StreamRight(r, v, Y, M)
  <2>. SUFFICES ASSUME NEW i \in DOMAIN r, Current(r, i)
                PROVE  /\ r[i].kind \in {"connected", "added", "removed", "managed"} => v
                       /\ \A o \in Objects :
                             Telling(r[i], o) /\ LastAbout(r, i, o) => Right(Y, M, o, Told(r[i]))
    BY DEF StreamRight
  <2>1. CASE i = n + 1
    BY <1>1, <2>1
  <2>2. CASE i \in 1..n
    <3>1. r[i] = s[i] /\ i \in DOMAIN s /\ Current(s, i)
      BY <1>1, <1>2, <2>2 DEF Current
    <3>2. \A o \in Objects : LastAbout(r, i, o) => LastAbout(s, i, o) /\ ~About(m, o)
      BY <1>1, <1>2, <1>3, <2>2 DEF LastAbout
    <3>3. /\ s[i].kind \in {"connected", "added", "removed", "managed"} => u
          /\ \A o \in Objects :
                Telling(s[i], o) /\ LastAbout(s, i, o) => Right(X, N, o, Told(s[i]))
      BY <1>4, <3>1 DEF StreamRight
    <3>. QED
      BY <1>5, <3>1, <3>2, <3>3
  <2>. QED
    BY <1>1, <1>3, <2>1, <2>2
<1>7. Alternation(r, v)
  <2>. SUFFICES ASSUME NEW i \in DOMAIN r, r[i].kind = "disconnected",
                       \A j \in DOMAIN r : j > i => r[j].kind # "connected"
                PROVE  ~v
    BY DEF Alternation
  <2>1. i \in 1..n
    BY <1>1, <1>3
  <2>2. s[i].kind = "disconnected" /\ \A j \in DOMAIN s : j > i => s[j].kind # "connected"
    BY <1>1, <1>2, <2>1
  <2>3. m.kind # "connected"
    BY <1>1, <1>2, <1>3, <2>1
  <2>. QED
    BY <1>1, <1>4, <2>1, <2>2, <2>3 DEF Alternation
<1>8. Known(r, v, c, Y, M, w, a)
  <2>1. \A kind : Lacks(r, kind) => Lacks(s, kind) /\ m.kind # kind
    BY <1>1, <1>2, <1>3 DEF Lacks
  <2>2. \A o : (\A i \in DOMAIN r : ~About(r[i], o)) => (\A i \in DOMAIN s : ~About(s[i], o)) /\ ~About(m, o)
    BY <1>1, <1>2, <1>3
  <2>3. ASSUME v, Lacks(r, "connected"), a = 0, NEW o \in Objects, \A i \in DOMAIN r : ~About(r[i], o)
        PROVE  Right(Y, M, o, w)
    <3>1. u /\ Lacks(s, "connected")
      BY <2>1, <2>3
    <3>2. (\A i \in DOMAIN s : ~About(s[i], o)) /\ ~About(m, o)
      BY <2>2, <2>3
    <3>3. Right(X, N, o, w)
      BY <1>4, <2>3, <3>1, <3>2 DEF Known
    <3>. QED
      BY <3>2, <3>3
  <2>4. c /\ Lacks(r, "disconnected") => v
    BY <1>4, <1>5, <2>1 DEF Known
  <2>5. ~c /\ Lacks(r, "connected") => ~v
    BY <1>4, <2>1 DEF Known
  <2>6. ~v /\ Lacks(r, "disconnected") => w = {}
    BY <1>4, <1>5, <2>1 DEF Known
  <2>. QED
    BY <2>3, <2>4, <2>5, <2>6 DEF Known
<1>. QED
  BY <1>6, <1>7, <1>8 DEF Good

\* An object that could not be announced: nothing is sent.
LEMMA Unsaid ==
    ASSUME NEW s, NEW u \in BOOLEAN, NEW c \in BOOLEAN, NEW X, NEW N, NEW Y, NEW M, NEW w, NEW a,
           Good(s, u, c, X, N, w, a),
           \A o \in Objects : \A Z : Right(X, N, o, Z) => Right(Y, M, o, Z)
    PROVE  Good(s, u, c, Y, M, w, a)
<1>1. StreamRight(s, u, Y, M)
  BY DEF Good, StreamRight
<1>2. Known(s, u, c, Y, M, w, a)
  BY DEF Good, Known
<1>. QED
  BY <1>1, <1>2 DEF Good

\* The server dies: of what is still under way only failures are new.
LEMMA Died ==
    ASSUME NEW r, NEW d \in DOMAIN r, r[d].kind = "disconnected",
           \A j \in DOMAIN r : j \in Int /\ (j > d => r[j].kind = "failed"),
           NEW c \in BOOLEAN, NEW X, NEW N, NEW w, NEW a
    PROVE  Good(r, FALSE, c, X, N, w, a)
<1>1. \A i \in DOMAIN r : Current(r, i) => i = d \/ i > d
  BY DEF Current
<1>2. StreamRight(r, FALSE, X, N)
  <2>. SUFFICES ASSUME NEW i \in DOMAIN r, Current(r, i)
                PROVE  /\ r[i].kind \notin {"connected", "added", "removed", "managed"}
                       /\ \A o \in Objects : ~Telling(r[i], o)
    BY DEF StreamRight
  <2>1. r[i].kind \in {"disconnected", "failed"}
    BY <1>1
  <2>. QED
    BY <2>1 DEF Telling, About
<1>3. Alternation(r, FALSE)
  BY DEF Alternation
<1>4. ~Lacks(r, "disconnected")
  BY DEF Lacks
<1>5. Known(r, FALSE, c, X, N, w, a)
  BY <1>4 DEF Known
<1>. QED
  BY <1>2, <1>3, <1>5 DEF Good

\* What is taken is the first message, or says nothing that others rely on.
Taken(r, s, i) == Without(r, s, i) /\ (i = 1 \/ s[i].kind \in {"managed", "failed"})

\* Which messages are left, and in which order.
LEMMA Left ==
    ASSUME NEW r, NEW s, NEW i, Without(r, s, i)
    PROVE  /\ \A k \in DOMAIN r : \E l \in DOMAIN s :
                 /\ l # i /\ r[k] = s[l] /\ (i = 1 => l > i)
                 /\ \A j \in DOMAIN s : j > l /\ j # i => \E e \in DOMAIN r : e > k /\ r[e] = s[j]
           /\ \A j \in DOMAIN s : j # i => \E e \in DOMAIN r : r[e] = s[j]
           /\ i \in DOMAIN s /\ (i = 1 => \A j \in DOMAIN s : j # i => j > i)
<1>. DEFINE n == Len(s)
<1>1. /\ n \in Nat /\ DOMAIN s = 1..n /\ i \in 1..n /\ DOMAIN r = 1..(n - 1)
      /\ \A k \in 1..(n - 1) : r[k] = IF k < i THEN s[k] ELSE s[k + 1]
  BY DEF Without
<1>. HIDE DEF n
<1>2. ASSUME NEW k \in 1..(n - 1)
      PROVE  \E l \in DOMAIN s :
                 /\ l # i /\ r[k] = s[l] /\ (i = 1 => l > i)
                 /\ l = IF k < i THEN k ELSE k + 1
  <2>1. CASE k < i
    BY <1>1, <2>1
  <2>2. CASE ~(k < i)
    BY <1>1, <2>2
  <2>. QED
    BY <2>1, <2>2
<1>3. ASSUME NEW j \in 1..n, j # i
      PROVE  \E e \in DOMAIN r : r[e] = s[j] /\ e = IF j < i THEN j ELSE j - 1
  <2>1. CASE j < i
    <3>1. j \in 1..(n - 1)
      BY <1>1, <2>1
    <3>. QED
      BY <1>1, <2>1, <3>1
  <2>2. CASE ~(j < i)
    <3>1. PICK e \in 1..(n - 1) : e = j - 1
      BY <1>1, <1>3, <2>2
    <3>2. ~(e < i) /\ e + 1 = j
      BY <1>1, <1>3, <2>2, <3>1
    <3>3. r[e] = s[j]
      BY <1>1, <3>2
    <3>. QED
      BY <1>1, <2>2, <3>1, <3>3
  <2>. QED
    BY <2>1, <2>2
<1>4. ASSUME NEW k \in DOMAIN r
      PROVE  \E l \in DOMAIN s :
                 /\ l # i /\ r[k] = s[l] /\ (i = 1 => l > i)
                 /\ \A j \in DOMAIN s : j > l /\ j # i => \E e \in DOMAIN r : e > k /\ r[e] = s[j]
  <2>1. k \in 1..(n - 1)
    BY <1>1
  <2>2. PICK l \in DOMAIN s : /\ l # i /\ r[k] = s[l] /\ (i = 1 => l > i)
                              /\ l = IF k < i THEN k ELSE k + 1
    BY <1>2, <2>1
  <2>3. ASSUME NEW j \in DOMAIN s, j > l, j # i
        PROVE  \E e \in DOMAIN r : e > k /\ r[e] = s[j]
    <3>1. j \in 1..n
      BY <1>1
    <3>2. PICK e \in DOMAIN r : r[e] = s[j] /\ e = IF j < i THEN j ELSE j - 1
      BY <1>3, <2>3, <3>1
    <3>3. e > k
      BY <1>1, <2>1, <2>2, <2>3, <3>1, <3>2
    <3>. QED
      BY <3>2, <3>3
  <2>. QED
    BY <2>2, <2>3
<1>5. \A j \in DOMAIN s : j # i => \E e \in DOMAIN r : r[e] = s[j]
  BY <1>1, <1>3
<1>6. i \in DOMAIN s /\ (i = 1 => \A j \in DOMAIN s : j # i => j > i)
  BY <1>1
<1>. QED
  BY <1>4, <1>5, <1>6

\* What the stream says stays right.
LEMMA Shrunk ==
    ASSUME NEW r, NEW s, NEW i, Taken(r, s, i), NEW u \in BOOLEAN, NEW X, NEW N,
           StreamRight(s, u, X, N), Alternation(s, u)
    PROVE  StreamRight(r, u, X, N) /\ Alternation(r, u)
<1>1. Without(r, s, i) /\ (i = 1 \/ s[i].kind \in {"managed", "failed"})
  BY DEF Taken
<1>2. ASSUME NEW k \in DOMAIN r
      PROVE  \E l \in DOMAIN s :
                 /\ l # i /\ r[k] = s[l] /\ (i = 1 => l > i)
                 /\ \A j \in DOMAIN s : j > l /\ j # i => \E e \in DOMAIN r : e > k /\ r[e] = s[j]
  BY <1>1, Left
<1>3. ASSUME NEW k \in DOMAIN r, Current(r, k)
      PROVE  /\ r[k].kind \in {"connected", "added", "removed", "managed"} => u
             /\ \A o \in Objects :
                   Telling(r[k], o) /\ LastAbout(r, k, o) => Right(X, N, o, Told(r[k]))
  <2>1. PICK l \in DOMAIN s :
                 /\ l # i /\ r[k] = s[l] /\ (i = 1 => l > i)
                 /\ \A j \in DOMAIN s : j > l /\ j # i => \E e \in DOMAIN r : e > k /\ r[e] = s[j]
    BY <1>2
  <2>2. \A j \in DOMAIN s : j > l => \/ j = i /\ s[j].kind \in {"managed", "failed"}
                                     \/ \E e \in DOMAIN r : e > k /\ r[e] = s[j]
    BY <1>1, <2>1, Left DEF Without
  <2>3. Current(s, l)
    BY <1>3, <2>2 DEF Current
  <2>4. \A o \in Objects : LastAbout(r, k, o) => LastAbout(s, l, o)
    BY <2>2 DEF LastAbout, About
  <2>5. /\ s[l].kind \in {"connected", "added", "removed", "managed"} => u
        /\ \A o \in Objects : Telling(s[l], o) /\ LastAbout(s, l, o) => Right(X, N, o, Told(s[l]))
    BY <2>3 DEF StreamRight
  <2>. QED
    BY <2>1, <2>4, <2>5
<1>4. ASSUME NEW k \in DOMAIN r, r[k].kind = "disconnected",
             \A j \in DOMAIN r : j > k => r[j].kind # "connected"
      PROVE  ~u
  <2>1. PICK l \in DOMAIN s :
                 /\ l # i /\ r[k] = s[l] /\ (i = 1 => l > i)
                 /\ \A j \in DOMAIN s : j > l /\ j # i => \E e \in DOMAIN r : e > k /\ r[e] = s[j]
    BY <1>2
  <2>2. \A j \in DOMAIN s : j > l => \/ j = i /\ s[j].kind \in {"managed", "failed"}
                                     \/ \E e \in DOMAIN r : e > k /\ r[e] = s[j]
    BY <1>1, <2>1, Left DEF Without
  <2>3. \A j \in DOMAIN s : j > l => s[j].kind # "connected"
    BY <1>4, <2>2
  <2>. QED
    BY <1>4, <2>1, <2>3 DEF Alternation
<1>. QED
  BY <1>3, <1>4 DEF StreamRight, Alternation

\* What is still under way when s[i] has been taken.
LEMMA Rest ==
    ASSUME NEW r, NEW s, NEW i, Taken(r, s, i)
    PROVE  /\ i \in DOMAIN s
           /\ \A kind : Lacks(r, kind) /\ s[i].kind # kind => Lacks(s, kind)
           /\ Lacks(r, "disconnected") => Current(s, i)
           /\ \A o : (\A k \in DOMAIN r : ~About(r[k], o)) =>
                 /\ LastAbout(s, i, o)
                 /\ ~About(s[i], o) => \A j \in DOMAIN s : ~About(s[j], o)
<1>1. /\ i \in DOMAIN s /\ \A j \in DOMAIN s : j > i => j # i
      /\ \A j \in DOMAIN s : j # i => \E e \in DOMAIN r : r[e] = s[j]
  <2>1. Without(r, s, i)
    BY DEF Taken
  <2>2. \A j \in DOMAIN s : j > i => j # i
    BY <2>1 DEF Without
  <2>. QED
    BY <2>1, <2>2, Left
<1>. QED
  BY <1>1 DEF Lacks, Current, LastAbout

\* While the server runs and nothing says that it came, nothing says that it went.
LEMMA StillUp ==
    ASSUME NEW s, NEW u \in BOOLEAN, Alternation(s, u), u, Lacks(s, "connected")
    PROVE  Lacks(s, "disconnected")
BY DEF Alternation, Lacks

\* A client told that the server came asks for its objects, or is owed the answer.
LEMMA ConnectedTaken ==
    ASSUME NEW r, NEW s, NEW u \in BOOLEAN, NEW c \in BOOLEAN,
           NEW X, NEW N, NEW w, NEW a, NEW b,
           Taken(r, s, 1), Good(s, u, c, X, N, w, a), s[1].kind = "connected", b # 0
    PROVE  Good(r, u, TRUE, X, N, w, b)
<1>1. StreamRight(s, u, X, N) /\ Alternation(s, u) /\ Known(s, u, c, X, N, w, a)
  BY DEF Good
<1>2. StreamRight(r, u, X, N) /\ Alternation(r, u)
  BY <1>1, Shrunk
<1>3. /\ 1 \in DOMAIN s
      /\ Lacks(r, "disconnected") => Lacks(s, "disconnected") /\ Current(s, 1)
  BY Rest
<1>4. Lacks(r, "disconnected") => u
  BY <1>1, <1>3 DEF StreamRight
<1>5. ~u /\ Lacks(r, "disconnected") => w = {}
  BY <1>1, <1>3 DEF Known
<1>. QED
  BY <1>2, <1>4, <1>5 DEF Good, Known

\* A client told that the server went knows nothing, and nothing is expected of it.
LEMMA DisconnectedTaken ==
    ASSUME NEW r, NEW s, Taken(r, s, 1), NEW u \in BOOLEAN, NEW c \in BOOLEAN,
           NEW X, NEW N, NEW w, NEW a, Good(s, u, c, X, N, w, a),
           s[1].kind = "disconnected"
    PROVE  Good(r, u, FALSE, X, N, {}, a)
<1>1. StreamRight(s, u, X, N) /\ Alternation(s, u) /\ Known(s, u, c, X, N, w, a)
  BY DEF Good
<1>2. StreamRight(r, u, X, N) /\ Alternation(r, u)
  BY <1>1, Shrunk
<1>3. 1 \in DOMAIN s /\ (Lacks(r, "connected") => Lacks(s, "connected"))
  BY Rest
<1>4. Lacks(r, "connected") => ~u
  BY <1>1, <1>3 DEF Alternation, Lacks
<1>. QED
  BY <1>2, <1>4 DEF Good, Known

\* A signal of an object, or the answer the client waits for.
LEMMA TellingTaken ==
    ASSUME NEW r, NEW s, NEW i, Taken(r, s, i), NEW u \in BOOLEAN, NEW c \in BOOLEAN,
           NEW X, NEW N, NEW w, NEW v, NEW a, NEW b, Good(s, u, c, X, N, w, a),
           s[i].kind \in {"added", "removed", "managed"},
           s[i].kind = "managed" \/ b = a,
           \A o \in Objects : IF Telling(s[i], o) THEN o \in v <=> o \in Told(s[i])
                                                  ELSE o \in v <=> o \in w
    PROVE  Good(r, u, c, X, N, v, b)
<1>1. StreamRight(s, u, X, N) /\ Alternation(s, u) /\ Known(s, u, c, X, N, w, a)
  BY DEF Good
<1>2. StreamRight(r, u, X, N) /\ Alternation(r, u)
  BY <1>1, Shrunk
<1>3. /\ i \in DOMAIN s
      /\ Lacks(r, "disconnected") => Lacks(s, "disconnected") /\ Current(s, i)
      /\ Lacks(r, "connected") => Lacks(s, "connected")
      /\ \A o : (\A k \in DOMAIN r : ~About(r[k], o)) =>
            /\ LastAbout(s, i, o)
            /\ ~About(s[i], o) => \A j \in DOMAIN s : ~About(s[j], o)
  BY Rest
<1>4. Lacks(r, "disconnected") => u
  BY <1>1, <1>3 DEF StreamRight
<1>5. ~c /\ Lacks(r, "connected") => ~u
  BY <1>1, <1>3 DEF Known
<1>6. ASSUME u, Lacks(r, "connected"), b = 0, NEW o \in Objects, \A k \in DOMAIN r : ~About(r[k], o)
      PROVE  Right(X, N, o, v)
  <2>1. Current(s, i)
    <3>1. Lacks(s, "connected")
      BY <1>3, <1>6
    <3>2. Lacks(s, "disconnected")
      BY <1>1, <1>6, <3>1, StillUp
    <3>. QED
      BY <3>2 DEF Lacks, Current
  <2>2. CASE Telling(s[i], o)
    <3>1. Right(X, N, o, Told(s[i]))
      BY <1>1, <1>3, <1>6, <2>1, <2>2 DEF StreamRight
    <3>. QED
      BY <2>2, <3>1 DEF Right
  <2>3. CASE ~Telling(s[i], o)
    <3>1. \A j \in DOMAIN s : ~About(s[j], o)
      BY <1>3, <1>6, <2>3 DEF Telling
    <3>2. a = 0
      BY <1>6, <2>3 DEF Telling
    <3>3. Right(X, N, o, w)
      BY <1>1, <1>3, <1>6, <3>1, <3>2 DEF Known
    <3>. QED
      BY <2>3, <3>3 DEF Right
  <2>. QED
    BY <2>2, <2>3
<1>. QED
  BY <1>2, <1>4, <1>5, <1>6 DEF Good, Known

\* A call that ends without an answer is made again or the client is not connected.
LEMMA CallEnds ==
    ASSUME NEW s, NEW u \in BOOLEAN, NEW c \in BOOLEAN, NEW X, NEW N, NEW w, NEW a, NEW b,
           Good(s, u, c, X, N, w, a), b = a \/ b # 0 \/ ~c
    PROVE  Good(s, u, c, X, N, w, b)
BY DEF Good, Known

\* A message nobody waits for, or a failure.
LEMMA OthersTaken ==
    ASSUME NEW r, NEW s, NEW i, Taken(r, s, i), NEW u \in BOOLEAN, NEW c \in BOOLEAN,
           NEW X, NEW N, NEW w, NEW a, Good(s, u, c, X, N, w, a),
           s[i].kind \in {"managed", "failed"}
    PROVE  Good(r, u, c, X, N, w, a)
<1>1. StreamRight(s, u, X, N) /\ Alternation(s, u) /\ Known(s, u, c, X, N, w, a)
  BY DEF Good
<1>2. StreamRight(r, u, X, N) /\ Alternation(r, u)
  BY <1>1, Shrunk
<1>3. /\ Lacks(r, "disconnected") => Lacks(s, "disconnected")
      /\ Lacks(r, "connected") => Lacks(s, "connected")
      /\ \A o : (\A k \in DOMAIN r : ~About(r[k], o)) => \A j \in DOMAIN s : ~About(s[j], o)
  BY Rest DEF About
<1>4. Known(r, u, c, X, N, w, a)
  BY <1>1, <1>3 DEF Known
<1>. QED
  BY <1>2, <1>4 DEF Good
-----------------------------------------------------------------------------
(***************************************************************************)
(* Messages                                                                *)
(***************************************************************************)
\* What a message of each kind is, and what it tells of an object.
LEMMA Kinds ==
    ASSUME NEW m \in Messages
    PROVE  /\ m.kind \in {"connected", "disconnected", "added", "removed", "managed", "failed"}
           /\ m.kind = "added" => m.object \in Objects /\ m.interfaces = serialize_object(m.object)
           /\ m.kind = "removed" => m.object \in Objects /\ m.interfaces = Names(m.object)
           /\ m.kind = "managed" =>
                 /\ DOMAIN m.objects \subseteq Objects
                 /\ \A o \in DOMAIN m.objects : m.objects[o] = serialize_object(o)
<1>1. CASE m \in {InterfacesAdded(o) : o \in Objects}
  BY <1>1 DEF InterfacesAdded
<1>2. CASE m \in {InterfacesRemoved(o) : o \in Objects}
  <2>1. PICK o \in Objects : m = InterfacesRemoved(o)
    BY <1>2
  <2>2. m.interfaces = Names(o)
    BY <2>1, Serialized
  <2>. QED
    BY <2>1, <2>2 DEF InterfacesRemoved
<1>3. CASE m \in {Managed(n, X) : n \in Nat, X \in SUBSET Objects}
  BY <1>3 DEF Managed
<1>4. CASE m \in {Failure(n) : n \in Nat} \cup {Connected, Disconnected}
  BY <1>4 DEF Failure, Connected, Disconnected
<1>. QED
  BY <1>1, <1>2, <1>3, <1>4 DEF Messages

\* What the server and the bus send.
LEMMA Sent ==
    /\ \A o \in Objects : /\ InterfacesAdded(o) \in Messages /\ InterfacesRemoved(o) \in Messages
                          /\ InterfacesAdded(o).kind = "added" /\ InterfacesAdded(o).object = o
                          /\ InterfacesRemoved(o).kind = "removed"
                          /\ InterfacesRemoved(o).object = o
    /\ \A n \in Nat, X \in SUBSET Objects :
          /\ Managed(n, X) \in Messages /\ Managed(n, X).kind = "managed"
          /\ DOMAIN Managed(n, X).objects = X
    /\ \A n \in Nat : Failure(n) \in Messages /\ Failure(n).kind = "failed"
    /\ Connected \in Messages /\ Connected.kind = "connected"
    /\ Disconnected \in Messages /\ Disconnected.kind = "disconnected"
<1>1. \A o \in Objects : /\ InterfacesAdded(o) \in Messages /\ InterfacesRemoved(o) \in Messages
                         /\ InterfacesAdded(o).kind = "added" /\ InterfacesAdded(o).object = o
                         /\ InterfacesRemoved(o).kind = "removed"
                         /\ InterfacesRemoved(o).object = o
  <2>1. ASSUME NEW o \in Objects
        PROVE  /\ InterfacesAdded(o).kind = "added" /\ InterfacesAdded(o).object = o
               /\ InterfacesRemoved(o).kind = "removed" /\ InterfacesRemoved(o).object = o
    BY DEF InterfacesAdded, InterfacesRemoved
  <2>. QED
    BY <2>1 DEF Messages
<1>2. \A n \in Nat, X \in SUBSET Objects :
          /\ Managed(n, X) \in Messages /\ Managed(n, X).kind = "managed"
          /\ DOMAIN Managed(n, X).objects = X
  <2>1. ASSUME NEW n \in Nat, NEW X \in SUBSET Objects
        PROVE  Managed(n, X).kind = "managed" /\ DOMAIN Managed(n, X).objects = X
    BY DEF Managed
  <2>. QED
    BY <2>1 DEF Messages
<1>3. \A n \in Nat : Failure(n) \in Messages /\ Failure(n).kind = "failed"
  <2>1. \A n \in Nat : Failure(n).kind = "failed"
    BY DEF Failure
  <2>. QED
    BY <2>1 DEF Messages
<1>4. /\ Connected \in Messages /\ Connected.kind = "connected"
      /\ Disconnected \in Messages /\ Disconnected.kind = "disconnected"
  BY DEF Messages, Connected, Disconnected
<1>. QED
  BY <1>1, <1>2, <1>3, <1>4
-----------------------------------------------------------------------------
(***************************************************************************)
(* The steps of the server and the bus                                     *)
(***************************************************************************)
\* Before the server starts nothing is known and nothing under way.
LEMMA InitIInv == Init => IInv
<1>. SUFFICES ASSUME Init PROVE IInv
  OBVIOUS
<1>1. queue = <<>> /\ outgoing = <<>> /\ requests = <<>> /\ DOMAIN view = {}
  BY DEF Init, NothingKnown
<1>2. Types
  BY <1>1, EmptySeq DEF Init, Types
<1>3. <<>> \o <<>> = <<>> /\ DOMAIN <<>> = {}
  <2>1. <<>> \in Seq(Messages) /\ Len(<<>>) = 0
    BY EmptySeq
  <2>2. <<>> \o <<>> = <<>>
    BY <2>1, ConcatEmptySeq
  <2>3. DOMAIN <<>> = 1..0
    BY <2>1, LenProperties
  <2>. QED
    BY <2>2, <2>3
<1>4. Good(<<>>, FALSE, FALSE, {}, {}, {}, 0)
  BY <1>3 DEF Good, StreamRight, Alternation, Known, Right
<1>5. ViewGood
  <2>1. /\ up = FALSE /\ connected = FALSE /\ objects_ = {} /\ unannounced = {} /\ asked = 0
        /\ Stream = <<>>
    BY <1>1, <1>3 DEF Init, Stream
  <2>. QED
    BY <1>1, <1>4, <2>1 DEF ViewGood
<1>. QED
  BY <1>2, <1>5 DEF IInv, DeadIsEmpty, Init

\* The server starts: all that is under way was sent before it did.
LEMMA StartStep ==
    ASSUME IInv, Start
    PROVE  IInv'
<1>1. Types /\ outgoing = <<>> /\ ~up /\ up' = TRUE
  BY DEF IInv, DeadIsEmpty, Start
<1>2. /\ queue' = Append(queue, Connected)
      /\ UNCHANGED <<objects_, unannounced, requests, outgoing, connected, view, serial, asked>>
  BY DEF Start, client
<1>3. /\ queue' \in Seq(Messages)
      /\ Plus(queue' \o outgoing, Stream, Connected)
  BY <1>1, <1>2, Sent, SentLast DEF Types, Stream
<1>4. Types' /\ DeadIsEmpty'
  BY <1>1, <1>2, <1>3 DEF Types, DeadIsEmpty
<1>5. Good(queue' \o outgoing, TRUE, connected, objects_, unannounced, DOMAIN view, asked)
  <2>1. up \in BOOLEAN /\ connected \in BOOLEAN /\ Connected.kind = "connected"
    BY <1>1, Sent DEF Types
  <2>2. Good(Stream, up, connected, objects_, unannounced, DOMAIN view, asked)
    BY DEF IInv, ViewGood
  <2>3. Lives(Connected, up, TRUE)
    BY <2>1 DEF Lives
  <2>4. Accounts(Connected, objects_, unannounced, objects_, unannounced)
    BY <2>1 DEF Accounts, Telling, About
  <2>5. PICK u \in BOOLEAN, v \in BOOLEAN, c \in BOOLEAN : u = up /\ v = TRUE /\ c = connected
    BY <2>1
  <2>6. PICK m, r, s : m = Connected /\ r = queue' \o outgoing /\ s = Stream
    OBVIOUS
  <2>7. PICK x, n, w, a : x = objects_ /\ n = unannounced /\ w = DOMAIN view /\ a = asked
    OBVIOUS
  <2>8. Good(s, u, c, x, n, w, a) /\ Lives(m, u, v) /\ Accounts(m, x, n, x, n) /\ Plus(r, s, m)
    BY <1>3, <2>2, <2>3, <2>4, <2>5, <2>6, <2>7
  <2>9. Good(r, v, c, x, n, w, a)
    BY <2>8, Grown
  <2>. QED
    BY <2>9, <2>5, <2>6, <2>7
<1>6. ViewGood'
  BY <1>1, <1>2, <1>5 DEF ViewGood, Stream
<1>. QED
  BY <1>4, <1>6 DEF IInv

\* The server sends m, and its objects change by that.
LEMMA SendStep ==
    ASSUME IInv, up, NEW m \in Messages, m.kind \in {"added", "removed", "managed"},
           outgoing' = Append(outgoing, m), objects_' \in SUBSET Objects,
           UNCHANGED <<up, queue, client>>, requests' \in Seq(Nat),
           \A o \in Objects : Telling(m, o) => Right(objects_', unannounced', o, Told(m)),
           \A o \in Objects : ~About(m, o) =>
              (o \in objects_' <=> o \in objects_) /\ (o \in unannounced' <=> o \in unannounced)
    PROVE  IInv'
<1>1. Types /\ UNCHANGED <<connected, view, serial, asked>>
  BY DEF IInv, client
<1>2. outgoing' \in Seq(Messages) /\ Plus(queue \o outgoing', Stream, m)
  BY <1>1, SentLast DEF Types, Stream
<1>3. Types' /\ DeadIsEmpty'
  BY <1>1, <1>2 DEF Types, DeadIsEmpty
<1>. DEFINE X == objects_'
            N == unannounced'
<1>4. Good(queue \o outgoing', up, connected, X, N, DOMAIN view, asked)
  <2>1. up \in BOOLEAN /\ connected \in BOOLEAN
    BY <1>1 DEF Types
  <2>2. Good(Stream, up, connected, objects_, unannounced, DOMAIN view, asked)
    BY DEF IInv, ViewGood
  <2>3. Accounts(m, objects_, unannounced, X, N)
    BY DEF Accounts, Right
  <2>4. Lives(m, up, up)
    BY DEF Lives
  <2>. HIDE DEF X, N
  <2>5. PICK r, s : r = queue \o outgoing' /\ s = Stream
    OBVIOUS
  <2>6. PICK u \in BOOLEAN, c \in BOOLEAN : u = up /\ c = connected
    BY <2>1
  <2>7. PICK x, n, y, k : x = objects_ /\ n = unannounced /\ y = X /\ k = N
    OBVIOUS
  <2>8. PICK w, a : w = DOMAIN view /\ a = asked
    OBVIOUS
  <2>9. Good(s, u, c, x, n, w, a) /\ Lives(m, u, u) /\ Accounts(m, x, n, y, k) /\ Plus(r, s, m)
    BY <1>2, <2>2, <2>3, <2>4, <2>5, <2>6, <2>7, <2>8
  <2>10. Good(r, u, c, y, k, w, a)
    BY <2>9, Grown
  <2>. QED
    BY <2>10, <2>5, <2>6, <2>7, <2>8
<1>5. ViewGood'
  BY <1>1, <1>4 DEF ViewGood, Stream
<1>. QED
  BY <1>3, <1>5 DEF IInv

\* An object is announced, or inserted without a word if serialising it throws.
LEMMA AddStep ==
    ASSUME IInv, NEW o \in Objects, add_managed_object(o)
    PROVE  IInv'
<1>1. /\ up /\ objects_' = objects_ \cup {o}
      /\ UNCHANGED <<up, requests, queue, client>>
      /\ UNCHANGED <<connected, view, serial, asked>> /\ Types
  BY DEF add_managed_object, IInv, client
<1>2. objects_' \in SUBSET Objects
  BY <1>1 DEF Types
<1>3. CASE outgoing' = Append(outgoing, InterfacesAdded(o)) /\ unannounced' = unannounced \ {o}
  <2>. DEFINE m == InterfacesAdded(o)
  <2>1. m \in Messages /\ m.kind = "added" /\ m.object = o
    BY Sent
  <2>. HIDE DEF m
  <2>2. /\ \A x \in Objects : Telling(m, x) => x = o
        /\ \A x \in Objects : ~About(m, x) => x # o
        /\ Told(m) = {o}
    BY <2>1 DEF Telling, About, Told
  <2>3. \A x \in Objects : Telling(m, x) => Right(objects_', unannounced', x, Told(m))
    BY <1>1, <1>3, <2>2 DEF Right
  <2>4. \A x \in Objects : ~About(m, x) =>
           (x \in objects_' <=> x \in objects_) /\ (x \in unannounced' <=> x \in unannounced)
    BY <1>1, <1>3, <2>2
  <2>5. requests' \in Seq(Nat) /\ outgoing' = Append(outgoing, m)
    BY <1>1, <1>3 DEF Types, m
  <2>. QED
    BY <1>1, <1>2, <2>1, <2>3, <2>4, <2>5, SendStep
<1>4. CASE /\ unannounced' = IF o \in objects_ THEN unannounced ELSE unannounced \cup {o}
           /\ UNCHANGED outgoing
  <2>1. Types' /\ DeadIsEmpty'
    BY <1>1, <1>2, <1>4 DEF Types, DeadIsEmpty
  <2>. DEFINE X == objects_'
              N == unannounced'
  <2>2. \A x \in Objects : \A Z : Right(objects_, unannounced, x, Z) => Right(X, N, x, Z)
    BY <1>1, <1>4 DEF Right
  <2>3. Good(Stream, up, connected, X, N, DOMAIN view, asked)
    <3>1. up \in BOOLEAN /\ connected \in BOOLEAN
      BY <1>1 DEF Types
    <3>2. Good(Stream, up, connected, objects_, unannounced, DOMAIN view, asked)
      BY DEF IInv, ViewGood
    <3>. HIDE DEF X, N
    <3>. QED
      BY <2>2, <3>1, <3>2, Unsaid
  <2>4. ViewGood'
    BY <1>1, <1>4, <2>3 DEF ViewGood, Stream
  <2>. QED
    BY <2>1, <2>4 DEF IInv
<1>. QED
  BY <1>3, <1>4 DEF add_managed_object

\* An object is removed and the removal is told.
LEMMA RemoveStep ==
    ASSUME IInv, NEW o \in Objects, remove_managed_object(o)
    PROVE  IInv'
<1>. DEFINE m == InterfacesRemoved(o)
<1>1. /\ up /\ objects_' = objects_ \ {o} /\ unannounced' = unannounced \ {o}
      /\ outgoing' = Append(outgoing, m)
      /\ UNCHANGED <<up, requests, queue, client>> /\ Types
  BY DEF remove_managed_object, IInv
<1>2. objects_' \in SUBSET Objects /\ requests' \in Seq(Nat)
  BY <1>1 DEF Types
<1>3. m \in Messages /\ m.kind = "removed" /\ m.object = o
  BY Sent
<1>. HIDE DEF m
<1>4. /\ \A x \in Objects : Telling(m, x) => x = o
      /\ \A x \in Objects : ~About(m, x) => x # o
      /\ Told(m) = {}
  BY <1>3 DEF Telling, About, Told
<1>5. \A x \in Objects : Telling(m, x) => Right(objects_', unannounced', x, Told(m))
  BY <1>1, <1>4 DEF Right
<1>6. \A x \in Objects : ~About(m, x) =>
         (x \in objects_' <=> x \in objects_) /\ (x \in unannounced' <=> x \in unannounced)
  BY <1>1, <1>4
<1>. QED
  BY <1>1, <1>2, <1>3, <1>5, <1>6, SendStep

\* The server answers with the objects it has.
LEMMA RequestStep ==
    ASSUME IInv, handle_objectmanager_request
    PROVE  IInv'
<1>. DEFINE m == Managed(Head(requests), objects_)
<1>1. /\ up /\ requests # <<>> /\ requests' = Tail(requests)
      /\ outgoing' = Append(outgoing, m)
      /\ UNCHANGED <<up, objects_, unannounced, queue, client>> /\ Types
  BY DEF handle_objectmanager_request, IInv, server
<1>2. requests' \in Seq(Nat) /\ Head(requests) \in Nat
  BY <1>1, HeadTailProperties DEF Types
<1>3. m \in Messages /\ m.kind = "managed" /\ DOMAIN m.objects = objects_
  BY <1>1, <1>2, Sent DEF Types
<1>. HIDE DEF m
<1>4. Told(m) = objects_
  BY <1>3 DEF Told
<1>5. \A x \in Objects : Right(objects_', unannounced', x, Told(m))
  BY <1>1, <1>4 DEF Right
<1>6. objects_' \in SUBSET Objects
  BY <1>1 DEF Types
<1>. QED
  BY <1>1, <1>2, <1>3, <1>5, <1>6, SendStep

\* What the bus hands over is still under way.
LEMMA ForwardStep ==
    ASSUME IInv, Forward
    PROVE  IInv'
<1>1. /\ outgoing # <<>> /\ outgoing' = Tail(outgoing) /\ queue' = Append(queue, Head(outgoing))
      /\ UNCHANGED <<up, objects_, unannounced, requests, connected, view, serial, asked>> /\ Types
  BY DEF Forward, IInv, server, client
<1>2. queue' \in Seq(Messages) /\ outgoing' \in Seq(Messages) /\ queue' \o outgoing' = queue \o outgoing
  BY <1>1, HandedOver DEF Types
<1>3. Types'
  BY <1>1, <1>2 DEF Types
<1>4. DeadIsEmpty'
  BY <1>1 DEF IInv, DeadIsEmpty
<1>5. ViewGood'
  BY <1>1, <1>2 DEF IInv, ViewGood, Stream
<1>. QED
  BY <1>3, <1>4, <1>5 DEF IInv

\* The server dies: its objects and what it had not handed over are lost.
LEMMA CrashStep ==
    ASSUME IInv, Crash
    PROVE  IInv'
<1>1. /\ up' = FALSE /\ objects_' = {} /\ unannounced' = {} /\ requests' = <<>> /\ outgoing' = <<>>
      /\ UNCHANGED <<connected, view, serial, asked>> /\ Types
  BY DEF Crash, IInv, client
<1>. DEFINE d == Disconnected
            f == Failure(asked)
<1>2. PICK F \in {<<>>, <<f>>} : queue' = queue \o F \o <<d>> \/ queue' = queue \o <<d>> \o F
  BY DEF Crash
<1>3. /\ f \in Messages /\ f.kind = "failed" /\ d \in Messages /\ d.kind = "disconnected"
      /\ queue \in Seq(Messages)
  BY <1>1, Sent DEF Types
<1>. HIDE DEF d, f
<1>4. ASSUME NEW q \in Seq(Messages), NEW e \in Messages
      PROVE  /\ q \o <<e>> = Append(q, e) /\ Append(q, e) \in Seq(Messages)
             /\ DOMAIN Append(q, e) = 1..(Len(q) + 1) /\ Len(Append(q, e)) = Len(q) + 1
             /\ Append(q, e)[Len(q) + 1] = e /\ Len(q) \in Nat
             /\ \A k \in 1..Len(q) : Append(q, e)[k] = q[k]
             /\ q \o <<>> = q
  BY AppendIsConcat, AppendProperties, LenProperties, ConcatEmptySeq
<1>5. /\ queue' \in Seq(Messages)
      /\ \E i \in DOMAIN queue' : /\ queue'[i].kind = "disconnected"
                                  /\ \A j \in DOMAIN queue' :
                                        j \in Int /\ (j > i => queue'[j].kind = "failed")
  <2>1. CASE queue' = queue \o F \o <<d>>
    <3>1. PICK q \in Seq(Messages) : q = queue \o F
      <4>1. CASE F = <<>>
        <5>1. queue \o F = queue
          BY <1>3, <1>4, <4>1
        <5>. QED
          BY <1>3, <5>1
      <4>2. CASE F = <<f>>
        <5>1. queue \o F = Append(queue, f) /\ Append(queue, f) \in Seq(Messages)
          BY <1>3, <1>4, <4>2
        <5>. QED
          BY <5>1
      <4>. QED
        BY <1>2, <4>1, <4>2
    <3>2. queue' = Append(q, d)
      BY <1>3, <1>4, <2>1, <3>1
    <3>. QED
      BY <1>3, <1>4, <3>2
  <2>2. CASE queue' = queue \o <<d>> \o F
    <3>1. PICK q \in Seq(Messages) : q = Append(queue, d)
      BY <1>3, <1>4
    <3>2. /\ queue \o <<d>> = q /\ DOMAIN q = 1..(Len(queue) + 1) /\ Len(q) = Len(queue) + 1
          /\ q[Len(queue) + 1] = d /\ Len(queue) \in Nat
      BY <1>3, <1>4, <3>1
    <3>3. CASE F = <<>>
      <4>1. queue' = q
        BY <1>4, <2>2, <3>2, <3>3
      <4>. QED
        BY <1>3, <3>2, <4>1
    <3>4. CASE F = <<f>>
      <4>1. queue' = Append(q, f)
        BY <1>3, <1>4, <2>2, <3>2, <3>4
      <4>2. /\ Append(q, f) \in Seq(Messages) /\ DOMAIN Append(q, f) = 1..(Len(queue) + 2)
            /\ Append(q, f)[Len(queue) + 1] = d /\ Append(q, f)[Len(queue) + 2] = f
        BY <1>3, <1>4, <3>2
      <4>. QED
        BY <1>3, <3>2, <4>1, <4>2
    <3>. QED
      BY <1>2, <3>3, <3>4
  <2>. QED
    BY <1>2, <2>1, <2>2
<1>6. Types' /\ DeadIsEmpty'
  BY <1>1, <1>5, EmptySeq DEF Types, DeadIsEmpty
<1>7. Good(queue', FALSE, connected, {}, {}, DOMAIN view, asked)
  <2>1. PICK r : r = queue'
    OBVIOUS
  <2>2. PICK i \in DOMAIN r : /\ r[i].kind = "disconnected"
                              /\ \A j \in DOMAIN r : j \in Int /\ (j > i => r[j].kind = "failed")
    BY <1>5, <2>1
  <2>3. connected \in BOOLEAN
    BY <1>1 DEF Types
  <2>4. Good(r, FALSE, connected, {}, {}, DOMAIN view, asked)
    BY <2>2, <2>3, Died
  <2>. QED
    BY <2>1, <2>4
<1>8. queue' \o outgoing' = queue'
  BY <1>1, <1>5, ConcatEmptySeq
<1>9. ViewGood'
  BY <1>1, <1>7, <1>8 DEF ViewGood, Stream
<1>. QED
  BY <1>6, <1>9 DEF IInv
-----------------------------------------------------------------------------
(***************************************************************************)
(* The steps of the client                                                 *)
(***************************************************************************)
\* Receiving takes the first message of what is under way.
LEMMA HeadTaken ==
    ASSUME Types, queue # <<>>
    PROVE  /\ Tail(queue) \in Seq(Messages) /\ Head(queue) \in Messages
           /\ Taken(Tail(queue) \o outgoing, Stream, 1) /\ Stream[1] = Head(queue)
<1>1. queue \in Seq(Messages) /\ outgoing \in Seq(Messages)
  BY DEF Types
<1>2. /\ Tail(queue) \in Seq(Messages) /\ Head(queue) \in Messages /\ Head(queue) = queue[1]
      /\ Without(Tail(queue), queue, 1)
  BY <1>1, FirstTaken
<1>3. Without(Tail(queue) \o outgoing, queue \o outgoing, 1)
  BY <1>1, <1>2, RestStays
<1>4. (queue \o outgoing)[1] = queue[1]
  <2>1. 1 \in 1..Len(queue) /\ Len(queue) \in Nat /\ Len(outgoing) \in Nat
    BY <1>1, <1>2, LenProperties DEF Without
  <2>2. \A k \in 1..(Len(queue) + Len(outgoing)) :
           (queue \o outgoing)[k] = IF k <= Len(queue) THEN queue[k] ELSE outgoing[k - Len(queue)]
    BY <1>1, ConcatProperties
  <2>. QED
    BY <2>1, <2>2
<1>. QED
  BY <1>2, <1>3, <1>4 DEF Taken, Stream

\* What has to be shown of a step of the client.
LEMMA ClientStep ==
    ASSUME IInv, UNCHANGED <<server, outgoing>>,
           queue' \in Seq(Messages), requests' \in Seq(Nat), serial' \in Nat, asked' \in Nat,
           connected' \in BOOLEAN,
           DOMAIN view' \subseteq Objects, \A o \in DOMAIN view' : view'[o] = serialize_object(o),
           Good(queue' \o outgoing, up, connected', objects_, unannounced, DOMAIN view', asked')
    PROVE  IInv'
<1>1. UNCHANGED <<up, objects_, unannounced, outgoing>>
  BY DEF server
<1>2. Types' /\ DeadIsEmpty'
  BY <1>1 DEF IInv, Types, DeadIsEmpty
<1>3. ViewGood'
  BY <1>1 DEF ViewGood, Stream
<1>. QED
  BY <1>2, <1>3 DEF IInv

\* A call is sent, or fails at once if there is no server.
LEMMA AskStep ==
    ASSUME Types, DeadIsEmpty, NEW rest \in Seq(Messages), NEW block, Ask(rest, block),
           NEW c \in BOOLEAN, NEW w,
           Good(rest \o outgoing, up, c, objects_, unannounced, w, serial + 1)
    PROVE  /\ queue' \in Seq(Messages) /\ requests' \in Seq(Nat)
           /\ serial' \in Nat /\ asked' \in Nat /\ asked' = serial + 1
           /\ Good(queue' \o outgoing, up, c, objects_, unannounced, w, asked')
<1>1. serial' = serial + 1 /\ asked' = serial + 1 /\ serial + 1 \in Nat
  BY DEF Ask, Types
<1>2. CASE up
  <2>1. queue' = rest /\ requests' = Append(requests, serial + 1)
    BY <1>2 DEF Ask
  <2>2. requests' \in Seq(Nat)
    BY <1>1, <2>1, AppendProperties DEF Types
  <2>. QED
    BY <1>1, <2>1, <2>2
<1>3. CASE ~up
  <2>. DEFINE f == Failure(serial + 1)
  <2>1. queue' = Append(rest, f) /\ requests' = requests /\ outgoing = <<>>
    BY <1>3 DEF Ask, DeadIsEmpty
  <2>2. f \in Messages /\ f.kind = "failed"
    BY <1>1, Sent
  <2>. HIDE DEF f
  <2>3. queue' \in Seq(Messages) /\ Plus(queue' \o outgoing, rest \o outgoing, f)
    BY <2>1, <2>2, SentLast DEF Types
  <2>4. Lives(f, up, up)
    BY <2>2 DEF Lives
  <2>5. Accounts(f, objects_, unannounced, objects_, unannounced)
    BY <2>2 DEF Accounts, Telling, About
  <2>6. PICK u \in BOOLEAN : u = up
    BY DEF Types
  <2>7. PICK r, s : r = queue' \o outgoing /\ s = rest \o outgoing
    OBVIOUS
  <2>8. PICK x, n, a : x = objects_ /\ n = unannounced /\ a = serial + 1
    OBVIOUS
  <2>9. Good(s, u, c, x, n, w, a) /\ Lives(f, u, u) /\ Accounts(f, x, n, x, n) /\ Plus(r, s, f)
    BY <2>3, <2>4, <2>5, <2>6, <2>7, <2>8
  <2>10. Good(r, u, c, x, n, w, a)
    BY <2>9, Grown
  <2>11. Good(queue' \o outgoing, up, c, objects_, unannounced, w, serial + 1)
    BY <2>10, <2>6, <2>7, <2>8
  <2>12. requests' \in Seq(Nat)
    BY <2>1 DEF Types
  <2>. QED
    BY <1>1, <2>3, <2>11, <2>12
<1>. QED
  BY <1>2, <1>3

\* A call that failed is made again by a client that is connected.
LEMMA FailedStep ==
    ASSUME IInv, NEW m, m.kind # "managed", NEW rest \in Seq(Messages), Answer(m, rest),
           UNCHANGED <<server, outgoing, connected>>,
           Good(rest \o outgoing, up, connected, objects_, unannounced, DOMAIN view, asked)
    PROVE  IInv'
<1>1. Types /\ DeadIsEmpty /\ view' = view /\ connected' = connected
  BY DEF IInv, Answer
<1>2. /\ up \in BOOLEAN /\ connected \in BOOLEAN /\ serial \in Nat /\ serial + 1 # 0
      /\ DOMAIN view \subseteq Objects /\ \A o \in DOMAIN view : view[o] = serialize_object(o)
      /\ requests \in Seq(Nat)
  BY <1>1 DEF Types
<1>3. ASSUME NEW b, b # 0 \/ ~connected
      PROVE  Good(rest \o outgoing, up, connected, objects_, unannounced, DOMAIN view, b)
  <2>1. PICK u \in BOOLEAN, c \in BOOLEAN : u = up /\ c = connected
    BY <1>2
  <2>2. b = asked \/ b # 0 \/ ~c
    BY <1>3, <2>1
  <2>3. Good(rest \o outgoing, u, c, objects_, unannounced, DOMAIN view, asked)
    BY <2>1
  <2>4. Good(rest \o outgoing, u, c, objects_, unannounced, DOMAIN view, b)
    BY <2>2, <2>3, CallEnds
  <2>. QED
    BY <2>1, <2>4
<1>4. CASE connected
  <2>1. Ask(rest, FALSE)
    BY <1>4 DEF Answer
  <2>2. Good(rest \o outgoing, up, connected, objects_, unannounced, DOMAIN view, serial + 1)
    BY <1>2, <1>3
  <2>3. /\ queue' \in Seq(Messages) /\ requests' \in Seq(Nat)
        /\ serial' \in Nat /\ asked' \in Nat
        /\ Good(queue' \o outgoing, up, connected, objects_, unannounced, DOMAIN view, asked')
    BY <1>1, <1>2, <2>1, <2>2, AskStep
  <2>. QED
    BY <1>1, <1>2, <2>3, ClientStep
<1>5. CASE ~connected
  <2>1. asked' = 0 /\ queue' = rest /\ UNCHANGED <<requests, serial>>
    BY <1>5 DEF Answer
  <2>2. Good(queue' \o outgoing, up, connected, objects_, unannounced, DOMAIN view, asked')
    BY <1>3, <1>5, <2>1
  <2>. QED
    BY <1>1, <1>2, <2>1, <2>2, ClientStep
<1>. QED
  BY <1>4, <1>5

\* The answer the client waits for is taken, from the head of the queue or not.
LEMMA AnsweredStep ==
    ASSUME IInv, NEW m \in Messages, m.kind \in {"managed", "failed"},
           NEW rest \in Seq(Messages), Answer(m, rest), UNCHANGED <<server, outgoing, connected>>,
           NEW i, Taken(rest \o outgoing, Stream, i), Stream[i] = m
    PROVE  IInv'
<1>1. PICK r, s : r = rest \o outgoing /\ s = Stream
  OBVIOUS
<1>2. Types /\ Good(s, up, connected, objects_, unannounced, DOMAIN view, asked)
  BY <1>1 DEF IInv, ViewGood
<1>3. PICK u \in BOOLEAN, c \in BOOLEAN : u = up /\ c = connected
  BY <1>2 DEF Types
<1>4. Good(s, u, c, objects_, unannounced, DOMAIN view, asked) /\ Taken(r, s, i) /\ s[i] = m
  BY <1>1, <1>2, <1>3
<1>5. CASE m.kind = "managed"
  <2>1. /\ view' = m.objects /\ asked' = 0 /\ queue' = rest
        /\ UNCHANGED <<requests, serial, connected>>
    BY <1>5 DEF Answer
  <2>2. DOMAIN view' \subseteq Objects /\ \A o \in DOMAIN view' : view'[o] = serialize_object(o)
    BY <1>5, <2>1, Kinds
  <2>3. PICK w : w = DOMAIN view'
    OBVIOUS
  <2>4. \A o \in Objects : IF Telling(s[i], o) THEN o \in w <=> o \in Told(s[i])
                                               ELSE o \in w <=> o \in DOMAIN view
    BY <1>4, <1>5, <2>1, <2>3 DEF Telling, Told
  <2>5. s[i].kind = "managed" /\ s[i].kind \in {"added", "removed", "managed"}
    BY <1>4, <1>5
  <2>6. Good(r, u, c, objects_, unannounced, w, 0)
    BY <1>4, <2>4, <2>5, TellingTaken
  <2>7. Good(queue' \o outgoing, up, connected', objects_, unannounced, DOMAIN view', asked')
    BY <1>1, <1>3, <2>1, <2>3, <2>6
  <2>8. /\ queue' \in Seq(Messages) /\ requests' \in Seq(Nat) /\ serial' \in Nat /\ asked' \in Nat
        /\ connected' \in BOOLEAN
    BY <1>2, <2>1 DEF Types
  <2>. QED
    BY <2>2, <2>7, <2>8, ClientStep
<1>6. CASE m.kind = "failed"
  <2>1. Good(r, u, c, objects_, unannounced, DOMAIN view, asked)
    BY <1>4, <1>6, OthersTaken
  <2>2. Good(rest \o outgoing, up, connected, objects_, unannounced, DOMAIN view, asked)
    BY <1>1, <1>3, <2>1
  <2>. QED
    BY <1>6, <2>2, FailedStep
<1>. QED
  BY <1>5, <1>6

\* What stays the same when the first message is taken, and is all there is to know of it.
LEMMA ReceiveFacts ==
    ASSUME IInv, NEW kind, Receives(kind)
    PROVE  /\ Types /\ DeadIsEmpty
           /\ Tail(queue) \in Seq(Messages) /\ Head(queue) \in Messages
           /\ Head(queue).kind = kind
           /\ \E u \in {up}, c \in {connected}, r \in {Tail(queue) \o outgoing}, s \in {Stream} :
                 /\ u \in BOOLEAN /\ c \in BOOLEAN
                 /\ Taken(r, s, 1) /\ s[1] = Head(queue)
                 /\ Good(s, u, c, objects_, unannounced, DOMAIN view, asked)
<1>1. /\ Types /\ DeadIsEmpty /\ queue # <<>> /\ Head(queue).kind = kind
      /\ Good(Stream, up, connected, objects_, unannounced, DOMAIN view, asked)
  BY DEF IInv, ViewGood, Receives
<1>2. /\ Tail(queue) \in Seq(Messages) /\ Head(queue) \in Messages
      /\ Taken(Tail(queue) \o outgoing, Stream, 1) /\ Stream[1] = Head(queue)
  BY <1>1, HeadTaken
<1>3. up \in BOOLEAN /\ connected \in BOOLEAN
  BY <1>1 DEF Types
<1>. QED
  BY <1>1, <1>2, <1>3

\* The connected callback asks for the objects.
LEMMA ConnectedStep ==
    ASSUME IInv, OnConnected
    PROVE  IInv'
<1>1. /\ Types /\ DeadIsEmpty /\ Tail(queue) \in Seq(Messages) /\ Head(queue).kind = "connected"
  BY ReceiveFacts DEF OnConnected
<1>2. PICK u \in {up}, c \in {connected}, r \in {Tail(queue) \o outgoing}, s \in {Stream} :
         /\ u \in BOOLEAN /\ c \in BOOLEAN
         /\ Taken(r, s, 1) /\ s[1] = Head(queue)
         /\ Good(s, u, c, objects_, unannounced, DOMAIN view, asked)
  BY ReceiveFacts DEF OnConnected
<1>3. /\ connected' = TRUE /\ UNCHANGED <<server, outgoing, view>>
      /\ asked = 0 => \E block \in BOOLEAN : Ask(Tail(queue), block)
      /\ asked # 0 => Continue(Tail(queue))
  BY DEF OnConnected
<1>4. ASSUME NEW b, b # 0
      PROVE  Good(Tail(queue) \o outgoing, up, TRUE, objects_, unannounced, DOMAIN view, b)
  <2>1. s[1].kind = "connected"
    BY <1>1, <1>2
  <2>2. Good(r, u, TRUE, objects_, unannounced, DOMAIN view, b)
    BY <1>2, <1>4, <2>1, ConnectedTaken
  <2>. QED
    BY <1>2, <2>2
<1>5. /\ DOMAIN view \subseteq Objects /\ \A o \in DOMAIN view : view[o] = serialize_object(o)
      /\ requests \in Seq(Nat) /\ serial \in Nat /\ serial + 1 # 0 /\ asked \in Nat
  BY <1>1 DEF Types
<1>6. CASE asked = 0
  <2>1. PICK block \in BOOLEAN : Ask(Tail(queue), block)
    BY <1>3, <1>6
  <2>2. PICK t \in BOOLEAN : t = TRUE
    OBVIOUS
  <2>3. Good(Tail(queue) \o outgoing, up, t, objects_, unannounced, DOMAIN view, serial + 1)
    BY <1>4, <1>5, <2>2
  <2>4. /\ queue' \in Seq(Messages) /\ requests' \in Seq(Nat)
        /\ serial' \in Nat /\ asked' \in Nat
        /\ Good(queue' \o outgoing, up, t, objects_, unannounced, DOMAIN view, asked')
    BY <1>1, <2>1, <2>3, AskStep
  <2>5. Good(queue' \o outgoing, up, connected', objects_, unannounced, DOMAIN view', asked')
    BY <1>3, <2>2, <2>4
  <2>6. connected' \in BOOLEAN
    BY <1>3
  <2>. QED
    BY <1>3, <1>5, <2>4, <2>5, <2>6, ClientStep
<1>7. CASE asked # 0
  <2>1. queue' = Tail(queue) /\ UNCHANGED <<requests, serial, asked>>
    BY <1>3, <1>7 DEF Continue
  <2>2. Good(queue' \o outgoing, up, connected', objects_, unannounced, DOMAIN view', asked')
    BY <1>3, <1>4, <1>7, <2>1
  <2>3. connected' \in BOOLEAN
    BY <1>3
  <2>. QED
    BY <1>1, <1>3, <1>5, <2>1, <2>2, <2>3, ClientStep
<1>. QED
  BY <1>6, <1>7

\* The client forgets what it knew of a server that went.
LEMMA DisconnectedStep ==
    ASSUME IInv, OnDisconnected
    PROVE  IInv'
<1>1. /\ Types /\ Tail(queue) \in Seq(Messages) /\ Head(queue).kind = "disconnected"
  BY ReceiveFacts DEF OnDisconnected
<1>2. PICK u \in {up}, c \in {connected}, r \in {Tail(queue) \o outgoing}, s \in {Stream} :
         /\ u \in BOOLEAN /\ c \in BOOLEAN
         /\ Taken(r, s, 1) /\ s[1] = Head(queue)
         /\ Good(s, u, c, objects_, unannounced, DOMAIN view, asked)
  BY ReceiveFacts DEF OnDisconnected
<1>3. /\ connected' = FALSE /\ DOMAIN view' = {} /\ queue' = Tail(queue)
      /\ UNCHANGED <<server, outgoing, requests, serial, asked>>
  BY DEF OnDisconnected, NothingKnown, Continue
<1>4. Good(r, u, FALSE, objects_, unannounced, {}, asked)
  BY <1>1, <1>2, DisconnectedTaken
<1>5. Good(queue' \o outgoing, up, connected', objects_, unannounced, DOMAIN view', asked')
  BY <1>2, <1>3, <1>4
<1>6. /\ queue' \in Seq(Messages) /\ requests' \in Seq(Nat) /\ serial' \in Nat /\ asked' \in Nat
      /\ connected' \in BOOLEAN
  BY <1>1, <1>3 DEF Types
<1>. QED
  BY <1>3, <1>5, <1>6, ClientStep

\* A signal changes what is known of its object to what it tells, and no more.
LEMMA SignalStep ==
    ASSUME IInv, NEW kind \in {"added", "removed"}, Receives(kind), Continue(Tail(queue)),
           UNCHANGED <<server, outgoing, connected>>,
           \A o \in DOMAIN view' : view'[o] = serialize_object(o),
           DOMAIN view' = IF kind = "added" THEN DOMAIN view \cup {Head(queue).object}
                                            ELSE DOMAIN view \ {Head(queue).object}
    PROVE  IInv'
<1>1. /\ Types /\ Tail(queue) \in Seq(Messages) /\ Head(queue) \in Messages
      /\ Head(queue).kind = kind
  BY ReceiveFacts
<1>2. PICK u \in {up}, c \in {connected}, r \in {Tail(queue) \o outgoing}, s \in {Stream} :
         /\ u \in BOOLEAN /\ c \in BOOLEAN
         /\ Taken(r, s, 1) /\ s[1] = Head(queue)
         /\ Good(s, u, c, objects_, unannounced, DOMAIN view, asked)
  BY ReceiveFacts
<1>3. queue' = Tail(queue) /\ UNCHANGED <<requests, serial, asked>>
  BY DEF Continue
<1>4. PICK v : v = DOMAIN view'
  OBVIOUS
<1>5. s[1].kind = kind /\ s[1].object = Head(queue).object /\ Head(queue).object \in Objects
  BY <1>1, <1>2, Kinds
<1>6. \A o \in Objects : IF Telling(s[1], o) THEN o \in v <=> o \in Told(s[1])
                                             ELSE o \in v <=> o \in DOMAIN view
  BY <1>4, <1>5 DEF Telling, About, Told
<1>7. Good(r, u, c, objects_, unannounced, v, asked)
  <2>1. s[1].kind \in {"added", "removed", "managed"} /\ asked = asked
    BY <1>5
  <2>. QED
    BY <1>2, <1>6, <2>1, TellingTaken
<1>8. Good(queue' \o outgoing, up, connected', objects_, unannounced, DOMAIN view', asked')
  BY <1>2, <1>3, <1>4, <1>7
<1>9. /\ queue' \in Seq(Messages) /\ requests' \in Seq(Nat) /\ serial' \in Nat /\ asked' \in Nat
      /\ connected' \in BOOLEAN /\ DOMAIN view' \subseteq Objects
  BY <1>1, <1>3, <1>5 DEF Types
<1>. QED
  BY <1>8, <1>9, ClientStep

\* An announced object is entered in the view.
LEMMA AddedStep ==
    ASSUME IInv, OnInterfacesAdded
    PROVE  IInv'
<1>1. /\ Types /\ Head(queue) \in Messages /\ Head(queue).kind = "added"
  BY ReceiveFacts DEF OnInterfacesAdded
<1>2. Head(queue).interfaces = serialize_object(Head(queue).object)
  BY <1>1, Kinds
<1>3. view' = [o \in DOMAIN view \cup {Head(queue).object} |->
                  IF o = Head(queue).object THEN Head(queue).interfaces ELSE view[o]]
  BY DEF OnInterfacesAdded
<1>4. DOMAIN view' = DOMAIN view \cup {Head(queue).object}
  BY <1>3
<1>5. \A o \in DOMAIN view' : view'[o] = serialize_object(o)
  BY <1>1, <1>2, <1>3 DEF Types
<1>. QED
  BY <1>4, <1>5, SignalStep DEF OnInterfacesAdded

\* A removed object leaves the view.
LEMMA RemovedStep ==
    ASSUME IInv, OnInterfacesRemoved
    PROVE  IInv'
<1>1. /\ Types /\ Head(queue) \in Messages /\ Head(queue).kind = "removed"
  BY ReceiveFacts DEF OnInterfacesRemoved
<1>. DEFINE x == Head(queue).object
            gone == Head(queue).interfaces
            left == [o \in DOMAIN view |->
                        IF o = x THEN Restrict(view[o], DOMAIN view[o] \ gone) ELSE view[o]]
<1>2. x \in Objects /\ gone = Names(x)
  BY <1>1, Kinds
<1>3. view' = Restrict(left, {o \in DOMAIN left : DOMAIN left[o] # {}})
  BY DEF OnInterfacesRemoved
<1>4. \A o \in DOMAIN view : o \in Objects /\ view[o] = serialize_object(o)
  BY <1>1 DEF Types
<1>5. \A o \in DOMAIN view : DOMAIN view[o] = Names(o) /\ Names(o) # {}
  BY <1>4, Serialized
<1>. HIDE DEF x, gone
<1>6. DOMAIN left = DOMAIN view
  OBVIOUS
<1>7. ASSUME NEW o \in DOMAIN view
      PROVE  DOMAIN left[o] = IF o = x THEN {} ELSE Names(o)
  <2>1. CASE o = x
    <3>1. left[o] = Restrict(view[o], DOMAIN view[o] \ gone)
      BY <2>1
    <3>2. DOMAIN view[o] \ gone = {}
      BY <1>2, <1>5, <2>1
    <3>. QED
      BY <2>1, <3>1, <3>2 DEF Restrict
  <2>2. CASE o # x
    BY <1>5, <2>2
  <2>. QED
    BY <2>1, <2>2
<1>8. DOMAIN view' = DOMAIN view \ {x}
  <2>1. {o \in DOMAIN left : DOMAIN left[o] # {}} = DOMAIN view \ {x}
    BY <1>5, <1>6, <1>7
  <2>. QED
    BY <1>3, <2>1 DEF Restrict
<1>9. ASSUME NEW o \in DOMAIN view'
      PROVE  view'[o] = serialize_object(o)
  <2>1. o \in DOMAIN view /\ o # x
    BY <1>8
  <2>2. view'[o] = left[o]
    <3>1. o \in {e \in DOMAIN left : DOMAIN left[e] # {}}
      BY <1>5, <1>6, <1>7, <2>1
    <3>. QED
      BY <1>3, <3>1 DEF Restrict
  <2>. QED
    BY <1>4, <2>1, <2>2
<1>. QED
  BY <1>8, <1>9, SignalStep DEF OnInterfacesRemoved, x

\* The answer or failure at the head of the queue, awaited or not.
LEMMA ReplyStep ==
    ASSUME IInv, OnReply
    PROVE  IInv'
<1>1. PICK kind \in {"managed", "failed"} : Receives(kind)
  BY DEF OnReply
<1>2. /\ Types /\ Tail(queue) \in Seq(Messages) /\ Head(queue) \in Messages
      /\ Head(queue).kind = kind
  BY <1>1, ReceiveFacts
<1>3. PICK u \in {up}, c \in {connected}, r \in {Tail(queue) \o outgoing}, s \in {Stream} :
         /\ u \in BOOLEAN /\ c \in BOOLEAN
         /\ Taken(r, s, 1) /\ s[1] = Head(queue)
         /\ Good(s, u, c, objects_, unannounced, DOMAIN view, asked)
  BY <1>1, ReceiveFacts
<1>4. UNCHANGED <<server, outgoing, connected>>
  BY DEF OnReply
<1>5. CASE Head(queue).re = asked
  <2>1. Answer(Head(queue), Tail(queue))
    BY <1>5 DEF OnReply
  <2>2. Head(queue).kind \in {"managed", "failed"}
    BY <1>2
  <2>3. PICK i : i = 1
    OBVIOUS
  <2>4. Taken(Tail(queue) \o outgoing, Stream, i) /\ Stream[i] = Head(queue)
    BY <1>3, <2>3
  <2>. QED
    BY <1>2, <1>4, <2>1, <2>2, <2>4, AnsweredStep
<1>6. CASE Head(queue).re # asked
  <2>1. queue' = Tail(queue) /\ UNCHANGED <<requests, serial, asked, view>>
    BY <1>6 DEF OnReply, Continue
  <2>2. s[1].kind \in {"managed", "failed"}
    BY <1>2, <1>3
  <2>3. Good(r, u, c, objects_, unannounced, DOMAIN view, asked)
    BY <1>3, <2>2, OthersTaken
  <2>4. Good(queue' \o outgoing, up, connected', objects_, unannounced, DOMAIN view', asked')
    BY <1>3, <1>4, <2>1, <2>3
  <2>5. /\ queue' \in Seq(Messages) /\ requests' \in Seq(Nat) /\ serial' \in Nat /\ asked' \in Nat
        /\ connected' \in BOOLEAN /\ DOMAIN view' \subseteq Objects
        /\ \A o \in DOMAIN view' : view'[o] = serialize_object(o)
    BY <1>2, <1>4, <2>1 DEF Types
  <2>. QED
    BY <1>4, <2>4, <2>5, ClientStep
<1>. QED
  BY <1>5, <1>6

\* A blocking call takes its answer from the middle of the queue.
LEMMA BlockingStep ==
    ASSUME IInv, BlockingReturns
    PROVE  IInv'
<1>1. /\ queue \in Seq(Messages) /\ outgoing \in Seq(Messages) /\ Len(queue) \in Nat
      /\ DOMAIN queue = 1..Len(queue) /\ Len(outgoing) \in Nat
  BY LenProperties DEF IInv, Types
<1>2. PICK i \in 1..Len(queue) :
         /\ queue[i].kind \in {"managed", "failed"}
         /\ Answer(queue[i], SubSeq(queue, 1, i - 1) \o SubSeq(queue, i + 1, Len(queue)))
  BY DEF BlockingReturns
<1>3. UNCHANGED <<server, outgoing, connected>>
  BY DEF BlockingReturns
<1>4. PICK rest : rest = SubSeq(queue, 1, i - 1) \o SubSeq(queue, i + 1, Len(queue))
  OBVIOUS
<1>5. rest \in Seq(Messages) /\ queue[i] \in Messages /\ Without(rest, queue, i)
  BY <1>1, <1>4, MiddleTaken
<1>6. Without(rest \o outgoing, queue \o outgoing, i)
  BY <1>1, <1>5, RestStays
<1>7. (queue \o outgoing)[i] = queue[i]
  <2>1. \A k \in 1..(Len(queue) + Len(outgoing)) :
           (queue \o outgoing)[k] = IF k <= Len(queue) THEN queue[k] ELSE outgoing[k - Len(queue)]
    BY <1>1, ConcatProperties
  <2>. QED
    BY <1>1, <2>1
<1>8. PICK m \in Messages : m = queue[i]
  BY <1>5
<1>9. m.kind \in {"managed", "failed"} /\ Answer(m, rest)
  BY <1>2, <1>4, <1>8
<1>10. Taken(rest \o outgoing, Stream, i) /\ Stream[i] = m
  BY <1>2, <1>6, <1>7, <1>8 DEF Taken, Stream
<1>. QED
  BY <1>3, <1>5, <1>8, <1>9, <1>10, AnsweredStep

\* A call that times out failed, whatever the server did with it.
LEMMA TimeoutStep ==
    ASSUME IInv, Timeout
    PROVE  IInv'
<1>. DEFINE m == Failure(asked)
<1>1. Answer(m, queue) /\ UNCHANGED <<server, outgoing, connected>>
  BY DEF Timeout
<1>2. m.kind # "managed"
  BY DEF Failure
<1>3. /\ queue \in Seq(Messages)
      /\ Good(queue \o outgoing, up, connected, objects_, unannounced, DOMAIN view, asked)
  BY DEF IInv, Types, ViewGood, Stream
<1>. HIDE DEF m
<1>. QED
  BY <1>1, <1>2, <1>3, FailedStep

\* Every step keeps the invariant.
LEMMA NextIInv == IInv /\ [Next]_vars => IInv'
<1>. SUFFICES ASSUME IInv, [Next]_vars PROVE IInv'
  OBVIOUS
<1>1. CASE Start
  BY <1>1, StartStep
<1>2. CASE Crash
  BY <1>2, CrashStep
<1>3. CASE \E o \in Objects : add_managed_object(o) \/ remove_managed_object(o)
  BY <1>3, AddStep, RemoveStep
<1>4. CASE handle_objectmanager_request
  BY <1>4, RequestStep
<1>5. CASE Forward
  BY <1>5, ForwardStep
<1>6. CASE Client
  BY <1>6, ConnectedStep, DisconnectedStep, AddedStep, RemovedStep, ReplyStep, BlockingStep
     DEF Client
<1>7. CASE Timeout
  BY <1>7, TimeoutStep
<1>8. CASE UNCHANGED vars
  BY <1>8 DEF vars, server, client, IInv, Types, DeadIsEmpty, ViewGood, Stream
<1>. QED
  BY <1>1, <1>2, <1>3, <1>4, <1>5, <1>6, <1>7, <1>8 DEF Next

\* However answers, signals and deaths of the server come together, the stream tells
\* the client last what is right, and what it knows is right where the stream is silent.
THEOREM Invariance == Spec => []IInv
BY InitIInv, NextIInv, PTL DEF Spec
-----------------------------------------------------------------------------
(***************************************************************************)
(* The theorems                                                            *)
(***************************************************************************)

\* A client that has nothing left to receive knows the objects of the server, except
\* perhaps one that could not be announced, and no others.
THEOREM ViewFollowsServer == Spec => []ViewConverges
<1>1. IInv => ViewConverges
  <2>. SUFFICES ASSUME IInv, Quiet
                PROVE  DOMAIN view \subseteq objects_ /\ objects_ \ unannounced \subseteq DOMAIN view
    BY DEF ViewConverges
  <2>1. Types /\ DeadIsEmpty /\ queue = <<>> /\ outgoing = <<>> /\ asked = 0
    BY DEF IInv, Quiet
  <2>2. Stream = <<>> /\ DOMAIN <<>> = {}
    <3>1. <<>> \in Seq(Messages) /\ Len(<<>>) = 0
      BY EmptySeq
    <3>2. <<>> \o <<>> = <<>> /\ DOMAIN <<>> = 1..0
      BY <3>1, ConcatEmptySeq, LenProperties
    <3>. QED
      BY <2>1, <3>2 DEF Stream
  <2>3. Known(<<>>, up, connected, objects_, unannounced, DOMAIN view, asked)
    BY <2>2 DEF IInv, ViewGood, Good
  <2>4. \A kind : Lacks(<<>>, kind)
    BY <2>2 DEF Lacks
  <2>5. CASE up
    <3>1. \A o \in Objects : Right(objects_, unannounced, o, DOMAIN view)
      BY <2>1, <2>2, <2>3, <2>4, <2>5 DEF Known
    <3>. QED
      BY <2>1, <3>1 DEF Types, Right
  <2>6. CASE ~up
    <3>1. DOMAIN view = {} /\ objects_ = {}
      BY <2>1, <2>3, <2>4, <2>6 DEF Known, DeadIsEmpty
    <3>. QED
      BY <3>1
  <2>. QED
    BY <2>5, <2>6
<1>. QED
  BY <1>1, Invariance, PTL

\* If every object has one interface only, what the client knows of an object is what
\* introspection tells, through whichever signals and answers it learned of it.
THEOREM SingleInterfaceRight ==
    ASSUME \A o \in Objects : Len(Interfaces[o]) = 1
    PROVE  Spec => []AsIntrospected
<1>1. IInv => AsIntrospected
  <2>. SUFFICES ASSUME IInv, NEW o \in DOMAIN view
                PROVE  view[o] = introspect(o)
    BY DEF AsIntrospected
  <2>1. o \in Objects /\ view[o] = serialize_object(o)
    BY DEF IInv, Types
  <2>. QED
    BY <2>1, SingleReported
<1>. QED
  BY <1>1, Invariance, PTL
=============================================================================
