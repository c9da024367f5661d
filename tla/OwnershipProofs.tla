--------------------------- MODULE OwnershipProofs ---------------------------
(***************************************************************************)
(* Proofs about Ownership for every number of messages, Anys, objects and  *)
(* descriptors: a message lives as long as somebody reads from it, and an  *)
(* open descriptor is closed by exactly one.                               *)
(***************************************************************************)
EXTENDS Ownership, FiniteSetTheorems, WellFoundedInduction, TLAPS

Holders(m) == {a \in Anys : value_[a] = m}

\* The references of a message are its Anys and its handler ...
Counts == \A m \in Messages :
    /\ IsFiniteSet(Holders(m))
    /\ refs[m] = Cardinality(Holders(m)) + (IF current = m THEN 1 ELSE 0)

\* ... and a message that has not arrived has none.
UnseenFree == current \notin unseen /\ \A a \in Anys : value_[a] \notin unseen

\* Who closes a descriptor: an object, or a message, which has a descriptor only
\* while it is referenced.
Owns(v, fd) == fd_[v] = fd /\ closes[v]

CarriedAlive == \A m \in Messages : carried[m] # NoFd => refs[m] > 0

\* Two never close the same.
Exclusive == \A fd \in Fds :
    /\ \A v, w \in Objects : Owns(v, fd) /\ Owns(w, fd) => v = w
    /\ \A m, n \in Messages : carried[m] = fd /\ carried[n] = fd => m = n
    /\ \A v \in Objects, m \in Messages : ~(Owns(v, fd) /\ carried[m] = fd)
    /\ fd \in user => /\ \A v \in Objects : ~Owns(v, fd)
                      /\ \A m \in Messages : carried[m] # fd

\* What is open has an owner, except what was decoded into a reference.
Owned(fd) == (\E v \in Objects : Owns(v, fd)) \/ (\E m \in Messages : carried[m] = fd) \/ fd \in user

NothingLost == unowned \subseteq open /\ \A fd \in Fds : fd \in open \ unowned <=> Owned(fd)

FdInv == CarriedAlive /\ Exclusive /\ NothingLost

IInv == TypeOK /\ Counts /\ UnseenFree /\ FdInv
-----------------------------------------------------------------------------
\* A new descriptor is none that is taken.
LEMMA NewIsFree ==
    ASSUME NEW taken
    PROVE  NewFd(taken) = NoFd \/ NewFd(taken) \in Fds \ taken
<1>. DEFINE R == OpToRel(<, Nat)
            T == Fds \ taken
<1>1. CASE Fds \subseteq taken
  BY <1>1 DEF NewFd
<1>2. CASE ~(Fds \subseteq taken)
  <2>1. T \subseteq Nat /\ T # {}
    BY <1>2, OwnershipAssumption DEF Fds
  <2>2. PICK x \in T : \A y \in T : ~(<<y, x>> \in R)
    <3>1. IsWellFoundedOn(R, Nat)
      BY NatLessThanWellFounded
    <3>. HIDE DEF R, T
    <3>. QED
      BY <2>1, <3>1, WFMin
  <2>3. \A y \in T : x <= y
    <3>. SUFFICES ASSUME NEW y \in T PROVE x <= y
      OBVIOUS
    <3>1. ~(y < x) /\ x \in Nat /\ y \in Nat
      BY <2>1, <2>2 DEF OpToRel
    <3>. QED
      BY <3>1
  <2>. HIDE DEF T
  <2>4. Min(T) \in T
    BY <2>3 DEF Min
  <2>. QED
    BY <1>2, <2>4 DEF NewFd, T
<1>. QED
  BY <1>1, <1>2

\* The number for no descriptor is not one of a descriptor.
LEMMA NoFdIsNone == NoFd \notin Fds
BY OwnershipAssumption DEF Fds
-----------------------------------------------------------------------------
(***************************************************************************)
(* References of messages                                                  *)
(***************************************************************************)

\* The descriptor of a message that is freed had no other owner.
LEMMA ReferenceStep ==
    ASSUME IInv, NEW dropped, NEW taken, Reference(dropped, taken), refs' \in [Messages -> Nat],
           UNCHANGED <<fd_, closes, user, unowned>>
    PROVE  /\ FdInv'
           /\ carried' \in [Messages -> Fds \cup {NoFd}] /\ open' \subseteq Fds
<1>. USE DEF IInv
<1>. DEFINE freed == Freed(dropped, taken)
<1>1. /\ freed \subseteq Messages
      /\ \A m \in Messages : m \in freed <=> refs[m] > 0 /\ refs'[m] = 0
      /\ carried' = [m \in Messages |-> IF m \in freed THEN NoFd ELSE carried[m]]
      /\ open' = open \ {carried[m] : m \in freed}
  BY DEF Reference, Freed
<1>. HIDE DEF freed
<1>2. carried' \in [Messages -> Fds \cup {NoFd}] /\ open' \subseteq Fds
  BY <1>1 DEF TypeOK
<1>3. \A m \in Messages : carried'[m] = IF m \in freed THEN NoFd ELSE carried[m]
  BY <1>1
<1>4. CarriedAlive'
  BY <1>1, <1>3 DEF CarriedAlive, FdInv, TypeOK
<1>5. Exclusive'
  BY <1>3, NoFdIsNone DEF Exclusive, FdInv, Owns
<1>6. unowned' \subseteq open'
  <2>1. \A m \in freed : carried[m] \notin unowned
    <3>. SUFFICES ASSUME NEW m \in freed, carried[m] \in unowned PROVE FALSE
      OBVIOUS
    <3>1. carried[m] \in Fds /\ m \in Messages
      BY <1>1 DEF TypeOK
    <3>. QED
      BY <3>1 DEF FdInv, NothingLost, Owned
  <2>. QED
    BY <1>1, <2>1 DEF FdInv, NothingLost
<1>7. ASSUME NEW fd \in Fds
      PROVE  fd \in open' \ unowned' <=> Owned(fd)'
  <2>1. fd \in open \ unowned <=> Owned(fd)
    BY DEF FdInv, NothingLost
  <2>2. CASE \E m \in freed : carried[m] = fd
    <3>1. fd \notin open'
      BY <1>1, <2>2
    <3>2. PICK m \in Messages : m \in freed /\ carried[m] = fd
      BY <1>1, <2>2
    <3>3. /\ \A v \in Objects : ~Owns(v, fd)
          /\ \A n \in Messages : carried[n] = fd => n = m
          /\ fd \notin user
      BY <3>2 DEF FdInv, Exclusive
    <3>4. ~Owned(fd)'
      BY <1>3, <3>2, <3>3, NoFdIsNone DEF Owned, Owns
    <3>. QED
      BY <3>1, <3>4
  <2>3. CASE ~\E m \in freed : carried[m] = fd
    <3>1. fd \in open' <=> fd \in open
      BY <1>1, <2>3
    <3>2. \A m \in Messages : carried'[m] = fd <=> carried[m] = fd
      BY <1>3, <2>3, NoFdIsNone
    <3>. QED
      BY <2>1, <3>1, <3>2 DEF Owned, Owns
  <2>. QED
    BY <2>2, <2>3
<1>. QED
  BY <1>2, <1>4, <1>5, <1>6, <1>7 DEF FdInv, NothingLost

\* An Any changes from one message to another, or from and to none: what it drops and
\* what it takes is counted.
LEMMA HoldersStep ==
    ASSUME IInv, NEW a \in Anys, NEW x \in Messages \cup {Local, Empty}, x \notin unseen,
           NEW taken, \A m \in Messages : m = taken <=> m = x,
           value_' = [value_ EXCEPT ![a] = x], Reference(value_[a], taken),
           UNCHANGED <<current, unseen, fd_, closes, user, unowned>>
    PROVE  IInv'
<1>. USE DEF IInv
<1>1. \A b \in Anys : value_'[b] = IF b = a THEN x ELSE value_[b]
  BY DEF TypeOK
<1>2. \A m \in Messages : refs'[m] = refs[m] + (IF m = x THEN 1 ELSE 0) - (IF m = value_[a] THEN 1 ELSE 0)
  BY DEF Reference, Counted
<1>3. ASSUME NEW m \in Messages
      PROVE  /\ IsFiniteSet(Holders(m))'
             /\ refs'[m] = Cardinality(Holders(m))' + (IF current = m THEN 1 ELSE 0)
             /\ refs'[m] \in Nat
  <2>1. PICK S : S = Holders(m)
    OBVIOUS
  <2>2. /\ IsFiniteSet(S) /\ Cardinality(S) \in Nat
        /\ refs[m] = Cardinality(S) + (IF current = m THEN 1 ELSE 0)
    BY <2>1, FS_CardinalityType DEF Counts
  <2>3. CASE m = x /\ m # value_[a]
    <3>1. Holders(m)' = S \cup {a} /\ a \notin S
      BY <1>1, <2>1, <2>3 DEF Holders
    <3>2. IsFiniteSet(S \cup {a}) /\ Cardinality(S \cup {a}) = Cardinality(S) + 1
      BY <2>2, <3>1, FS_AddElement
    <3>. QED
      BY <1>2, <2>2, <2>3, <3>1, <3>2
  <2>4. CASE m # x /\ m = value_[a]
    <3>1. Holders(m)' = S \ {a} /\ a \in S
      BY <1>1, <2>1, <2>4 DEF Holders
    <3>2. IsFiniteSet(S \ {a}) /\ Cardinality(S \ {a}) = Cardinality(S) - 1 /\ Cardinality(S \ {a}) \in Nat
      BY <2>2, <3>1, FS_RemoveElement, FS_CardinalityType
    <3>. QED
      BY <1>2, <2>2, <2>4, <3>1, <3>2
  <2>5. CASE m = x <=> m = value_[a]
    <3>1. Holders(m)' = S
      BY <1>1, <2>1, <2>5 DEF Holders
    <3>. QED
      BY <1>2, <2>2, <2>5, <3>1
  <2>. QED
    BY <2>3, <2>4, <2>5
<1>4. refs' \in [Messages -> Nat]
  BY <1>3 DEF Reference
<1>5. FdInv' /\ carried' \in [Messages -> Fds \cup {NoFd}] /\ open' \subseteq Fds
  BY <1>4, ReferenceStep
<1>6. TypeOK'
  BY <1>4, <1>5 DEF TypeOK
<1>7. Counts'
  BY <1>3 DEF Counts
<1>8. UnseenFree'
  BY <1>1 DEF UnseenFree
<1>. QED
  BY <1>5, <1>6, <1>7, <1>8

\* Only the variables of the descriptors change.
LEMMA HoldersKept ==
    ASSUME IInv, TypeOK', FdInv', UNCHANGED <<current, refs, unseen, value_>>
    PROVE  IInv'
<1>1. \A m \in Messages : Holders(m)' = Holders(m)
  BY DEF Holders
<1>2. Counts' /\ UnseenFree'
  BY <1>1 DEF IInv, Counts, UnseenFree
<1>. QED
  BY <1>2 DEF IInv

\* An Any is decoded, set or assigned: the message it read from has one reader
\* less, the one it reads from now one more.
LEMMA AnyStep ==
    ASSUME IInv, NEW a \in Anys, NEW b \in Anys,
           \/ Codec_decode(a) \/ SetAny(a, Local) \/ SetAny(a, Empty) \/ AssignAny(a, b)
    PROVE  IInv'
<1>. USE DEF IInv
<1>1. {Local, Empty, NoMessage} \cap Messages = {} /\ unseen \subseteq Messages
  BY OwnershipAssumption DEF TypeOK
<1>2. CASE Codec_decode(a)
  <2>1. current \in Messages /\ current \notin unseen
    BY <1>2 DEF Codec_decode, TypeOK, UnseenFree
  <2>2. PICK x \in Messages : x = current
    BY <2>1
  <2>. QED
    BY <1>2, <2>1, <2>2, HoldersStep DEF Codec_decode, object
<1>3. ASSUME NEW x \in {Local, Empty}, SetAny(a, x)
      PROVE  IInv'
  <2>1. x \notin unseen /\ \A m \in Messages : m = NoMessage <=> m = x
    BY <1>1
  <2>. QED
    BY <1>3, <2>1, HoldersStep DEF SetAny, object
<1>4. CASE AssignAny(a, b)
  <2>1. PICK x \in Messages \cup {Local, Empty} : x = value_[b] /\ x \notin unseen
    BY DEF TypeOK, UnseenFree
  <2>. QED
    BY <1>4, <2>1, HoldersStep DEF AssignAny, object
<1>. QED
  BY <1>2, <1>3, <1>4

\* A handler ends, and with it its reference.
LEMMA HandledStep ==
    ASSUME IInv, Handled
    PROVE  IInv'
<1>. USE DEF IInv
<1>1. /\ current \in Messages /\ current' = NoMessage /\ NoMessage \notin Messages
      /\ UNCHANGED <<unseen, value_, fd_, closes, user, unowned>>
      /\ Reference(current, NoMessage)
  BY OwnershipAssumption DEF Handled, TypeOK, object
<1>2. \A m \in Messages : Holders(m)' = Holders(m)
  BY <1>1 DEF Holders
<1>3. \A m \in Messages : refs'[m] = refs[m] - (IF m = current THEN 1 ELSE 0)
  BY <1>1 DEF Reference, Counted, TypeOK
<1>4. \A m \in Messages : /\ IsFiniteSet(Holders(m)) /\ Cardinality(Holders(m)) \in Nat
                          /\ refs[m] = Cardinality(Holders(m)) + (IF current = m THEN 1 ELSE 0)
  BY FS_CardinalityType DEF Counts
<1>5. \A m \in Messages : refs'[m] = Cardinality(Holders(m)) /\ refs'[m] \in Nat
  BY <1>3, <1>4
<1>6. Counts'
  BY <1>1, <1>2, <1>4, <1>5 DEF Counts
<1>7. refs' \in [Messages -> Nat]
  BY <1>1, <1>5 DEF Reference
<1>8. FdInv' /\ carried' \in [Messages -> Fds \cup {NoFd}] /\ open' \subseteq Fds
  BY <1>1, <1>7, ReferenceStep
<1>9. TypeOK' /\ UnseenFree'
  BY <1>1, <1>7, <1>8 DEF TypeOK, UnseenFree
<1>. QED
  BY <1>6, <1>8, <1>9

\* A message arrives with a new descriptor.
LEMMA ReceiveStep ==
    ASSUME IInv, NEW m \in Messages, Receive(m)
    PROVE  IInv'
<1>. USE DEF IInv
<1>1. PICK fd \in {NoFd, NewFd(open)} :
          carried' = [carried EXCEPT ![m] = fd] /\ open' = open \cup Opened(fd)
  BY DEF Receive
<1>2. fd = NoFd \/ fd \in Fds \ open
  BY <1>1, NewIsFree
<1>3. /\ current = NoMessage /\ current' = m /\ m \in unseen /\ unseen' = unseen \ {m}
      /\ refs' = [refs EXCEPT ![m] = 1] /\ NoMessage \notin Messages
      /\ UNCHANGED <<value_, fd_, closes, user, unowned>>
  BY OwnershipAssumption DEF Receive, object
<1>4. refs[m] = 0 /\ carried[m] = NoFd
  <2>1. Holders(m) = {}
    BY <1>3 DEF Holders, UnseenFree
  <2>2. refs[m] = 0
    BY <1>3, <2>1, FS_EmptySet DEF Counts
  <2>. QED
    BY <2>2 DEF FdInv, CarriedAlive
<1>5. \A n \in Messages : /\ Holders(n)' = Holders(n)
                          /\ refs'[n] = IF n = m THEN 1 ELSE refs[n]
                          /\ carried'[n] = IF n = m THEN fd ELSE carried[n]
  BY <1>1, <1>3 DEF Holders, TypeOK
<1>6. Counts'
  <2>1. Holders(m) = {}
    BY <1>3 DEF Holders, UnseenFree
  <2>2. Cardinality(Holders(m)) = 0
    BY <2>1, FS_EmptySet
  <2>. QED
    BY <1>3, <1>5, <2>2 DEF Counts
<1>7. UnseenFree'
  BY <1>3 DEF UnseenFree
<1>8. TypeOK'
  BY <1>1, <1>2, <1>3 DEF TypeOK, Opened
<1>9. open' = open \cup (IF fd = NoFd THEN {} ELSE {fd})
  BY <1>1 DEF Opened
<1>10. CarriedAlive'
  BY <1>5 DEF FdInv, CarriedAlive
<1>11. fd # NoFd => ~Owned(fd) /\ fd \notin unowned
  BY <1>2 DEF FdInv, NothingLost
<1>12. Exclusive'
  BY <1>3, <1>5, <1>11, NoFdIsNone DEF FdInv, Exclusive, Owns, Owned
<1>13. NothingLost'
  <2>1. \A e \in Fds : Owned(e)' <=> Owned(e) \/ e = fd
    BY <1>3, <1>4, <1>5, NoFdIsNone DEF Owned, Owns
  <2>2. /\ unowned \subseteq open /\ unowned' = unowned
        /\ \A e \in Fds : e \in open \ unowned <=> Owned(e)
    BY <1>3 DEF FdInv, NothingLost
  <2>3. \A e \in Fds : e \in open' <=> e \in open \/ e = fd
    BY <1>9, NoFdIsNone
  <2>4. \A e \in Fds : e \in open' \ unowned' <=> Owned(e)'
    BY <1>11, <2>1, <2>2, <2>3, NoFdIsNone
  <2>. QED
    BY <1>9, <2>2, <2>4 DEF NothingLost
<1>. QED
  BY <1>6, <1>7, <1>8, <1>10, <1>12, <1>13 DEF FdInv
-----------------------------------------------------------------------------
(***************************************************************************)
(* Objects of the class FileDescriptor                                     *)
(***************************************************************************)

\* An object closes what it has and gets fd.  If it is going to close that, somebody
\* gave it up or it was opened for the object; what is opened for an object that
\* will not close it is lost.
LEMMA ReplaceStep ==
    ASSUME IInv, NEW v \in Objects, NEW fd \in Fds \cup {NoFd}, NEW close \in BOOLEAN,
           NEW opened \in SUBSET Fds, NEW given \in SUBSET user, NEW lost \in SUBSET opened,
           Replace(v, fd, close, opened), UNCHANGED <<message, value_>>,
           opened \cap (open \ Closed(v)) = {},
           (given \cup opened) \ lost = IF close /\ fd # NoFd THEN {fd} ELSE {},
           user' = user \ given, unowned' = unowned \cup lost
    PROVE  IInv'
<1>. USE DEF IInv
<1>1. /\ \A w \in Objects : fd_'[w] = IF w = v THEN fd ELSE fd_[w]
      /\ \A w \in Objects : closes'[w] = IF w = v THEN close ELSE closes[w]
      /\ open' = (open \ Closed(v)) \cup opened
      /\ UNCHANGED <<current, refs, unseen, carried, value_>>
  BY DEF Replace, TypeOK, message
<1>2. TypeOK'
  BY <1>1 DEF TypeOK, Replace
<1>3. \A e \in Fds : e \in Closed(v) <=> Owns(v, e)
  BY NoFdIsNone DEF Closed, Owns
<1>4. \A e \in Fds : /\ \A w \in Objects : w # v => (Owns(w, e)' <=> Owns(w, e))
                     /\ Owns(v, e)' <=> close /\ e = fd
  BY <1>1 DEF Owns
<1>5. \A e \in Fds : e \in (given \cup opened) \ lost <=> Owns(v, e)'
  BY <1>4, NoFdIsNone
<1>6. \A e \in given : /\ \A w \in Objects : ~Owns(w, e)
                       /\ \A m \in Messages : carried[m] # e
  BY DEF FdInv, Exclusive, TypeOK
<1>7. \A e \in opened : Owned(e) => Owns(v, e)
  <2>. SUFFICES ASSUME NEW e \in opened, Owned(e) PROVE Owns(v, e)
    OBVIOUS
  <2>1. e \in open
    BY DEF FdInv, NothingLost
  <2>. QED
    BY <1>3, <2>1
<1>8. ASSUME NEW e \in Fds, Owns(v, e)'
      PROVE  /\ \A w \in Objects : w # v => ~Owns(w, e)
             /\ \A m \in Messages : carried[m] # e
             /\ e \notin user'
  <2>1. CASE e \in given
    BY <1>6, <2>1
  <2>2. CASE e \in opened /\ e \notin given
    <3>1. Owned(e) => Owns(v, e)
      BY <1>7, <2>2
    <3>2. Owns(v, e) => /\ \A w \in Objects : w # v => ~Owns(w, e)
                        /\ \A m \in Messages : carried[m] # e
                        /\ e \notin user
      BY DEF FdInv, Exclusive
    <3>. QED
      BY <3>1, <3>2 DEF Owned
  <2>. QED
    BY <1>5, <1>8, <2>1, <2>2
<1>9. CarriedAlive'
  BY <1>1 DEF FdInv, CarriedAlive
<1>10. Exclusive'
  <2>. SUFFICES ASSUME NEW e \in Fds
                PROVE  /\ \A x, w \in Objects : Owns(x, e)' /\ Owns(w, e)' => x = w
                       /\ \A m, n \in Messages : carried[m] = e /\ carried[n] = e => m = n
                       /\ \A w \in Objects, m \in Messages : ~(Owns(w, e)' /\ carried[m] = e)
                       /\ e \in user' => /\ \A w \in Objects : ~Owns(w, e)'
                                         /\ \A m \in Messages : carried[m] # e
    BY <1>1 DEF Exclusive
  <2>. QED
    BY <1>4, <1>8 DEF FdInv, Exclusive
<1>11. unowned' \subseteq open'
  <2>1. \A e \in unowned : ~Owns(v, e) /\ e \in Fds /\ e \in open
    BY DEF FdInv, NothingLost, Owned, TypeOK
  <2>. QED
    BY <1>1, <1>3, <2>1
<1>12. ASSUME NEW e \in Fds
       PROVE  e \in open' \ unowned' <=> Owned(e)'
  <2>1. e \in open \ unowned <=> Owned(e)
    BY DEF FdInv, NothingLost
  <2>2. Owned(e)' <=> \/ Owns(v, e)'
                      \/ \E w \in Objects : w # v /\ Owns(w, e)
                      \/ \E m \in Messages : carried[m] = e
                      \/ e \in user \ given
    BY <1>1, <1>4 DEF Owned
  <2>3. CASE Owns(v, e)'
    <3>1. e \in given \cup opened /\ e \notin lost
      BY <1>5, <2>3
    <3>2. e \notin unowned
      <4>1. CASE e \in given
        BY <2>1, <4>1 DEF Owned
      <4>2. CASE e \in opened
        <5>1. e \in open => Owns(v, e)
          BY <1>3, <4>2
        <5>. QED
          BY <2>1, <5>1 DEF Owned, FdInv, NothingLost
      <4>. QED
        BY <3>1, <4>1, <4>2
    <3>3. e \in open'
      <4>1. CASE e \in given
        <5>1. e \in open /\ ~Owns(v, e)
          BY <1>6, <2>1, <4>1 DEF Owned
        <5>. QED
          BY <1>1, <1>3, <5>1
      <4>2. CASE e \in opened
        BY <1>1, <4>2
      <4>. QED
        BY <3>1, <4>1, <4>2
    <3>. QED
      BY <2>2, <2>3, <3>1, <3>2, <3>3
  <2>4. CASE ~Owns(v, e)'
    <3>1. e \notin (given \cup opened) \ lost
      BY <1>5, <2>4
    <3>2. CASE e \in lost
      <4>1. Owned(e) => Owns(v, e)
        BY <1>7, <3>2
      <4>2. Owns(v, e) => /\ \A w \in Objects : w # v => ~Owns(w, e)
                          /\ \A m \in Messages : carried[m] # e
                          /\ e \notin user
        BY DEF FdInv, Exclusive
      <4>3. ~Owned(e)'
        BY <2>2, <2>4, <4>1, <4>2 DEF Owned
      <4>. QED
        BY <3>2, <4>3
    <3>3. CASE e \notin lost
      <4>1. e \notin given /\ e \notin opened
        BY <3>1, <3>3
      <4>2. e \in open' \ unowned' <=> e \in open \ unowned /\ ~Owns(v, e)
        BY <1>1, <1>3, <3>3, <4>1
      <4>3. Owns(v, e) => /\ \A w \in Objects : w # v => ~Owns(w, e)
                          /\ \A m \in Messages : carried[m] # e
                          /\ e \notin user
        BY DEF FdInv, Exclusive
      <4>. QED
        BY <2>1, <2>2, <2>4, <4>1, <4>2, <4>3 DEF Owned
    <3>. QED
      BY <3>2, <3>3
  <2>. QED
    BY <2>3, <2>4
<1>13. FdInv'
  BY <1>9, <1>10, <1>11, <1>12 DEF FdInv, NothingLost
<1>. QED
  BY <1>1, <1>2, <1>13, HoldersKept

\* The user opens a new descriptor or closes one that nobody else would close.
LEMMA UserStep ==
    ASSUME IInv, UserOpens \/ (\E fd \in user : UserCloses(fd))
    PROVE  IInv'
<1>. USE DEF IInv
<1>1. UNCHANGED <<current, refs, unseen, carried, value_, fd_, closes, unowned>>
  BY DEF UserOpens, UserCloses, message, object
<1>2. \A e : (\E v \in Objects : Owns(v, e)') <=> (\E v \in Objects : Owns(v, e))
  BY <1>1 DEF Owns
<1>3. CASE UserOpens
  <2>1. PICK fd \in Fds \ open : open' = open \cup {fd} /\ user' = user \cup {fd}
    BY <1>3, NewIsFree DEF UserOpens
  <2>2. ~Owned(fd) /\ fd \notin unowned
    BY <2>1 DEF FdInv, NothingLost
  <2>3. TypeOK' /\ CarriedAlive'
    BY <1>1, <2>1 DEF TypeOK, FdInv, CarriedAlive
  <2>4. Exclusive'
    BY <1>1, <2>1, <2>2 DEF FdInv, Exclusive, Owned, Owns
  <2>5. \A e \in Fds : Owned(e)' <=> Owned(e) \/ e = fd
    BY <1>1, <1>2, <2>1 DEF Owned
  <2>6. NothingLost'
    <3>1. \A e \in Fds : e \in open' \ unowned' <=> Owned(e)'
      BY <1>1, <2>1, <2>2, <2>5 DEF FdInv, NothingLost
    <3>2. unowned' \subseteq open'
      BY <1>1, <2>1 DEF FdInv, NothingLost
    <3>. QED
      BY <3>1, <3>2 DEF NothingLost
  <2>. QED
    BY <1>1, <2>3, <2>4, <2>6, HoldersKept DEF FdInv
<1>4. CASE \E fd \in user : UserCloses(fd)
  <2>1. PICK fd \in user : open' = open \ {fd} /\ user' = user \ {fd}
    BY <1>4 DEF UserCloses
  <2>2. /\ fd \in Fds /\ fd \notin unowned
        /\ \A v \in Objects : ~Owns(v, fd)
        /\ \A m \in Messages : carried[m] # fd
    BY <2>1 DEF TypeOK, FdInv, Exclusive, NothingLost, Owned
  <2>3. TypeOK' /\ CarriedAlive'
    BY <1>1, <2>1 DEF TypeOK, FdInv, CarriedAlive
  <2>4. Exclusive'
    BY <1>1, <2>1 DEF FdInv, Exclusive, Owns
  <2>5. \A e \in Fds : Owned(e)' <=> Owned(e) /\ e # fd
    BY <1>1, <1>2, <2>1, <2>2 DEF Owned
  <2>6. NothingLost'
    <3>1. \A e \in Fds : e \in open' \ unowned' <=> Owned(e)'
      BY <1>1, <2>1, <2>2, <2>5 DEF FdInv, NothingLost
    <3>2. unowned' \subseteq open'
      BY <1>1, <2>1, <2>2 DEF FdInv, NothingLost
    <3>. QED
      BY <3>1, <3>2 DEF NothingLost
  <2>. QED
    BY <1>1, <2>3, <2>4, <2>6, HoldersKept DEF FdInv
<1>. QED
  BY <1>3, <1>4

\* The two ordinary cases: the user gives up nothing or just what the object gets, and
\* nothing that was opened is lost.
LEMMA ReplaceOpened ==
    ASSUME IInv, NEW v \in Objects, NEW fd \in Fds \cup {NoFd}, NEW close \in BOOLEAN,
           NEW opened \in SUBSET Fds, Replace(v, fd, close, opened),
           UNCHANGED <<message, value_, user, unowned>>,
           opened \cap (open \ Closed(v)) = {},
           opened = IF close /\ fd # NoFd THEN {fd} ELSE {}
    PROVE  IInv'
<1>1. PICK given \in SUBSET user : given = {}
  OBVIOUS
<1>2. PICK lost \in SUBSET opened : lost = {}
  OBVIOUS
<1>3. (given \cup opened) \ lost = IF close /\ fd # NoFd THEN {fd} ELSE {}
  BY <1>1, <1>2
<1>4. user' = user \ given /\ unowned' = unowned \cup lost /\ UNCHANGED <<message, value_>>
  BY <1>1, <1>2
<1>. QED
  BY <1>3, <1>4, ReplaceStep

\* An object that is handed a descriptor of the program closes it from now on, and
\* the one it had before is closed.
LEMMA ReplaceGiven ==
    ASSUME IInv, NEW v \in Objects, NEW fd \in user, Replace(v, fd, TRUE, {}),
           user' = user \ {fd}, UNCHANGED <<message, value_, unowned>>
    PROVE  IInv'
<1>1. PICK none : none = {}
  OBVIOUS
<1>2. fd \in Fds \cup {NoFd} /\ fd # NoFd
  BY NoFdIsNone DEF IInv, TypeOK
<1>3. PICK given \in SUBSET user : given = {fd}
  OBVIOUS
<1>4. PICK close \in BOOLEAN : close = TRUE
  OBVIOUS
<1>5. /\ none \in SUBSET Fds /\ none \in SUBSET none
      /\ (given \cup none) \ none = IF close /\ fd # NoFd THEN {fd} ELSE {}
      /\ none \cap (open \ Closed(v)) = {}
      /\ user' = user \ given /\ unowned' = unowned \cup none /\ UNCHANGED <<message, value_>>
  BY <1>1, <1>2, <1>3, <1>4
<1>6. Replace(v, fd, close, none)
  BY <1>1, <1>4
<1>. QED
  BY <1>2, <1>5, <1>6, ReplaceStep

\* An object that will close nothing closes what it had.
LEMMA ReplaceUnowned ==
    ASSUME IInv, NEW v \in Objects, NEW fd \in Fds \cup {NoFd}, NEW close \in BOOLEAN,
           ~close \/ fd = NoFd, Replace(v, fd, close, {}),
           UNCHANGED <<message, value_, user, unowned>>
    PROVE  IInv'
<1>1. PICK none : none = {}
  OBVIOUS
<1>2. /\ none \in SUBSET Fds /\ none \cap (open \ Closed(v)) = {}
      /\ none = IF close /\ fd # NoFd THEN {fd} ELSE {}
      /\ Replace(v, fd, close, none)
  BY <1>1
<1>. QED
  BY <1>2, ReplaceOpened

\* What the user assigns is given up or stays with the user.
LEMMA GivenStep ==
    ASSUME IInv, NEW v \in Objects, NEW fd \in user,
           Adopt(v, fd) \/ Refer(v, fd) \/ AssignUsers(v, fd)
    PROVE  IInv'
<1>. USE DEF IInv
<1>1. fd \in Fds /\ fd # NoFd /\ closes[v] \in BOOLEAN
  BY NoFdIsNone DEF TypeOK
<1>2. UNCHANGED <<message, value_, unowned>>
  BY DEF Adopt, Refer, AssignUsers
<1>3. CASE Adopt(v, fd)
  BY <1>3, ReplaceGiven DEF Adopt
<1>4. CASE Refer(v, fd)
  <2>1. Replace(v, fd, FALSE, {}) /\ UNCHANGED <<message, value_, user, unowned>>
    BY <1>4 DEF Refer
  <2>. QED
    BY <1>1, <2>1, ReplaceUnowned
<1>5. CASE AssignUsers(v, fd)
  <2>1. CASE closes[v]
    <3>1. closes[v] = TRUE
      BY <1>1, <2>1
    <3>2. Replace(v, fd, TRUE, {}) /\ user' = user \ {fd}
      BY <1>5, <3>1 DEF AssignUsers, AssignInt
    <3>. QED
      BY <1>2, <3>2, ReplaceGiven
  <2>2. CASE ~closes[v]
    <3>1. closes[v] = FALSE
      BY <1>1, <2>2
    <3>2. Replace(v, fd, FALSE, {}) /\ user' = user
      BY <1>5, <3>1 DEF AssignUsers, AssignInt
    <3>. QED
      BY <1>1, <1>2, <3>2, ReplaceUnowned
  <2>. QED
    BY <2>1, <2>2
<1>. QED
  BY <1>3, <1>4, <1>5

\* What is assigned to an object is opened for it, copied from another reference, or
\* nothing.
LEMMA OpenedStep ==
    ASSUME IInv, NEW v \in Objects,
           \/ Destroy(v) \/ Decode(v)
           \/ \E w \in Objects : Assign(v, w)
           \/ \E a \in Anys : Extract(v, a)
    PROVE  IInv'
<1>. USE DEF IInv
<1>1. closes[v] \in BOOLEAN
  BY DEF TypeOK
<1>2. CASE Destroy(v)
  BY <1>2, ReplaceUnowned DEF Destroy
<1>3. CASE Decode(v)
  <2>1. PICK copy \in Fds \cup {NoFd} : copy = NewFd(open)
    BY NewIsFree
  <2>2. PICK opened \in SUBSET Fds : opened = Opened(copy)
    BY DEF Opened
  <2>3. opened \cap (open \ Closed(v)) = {} /\ opened = IF copy # NoFd THEN {copy} ELSE {}
    BY <2>1, <2>2, NewIsFree DEF Opened
  <2>4. CASE closes[v]
    <3>1. closes[v] = TRUE
      BY <1>1, <2>4
    <3>2. Replace(v, copy, TRUE, opened) /\ UNCHANGED <<message, value_, user, unowned>>
      BY <1>3, <2>1, <2>2, <3>1 DEF Decode, AssignInt
    <3>. QED
      BY <2>3, <3>2, ReplaceOpened
  <2>5. CASE ~closes[v]
    <3>1. closes[v] = FALSE
      BY <1>1, <2>5
    <3>2. /\ Replace(v, copy, FALSE, opened) /\ UNCHANGED <<message, value_, user>>
          /\ unowned' = unowned \cup opened
      BY <1>3, <2>1, <2>2, <3>1 DEF Decode, AssignInt
    <3>3. PICK given \in SUBSET user : given = {}
      OBVIOUS
    <3>4. (given \cup opened) \ opened = {} /\ user' = user \ given /\ opened \in SUBSET opened
      BY <3>2, <3>3
    <3>. QED
      BY <2>3, <3>2, <3>4, ReplaceStep
  <2>. QED
    BY <2>4, <2>5
<1>4. ASSUME NEW a \in Anys, Extract(v, a)
      PROVE  IInv'
  <2>1. PICK copy \in Fds \cup {NoFd} : copy = NewFd(open)
    BY NewIsFree
  <2>2. PICK opened \in SUBSET Fds : opened = Opened(copy)
    BY DEF Opened
  <2>3. opened \cap (open \ Closed(v)) = {} /\ opened = IF copy # NoFd THEN {copy} ELSE {}
    BY <2>1, <2>2, NewIsFree DEF Opened
  <2>4. Replace(v, copy, TRUE, opened) /\ UNCHANGED <<message, value_, user, unowned>>
    BY <1>4, <2>1, <2>2 DEF Extract
  <2>. QED
    BY <2>3, <2>4, ReplaceOpened
<1>5. ASSUME NEW w \in Objects, Assign(v, w)
      PROVE  IInv'
  <2>. DEFINE Copy == IF fd_[w] = NoFd THEN NoFd
                      ELSE IF ~closes[w] THEN fd_[w]
                      ELSE NewFd(open \ Closed(v))
  <2>1. PICK copy \in Fds \cup {NoFd} : copy = Copy
    <3>1. Copy \in Fds \cup {NoFd}
      BY NewIsFree DEF TypeOK
    <3>. QED
      BY <3>1
  <2>2. PICK c \in BOOLEAN : c = closes[w]
    BY DEF TypeOK
  <2>3. PICK opened \in SUBSET Fds : opened = IF closes[w] THEN Opened(copy) ELSE {}
    BY DEF Opened
  <2>4. Replace(v, copy, c, opened) /\ UNCHANGED <<message, value_, user, unowned>>
    BY <1>5, <2>1, <2>2, <2>3 DEF Assign
  <2>5. opened = IF c /\ copy # NoFd THEN {copy} ELSE {}
    BY <2>2, <2>3 DEF Opened
  <2>6. opened \cap (open \ Closed(v)) = {}
    BY <2>1, <2>2, <2>5, NewIsFree
  <2>. QED
    BY <2>4, <2>5, <2>6, ReplaceOpened
<1>. QED
  BY <1>2, <1>3, <1>4, <1>5

\* The descriptor passes from w to v, what v had is closed; moved into itself an
\* object closes what it has.
LEMMA MoveStep ==
    ASSUME IInv, NEW v \in Objects, NEW w \in Objects, MoveAssign(v, w)
    PROVE  IInv'
<1>. USE DEF IInv
<1>1. /\ fd_' = [[fd_ EXCEPT ![v] = fd_[w]] EXCEPT ![w] = NoFd]
      /\ closes' = [closes EXCEPT ![v] = closes[w]]
      /\ open' = open \ Closed(v)
      /\ UNCHANGED <<current, refs, unseen, carried, value_, user, unowned>>
  BY DEF MoveAssign, message
<1>2. /\ \A x \in Objects : fd_'[x] = IF x = w THEN NoFd ELSE IF x = v THEN fd_[w] ELSE fd_[x]
      /\ \A x \in Objects : closes'[x] = IF x = v THEN closes[w] ELSE closes[x]
  BY <1>1 DEF TypeOK
<1>3. TypeOK' /\ CarriedAlive'
  BY <1>1 DEF TypeOK, FdInv, CarriedAlive
<1>4. ASSUME NEW e \in Fds
      PROVE  /\ ~Owns(w, e)'
             /\ v # w => (Owns(v, e)' <=> Owns(w, e))
             /\ \A x \in Objects : x # v /\ x # w => (Owns(x, e)' <=> Owns(x, e))
  BY <1>2, NoFdIsNone DEF Owns
<1>5. \A e \in Fds : e \in open' <=> e \in open /\ ~Owns(v, e)
  BY <1>1, NoFdIsNone DEF Closed, Owns
<1>6. Exclusive'
  <2>. SUFFICES ASSUME NEW e \in Fds
                PROVE  /\ \A x, y \in Objects : Owns(x, e)' /\ Owns(y, e)' => x = y
                       /\ \A m, n \in Messages : carried[m] = e /\ carried[n] = e => m = n
                       /\ \A x \in Objects, m \in Messages : ~(Owns(x, e)' /\ carried[m] = e)
                       /\ e \in user => /\ \A x \in Objects : ~Owns(x, e)'
                                        /\ \A m \in Messages : carried[m] # e
    BY <1>1 DEF Exclusive
  <2>. QED
    BY <1>4 DEF FdInv, Exclusive
<1>7. ASSUME NEW e \in Fds
      PROVE  e \in open' \ unowned' <=> Owned(e)'
  <2>1. e \in open \ unowned <=> Owned(e)
    BY DEF FdInv, NothingLost
  <2>2. Owns(v, e) => /\ \A x \in Objects : x # v => ~Owns(x, e)
                      /\ \A m \in Messages : carried[m] # e
                      /\ e \notin user
    BY DEF FdInv, Exclusive
  <2>3. Owned(e)' <=> \/ \E x \in Objects : Owns(x, e)'
                      \/ \E m \in Messages : carried[m] = e
                      \/ e \in user
    BY <1>1 DEF Owned
  <2>4. (\E x \in Objects : Owns(x, e)') <=> \E x \in Objects : x # v /\ Owns(x, e)
    BY <1>4
  <2>. QED
    BY <1>1, <1>5, <2>1, <2>2, <2>3, <2>4 DEF Owned
<1>8. unowned' \subseteq open'
  <2>1. \A e \in unowned : ~Owns(v, e) /\ e \in Fds /\ e \in open
    BY DEF FdInv, NothingLost, Owned, TypeOK
  <2>. QED
    BY <1>1, <1>5, <2>1
<1>. QED
  BY <1>1, <1>3, <1>6, <1>7, <1>8, HoldersKept DEF FdInv, NothingLost

\* What the object would close, the user has to.
LEMMA ReleaseStep ==
    ASSUME IInv, NEW v \in Objects, Release(v)
    PROVE  IInv'
<1>. USE DEF IInv
<1>1. /\ fd_[v] # NoFd /\ fd_' = [fd_ EXCEPT ![v] = NoFd]
      /\ user' = IF closes[v] THEN user \cup {fd_[v]} ELSE user
      /\ UNCHANGED <<current, refs, unseen, carried, value_, closes, open, unowned>>
  BY DEF Release, message
<1>2. fd_[v] \in Fds /\ \A x \in Objects : fd_'[x] = IF x = v THEN NoFd ELSE fd_[x]
  BY <1>1 DEF TypeOK
<1>3. TypeOK' /\ CarriedAlive'
  BY <1>1, <1>2 DEF TypeOK, FdInv, CarriedAlive
<1>4. ASSUME NEW e \in Fds
      PROVE  /\ ~Owns(v, e)'
             /\ \A x \in Objects : x # v => (Owns(x, e)' <=> Owns(x, e))
             /\ e \in user' <=> e \in user \/ Owns(v, e)
  BY <1>1, <1>2, NoFdIsNone DEF Owns
<1>5. Exclusive'
  <2>. SUFFICES ASSUME NEW e \in Fds
                PROVE  /\ \A x, y \in Objects : Owns(x, e)' /\ Owns(y, e)' => x = y
                       /\ \A m, n \in Messages : carried[m] = e /\ carried[n] = e => m = n
                       /\ \A x \in Objects, m \in Messages : ~(Owns(x, e)' /\ carried[m] = e)
                       /\ e \in user' => /\ \A x \in Objects : ~Owns(x, e)'
                                         /\ \A m \in Messages : carried[m] # e
    BY <1>1 DEF Exclusive
  <2>. QED
    BY <1>4 DEF FdInv, Exclusive
<1>6. ASSUME NEW e \in Fds
      PROVE  Owned(e)' <=> Owned(e)
  <2>1. Owned(e)' <=> \/ \E x \in Objects : Owns(x, e)'
                      \/ \E m \in Messages : carried[m] = e
                      \/ e \in user'
    BY <1>1 DEF Owned
  <2>. QED
    BY <1>4, <2>1 DEF Owned
<1>7. NothingLost'
  BY <1>1, <1>6 DEF FdInv, NothingLost
<1>. QED
  BY <1>1, <1>3, <1>5, <1>7, HoldersKept DEF FdInv
-----------------------------------------------------------------------------
\* In the beginning nothing is open and no message refers to anything.
LEMMA InitIInv == Init => IInv
<1>. SUFFICES ASSUME Init PROVE IInv
  OBVIOUS
<1>1. {Local, Empty, NoMessage} \cap Messages = {}
  BY OwnershipAssumption
<1>2. TypeOK
  BY DEF Init, TypeOK
<1>3. UnseenFree
  BY <1>1 DEF Init, UnseenFree
<1>4. \A m \in Messages : Holders(m) = {}
  BY <1>1 DEF Init, Holders
<1>5. Counts
  BY <1>1, <1>4, FS_EmptySet DEF Init, Counts
<1>6. FdInv
  BY NoFdIsNone DEF Init, FdInv, CarriedAlive, Exclusive, NothingLost, Owned, Owns
<1>. QED
  BY <1>2, <1>3, <1>5, <1>6 DEF IInv

\* Every step keeps the invariant.
LEMMA NextIInv == IInv /\ [Next]_vars => IInv'
<1>. SUFFICES ASSUME IInv, [Next]_vars PROVE IInv'
  OBVIOUS
<1>1. CASE UNCHANGED vars
  <2>1. TypeOK' /\ UnseenFree'
    BY <1>1 DEF vars, IInv, TypeOK, UnseenFree
  <2>2. FdInv'
    BY <1>1 DEF vars, IInv, FdInv, CarriedAlive, Exclusive, NothingLost, Owned, Owns
  <2>. QED
    BY <1>1, <2>1, <2>2, HoldersKept DEF vars
<1>2. CASE Next
  <2>1. ASSUME NEW a \in Anys, Codec_decode(a) \/ SetAny(a, Local) \/ SetAny(a, Empty)
        PROVE  IInv'
    BY <2>1, AnyStep
  <2>2. ASSUME NEW a \in Anys, NEW b \in Anys, AssignAny(a, b)
        PROVE  IInv'
    BY <2>2, AnyStep
  <2>3. ASSUME NEW v \in Objects, NEW w \in Objects, Assign(v, w) \/ MoveAssign(v, w)
        PROVE  IInv'
    BY <2>3, OpenedStep, MoveStep
  <2>4. ASSUME NEW v \in Objects, Destroy(v) \/ Decode(v) \/ Release(v) \/ \E a \in Anys : Extract(v, a)
        PROVE  IInv'
    BY <2>4, OpenedStep, ReleaseStep
  <2>. QED
    BY <1>2, <2>1, <2>2, <2>3, <2>4, ReceiveStep, HandledStep, UserStep, GivenStep DEF Next
<1>. QED
  BY <1>1, <1>2

\* The variables keep their types; no count of references drops below zero.
THEOREM TypeCorrect == Spec => []TypeOK
<1>1. IInv => TypeOK
  BY DEF IInv
<1>. QED
  BY <1>1, InitIInv, NextIInv, PTL DEF Spec

\* For every number of messages and Anys, however they are decoded, copied and
\* destroyed: a message has a reference for each Any that reads from it and one for
\* its handler, and no other.
THEOREM MessagesOutliveReaders == Spec => []MessagesHeld
<1>1. IInv => MessagesHeld
  BY DEF IInv, Counts, MessagesHeld, Holders
<1>. QED
  BY <1>1, InitIInv, NextIInv, PTL DEF Spec

\* For every number of objects and descriptors, with numbers that are used again:
\* each open descriptor has exactly one that closes it, and what is closed has none.
THEOREM DescriptorsClosedOnce == Spec => []ClosedOnce
<1>1. ASSUME IInv, NEW fd \in Fds
      PROVE  Cardinality(Owners(fd)) = IF fd \in open \ unowned THEN 1 ELSE 0
  <2>1. /\ {v \in Objects : fd_[v] = fd /\ closes[v]} = {v \in Objects : Owns(v, fd)}
        /\ {m \in Messages : refs[m] > 0 /\ carried[m] = fd} = {m \in Messages : carried[m] = fd}
    BY <1>1, NoFdIsNone DEF IInv, FdInv, CarriedAlive, Owns
  <2>2. Owners(fd) = {v \in Objects : Owns(v, fd)} \cup {m \in Messages : carried[m] = fd}
                        \cup (IF fd \in user THEN {NoFd} ELSE {})
    BY <2>1 DEF Owners
  <2>3. fd \in open \ unowned <=> Owned(fd)
    BY <1>1 DEF IInv, FdInv, NothingLost
  <2>4. CASE Owned(fd)
    <3>1. \E x : Owners(fd) = {x}
      BY <1>1, <2>2, <2>4 DEF IInv, FdInv, Exclusive, Owned
    <3>. QED
      BY <2>3, <2>4, <3>1, FS_Singleton
  <2>5. CASE ~Owned(fd)
    <3>1. Owners(fd) = {}
      BY <2>2, <2>5 DEF Owned
    <3>. QED
      BY <2>3, <2>5, <3>1, FS_EmptySet
  <2>. QED
    BY <2>4, <2>5
<1>2. IInv => ClosedOnce
  BY <1>1 DEF ClosedOnce
<1>. QED
  BY <1>2, InitIInv, NextIInv, PTL DEF Spec
=============================================================================
