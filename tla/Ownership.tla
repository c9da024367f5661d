------------------------------ MODULE Ownership ------------------------------
(***************************************************************************)
(* Who owns what a message brings.  An Any that was received refers to its *)
(* message, and the message owns the file descriptor it carries; a         *)
(* FileDescriptor owns its descriptor or refers to one of the user.        *)
(*                                                                         *)
(* External: the kernel gives a new descriptor the lowest free number.     *)
(* libdbus counts references to a message and closes its descriptor with   *)
(* the last one; it duplicates a descriptor when it is read.               *)
(***************************************************************************)
EXTENDS Naturals, FiniteSets, FiniteSetsExt

CONSTANTS Messages, \* messages that arrive
          Anys,     \* objects of the class Any
          Objects,  \* objects of the class FileDescriptor
          MaxFd,    \* bound: descriptors a process may have
          Local,    \* an Any holds a value of its own
          Empty,    \* an Any holds an iterator without message
          NoFd,     \* -1
          NoMessage \* nothing is dispatched

ASSUME OwnershipAssumption ==
    /\ Messages \cap {Local, Empty, NoMessage} = {}
    /\ MaxFd \in Nat /\ NoFd \notin Nat

VARIABLES
    current,  \* the message whose handler runs
    refs,     \* references to each message
    unseen,   \* messages that have not arrived yet
    carried,  \* the descriptor a message carries
    value_,   \* Any::value_: Local, Empty or the message the iterator is in
    fd_,      \* FileDescriptor::fd_
    closes,   \* FileDescriptor::destructor_ is close(), not noop()
    open,     \* the kernel: open descriptors
    user,     \* descriptors the user has to close
    unowned   \* history: descriptors decoded into an object that does not close

vars     == <<current, refs, unseen, carried, value_, fd_, closes, open, user, unowned>>
object   == <<fd_, closes>>
message  == <<current, refs, unseen, carried>>
-----------------------------------------------------------------------------
Fds == 0..MaxFd

Init ==
    /\ current = NoMessage
    /\ refs = [m \in Messages |-> 0]
    /\ unseen = Messages
    /\ carried = [m \in Messages |-> NoFd]
    /\ value_ = [a \in Anys |-> Empty]
    /\ fd_ = [v \in Objects |-> NoFd]
    /\ closes = [v \in Objects |-> TRUE]
    /\ open = {}
    /\ user = {}
    /\ unowned = {}
-----------------------------------------------------------------------------
\* open(), dup() and the like return the lowest free number, or fail.
NewFd(taken) == IF Fds \subseteq taken THEN NoFd ELSE Min(Fds \ taken)

Opened(fd) == IF fd = NoFd THEN {} ELSE {fd}

\* What (*destructor_)(fd_) closes
Closed(v) == IF fd_[v] # NoFd /\ closes[v] THEN {fd_[v]} ELSE {}

\* References change by what is dropped and what is taken; the descriptor of a
\* message goes with its last reference.
Counted(m, dropped, taken) ==
    refs[m] + (IF m = taken THEN 1 ELSE 0) - (IF m = dropped THEN 1 ELSE 0)

Freed(dropped, taken) ==
    {m \in Messages : refs[m] > 0 /\ Counted(m, dropped, taken) = 0}

Reference(dropped, taken) ==
    /\ refs' = [m \in Messages |-> Counted(m, dropped, taken)]
    /\ carried' = [m \in Messages |-> IF m \in Freed(dropped, taken) THEN NoFd ELSE carried[m]]
    /\ open' = open \ {carried[m] : m \in Freed(dropped, taken)}
-----------------------------------------------------------------------------
\* Messages

\* A message arrives, with or without a descriptor; dispatch() holds it.
Receive(m) ==
    /\ current = NoMessage /\ m \in unseen
    /\ \E fd \in {NoFd, NewFd(open)} :
          /\ carried' = [carried EXCEPT ![m] = fd]
          /\ open' = open \cup Opened(fd)
    /\ current' = m
    /\ unseen' = unseen \ {m}
    /\ refs' = [refs EXCEPT ![m] = 1]
    /\ UNCHANGED <<value_, object, user, unowned>>

Handled ==
    /\ current # NoMessage
    /\ current' = NoMessage
    /\ Reference(current, NoMessage)
    /\ UNCHANGED <<unseen, value_, object, user, unowned>>
-----------------------------------------------------------------------------
\* Any

\* [mutant of Codec_decode] the iterator does not hold the message
Codec_decode_unreferenced(a) ==
    /\ current # NoMessage
    /\ value_' = [value_ EXCEPT ![a] = current]
    /\ Reference(value_[a], NoMessage)
    /\ UNCHANGED <<current, unseen, object, user, unowned>>

\* Codec<Any>::decode(): set_message_iterator()
Codec_decode(a) ==
    /\ current # NoMessage
    /\ value_' = [value_ EXCEPT ![a] = current]
    /\ Reference(value_[a], current)
    /\ UNCHANGED <<current, unseen, object, user, unowned>>

\* Any::operator=(const Any&), also with itself
AssignAny(a, b) ==
    /\ value_' = [value_ EXCEPT ![a] = value_[b]]
    /\ Reference(value_[a], value_[b])
    /\ UNCHANGED <<current, unseen, object, user, unowned>>

\* Any::operator=(T), and the destructor with what = Empty
SetAny(a, what) ==
    /\ value_' = [value_ EXCEPT ![a] = what]
    /\ Reference(value_[a], NoMessage)
    /\ UNCHANGED <<current, unseen, object, user, unowned>>
-----------------------------------------------------------------------------
\* FileDescriptor

\* The descriptor of the object is closed, if it is its own, then it gets fd.
Replace(v, fd, close, opened) ==
    /\ fd_' = [fd_ EXCEPT ![v] = fd]
    /\ closes' = [closes EXCEPT ![v] = close]
    /\ open' = (open \ Closed(v)) \cup opened

\* The user opens and closes files.
UserOpens ==
    /\ NewFd(open) # NoFd
    /\ open' = open \cup {NewFd(open)}
    /\ user' = user \cup {NewFd(open)}
    /\ UNCHANGED <<message, value_, object, unowned>>

UserCloses(fd) ==
    /\ fd \in user
    /\ open' = open \ {fd}
    /\ user' = user \ {fd}
    /\ UNCHANGED <<message, value_, object, unowned>>

\* v = FileDescriptor(fd)
Adopt(v, fd) ==
    /\ fd \in user
    /\ Replace(v, fd, TRUE, {})
    /\ user' = user \ {fd}
    /\ UNCHANGED <<message, value_, unowned>>

\* v = FileDescriptor(std::ref(fd))
Refer(v, fd) ==
    /\ fd \in user
    /\ Replace(v, fd, FALSE, {})
    /\ UNCHANGED <<message, value_, user, unowned>>

\* The destructor, and the assignment of an empty object
Destroy(v) ==
    /\ Replace(v, NoFd, TRUE, {})
    /\ UNCHANGED <<message, value_, user, unowned>>

\* operator=(const FileDescriptor&): the old one is closed before dup() is called,
\* which may fail for want of a number.
Assign(v, w) ==
    /\ v # w
    /\ LET remaining == open \ Closed(v)
           copy      == IF fd_[w] = NoFd THEN NoFd
                        ELSE IF ~closes[w] THEN fd_[w]
                        ELSE NewFd(remaining)
       IN Replace(v, copy, closes[w], IF closes[w] THEN Opened(copy) ELSE {})
    /\ UNCHANGED <<message, value_, user, unowned>>

\* [mutant of MoveAssign] the source keeps its descriptor
MoveAssignCopies(v, w) ==
    /\ Replace(v, fd_[w], closes[w], {})
    /\ UNCHANGED <<message, value_, user, unowned>>

\* operator=(FileDescriptor&&).  Moved into itself an object closes what it has.
MoveAssign(v, w) ==
    /\ fd_' = [[fd_ EXCEPT ![v] = fd_[w]] EXCEPT ![w] = NoFd]
    /\ closes' = [closes EXCEPT ![v] = closes[w]]
    /\ open' = open \ Closed(v)
    /\ UNCHANGED <<message, value_, user, unowned>>

\* operator=(int): what the object does with it at the end does not change.
AssignInt(v, fd, opened) == Replace(v, fd, closes[v], opened)

\* The user assigns a descriptor of its own.
AssignUsers(v, fd) ==
    /\ fd \in user
    /\ AssignInt(v, fd, {})
    /\ user' = IF closes[v] THEN user \ {fd} ELSE user
    /\ UNCHANGED <<message, value_, unowned>>

\* FileDescriptorCodec::decode() of the current message: libdbus calls dup().
Decode(v) ==
    /\ current # NoMessage /\ carried[current] # NoFd
    /\ LET copy == NewFd(open)
       IN /\ AssignInt(v, copy, Opened(copy))
          /\ unowned' = IF closes[v] THEN unowned ELSE unowned \cup Opened(copy)
    /\ UNCHANGED <<message, value_, user>>

\* v = a.as<FileDescriptor>(): decoded from the message the Any refers to, into an
\* object that is moved to v.
Extract(v, a) ==
    /\ value_[a] \in Messages /\ carried[value_[a]] # NoFd
    /\ Replace(v, NewFd(open), TRUE, Opened(NewFd(open)))
    /\ UNCHANGED <<message, value_, user, unowned>>

\* release(): the user has it, if it was not a reference.
Release(v) ==
    /\ fd_[v] # NoFd
    /\ fd_' = [fd_ EXCEPT ![v] = NoFd]
    /\ user' = IF closes[v] THEN user \cup {fd_[v]} ELSE user
    /\ UNCHANGED <<message, value_, closes, open, unowned>>
-----------------------------------------------------------------------------
Next ==
    \/ \E m \in Messages : Receive(m)
    \/ Handled
    \/ \E a \in Anys : Codec_decode(a) \/ SetAny(a, Local) \/ SetAny(a, Empty)
    \/ \E a, b \in Anys : AssignAny(a, b)
    \/ UserOpens
    \/ \E fd \in user : UserCloses(fd)
    \/ \E v \in Objects, fd \in user : Adopt(v, fd) \/ Refer(v, fd) \/ AssignUsers(v, fd)
    \/ \E v \in Objects : Destroy(v) \/ Decode(v) \/ Release(v)
    \/ \E v, w \in Objects : Assign(v, w) \/ MoveAssign(v, w)
    \/ \E v \in Objects, a \in Anys : Extract(v, a)

Spec == Init /\ [][Next]_vars
-----------------------------------------------------------------------------
(***************************************************************************)
(* Properties                                                              *)
(***************************************************************************)
\* The variables have their types.
TypeOK ==
    /\ current \in Messages \cup {NoMessage}
    /\ refs \in [Messages -> Nat]
    /\ unseen \subseteq Messages
    /\ carried \in [Messages -> Fds \cup {NoFd}]
    /\ value_ \in [Anys -> Messages \cup {Local, Empty}]
    /\ fd_ \in [Objects -> Fds \cup {NoFd}]
    /\ closes \in [Objects -> BOOLEAN]
    /\ open \subseteq Fds
    /\ user \subseteq Fds
    /\ unowned \subseteq Fds

\* A message is kept by its handler and by the Anys that were decoded from it or
\* copied from those, each for one reference, and freed with the last: no Any
\* reads from a message that is gone, and none stays behind.
MessagesHeld ==
    \A m \in Messages :
        refs[m] = Cardinality({a \in Anys : value_[a] = m}) + (IF current = m THEN 1 ELSE 0)

\* Each open descriptor is closed by one: the user, one object, or the message
\* that carries it.  What an owner has is open.  Only a descriptor that was decoded into
\* an object made from a reference is closed by nobody.
Owners(fd) ==
    {v \in Objects : fd_[v] = fd /\ closes[v]}
        \cup {m \in Messages : refs[m] > 0 /\ carried[m] = fd}
        \cup (IF fd \in user THEN {NoFd} ELSE {})

ClosedOnce ==
    \A fd \in Fds :
        Cardinality(Owners(fd)) = IF fd \in open \ unowned THEN 1 ELSE 0
=============================================================================
