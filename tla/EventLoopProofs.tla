--------------------------- MODULE EventLoopProofs ---------------------------
(***************************************************************************)
(* Proofs about EventLoop for every number of calls and descriptors: the   *)
(* tables of the dispatcher, of libdbus and of the kernel agree, and only  *)
(* a call whose own timer expired is timed out.                            *)
(***************************************************************************)
EXTENDS EventLoop, SequenceTheorems, WellFoundedInduction, TLAPS

Entries == [fd : Timers \cup {Socket}, revents : BOOLEAN]

TableTypes ==
    /\ fds_ \in Seq(Entries)
    /\ tm_handlers_ \in [Timers -> Timeouts \cup {NoTimeout}]
    /\ status \in [Timeouts -> {"unused", "listed", "added", "gone"}]
    /\ data \in [Timeouts -> Timers \cup {Socket}]
    /\ timer \in [Timers -> TimerState]

\* An added timeout has a descriptor of the kernel's, never the one of the socket.
OwnTimers == \A t \in Timeouts : status[t] = "added" => data[t] \in Timers

Tables == TableTypes /\ OwnTimers /\ TablesAgree

\* While the entries are looked at, what poll() said of a timer still holds: the
\* tables do not change in between, and an expired timer stays so until it is read.
ScanFresh == pc = "scanning" =>
    \A i \in DOMAIN fds_ : fds_[i].revents /\ fds_[i].fd # Socket => timer[fds_[i].fd] # "armed"

IInv == TypeOK /\ Tables /\ ScanFresh
-----------------------------------------------------------------------------
(***************************************************************************)
(* The entries of the poll set                                             *)
(***************************************************************************)

\* An entry is appended: the others keep their places.
LEMMA EntryAppended ==
    ASSUME NEW S, NEW q \in Seq(S), NEW e \in S
    PROVE  /\ Append(q, e) \in Seq(S) /\ Len(q) \in Nat
           /\ DOMAIN q = 1..Len(q) /\ DOMAIN Append(q, e) = 1..(Len(q) + 1)
           /\ \A i \in 1..Len(q) : Append(q, e)[i] = q[i]
           /\ Append(q, e)[Len(q) + 1] = e
BY AppendProperties, LenProperties

\* An entry is removed: those behind it move up by one.
LEMMA EntryRemoved ==
    ASSUME NEW S, NEW q \in Seq(S), NEW i \in DOMAIN q
    PROVE  /\ RemoveAt(q, i) \in Seq(S) /\ Len(q) \in Nat
           /\ DOMAIN q = 1..Len(q) /\ DOMAIN RemoveAt(q, i) = 1..(Len(q) - 1)
           /\ \A k \in 1..(Len(q) - 1) : RemoveAt(q, i)[k] = IF k < i THEN q[k] ELSE q[k + 1]
<1>1. Len(q) \in Nat /\ DOMAIN q = 1..Len(q) /\ i \in 1..Len(q) /\ \A k \in 1..Len(q) : q[k] \in S
  BY LenProperties, ElementOfSeq
<1>. DEFINE a == SubSeq(q, 1, i - 1)
            b == SubSeq(q, i + 1, Len(q))
<1>2. a \in Seq(S) /\ Len(a) = i - 1 /\ \A k \in 1..(i - 1) : a[k] = q[k]
  <2>1. 1 \in Int /\ i - 1 \in Int /\ \A k \in 1..(i - 1) : q[k] \in S
    BY <1>1
  <2>2. /\ a \in Seq(S) /\ Len(a) = IF 1 <= i - 1 THEN (i - 1) - 1 + 1 ELSE 0
        /\ \A k \in 1..((i - 1) - 1 + 1) : a[k] = q[1 + k - 1]
    BY <2>1, SubSeqProperties
  <2>. QED
    BY <1>1, <2>2
<1>3. b \in Seq(S) /\ Len(b) = Len(q) - i /\ \A k \in 1..(Len(q) - i) : b[k] = q[i + k]
  <2>1. i + 1 \in Int /\ Len(q) \in Int /\ \A k \in (i + 1)..Len(q) : q[k] \in S
    BY <1>1
  <2>2. /\ b \in Seq(S) /\ Len(b) = IF i + 1 <= Len(q) THEN Len(q) - (i + 1) + 1 ELSE 0
        /\ \A k \in 1..(Len(q) - (i + 1) + 1) : b[k] = q[(i + 1) + k - 1]
    BY <2>1, SubSeqProperties
  <2>. HIDE DEF b
  <2>3. Len(q) - (i + 1) + 1 = Len(q) - i /\ (i + 1 <= Len(q) \/ Len(q) - i = 0)
    BY <1>1
  <2>4. ASSUME NEW k \in 1..(Len(q) - i)
        PROVE  b[k] = q[i + k]
    <3>1. (i + 1) + k - 1 = i + k
      BY <1>1
    <3>. QED
      BY <2>2, <2>3, <3>1
  <2>5. Len(b) = Len(q) - i
    BY <2>2, <2>3
  <2>. QED
    BY <2>2, <2>4, <2>5
<1>4. /\ a \o b \in Seq(S) /\ Len(a \o b) = Len(q) - 1
      /\ \A k \in 1..(Len(q) - 1) : (a \o b)[k] = IF k <= i - 1 THEN a[k] ELSE b[k - (i - 1)]
  <2>1. /\ a \o b \in Seq(S) /\ Len(a \o b) = Len(a) + Len(b)
        /\ \A k \in 1..(Len(a) + Len(b)) : (a \o b)[k] = IF k <= Len(a) THEN a[k] ELSE b[k - Len(a)]
    BY <1>2, <1>3, ConcatProperties
  <2>. HIDE DEF a, b
  <2>2. Len(a) + Len(b) = Len(q) - 1 /\ Len(a) = i - 1
    BY <1>1, <1>2, <1>3
  <2>. QED
    BY <2>1, <2>2
<1>. HIDE DEF a, b
<1>5. ASSUME NEW k \in 1..(Len(q) - 1)
      PROVE  (a \o b)[k] = IF k < i THEN q[k] ELSE q[k + 1]
  <2>1. CASE k < i
    BY <1>1, <1>2, <1>4, <2>1
  <2>2. CASE ~(k < i)
    <3>1. PICK x \in 1..(Len(q) - i) : x = k - (i - 1)
      BY <1>1, <2>2
    <3>2. b[x] = q[i + x] /\ i + x = k + 1 /\ ~(k <= i - 1)
      <4>1. i + x = k + 1 /\ ~(k <= i - 1)
        BY <1>1, <2>2, <3>1
      <4>. QED
        BY <1>3, <4>1
    <3>3. (a \o b)[k] = b[x]
      BY <1>4, <3>1, <3>2
    <3>. QED
      BY <2>2, <3>2, <3>3
  <2>. QED
    BY <2>1, <2>2
<1>6. RemoveAt(q, i) = a \o b
  BY DEF RemoveAt, a, b
<1>. QED
  BY <1>1, <1>4, <1>5, <1>6, LenProperties
-----------------------------------------------------------------------------
(***************************************************************************)
(* add_timeout() and remove_timeout() keep the tables in agreement         *)
(***************************************************************************)

\* A new timer gets a number that nobody polls or has in tm_handlers_.
LEMMA AddTimeout ==
    ASSUME Tables, NEW t \in Timeouts, status[t] # "added", add_timeout(t)
    PROVE  Tables'
<1>. USE DEF Tables
<1>1. PICK f \in Timers, garbage \in BOOLEAN :
        /\ timer[f] = "closed"
        /\ timer' = [timer EXCEPT ![f] = "armed"]
        /\ data' = [data EXCEPT ![t] = f]
        /\ fds_' = Append(fds_, Entry(f, garbage))
        /\ tm_handlers_' = [tm_handlers_ EXCEPT ![f] = t]
        /\ status' = [status EXCEPT ![t] = "added"]
  BY DEF add_timeout
<1>2. Entry(f, garbage) \in Entries /\ Entry(f, garbage).fd = f
  BY DEF Entry, Entries
<1>3. /\ fds_' \in Seq(Entries) /\ Len(fds_) \in Nat
      /\ DOMAIN fds_ = 1..Len(fds_) /\ DOMAIN fds_' = 1..(Len(fds_) + 1)
      /\ \A i \in 1..Len(fds_) : fds_'[i] = fds_[i]
      /\ fds_'[Len(fds_) + 1].fd = f
  BY <1>1, <1>2, EntryAppended DEF TableTypes
<1>4. TableTypes'
  BY <1>1, <1>3 DEF TableTypes, TimerState
<1>5. /\ \A s \in Timeouts : status'[s] = IF s = t THEN "added" ELSE status[s]
      /\ \A s \in Timeouts : data'[s] = IF s = t THEN f ELSE data[s]
      /\ \A g \in Timers : timer'[g] = IF g = f THEN "armed" ELSE timer[g]
      /\ \A g \in Timers : tm_handlers_'[g] = IF g = f THEN t ELSE tm_handlers_[g]
  BY <1>1 DEF TableTypes
<1>6. \A s \in Timeouts : status[s] = "added" => data[s] # f
  BY <1>1 DEF TablesAgree
<1>7. OwnTimers'
  BY <1>5 DEF OwnTimers
<1>8. \A i \in DOMAIN fds_ : fds_[i].fd # f
  BY <1>1, LoopAssumption DEF TablesAgree
<1>9. \A s \in Timeouts : status'[s] = "added" =>
        tm_handlers_'[data'[s]] = s /\ timer'[data'[s]] # "closed"
  BY <1>1, <1>5, <1>6 DEF TablesAgree, OwnTimers
<1>10. \A g \in Timers : timer'[g] # "closed" <=>
          \E s \in Timeouts : status'[s] = "added" /\ data'[s] = g
  BY <1>1, <1>5, <1>6 DEF TablesAgree
<1>11. \A g \in Timers : (tm_handlers_'[g] # NoTimeout) <=> (timer'[g] # "closed")
  BY <1>5, LoopAssumption DEF TablesAgree
<1>12. {fds_'[i].fd : i \in DOMAIN fds_'} \ {Socket} = {g \in Timers : timer'[g] # "closed"}
  <2>1. {fds_'[i].fd : i \in DOMAIN fds_'} = {fds_[i].fd : i \in DOMAIN fds_} \cup {f}
    BY <1>3
  <2>2. f # Socket
    BY LoopAssumption
  <2>3. {g \in Timers : timer'[g] # "closed"} = {g \in Timers : timer[g] # "closed"} \cup {f}
    BY <1>5
  <2>4. {fds_[i].fd : i \in DOMAIN fds_} \ {Socket} = {g \in Timers : timer[g] # "closed"}
    BY DEF TablesAgree
  <2>. QED
    BY <2>1, <2>2, <2>3, <2>4
<1>13. \A i, j \in DOMAIN fds_' : fds_'[i].fd = fds_'[j].fd /\ fds_'[i].fd # Socket => i = j
  BY <1>3, <1>8 DEF TablesAgree
<1>. QED
  BY <1>4, <1>7, <1>9, <1>10, <1>11, <1>12, <1>13 DEF TablesAgree

\* The one entry of the timeout goes, with its handler and its descriptor.
LEMMA RemoveTimeout ==
    ASSUME Tables, NEW t \in Timeouts, status[t] = "added", remove_timeout(t)
    PROVE  Tables' /\ status' = [status EXCEPT ![t] = "gone"]
<1>. USE DEF Tables
<1>1. PICK f \in Timers : f = data[t]
  BY DEF OwnTimers
<1>2. timer[f] # "closed" /\ tm_handlers_[f] = t /\ f # Socket
  BY <1>1, LoopAssumption DEF TablesAgree
<1>3. PICK n \in DOMAIN fds_ : fds_[n].fd = f
  BY <1>2 DEF TablesAgree
<1>4. \A i \in DOMAIN fds_ : fds_[i].fd = f => i = n
  BY <1>2, <1>3 DEF TablesAgree
<1>5. DOMAIN fds_ = 1..Len(fds_) /\ Len(fds_) \in Nat
  BY LenProperties DEF TableTypes
<1>6. /\ status' = [status EXCEPT ![t] = "gone"] /\ data' = data
      /\ tm_handlers_' = [tm_handlers_ EXCEPT ![f] = NoTimeout]
      /\ timer' = [timer EXCEPT ![f] = "closed"]
      /\ fds_' = RemoveAt(fds_, n)
  <2>. DEFINE found == {i \in DOMAIN fds_ : fds_[i].fd = data[t]}
              first == CHOOSE j \in found : \A k \in found : j <= k
  <2>1. found = {n}
    <3>1. \A i \in DOMAIN fds_ : fds_[i].fd = data[t] <=> i = n
      BY <1>1, <1>3, <1>4
    <3>. HIDE DEF Tables
    <3>. QED
      BY <3>1
  <2>2. (CHOOSE j \in {n} : \A k \in {n} : j <= k) = n
    BY <1>5
  <2>3. first = n
    BY <2>1, <2>2
  <2>4. /\ status' = [status EXCEPT ![t] = "gone"] /\ data' = data
        /\ found # {} => /\ tm_handlers_' = [tm_handlers_ EXCEPT ![fds_[first].fd] = NoTimeout]
                         /\ timer' = [timer EXCEPT ![fds_[first].fd] = "closed"]
                         /\ fds_' = RemoveAt(fds_, first)
    BY DEF remove_timeout
  <2>. HIDE DEF Tables, found, first
  <2>. QED
    BY <1>3, <2>1, <2>3, <2>4
<1>7. /\ fds_' \in Seq(Entries) /\ DOMAIN fds_' = 1..(Len(fds_) - 1)
      /\ \A k \in 1..(Len(fds_) - 1) : fds_'[k] = IF k < n THEN fds_[k] ELSE fds_[k + 1]
  BY <1>6, EntryRemoved DEF TableTypes
<1>8. TableTypes'
  BY <1>6, <1>7 DEF TableTypes, TimerState
<1>9. /\ \A s \in Timeouts : status'[s] = IF s = t THEN "gone" ELSE status[s]
      /\ \A g \in Timers : timer'[g] = IF g = f THEN "closed" ELSE timer[g]
      /\ \A g \in Timers : tm_handlers_'[g] = IF g = f THEN NoTimeout ELSE tm_handlers_[g]
  BY <1>6 DEF TableTypes
<1>10. \A s \in Timeouts : status[s] = "added" /\ s # t => data[s] # f
  BY <1>1, <1>2 DEF TablesAgree
<1>11. OwnTimers'
  BY <1>6, <1>9 DEF OwnTimers
<1>12. \A s \in Timeouts : status'[s] = "added" =>
        tm_handlers_'[data'[s]] = s /\ timer'[data'[s]] # "closed"
  BY <1>6, <1>9, <1>10 DEF TablesAgree, OwnTimers
<1>13. \A g \in Timers : timer'[g] # "closed" <=>
          \E s \in Timeouts : status'[s] = "added" /\ data'[s] = g
  BY <1>1, <1>6, <1>9, <1>10 DEF TablesAgree
<1>14. \A g \in Timers : (tm_handlers_'[g] # NoTimeout) <=> (timer'[g] # "closed")
  BY <1>9 DEF TablesAgree
<1>15. {fds_'[i].fd : i \in DOMAIN fds_'} = {fds_[i].fd : i \in DOMAIN fds_ \ {n}}
  <2>1. ASSUME NEW k \in DOMAIN fds_'
        PROVE  \E i \in DOMAIN fds_ \ {n} : fds_'[k] = fds_[i]
    <3>1. CASE k < n
      <4>1. k \in DOMAIN fds_ \ {n} /\ fds_'[k] = fds_[k]
        BY <1>5, <1>7, <3>1
      <4>. QED
        BY <4>1
    <3>2. CASE ~(k < n)
      <4>1. k + 1 \in DOMAIN fds_ \ {n} /\ fds_'[k] = fds_[k + 1]
        BY <1>5, <1>7, <3>2
      <4>. QED
        BY <4>1
    <3>. QED
      BY <3>1, <3>2
  <2>2. ASSUME NEW i \in DOMAIN fds_ \ {n}
        PROVE  \E k \in DOMAIN fds_' : fds_'[k] = fds_[i]
    <3>1. CASE i < n
      BY <1>5, <1>7, <3>1
    <3>2. CASE i > n
      <4>1. i - 1 \in DOMAIN fds_' /\ ~(i - 1 < n) /\ (i - 1) + 1 = i
        BY <1>5, <1>7, <3>2
      <4>. QED
        BY <1>7, <4>1
    <3>. QED
      BY <1>5, <3>1, <3>2
  <2>. QED
    BY <2>1, <2>2
<1>16. {fds_'[i].fd : i \in DOMAIN fds_'} \ {Socket} = {g \in Timers : timer'[g] # "closed"}
  <2>1. {fds_[i].fd : i \in DOMAIN fds_ \ {n}} = {fds_[i].fd : i \in DOMAIN fds_} \ {f}
    BY <1>3, <1>4
  <2>2. {g \in Timers : timer'[g] # "closed"} = {g \in Timers : timer[g] # "closed"} \ {f}
    BY <1>9
  <2>. QED
    BY <1>15, <2>1, <2>2 DEF TablesAgree
<1>17. \A i, j \in DOMAIN fds_' : fds_'[i].fd = fds_'[j].fd /\ fds_'[i].fd # Socket => i = j
  <2>. SUFFICES ASSUME NEW i \in DOMAIN fds_', NEW j \in DOMAIN fds_',
                       fds_'[i].fd = fds_'[j].fd, fds_'[i].fd # Socket
                PROVE  i = j
    OBVIOUS
  <2>1. PICK x \in DOMAIN fds_ : fds_'[i] = fds_[x] /\ x = IF i < n THEN i ELSE i + 1
    BY <1>5, <1>7
  <2>2. PICK y \in DOMAIN fds_ : fds_'[j] = fds_[y] /\ y = IF j < n THEN j ELSE j + 1
    BY <1>5, <1>7
  <2>3. x = y
    BY <2>1, <2>2 DEF TablesAgree
  <2>. QED
    BY <1>5, <1>7, <2>1, <2>2, <2>3
<1>. QED
  BY <1>6, <1>8, <1>11, <1>12, <1>13, <1>14, <1>16, <1>17 DEF TablesAgree

\* Nothing in the tables changes but what poll() said of the entries.
LEMMA SameEntries ==
    ASSUME Tables, fds_' \in Seq(Entries), DOMAIN fds_' = DOMAIN fds_,
           \A i \in DOMAIN fds_ : fds_'[i].fd = fds_[i].fd,
           UNCHANGED <<tm_handlers_, status, data, timer>>
    PROVE  Tables'
<1>1. TableTypes' /\ OwnTimers'
  BY DEF Tables, TableTypes, OwnTimers
<1>2. {fds_'[i].fd : i \in DOMAIN fds_'} = {fds_[i].fd : i \in DOMAIN fds_}
  OBVIOUS
<1>3. TablesAgree'
  BY <1>2 DEF Tables, TablesAgree
<1>. QED
  BY <1>1, <1>3 DEF Tables

\* libdbus lets go of a timeout.
LEMMA ForgetStep ==
    ASSUME Tables, NEW t \in Timeouts, Forget(t)
    PROVE  Tables'
<1>1. CASE status[t] = "added" /\ remove_timeout(t)
  BY <1>1, RemoveTimeout
<1>2. CASE status[t] = "listed" /\ status' = [status EXCEPT ![t] = "gone"]
           /\ UNCHANGED <<fds_, tm_handlers_, data, timer>>
  <2>1. TableTypes'
    BY <1>2 DEF Tables, TableTypes
  <2>2. \A s \in Timeouts : status'[s] = "added" <=> status[s] = "added"
    BY <1>2 DEF Tables, TableTypes
  <2>3. OwnTimers'
    BY <1>2, <2>2 DEF Tables, OwnTimers
  <2>4. TablesAgree'
    BY <1>2, <2>2 DEF Tables, TablesAgree
  <2>. QED
    BY <2>1, <2>3, <2>4 DEF Tables
<1>. QED
  BY <1>1, <1>2 DEF Forget

\* A message is read from the socket.
LEMMA ReadStep ==
    ASSUME Tables, socket \in Seq(Messages), queue \in Seq(Messages), socket # <<>>, ReadMessage
    PROVE  Tables' /\ socket' \in Seq(Messages) /\ queue' \in Seq(Messages)
<1>1. Head(socket) \in Messages /\ Tail(socket) \in Seq(Messages)
  BY HeadTailProperties
<1>2. socket' \in Seq(Messages) /\ queue' \in Seq(Messages)
  BY <1>1, AppendProperties DEF ReadMessage
<1>3. CASE Head(socket) \in {t \in Timeouts : status[t] # "gone"}
  <2>1. PICK t \in Timeouts : t = Head(socket)
    BY <1>3
  <2>2. Forget(t)
    BY <1>3, <2>1 DEF ReadMessage
  <2>. QED
    BY <1>2, <2>2, ForgetStep
<1>4. CASE Head(socket) \notin {t \in Timeouts : status[t] # "gone"}
  <2>1. UNCHANGED table
    BY <1>4 DEF ReadMessage
  <2>. QED
    BY <1>2, <2>1, SameEntries DEF table, Tables, TableTypes
<1>. QED
  BY <1>3, <1>4

\* Every set of natural numbers that is not empty has a least element.
LEMMA LeastNumber ==
    ASSUME NEW T, T \subseteq Nat, T # {}
    PROVE  \E x \in T : \A y \in T : x <= y
<1>. DEFINE R == OpToRel(<, Nat)
<1>1. IsWellFoundedOn(R, Nat)
  BY NatLessThanWellFounded
<1>2. PICK x \in T : \A y \in T : ~(<<y, x>> \in R)
  <2>. HIDE DEF R
  <2>. QED
    BY <1>1, WFMin
<1>3. ASSUME NEW y \in T
      PROVE  x <= y
  <2>1. ~(y < x)
    BY <1>2 DEF OpToRel
  <2>. QED
    BY <2>1
<1>. QED
  BY <1>3

\* run() enters the socket, the first time or once more in place of the old entry.
LEMMA WatchStep ==
    ASSUME Tables, AddWatch \/ AddWatchAgain
    PROVE  Tables'
<1>. USE DEF Tables
<1>1. PICK e \in Entries : e = Entry(Socket, FALSE) /\ e.fd = Socket
  <2>1. Entry(Socket, FALSE) \in Entries /\ Entry(Socket, FALSE).fd = Socket
    BY DEF Entry, Entries
  <2>. QED
    BY <2>1
<1>2. UNCHANGED <<tm_handlers_, status, data, timer>>
  BY DEF AddWatch, AddWatchAgain
<1>3. /\ Append(fds_, e) \in Seq(Entries) /\ Len(fds_) \in Nat
      /\ DOMAIN fds_ = 1..Len(fds_) /\ DOMAIN Append(fds_, e) = 1..(Len(fds_) + 1)
      /\ \A i \in 1..Len(fds_) : Append(fds_, e)[i] = fds_[i]
      /\ Append(fds_, e)[Len(fds_) + 1].fd = Socket
  <2>1. fds_ \in Seq(Entries)
    BY DEF TableTypes
  <2>2. /\ Append(fds_, e) \in Seq(Entries) /\ Len(fds_) \in Nat
        /\ DOMAIN fds_ = 1..Len(fds_) /\ DOMAIN Append(fds_, e) = 1..(Len(fds_) + 1)
        /\ \A i \in 1..Len(fds_) : Append(fds_, e)[i] = fds_[i]
        /\ Append(fds_, e)[Len(fds_) + 1] = e
    BY <2>1, EntryAppended
  <2>. QED
    BY <1>1, <2>2
<1>4. CASE AddWatch
  <2>1. fds_' = Append(fds_, e)
    BY <1>1, <1>4 DEF AddWatch
  <2>2. TableTypes' /\ OwnTimers'
    BY <1>2, <1>3, <2>1 DEF TableTypes, OwnTimers
  <2>3. {fds_'[i].fd : i \in DOMAIN fds_'} = {fds_[i].fd : i \in DOMAIN fds_} \cup {Socket}
    BY <1>3, <2>1
  <2>4. \A i, j \in DOMAIN fds_' : fds_'[i].fd = fds_'[j].fd /\ fds_'[i].fd # Socket => i = j
    BY <1>3, <2>1 DEF TablesAgree
  <2>5. TablesAgree'
    BY <1>2, <2>3, <2>4 DEF TablesAgree
  <2>. QED
    BY <2>2, <2>5
<1>5. CASE AddWatchAgain
  <2>. DEFINE added == Append(fds_, e)
              found == {i \in DOMAIN added : added[i].fd = Socket /\ added[i].revents}
  <2>1. \A t \in Timeouts : status[t] # "added"
    BY <1>5 DEF AddWatchAgain
  <2>2. \A f \in Timers : timer[f] = "closed"
    BY <2>1 DEF TablesAgree
  <2>3. \A i \in DOMAIN fds_ : fds_[i].fd = Socket
    BY <2>2 DEF TablesAgree
  <2>4. \A i \in DOMAIN added : added[i].fd = Socket
    BY <1>3, <2>3
  <2>5. fds_' \in Seq(Entries) /\ \A i \in DOMAIN fds_' : fds_'[i].fd = Socket
    <3>1. CASE found = {}
      <4>1. fds_' = added
        BY <1>1, <1>5, <3>1 DEF AddWatchAgain
      <4>. QED
        BY <1>3, <2>4, <4>1
    <3>2. CASE found # {}
      <4>1. PICK n \in found : n = CHOOSE i \in found : \A j \in found : i <= j
        <5>1. found \subseteq Nat
          BY <1>3
        <5>2. \E i \in found : \A j \in found : i <= j
          BY <3>2, <5>1, LeastNumber
        <5>. QED
          BY <5>2
      <4>2. fds_' = RemoveAt(added, n)
        BY <1>1, <1>5, <3>2, <4>1 DEF AddWatchAgain
      <4>. HIDE DEF added
      <4>3. /\ RemoveAt(added, n) \in Seq(Entries) /\ Len(added) \in Nat
            /\ DOMAIN added = 1..Len(added) /\ DOMAIN RemoveAt(added, n) = 1..(Len(added) - 1)
            /\ \A k \in 1..(Len(added) - 1) :
                  RemoveAt(added, n)[k] = IF k < n THEN added[k] ELSE added[k + 1]
        BY <1>3, EntryRemoved DEF added
      <4>4. \A k \in 1..(Len(added) - 1) : k \in DOMAIN added /\ k + 1 \in DOMAIN added
        BY <4>3
      <4>. QED
        BY <2>4, <4>2, <4>3, <4>4
    <3>. QED
      BY <3>1, <3>2
  <2>6. TableTypes' /\ OwnTimers'
    BY <1>2, <2>5 DEF TableTypes, OwnTimers
  <2>7. TablesAgree'
    BY <1>2, <2>1, <2>2, <2>5 DEF TablesAgree
  <2>. QED
    BY <2>6, <2>7
<1>. QED
  BY <1>4, <1>5

\* poll() looks at each entry.
LEMMA PollStep ==
    ASSUME Tables, poll
    PROVE  Tables' /\ ScanFresh'
<1>. USE DEF Tables
<1>1. /\ fds_' = [i \in DOMAIN fds_ |-> Entry(fds_[i].fd, Readable(fds_[i].fd))]
      /\ UNCHANGED <<tm_handlers_, status, data, timer>>
  BY DEF poll
<1>2. DOMAIN fds_ = 1..Len(fds_) /\ Len(fds_) \in Nat /\ \A i \in DOMAIN fds_ : fds_[i] \in Entries
  BY LenProperties, ElementOfSeq DEF TableTypes
<1>3. \A i \in DOMAIN fds_ : /\ fds_'[i] \in Entries /\ fds_'[i].fd = fds_[i].fd
                             /\ fds_'[i].revents = Readable(fds_[i].fd)
  <2>. SUFFICES ASSUME NEW i \in DOMAIN fds_
                PROVE  /\ fds_'[i] \in Entries /\ fds_'[i].fd = fds_[i].fd
                       /\ fds_'[i].revents = Readable(fds_[i].fd)
    OBVIOUS
  <2>1. fds_[i].fd \in Timers \cup {Socket}
    BY <1>2 DEF Entries
  <2>2. Readable(fds_[i].fd) \in BOOLEAN
    BY DEF Readable
  <2>3. fds_'[i] = [fd |-> fds_[i].fd, revents |-> Readable(fds_[i].fd)]
    BY <1>1 DEF Entry
  <2>. QED
    BY <2>1, <2>2, <2>3 DEF Entries
<1>4. DOMAIN fds_' = DOMAIN fds_
  BY <1>1
<1>5. fds_' \in Seq(Entries)
  <2>1. fds_' \in [1..Len(fds_) -> Entries]
    BY <1>1, <1>2, <1>3
  <2>. QED
    BY <1>2, <2>1, SeqDef
<1>6. ScanFresh'
  BY <1>1, <1>3, <1>4 DEF ScanFresh, Readable
<1>. QED
  BY <1>1, <1>3, <1>4, <1>5, <1>6, SameEntries

\* One entry is handled: a timer that is ready has expired, since it has a timeout.
LEMMA HandleStep ==
    ASSUME Tables, TypeOK, ScanFresh, Handle
    PROVE  /\ Tables' /\ socket' \in Seq(Messages) /\ queue' \in Seq(Messages)
           /\ fired' \subseteq Timeouts
           /\ \A t \in Timeouts : t \in fired' \ fired => timer[data[t]] = "expired"
<1>1. PICK i \in DOMAIN fds_ : fds_[i].revents /\ (HandleWatch(i) \/ HandleTimer(i))
  BY DEF Handle
<1>2. socket \in Seq(Messages) /\ queue \in Seq(Messages) /\ fired \subseteq Timeouts
  BY DEF TypeOK
<1>3. CASE HandleWatch(i)
  <2>1. CASE socket = <<>>
    <3>1. UNCHANGED <<table, socket, queue, fired>>
      BY <1>3, <2>1 DEF HandleWatch
    <3>. QED
      BY <1>2, <3>1, SameEntries DEF table, Tables, TableTypes
  <2>2. CASE socket # <<>>
    <3>1. ReadMessage /\ UNCHANGED fired
      BY <1>3, <2>2 DEF HandleWatch
    <3>. QED
      BY <1>2, <2>2, <3>1, ReadStep
  <2>. QED
    BY <2>1, <2>2
<1>4. CASE HandleTimer(i)
  <2>1. PICK f : f = fds_[i].fd
    OBVIOUS
  <2>2. f \in Timers /\ timer[f] # "closed"
    BY <1>4, <2>1 DEF HandleTimer, Tables, TablesAgree
  <2>3. PICK t \in Timeouts : t = tm_handlers_[f] /\ status[t] = "added" /\ data[t] = f
    BY <2>2 DEF Tables, TablesAgree
  <2>4. t # NoTimeout
    BY LoopAssumption
  <2>5. remove_timeout(t) /\ fired' = fired \cup {t} /\ queue' = Append(queue, t) /\ UNCHANGED socket
    BY <1>4, <2>1, <2>3, <2>4 DEF HandleTimer
  <2>6. timer[f] = "expired"
    <3>1. pc = "scanning" /\ f # Socket
      BY <2>2, LoopAssumption DEF Handle
    <3>2. timer[f] # "armed"
      BY <1>1, <2>1, <3>1 DEF ScanFresh
    <3>. QED
      BY <2>2, <3>2 DEF Tables, TableTypes, TimerState
  <2>7. queue' \in Seq(Messages)
    BY <1>2, <2>5, AppendProperties DEF Messages
  <2>. QED
    BY <1>2, <2>3, <2>5, <2>6, <2>7, RemoveTimeout
<1>. QED
  BY <1>1, <1>3, <1>4

\* The types of what the tables do not hold.
RestTypes ==
    /\ running_ \in BOOLEAN /\ pc \in Phases /\ at \in Nat
    /\ socket \in Seq(Messages) /\ queue \in Seq(Messages)
    /\ answered \subseteq Timeouts /\ signals \in 0..MaxSignals
    /\ fired \subseteq Timeouts /\ runs \in 0..MaxRuns /\ stopped \in BOOLEAN

\* The types, apart for the tables and for the rest of the variables.
LEMMA Types == TypeOK <=> TableTypes /\ RestTypes
BY DEF TypeOK, TableTypes, RestTypes, Entries

\* Every step keeps the tables in agreement.
LEMMA TablesKept ==
    ASSUME IInv, [Next]_vars
    PROVE  Tables'
<1>. USE DEF IInv
<1>1. CASE UNCHANGED table
  BY <1>1, SameEntries DEF table, Tables, TableTypes
<1>2. ASSUME NEW t \in Timeouts, AddListed(t) \/ Call(t)
      PROVE  Tables'
  <2>1. CASE status[t] # "added" /\ add_timeout(t)
    BY <2>1, AddTimeout
  <2>2. CASE status[t] = "unused" /\ status' = [status EXCEPT ![t] = "listed"]
             /\ UNCHANGED <<fds_, tm_handlers_, data, timer>>
    <3>1. TableTypes'
      BY <2>2 DEF Tables, TableTypes
    <3>2. \A s \in Timeouts : status'[s] = "added" <=> status[s] = "added"
      BY <2>2 DEF Tables, TableTypes
    <3>3. OwnTimers'
      BY <2>2, <3>2 DEF Tables, OwnTimers
    <3>4. TablesAgree'
      BY <2>2, <3>2 DEF Tables, TablesAgree
    <3>. QED
      BY <3>1, <3>3, <3>4 DEF Tables
  <2>. QED
    BY <1>2, <2>1, <2>2 DEF AddListed, Call
<1>3. ASSUME NEW t \in Timeouts, Cancel(t)
      PROVE  Tables'
  BY <1>3, ForgetStep DEF Cancel
<1>4. CASE BlockingCallReads
  BY <1>4, ReadStep, Types DEF BlockingCallReads, RestTypes
<1>5. ASSUME NEW f \in Timers, Expire(f)
      PROVE  Tables'
  <2>1. /\ timer[f] = "armed" /\ timer' = [timer EXCEPT ![f] = "expired"]
        /\ UNCHANGED <<fds_, tm_handlers_, status, data>>
    BY <1>5 DEF Expire
  <2>2. TableTypes' /\ OwnTimers'
    BY <2>1 DEF Tables, TableTypes, OwnTimers, TimerState
  <2>3. \A g \in Timers : timer'[g] # "closed" <=> timer[g] # "closed"
    BY <2>1 DEF Tables, TableTypes
  <2>4. TablesAgree'
    BY <2>1, <2>3 DEF Tables, TablesAgree, OwnTimers
  <2>. QED
    BY <2>2, <2>4 DEF Tables
<1>6. CASE AddWatch \/ AddWatchAgain
  BY <1>6, WatchStep
<1>7. CASE poll
  BY <1>7, PollStep
<1>8. CASE Handle
  BY <1>8, HandleStep
<1>9. CASE UNCHANGED vars
  BY <1>1, <1>9 DEF vars, table
<1>10. CASE \/ run \/ TestRunning \/ NothingReady \/ Dispatch \/ Complete
            \/ PollInterrupted \/ SendSignal \/ stop
  BY <1>1, <1>10 DEF run, TestRunning, NothingReady, Dispatch, Complete, PollInterrupted,
                     SendSignal, stop
<1>11. ASSUME NEW t \in Timeouts, Answer(t)
       PROVE  Tables'
  BY <1>1, <1>11 DEF Answer
<1>. QED
  BY <1>2, <1>3, <1>4, <1>5, <1>6, <1>7, <1>8, <1>9, <1>10, <1>11 DEF Next, Loop

\* The variables that are not tables keep their types.
LEMMA RestKept ==
    ASSUME IInv, [Next]_vars
    PROVE  RestTypes'
<1>. USE DEF IInv
<1>0. RestTypes
  BY Types
<1>1. CASE UNCHANGED vars
  BY <1>0, <1>1 DEF vars, RestTypes
<1>2. ASSUME NEW t \in Timeouts, AddListed(t) \/ Call(t) \/ Cancel(t)
      PROVE  RestTypes'
  BY <1>0, <1>2 DEF AddListed, Call, Cancel, RestTypes
<1>3. ASSUME NEW t \in Timeouts, Answer(t)
      PROVE  RestTypes'
  BY <1>0, <1>3, AppendProperties DEF Answer, RestTypes, Messages
<1>4. CASE BlockingCallReads
  <2>1. socket' \in Seq(Messages) /\ queue' \in Seq(Messages)
    BY <1>0, <1>4, ReadStep DEF BlockingCallReads, RestTypes
  <2>. QED
    BY <1>0, <1>4, <2>1 DEF BlockingCallReads, RestTypes
<1>5. ASSUME NEW f \in Timers, Expire(f)
      PROVE  RestTypes'
  BY <1>0, <1>5 DEF Expire, RestTypes
<1>6. CASE AddWatch \/ AddWatchAgain
  <2>1. runs' \in 0..MaxRuns
    <3>1. runs \in 0..MaxRuns /\ MaxRuns \in Nat \ {0}
      BY <1>0, LoopAssumption DEF RestTypes
    <3>2. runs' = 1 \/ (runs < MaxRuns /\ runs' = runs + 1)
      BY <1>6 DEF AddWatch, AddWatchAgain
    <3>. QED
      BY <3>1, <3>2
  <2>2. /\ pc' = "starting" /\ stopped' \in BOOLEAN
        /\ UNCHANGED <<running_, at, socket, queue, answered, signals, fired>>
    BY <1>0, <1>6 DEF AddWatch, AddWatchAgain, RestTypes
  <2>. QED
    BY <1>0, <2>1, <2>2 DEF RestTypes, Phases
<1>7. CASE poll \/ PollInterrupted \/ run \/ TestRunning \/ NothingReady \/ Complete \/ stop
  <2>1. pc' \in Phases
    BY <1>0, <1>7 DEF poll, PollInterrupted, run, TestRunning, NothingReady, Complete, stop,
                      RestTypes, Phases
  <2>2. running_' \in BOOLEAN /\ stopped' \in BOOLEAN
    BY <1>0, <1>7 DEF poll, PollInterrupted, run, TestRunning, NothingReady, Complete, stop,
                      RestTypes
  <2>3. at' \in Nat /\ UNCHANGED <<socket, queue, answered, signals, fired, runs>>
    BY <1>0, <1>7 DEF poll, PollInterrupted, run, TestRunning, NothingReady, Complete, stop,
                      RestTypes
  <2>. QED
    BY <1>0, <2>1, <2>2, <2>3 DEF RestTypes
<1>8. CASE Handle
  <2>1. socket' \in Seq(Messages) /\ queue' \in Seq(Messages) /\ fired' \subseteq Timeouts
    BY <1>8, HandleStep
  <2>2. pc' = "dispatching" /\ at' = 1 /\ UNCHANGED <<running_, answered, signals, runs, stopped>>
    BY <1>8 DEF Handle, HandleWatch, HandleTimer, Scanned
  <2>. QED
    BY <1>0, <2>1, <2>2 DEF RestTypes, Phases
<1>9. CASE Dispatch
  BY <1>0, <1>9, HeadTailProperties DEF Dispatch, RestTypes
<1>10. CASE SendSignal
  <2>1. socket' \in Seq(Messages)
    BY <1>0, <1>10, AppendProperties DEF SendSignal, RestTypes, Messages
  <2>2. signals' \in 0..MaxSignals
    BY <1>0, <1>10, LoopAssumption DEF SendSignal, RestTypes
  <2>. QED
    BY <1>0, <1>10, <2>1, <2>2 DEF SendSignal, RestTypes
<1>. QED
  BY <1>1, <1>2, <1>3, <1>4, <1>5, <1>6, <1>7, <1>8, <1>9, <1>10 DEF Next, Loop

\* While entries are looked at, timers can only expire.
LEMMA FreshKept ==
    ASSUME IInv, [Next]_vars
    PROVE  ScanFresh'
<1>. USE DEF IInv
<1>1. CASE poll
  BY <1>1, PollStep
<1>2. CASE pc' = pc /\ fds_' = fds_ /\ UNCHANGED timer
  BY <1>2 DEF ScanFresh
<1>3. ASSUME NEW f \in Timers, Expire(f)
      PROVE  ScanFresh'
  <2>1. /\ timer' = [timer EXCEPT ![f] = "expired"] /\ pc' = pc /\ fds_' = fds_
    BY <1>3 DEF Expire
  <2>2. \A i \in DOMAIN fds_ : fds_[i].fd \in Timers \cup {Socket}
    <3>1. fds_ \in Seq(Entries)
      BY DEF Tables, TableTypes
    <3>2. \A i \in DOMAIN fds_ : fds_[i] \in Entries
      BY <3>1, LenProperties, ElementOfSeq
    <3>. QED
      BY <3>2 DEF Entries
  <2>3. \A g \in Timers : timer[g] # "armed" => timer'[g] # "armed"
    BY <2>1 DEF Tables, TableTypes
  <2>. QED
    BY <2>1, <2>2, <2>3 DEF ScanFresh
<1>4. CASE pc' # "scanning"
  BY <1>4 DEF ScanFresh
<1>5. CASE UNCHANGED vars
  BY <1>2, <1>5 DEF vars
<1>6. ASSUME NEW t \in Timeouts, AddListed(t) \/ Call(t) \/ Cancel(t)
      PROVE  ScanFresh'
  BY <1>4, <1>6 DEF AddListed, Call, Cancel
<1>7. ASSUME NEW t \in Timeouts, Answer(t)
      PROVE  ScanFresh'
  BY <1>2, <1>7 DEF Answer, table
<1>8. CASE SendSignal \/ stop
  BY <1>2, <1>8 DEF SendSignal, stop, table
<1>9. CASE \/ AddWatch \/ AddWatchAgain \/ run \/ TestRunning \/ NothingReady \/ Dispatch
           \/ Complete \/ PollInterrupted \/ BlockingCallReads \/ Handle
  BY <1>4, <1>9 DEF AddWatch, AddWatchAgain, run, TestRunning, NothingReady, Dispatch, Complete,
                    PollInterrupted, BlockingCallReads, Handle, HandleWatch, HandleTimer, Scanned
<1>. QED
  BY <1>1, <1>3, <1>5, <1>6, <1>7, <1>8, <1>9 DEF Next, Loop

\* In the beginning the tables are empty.
LEMMA InitIInv == Init => IInv
<1>. SUFFICES ASSUME Init PROVE IInv
  OBVIOUS
<1>1. fds_ \in Seq(Entries) /\ socket \in Seq(Messages) /\ queue \in Seq(Messages) /\ DOMAIN fds_ = {}
  BY EmptySeq, LenProperties DEF Init
<1>2. TableTypes /\ OwnTimers
  BY <1>1 DEF Init, TableTypes, OwnTimers, TimerState
<1>3. RestTypes
  <2>1. signals \in 0..MaxSignals /\ runs \in 0..MaxRuns /\ at \in Nat
    BY LoopAssumption DEF Init
  <2>. QED
    BY <1>1, <2>1 DEF Init, RestTypes, Phases
<1>4. TablesAgree
  BY <1>1 DEF Init, TablesAgree
<1>5. ScanFresh
  BY DEF Init, ScanFresh
<1>. QED
  BY <1>2, <1>3, <1>4, <1>5, Types DEF IInv, Tables

\* Every step keeps the invariant.
LEMMA NextIInv == IInv /\ [Next]_vars => IInv'
<1>. SUFFICES ASSUME IInv, [Next]_vars PROVE IInv'
  OBVIOUS
<1>1. Tables' /\ RestTypes' /\ ScanFresh'
  BY TablesKept, RestKept, FreshKept
<1>2. TypeOK'
  BY <1>1 DEF Tables, TableTypes, RestTypes, TypeOK, Entries
<1>. QED
  BY <1>1, <1>2 DEF IInv

\* The variables keep their types.
THEOREM TypeCorrect == Spec => []TypeOK
<1>1. IInv => TypeOK
  BY DEF IInv
<1>. QED
  BY <1>1, InitIInv, NextIInv, PTL DEF Spec

\* For every number of calls that are made, answered, cancelled and timed out while
\* the kernel gives numbers again: each added timeout has its own open descriptor,
\* entered once, and nothing else is polled or open.
THEOREM TablesStayRight == Spec => []TablesAgree
<1>1. IInv => TablesAgree
  BY DEF IInv, Tables
<1>. QED
  BY <1>1, InitIInv, NextIInv, PTL DEF Spec

\* Only a call whose own timer has expired is timed out.
THEOREM NoCallTimedOutEarly == Spec => OnlyExpired
<1>1. IInv /\ [Next]_vars =>
        [\A t \in Timeouts : t \in fired' \ fired => timer[data[t]] = "expired"]_vars
  <2>. SUFFICES ASSUME IInv, Next
                PROVE  \A t \in Timeouts : t \in fired' \ fired => timer[data[t]] = "expired"
    OBVIOUS
  <2>1. CASE Handle
    BY <2>1, HandleStep DEF IInv
  <2>2. CASE UNCHANGED fired
    BY <2>2
  <2>. QED
    BY <2>1, <2>2
       DEF Next, Loop, AddWatch, AddListed, run, TestRunning, poll, NothingReady, Dispatch, Complete,
           AddWatchAgain, PollInterrupted, Call, Cancel, Answer, BlockingCallReads, Expire,
           SendSignal, stop
<1>. QED
  BY <1>1, InitIInv, NextIInv, PTL DEF Spec, OnlyExpired
=============================================================================
