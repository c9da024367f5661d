------------------------ MODULE PropertyUpdatesProofs ------------------------
(***************************************************************************)
(* Proofs about PropertyUpdates, for any number of clients, properties,    *)
(* values, changes and calls: a client that attached is told of the last   *)
(* change, in order, and before the answer to a Set of its own.            *)
(*                                                                         *)
(* What is under way to a client is one sequence, what it has not          *)
(* dispatched followed by what the bus has not handled.  Messages enter it *)
(* at the end, leave it at the head or, as the answer a blocking call      *)
(* takes, from the middle.  The invariants are about the order in it.      *)
(***************************************************************************)
EXTENDS PropertyUpdates, Integers, SequenceTheorems, TLAPS

Messages == Signal \cup Answer

Pipe(c) == inbox[c] \o outbox

\* The property a message has the value of, and the value.
About(m, p)   == IsSignal(m) => m.prop = p
Carried(m, p) == IF IsSignal(m) THEN m.now ELSE m.now[p]

IsAnswer(m, c) == ~IsSignal(m) /\ m.to = c

\* The callback of p will be called with m; k are the calls of the client c.
\* A message that stays in the queue until those before it are dispatched lasts.
Lasting(k, c, m, p) ==
    IF IsSignal(m) THEN m.prop = p
    ELSE m.to = c /\ k[m.id].op = "attach" /\ k[m.id].prop = p
Telling(k, c, m, p) == Lasting(k, c, m, p) \/ (IsAnswer(m, c) /\ k[m.id].op = "getall")
-----------------------------------------------------------------------------
(***************************************************************************)
(* The invariants                                                          *)
(***************************************************************************)
\* Requests q and answers in s are for calls k of c that it waits for, in the order
\* it sent the calls.
RequestsIn(q, k, c) ==
    \A x \in DOMAIN q :
        q[x].from = c =>
            /\ q[x].id \in DOMAIN k /\ ~k[q[x].id].done
            /\ k[q[x].id].op = q[x].op /\ k[q[x].id].prop = q[x].prop
            /\ q[x].op # "getall" => q[x].prop \in Properties
            /\ \A y \in DOMAIN q : y < x /\ q[y].from = c => q[y].id < q[x].id
AnswersIn(s, k, q, c) ==
    \A i \in DOMAIN s :
        IsAnswer(s[i], c) =>
            /\ s[i].id \in DOMAIN k /\ ~k[s[i].id].done
            /\ \A j \in DOMAIN s : j < i /\ IsAnswer(s[j], c) => s[j].id < s[i].id
            /\ \A x \in DOMAIN q : q[x].from = c => s[i].id < q[x].id

RequestsKnown(c) == RequestsIn(requests, calls[c], c)
AnswersKnown(c)  == AnswersIn(Pipe(c), calls[c], requests, c)
OwnAnswers(c) == \A i \in DOMAIN inbox[c] : ~IsSignal(inbox[c][i]) => inbox[c][i].to = c

\* get_async() of attach() is the one call that never blocks.
BlockedAsks(c) ==
    blocked[c] # 0 => blocked[c] \in DOMAIN calls[c] /\ calls[c][blocked[c]].op # "attach"

WatchedAttached(c) ==
    \A i \in DOMAIN calls[c] : calls[c][i].watched => calls[c][i].prop \in attached[c]

Bookkeeping == \A c \in Clients : /\ RequestsKnown(c) /\ AnswersKnown(c) /\ OwnAnswers(c)
                                  /\ BlockedAsks(c) /\ WatchedAttached(c)

\* Of the messages in s each is as new as those before it, none is newer than t,
\* and those after the first n are as new as what was told.
Ordered(s, t, w, n) ==
    \A p \in Properties :
        /\ \A i, j \in DOMAIN s : i < j /\ About(s[i], p) /\ About(s[j], p)
                => Carried(s[i], p).ver <= Carried(s[j], p).ver
        /\ \A i \in DOMAIN s : About(s[i], p) => Carried(s[i], p).ver <= t[p].ver
        /\ w[p].now.ver <= t[p].ver
        /\ \A i \in DOMAIN s : i > n /\ About(s[i], p) => w[p].now.ver <= Carried(s[i], p).ver

PipesOrdered == \A c \in Clients : Ordered(Pipe(c), t_, told[c], overtaken[c])

\* The callback was called with v last, or will be by the last message for it: no
\* other change has happened that the client is not told of.
Settled(s, k, c, p, v, w) ==
    /\ \A i \in DOMAIN s :
          /\ Telling(k, c, s[i], p)
          /\ \A j \in DOMAIN s : j > i => ~Lasting(k, c, s[j], p)
          => Carried(s[i], p) = v
    /\ (\A j \in DOMAIN s : ~Lasting(k, c, s[j], p)) => w.what # "nothing" /\ w.now = v
IsSettled(c, p) == Settled(Pipe(c), calls[c], c, p, Now(t_, p), told[c][p])

IsAttach(r, c, p) == r.from = c /\ r.op = "attach" /\ r.prop = p

Settles(c) ==
    \A p \in attached[c] :
        Announced(p) =>
            \/ attaching[c] = p
            \/ \E k \in DOMAIN requests : IsAttach(requests[k], c, p)
            \/ IsSettled(c, p)

\* A Set that is sent after attach() reaches the server after the Get of attach().
SetsBehind(c) ==
    \A k \in DOMAIN requests :
        LET r == requests[k]
        IN /\ r.from = c /\ r.op = "set" /\ calls[c][r.id].watched
           /\ r.prop \in Notifying
           => \/ \E l \in DOMAIN requests : l < k /\ IsAttach(requests[l], c, r.prop)
              \/ IsSettled(c, r.prop)

\* What comes before the answer s[i] ends with a value as new as the answer's.
Preceded(s, k, c, p, i, w) ==
    /\ \A e \in DOMAIN s :
          /\ e < i /\ Telling(k, c, s[e], p)
          /\ \A j \in DOMAIN s : e < j /\ j < i => ~Lasting(k, c, s[j], p)
          => Carried(s[e], p).ver >= Carried(s[i], p).ver
    /\ (\A j \in DOMAIN s : j < i => ~Lasting(k, c, s[j], p))
          => w.now.ver >= Carried(s[i], p).ver
IsWatchedSet(call) == call.op = "set" /\ call.watched /\ call.prop \in Notifying
SetsAnswered(c) ==
    \A i \in DOMAIN Pipe(c) :
        LET m == Pipe(c)[i]
        IN IsAnswer(m, c) /\ IsWatchedSet(calls[c][m.id])
           => Preceded(Pipe(c), calls[c], c, calls[c][m.id].prop, i, told[c][calls[c][m.id].prop])

Follows == \A c \in Clients : Settles(c) /\ SetsBehind(c) /\ SetsAnswered(c)
-----------------------------------------------------------------------------
(***************************************************************************)
(* Sequences: an element is appended or removed                            *)
(***************************************************************************)
\* What is appended comes last.
LEMMA Appended ==
    ASSUME NEW S, NEW q \in Seq(S), NEW e \in S
    PROVE  /\ Append(q, e) \in Seq(S) /\ Len(q) \in Nat
           /\ DOMAIN q = 1..Len(q) /\ DOMAIN Append(q, e) = 1..(Len(q) + 1)
           /\ \A i \in 1..Len(q) : Append(q, e)[i] = q[i]
           /\ Append(q, e)[Len(q) + 1] = e
           /\ Append(q, e) = q \o <<e>>
BY AppendProperties, LenProperties, AppendIsConcat

\* Behind what is removed the elements move up by one.
LEMMA Removed ==
    ASSUME NEW S, NEW q \in Seq(S), NEW i \in DOMAIN q
    PROVE  /\ RemoveAt(q, i) \in Seq(S) /\ Len(q) \in Nat
           /\ DOMAIN q = 1..Len(q) /\ DOMAIN RemoveAt(q, i) = 1..(Len(q) - 1)
           /\ Len(RemoveAt(q, i)) = Len(q) - 1
           /\ \A k \in 1..(Len(q) - 1) : RemoveAt(q, i)[k] = IF k < i THEN q[k] ELSE q[k + 1]
<1>1. Len(q) \in Nat /\ DOMAIN q = 1..Len(q) /\ i \in 1..Len(q) /\ \A k \in 1..Len(q) : q[k] \in S
  BY LenProperties, ElementOfSeq
<1>. DEFINE a == SubSeq(q, 1, i - 1)
            b == SubSeq(q, i + 1, Len(q))
<1>2. a \in Seq(S) /\ Len(a) = i - 1 /\ \A k \in 1..(i - 1) : a[k] = q[k]
  <2>1. 1 \in Int /\ i - 1 \in Int /\ \A k \in 1..(i - 1) : q[k] \in S
    BY <1>1
  <2>2. /\ a \in Seq(S) /\ Len(a) = IF 1 <= i - 1 THEN (i - 1) - 1 + 1 ELSE 0
        /\ \A k \in 1..((i - 1) - 1 + 1) : a[k] = q[1 + k - 1]
    BY <2>1, SubSeqProperties
  <2>. QED
    BY <1>1, <2>2
<1>3. b \in Seq(S) /\ Len(b) = Len(q) - i /\ \A k \in 1..(Len(q) - i) : b[k] = q[i + k]
  <2>1. i + 1 \in Int /\ Len(q) \in Int /\ \A k \in (i + 1)..Len(q) : q[k] \in S
    BY <1>1
  <2>2. /\ b \in Seq(S) /\ Len(b) = IF i + 1 <= Len(q) THEN Len(q) - (i + 1) + 1 ELSE 0
        /\ \A k \in 1..(Len(q) - (i + 1) + 1) : b[k] = q[(i + 1) + k - 1]
    BY <2>1, SubSeqProperties
  <2>. HIDE DEF b
  <2>3. Len(q) - (i + 1) + 1 = Len(q) - i /\ (i + 1 <= Len(q) \/ Len(q) - i = 0)
    BY <1>1
  <2>4. ASSUME NEW k \in 1..(Len(q) - i)
        PROVE  b[k] = q[i + k]
    <3>1. (i + 1) + k - 1 = i + k
      BY <1>1
    <3>. QED
      BY <2>2, <2>3, <3>1
  <2>5. Len(b) = Len(q) - i
    BY <2>2, <2>3
  <2>. QED
    BY <2>2, <2>4, <2>5
<1>4. /\ a \o b \in Seq(S) /\ Len(a \o b) = Len(q) - 1
      /\ \A k \in 1..(Len(q) - 1) : (a \o b)[k] = IF k <= i - 1 THEN a[k] ELSE b[k - (i - 1)]
  <2>1. /\ a \o b \in Seq(S) /\ Len(a \o b) = Len(a) + Len(b)
        /\ \A k \in 1..(Len(a) + Len(b)) : (a \o b)[k] = IF k <= Len(a) THEN a[k] ELSE b[k - Len(a)]
    BY <1>2, <1>3, ConcatProperties
  <2>. HIDE DEF a, b
  <2>2. Len(a) + Len(b) = Len(q) - 1 /\ Len(a) = i - 1
    BY <1>1, <1>2, <1>3
  <2>. QED
    BY <2>1, <2>2
<1>. HIDE DEF a, b
<1>5. ASSUME NEW k \in 1..(Len(q) - 1)
      PROVE  (a \o b)[k] = IF k < i THEN q[k] ELSE q[k + 1]
  <2>1. CASE k < i
    BY <1>1, <1>2, <1>4, <2>1
  <2>2. CASE ~(k < i)
    <3>1. PICK x \in 1..(Len(q) - i) : x = k - (i - 1)
      BY <1>1, <2>2
    <3>2. b[x] = q[i + x] /\ i + x = k + 1 /\ ~(k <= i - 1)
      <4>1. i + x = k + 1 /\ ~(k <= i - 1)
        BY <1>1, <2>2, <3>1
      <4>. QED
        BY <1>3, <4>1
    <3>3. (a \o b)[k] = b[x]
      BY <1>4, <3>1, <3>2
    <3>. QED
      BY <2>2, <3>2, <3>3
  <2>. QED
    BY <2>1, <2>2
<1>6. RemoveAt(q, i) = a \o b
  BY DEF RemoveAt, a, b
<1>. QED
  BY <1>1, <1>4, <1>5, <1>6, LenProperties

\* A message appended behind what is under way is the last one under way.
LEMMA PipeGrows ==
    ASSUME NEW S, NEW a \in Seq(S), NEW b \in Seq(S), NEW e \in S
    PROVE  a \o Append(b, e) = Append(a \o b, e)
<1>1. <<e>> \in Seq(S) /\ Append(b, e) = b \o <<e>> /\ a \o b \in Seq(S)
  BY AppendIsConcat, ConcatProperties
<1>2. Append(a \o b, e) = (a \o b) \o <<e>>
  BY <1>1, AppendIsConcat
<1>. QED
  BY <1>1, <1>2, ConcatAssociative

\* The first element of a sequence is removed.
LEMMA TailRemoves ==
    ASSUME NEW S, NEW a \in Seq(S), a # <<>>
    PROVE  /\ Tail(a) \in Seq(S) /\ Head(a) \in S /\ Head(a) = a[1] /\ 1 \in DOMAIN a
           /\ Tail(a) = RemoveAt(a, 1)
<1>1. /\ Head(a) \in S /\ Tail(a) \in Seq(S) /\ Len(Tail(a)) = Len(a) - 1
      /\ \A k \in 1..Len(Tail(a)) : Tail(a)[k] = a[k + 1]
  BY HeadTailProperties
<1>2. Len(a) \in Nat /\ Len(a) # 0 /\ DOMAIN a = 1..Len(a) /\ 1 \in DOMAIN a
  BY LenProperties, EmptySeq
<1>3. /\ RemoveAt(a, 1) \in Seq(S) /\ Len(RemoveAt(a, 1)) = Len(a) - 1
      /\ \A k \in 1..(Len(a) - 1) : RemoveAt(a, 1)[k] = IF k < 1 THEN a[k] ELSE a[k + 1]
  BY <1>2, Removed
<1>4. \A k \in 1..Len(Tail(a)) : Tail(a)[k] = RemoveAt(a, 1)[k]
  BY <1>1, <1>2, <1>3
<1>5. Tail(a) = RemoveAt(a, 1)
  BY <1>1, <1>3, <1>4, SeqEqual
<1>. QED
  BY <1>1, <1>2, <1>5

\* The bus moves a message from b to a, or drops it.
LEMMA PipeRouted ==
    ASSUME NEW S, NEW a \in Seq(S), NEW b \in Seq(S), b # <<>>
    PROVE  /\ Append(a, Head(b)) \o Tail(b) = a \o b
           /\ Len(a) + 1 \in DOMAIN (a \o b) /\ (a \o b)[Len(a) + 1] = Head(b)
           /\ a \o Tail(b) = RemoveAt(a \o b, Len(a) + 1)
<1>. DEFINE n == Len(a)
            m == Len(b)
            ab == a \o b
            r == RemoveAt(ab, n + 1)
<1>1. /\ Tail(b) \in Seq(S) /\ Head(b) \in S /\ Head(b) = b[1] /\ Len(Tail(b)) = m - 1
      /\ \A k \in 1..(m - 1) : Tail(b)[k] = b[k + 1]
  BY TailRemoves, HeadTailProperties
<1>2. n \in Nat /\ m \in Nat /\ m # 0
  BY LenProperties, EmptySeq
<1>3. /\ Append(a, Head(b)) \in Seq(S) /\ Len(Append(a, Head(b))) = n + 1
      /\ \A i \in 1..n : Append(a, Head(b))[i] = a[i]
      /\ Append(a, Head(b))[n + 1] = b[1]
  BY <1>1, AppendProperties
<1>4. /\ ab \in Seq(S) /\ Len(ab) = n + m /\ DOMAIN ab = 1..(n + m)
      /\ \A i \in 1..(n + m) : ab[i] = IF i <= n THEN a[i] ELSE b[i - n]
  BY ConcatProperties, LenProperties
<1>5. /\ Append(a, Head(b)) \o Tail(b) \in Seq(S)
      /\ Len(Append(a, Head(b)) \o Tail(b)) = n + m
      /\ \A i \in 1..(n + m) : (Append(a, Head(b)) \o Tail(b))[i] =
            IF i <= n + 1 THEN Append(a, Head(b))[i] ELSE Tail(b)[i - (n + 1)]
  <2>. HIDE DEF n, m
  <2>1. PICK x, y : x = Append(a, Head(b)) /\ y = Tail(b)
    OBVIOUS
  <2>2. x \in Seq(S) /\ y \in Seq(S) /\ Len(x) = n + 1 /\ Len(x) + Len(y) = n + m
    <3>1. x \in Seq(S) /\ Len(x) = n + 1
      BY <1>3, <2>1
    <3>2. y \in Seq(S) /\ Len(y) = m - 1
      BY <1>1, <2>1
    <3>. QED
      BY <1>2, <3>1, <3>2
  <2>3. /\ x \o y \in Seq(S) /\ Len(x \o y) = Len(x) + Len(y)
        /\ \A i \in 1..(Len(x) + Len(y)) : (x \o y)[i] = IF i <= Len(x) THEN x[i] ELSE y[i - Len(x)]
    BY <2>2, ConcatProperties
  <2>. QED
    BY <2>1, <2>2, <2>3
<1>6. ASSUME NEW i \in 1..(n + m)
      PROVE  (Append(a, Head(b)) \o Tail(b))[i] = ab[i]
  <2>. HIDE DEF n, m, ab
  <2>1. CASE i <= n
    <3>1. i \in 1..n /\ i <= n + 1
      BY <1>2, <2>1
    <3>. QED
      BY <1>3, <1>4, <1>5, <2>1, <3>1
  <2>2. CASE i = n + 1
    <3>1. i <= n + 1 /\ ~(i <= n) /\ i - n = 1
      BY <1>2, <2>2
    <3>. QED
      BY <1>3, <1>4, <1>5, <2>2, <3>1
  <2>3. CASE i > n + 1
    <3>1. PICK k \in 1..(m - 1) : k = i - (n + 1)
      BY <1>2, <2>3
    <3>2. Tail(b)[k] = b[k + 1] /\ k + 1 = i - n /\ ~(i <= n + 1) /\ ~(i <= n)
      BY <1>1, <1>2, <2>3, <3>1
    <3>. QED
      BY <1>4, <1>5, <3>1, <3>2
  <2>4. i <= n \/ i = n + 1 \/ i > n + 1
    BY <1>2
  <2>. QED
    BY <2>1, <2>2, <2>3, <2>4
<1>7. Append(a, Head(b)) \o Tail(b) = ab
  <2>. HIDE DEF n, m
  <2>. QED
    BY <1>4, <1>5, <1>6, SeqEqual
<1>8. n + 1 \in DOMAIN ab /\ ab[n + 1] = Head(b)
  <2>. HIDE DEF n, m, ab
  <2>. QED
    BY <1>1, <1>2, <1>4
<1>9. /\ r \in Seq(S) /\ Len(r) = n + m - 1
      /\ \A k \in 1..(n + m - 1) : r[k] = IF k < n + 1 THEN ab[k] ELSE ab[k + 1]
  <2>1. PICK x \in DOMAIN ab : x = n + 1
    BY <1>8
  <2>2. /\ RemoveAt(ab, x) \in Seq(S) /\ Len(RemoveAt(ab, x)) = Len(ab) - 1
        /\ \A k \in 1..(Len(ab) - 1) :
              RemoveAt(ab, x)[k] = IF k < x THEN ab[k] ELSE ab[k + 1]
    <3>. HIDE DEF n, m, ab
    <3>. QED
      BY <1>4, Removed
  <2>3. RemoveAt(ab, x) = r
    BY <2>1
  <2>4. Len(ab) - 1 = n + m - 1
    BY <1>4
  <2>. HIDE DEF n, m, ab, r
  <2>. QED
    BY <2>1, <2>2, <2>3, <2>4
<1>10. /\ a \o Tail(b) \in Seq(S) /\ Len(a \o Tail(b)) = n + m - 1
       /\ \A i \in 1..(n + m - 1) : (a \o Tail(b))[i] = IF i <= n THEN a[i] ELSE Tail(b)[i - n]
  <2>1. n + Len(Tail(b)) = n + m - 1
    BY <1>1, <1>2
  <2>2. /\ a \o Tail(b) \in Seq(S) /\ Len(a \o Tail(b)) = n + Len(Tail(b))
        /\ \A i \in 1..(n + Len(Tail(b))) :
              (a \o Tail(b))[i] = IF i <= n THEN a[i] ELSE Tail(b)[i - n]
    BY <1>1, ConcatProperties
  <2>. HIDE DEF n, m
  <2>. QED
    BY <2>1, <2>2
<1>11. ASSUME NEW i \in 1..(n + m - 1)
       PROVE  (a \o Tail(b))[i] = r[i]
  <2>. HIDE DEF n, m, ab, r
  <2>1. CASE i <= n
    BY <1>2, <1>4, <1>9, <1>10, <2>1
  <2>2. CASE i > n
    <3>1. PICK k \in 1..(m - 1) : k = i - n
      BY <1>2, <2>2
    <3>2. PICK x \in 1..(n + m) : x = i + 1
      BY <1>2
    <3>3. Tail(b)[k] = b[k + 1] /\ k + 1 = x - n /\ ~(x <= n) /\ ~(i <= n) /\ ~(i < n + 1)
      BY <1>1, <1>2, <2>2, <3>1, <3>2
    <3>4. ab[x] = b[x - n]
      BY <1>4, <3>3
    <3>. QED
      BY <1>9, <1>10, <3>1, <3>2, <3>3, <3>4
  <2>3. i <= n \/ i > n
    BY <1>2
  <2>. QED
    BY <2>1, <2>2, <2>3
<1>12. a \o Tail(b) = r
  <2>. HIDE DEF n, m, ab, r
  <2>. QED
    BY <1>9, <1>10, <1>11, SeqEqual
<1>. QED
  BY <1>7, <1>8, <1>12

\* The client takes a message that is not dispatched yet.
LEMMA PipeTaken ==
    ASSUME NEW S, NEW a \in Seq(S), NEW b \in Seq(S), NEW i \in DOMAIN a
    PROVE  /\ i \in DOMAIN (a \o b) /\ (a \o b)[i] = a[i]
           /\ RemoveAt(a, i) \o b = RemoveAt(a \o b, i)
<1>. DEFINE n == Len(a)
            m == Len(b)
            ab == a \o b
            r == RemoveAt(ab, i)
            t == RemoveAt(a, i)
<1>1. n \in Nat /\ m \in Nat /\ DOMAIN a = 1..n /\ i \in 1..n
  BY LenProperties
<1>2. /\ ab \in Seq(S) /\ Len(ab) = n + m /\ DOMAIN ab = 1..(n + m)
      /\ \A j \in 1..(n + m) : ab[j] = IF j <= n THEN a[j] ELSE b[j - n]
  BY ConcatProperties, LenProperties
<1>3. i \in DOMAIN ab /\ ab[i] = a[i]
  <2>. HIDE DEF n, m, ab
  <2>. QED
    BY <1>1, <1>2
<1>4. /\ t \in Seq(S) /\ Len(t) = n - 1
      /\ \A k \in 1..(n - 1) : t[k] = IF k < i THEN a[k] ELSE a[k + 1]
  BY Removed
<1>5. /\ r \in Seq(S) /\ Len(r) = n + m - 1
      /\ \A k \in 1..(n + m - 1) : r[k] = IF k < i THEN ab[k] ELSE ab[k + 1]
  <2>1. /\ r \in Seq(S) /\ Len(r) = Len(ab) - 1
        /\ \A k \in 1..(Len(ab) - 1) : r[k] = IF k < i THEN ab[k] ELSE ab[k + 1]
    <3>. HIDE DEF n, m, ab
    <3>. QED
      BY <1>2, <1>3, Removed
  <2>2. Len(ab) - 1 = n + m - 1
    BY <1>2
  <2>. HIDE DEF n, m, ab, r
  <2>. QED
    BY <2>1, <2>2
<1>6. /\ t \o b \in Seq(S) /\ Len(t \o b) = n + m - 1
      /\ \A j \in 1..(n + m - 1) : (t \o b)[j] = IF j <= n - 1 THEN t[j] ELSE b[j - (n - 1)]
  <2>1. Len(t) + Len(b) = n + m - 1 /\ Len(t) = n - 1
    BY <1>1, <1>4
  <2>2. /\ t \o b \in Seq(S) /\ Len(t \o b) = Len(t) + Len(b)
        /\ \A j \in 1..(Len(t) + Len(b)) :
              (t \o b)[j] = IF j <= Len(t) THEN t[j] ELSE b[j - Len(t)]
    BY <1>4, ConcatProperties
  <2>. HIDE DEF n, m, t
  <2>. QED
    BY <2>1, <2>2
<1>7. ASSUME NEW j \in 1..(n + m - 1)
      PROVE  (t \o b)[j] = r[j]
  <2>. HIDE DEF n, m, ab, r, t
  <2>1. CASE j < i
    BY <1>1, <1>2, <1>4, <1>5, <1>6, <2>1
  <2>2. CASE j >= i /\ j <= n - 1
    <3>1. PICK x \in 1..(n + m) : x = j + 1
      BY <1>1
    <3>2. ab[x] = a[x] /\ t[j] = a[x] /\ r[j] = ab[x]
      BY <1>1, <1>2, <1>4, <1>5, <2>2, <3>1
    <3>. QED
      BY <1>6, <2>2, <3>2
  <2>3. CASE j > n - 1
    <3>1. PICK x \in 1..(n + m) : x = j + 1
      BY <1>1
    <3>2. x - n = j - (n - 1) /\ ~(x <= n) /\ ~(j <= n - 1) /\ ~(j < i)
      BY <1>1, <2>3, <3>1
    <3>3. ab[x] = b[x - n] /\ r[j] = ab[x]
      BY <1>2, <1>5, <3>1, <3>2
    <3>. QED
      BY <1>6, <3>2, <3>3
  <2>4. j < i \/ (j >= i /\ j <= n - 1) \/ j > n - 1
    BY <1>1
  <2>. QED
    BY <2>1, <2>2, <2>3, <2>4
<1>8. t \o b = r
  <2>. HIDE DEF n, m, ab, r, t
  <2>. QED
    BY <1>5, <1>6, <1>7, SeqEqual
<1>. QED
  BY <1>3, <1>8
-----------------------------------------------------------------------------
(***************************************************************************)
(* What the order of the messages under way is good for                    *)
(***************************************************************************)
Contents == [Properties -> [cb : BOOLEAN, val : Values, ver : Nat]]
Calling  == [what : {"nothing", "value", "invalid", "failed"}, now : Version]

\* A message carries versions.
LEMMA CarriedType ==
    ASSUME NEW m \in Messages, NEW p \in Properties
    PROVE  /\ Carried(m, p) \in Version /\ Carried(m, p).ver \in Nat
           /\ m \in Signal <=> IsSignal(m)
           /\ m \in Answer <=> ~IsSignal(m)
BY DEF Messages, Carried, Signal, Answer, Version, IsSignal

\* A message with what the properties are now keeps the order.
LEMMA OrderedGrows ==
    ASSUME NEW s \in Seq(Messages), NEW t \in Contents, NEW u \in Contents,
           NEW w \in [Properties -> Calling], NEW n \in Nat, NEW m \in Messages,
           Ordered(s, t, w, n),
           \A p \in Properties : t[p].ver <= u[p].ver /\ (About(m, p) => Carried(m, p) = Now(u, p))
    PROVE  Ordered(Append(s, m), u, w, n)
<1>. DEFINE r == Append(s, m)
<1>1. /\ r \in Seq(Messages) /\ Len(s) \in Nat /\ DOMAIN s = 1..Len(s)
      /\ DOMAIN r = 1..(Len(s) + 1) /\ \A i \in 1..Len(s) : r[i] = s[i]
      /\ r[Len(s) + 1] = m
  BY Appended
<1>. HIDE DEF r
<1>2. SUFFICES ASSUME NEW p \in Properties
               PROVE  /\ \A i, j \in DOMAIN r : i < j /\ About(r[i], p) /\ About(r[j], p)
                            => Carried(r[i], p).ver <= Carried(r[j], p).ver
                      /\ \A i \in DOMAIN r : About(r[i], p) => Carried(r[i], p).ver <= u[p].ver
                      /\ w[p].now.ver <= u[p].ver
                      /\ \A i \in DOMAIN r : i > n /\ About(r[i], p)
                            => w[p].now.ver <= Carried(r[i], p).ver
  BY DEF Ordered, r
<1>3. /\ t[p].ver \in Nat /\ u[p].ver \in Nat /\ t[p].ver <= u[p].ver /\ w[p].now.ver \in Nat
      /\ About(m, p) => Carried(m, p).ver = u[p].ver
  BY DEF Contents, Calling, Version, Now
<1>4. \A i \in 1..Len(s) : s[i] \in Messages /\ Carried(s[i], p).ver \in Nat
  BY <1>1, ElementOfSeq, CarriedType
<1>5. /\ \A i, j \in 1..Len(s) : i < j /\ About(s[i], p) /\ About(s[j], p)
            => Carried(s[i], p).ver <= Carried(s[j], p).ver
      /\ \A i \in 1..Len(s) : About(s[i], p) => Carried(s[i], p).ver <= t[p].ver
      /\ w[p].now.ver <= t[p].ver
      /\ \A i \in 1..Len(s) : i > n /\ About(s[i], p) => w[p].now.ver <= Carried(s[i], p).ver
  BY <1>1 DEF Ordered
<1>6. \A i \in DOMAIN r : i \in 1..Len(s) \/ i = Len(s) + 1
  BY <1>1
<1>7. w[p].now.ver <= u[p].ver
  BY <1>3, <1>5
<1>8. ASSUME NEW i \in DOMAIN r, About(r[i], p)
      PROVE  Carried(r[i], p).ver <= u[p].ver
  <2>1. CASE i \in 1..Len(s)
    BY <1>1, <1>3, <1>4, <1>5, <1>8, <2>1
  <2>2. CASE i = Len(s) + 1
    BY <1>1, <1>3, <1>8, <2>2
  <2>. QED
    BY <1>6, <2>1, <2>2
<1>9. ASSUME NEW i \in DOMAIN r, i > n, About(r[i], p)
      PROVE  w[p].now.ver <= Carried(r[i], p).ver
  <2>1. CASE i \in 1..Len(s)
    BY <1>1, <1>5, <1>9, <2>1
  <2>2. CASE i = Len(s) + 1
    BY <1>1, <1>3, <1>7, <1>9, <2>2
  <2>. QED
    BY <1>6, <2>1, <2>2
<1>10. ASSUME NEW i \in DOMAIN r, NEW j \in DOMAIN r, i < j, About(r[i], p), About(r[j], p)
       PROVE  Carried(r[i], p).ver <= Carried(r[j], p).ver
  <2>1. CASE j \in 1..Len(s)
    <3>1. i \in 1..Len(s)
      BY <1>1, <1>10, <2>1
    <3>. QED
      BY <1>1, <1>5, <1>10, <2>1, <3>1
  <2>2. CASE j = Len(s) + 1
    BY <1>1, <1>3, <1>8, <1>10, <2>2
  <2>. QED
    BY <1>6, <2>1, <2>2
<1>. QED
  BY <1>7, <1>8, <1>9, <1>10

\* A message that is taken keeps the order: its callback is told of something that
\* those behind it are not older than, and those before it are now overtaken.
LEMMA OrderedShrinks ==
    ASSUME NEW s \in Seq(Messages), NEW t \in Contents, NEW i \in DOMAIN s,
           NEW w \in [Properties -> Calling], NEW z \in [Properties -> Calling],
           NEW n \in Nat, NEW x \in Nat,
           Ordered(s, t, w, n),
           \A p \in Properties :
              \/ z[p] = w[p] /\ x >= n - 1 /\ (i > n => x >= n)
              \/ About(s[i], p) /\ z[p].now = Carried(s[i], p) /\ x >= i - 1
    PROVE  Ordered(RemoveAt(s, i), t, z, x)
<1>. DEFINE r == RemoveAt(s, i)
<1>1. /\ r \in Seq(Messages) /\ Len(s) \in Nat /\ DOMAIN s = 1..Len(s)
      /\ DOMAIN r = 1..(Len(s) - 1)
      /\ \A k \in 1..(Len(s) - 1) : r[k] = IF k < i THEN s[k] ELSE s[k + 1]
  BY Removed
<1>. HIDE DEF r
<1>2. SUFFICES ASSUME NEW p \in Properties
               PROVE  /\ \A k, j \in DOMAIN r : k < j /\ About(r[k], p) /\ About(r[j], p)
                            => Carried(r[k], p).ver <= Carried(r[j], p).ver
                      /\ \A k \in DOMAIN r : About(r[k], p) => Carried(r[k], p).ver <= t[p].ver
                      /\ z[p].now.ver <= t[p].ver
                      /\ \A k \in DOMAIN r : k > x /\ About(r[k], p)
                            => z[p].now.ver <= Carried(r[k], p).ver
  BY DEF Ordered, r
<1>3. /\ \A k, j \in 1..Len(s) : k < j /\ About(s[k], p) /\ About(s[j], p)
            => Carried(s[k], p).ver <= Carried(s[j], p).ver
      /\ \A k \in 1..Len(s) : About(s[k], p) => Carried(s[k], p).ver <= t[p].ver
      /\ w[p].now.ver <= t[p].ver
      /\ \A k \in 1..Len(s) : k > n /\ About(s[k], p) => w[p].now.ver <= Carried(s[k], p).ver
  BY <1>1 DEF Ordered
<1>4. \A k \in 1..(Len(s) - 1) :
        k \in 1..Len(s) /\ k + 1 \in 1..Len(s) /\ (k < i \/ k >= i)
  BY <1>1
<1>5. ASSUME NEW k \in DOMAIN r, About(r[k], p)
      PROVE  Carried(r[k], p).ver <= t[p].ver
  <2>1. k \in 1..(Len(s) - 1) /\ (r[k] = s[k] \/ r[k] = s[k + 1])
    BY <1>1
  <2>. QED
    BY <1>3, <1>4, <1>5, <2>1
<1>6. ASSUME NEW k \in DOMAIN r, NEW j \in DOMAIN r, k < j, About(r[k], p), About(r[j], p)
      PROVE  Carried(r[k], p).ver <= Carried(r[j], p).ver
  <2>1. PICK a \in 1..Len(s) : a = (IF k < i THEN k ELSE k + 1) /\ r[k] = s[a]
    BY <1>1, <1>4
  <2>2. PICK b \in 1..Len(s) : b = (IF j < i THEN j ELSE j + 1) /\ r[j] = s[b]
    BY <1>1, <1>4
  <2>3. a < b
    BY <1>1, <1>6, <2>1, <2>2
  <2>. QED
    BY <1>3, <1>6, <2>1, <2>2, <2>3
<1>7. CASE z[p] = w[p] /\ x >= n - 1 /\ (i > n => x >= n)
  <2>1. ASSUME NEW k \in DOMAIN r, k > x, About(r[k], p)
        PROVE  z[p].now.ver <= Carried(r[k], p).ver
    <3>1. PICK a \in 1..Len(s) : a = (IF k < i THEN k ELSE k + 1) /\ r[k] = s[a]
      BY <1>1, <1>4
    <3>2. a > n
      BY <1>1, <1>7, <2>1, <3>1
    <3>. QED
      BY <1>3, <1>7, <2>1, <3>1, <3>2
  <2>. QED
    BY <1>3, <1>5, <1>6, <1>7, <2>1
<1>8. CASE About(s[i], p) /\ z[p].now = Carried(s[i], p) /\ x >= i - 1
  <2>1. ASSUME NEW k \in DOMAIN r, k > x, About(r[k], p)
        PROVE  z[p].now.ver <= Carried(r[k], p).ver
    <3>1. PICK a \in 1..Len(s) : a = (IF k < i THEN k ELSE k + 1) /\ r[k] = s[a]
      BY <1>1, <1>4
    <3>2. a > i /\ i \in 1..Len(s)
      BY <1>1, <1>8, <2>1, <3>1
    <3>. QED
      BY <1>3, <1>8, <2>1, <3>1, <3>2
  <2>. QED
    BY <1>1, <1>3, <1>5, <1>6, <1>8, <2>1
<1>. QED
  BY <1>7, <1>8

\* The last message for the callback has the value v.
LEMMA SettledByLast ==
    ASSUME NEW s \in Seq(Messages), NEW k, NEW c, NEW p, NEW v, NEW w,
           NEW m \in Messages, Lasting(k, c, m, p), Carried(m, p) = v
    PROVE  Settled(Append(s, m), k, c, p, v, w)
<1>. DEFINE r == Append(s, m)
<1>1. Len(s) \in Nat /\ DOMAIN r = 1..(Len(s) + 1) /\ r[Len(s) + 1] = m
  BY Appended
<1>. HIDE DEF r
<1>2. Len(s) + 1 \in DOMAIN r /\ \A i \in DOMAIN r : i = Len(s) + 1 \/ Len(s) + 1 > i
  BY <1>1
<1>. QED
  BY <1>1, <1>2 DEF Settled, r

\* Further messages for the callback have the value v, too.
LEMMA SettledGrows ==
    ASSUME NEW s \in Seq(Messages), NEW k, NEW c, NEW p, NEW v, NEW w,
           NEW m \in Messages, Settled(s, k, c, p, v, w),
           Telling(k, c, m, p) => Carried(m, p) = v
    PROVE  Settled(Append(s, m), k, c, p, v, w)
<1>. DEFINE r == Append(s, m)
<1>1. /\ Len(s) \in Nat /\ DOMAIN s = 1..Len(s) /\ DOMAIN r = 1..(Len(s) + 1)
      /\ r[Len(s) + 1] = m /\ \A i \in 1..Len(s) : r[i] = s[i]
  BY Appended
<1>. HIDE DEF r
<1>2. CASE Lasting(k, c, m, p)
  BY <1>2, SettledByLast DEF Telling
<1>3. CASE ~Lasting(k, c, m, p)
  <2>1. ASSUME NEW i \in DOMAIN r, Telling(k, c, r[i], p),
               \A j \in DOMAIN r : j > i => ~Lasting(k, c, r[j], p)
        PROVE  Carried(r[i], p) = v
    <3>1. CASE i = Len(s) + 1
      BY <1>1, <2>1, <3>1
    <3>2. CASE i \in 1..Len(s)
      <4>1. \A j \in DOMAIN s : j > i => ~Lasting(k, c, s[j], p)
        BY <1>1, <2>1
      <4>2. r[i] = s[i] /\ i \in DOMAIN s
        BY <1>1, <3>2
      <4>. QED
        BY <2>1, <4>1, <4>2 DEF Settled
    <3>. QED
      BY <1>1, <3>1, <3>2
  <2>2. ASSUME \A j \in DOMAIN r : ~Lasting(k, c, r[j], p)
        PROVE  w.what # "nothing" /\ w.now = v
    <3>1. \A j \in DOMAIN s : ~Lasting(k, c, s[j], p)
      BY <1>1, <2>2
    <3>. QED
      BY <3>1 DEF Settled
  <2>. QED
    BY <2>1, <2>2 DEF Settled, r
<1>. QED
  BY <1>2, <1>3

\* A message is dispatched, or taken out of the middle by a call that does not last.
LEMMA SettledShrinks ==
    ASSUME NEW s \in Seq(Messages), NEW k, NEW c, NEW p, NEW v, NEW w, NEW z,
           NEW i \in DOMAIN s, Settled(s, k, c, p, v, w),
           i = 1 \/ ~Lasting(k, c, s[i], p),
           Telling(k, c, s[i], p) => z.what # "nothing" /\ z.now = Carried(s[i], p),
           ~Telling(k, c, s[i], p) => z = w
    PROVE  Settled(RemoveAt(s, i), k, c, p, v, z)
<1>. DEFINE r == RemoveAt(s, i)
<1>1. /\ Len(s) \in Nat /\ DOMAIN s = 1..Len(s) /\ DOMAIN r = 1..(Len(s) - 1)
      /\ \A a \in 1..(Len(s) - 1) : r[a] = IF a < i THEN s[a] ELSE s[a + 1]
  BY Removed
<1>. HIDE DEF r
<1>2. \A b \in DOMAIN s : b # i => \E a \in DOMAIN r :
         r[a] = s[b] /\ (b < i => a = b) /\ (b > i => a = b - 1)
  <2>1. SUFFICES ASSUME NEW b \in DOMAIN s, b # i
                 PROVE  \E a \in DOMAIN r :
                           r[a] = s[b] /\ (b < i => a = b) /\ (b > i => a = b - 1)
    OBVIOUS
  <2>2. CASE b < i
    BY <1>1, <2>1, <2>2
  <2>3. CASE b > i
    <3>1. b - 1 \in DOMAIN r /\ ~(b - 1 < i) /\ (b - 1) + 1 = b
      BY <1>1, <2>1, <2>3
    <3>. QED
      BY <1>1, <2>3, <3>1
  <2>. QED
    BY <1>1, <2>1, <2>2, <2>3
<1>3. ASSUME NEW a \in DOMAIN r, Telling(k, c, r[a], p),
             \A j \in DOMAIN r : j > a => ~Lasting(k, c, r[j], p)
      PROVE  Carried(r[a], p) = v
  <2>1. PICK b \in DOMAIN s : b = (IF a < i THEN a ELSE a + 1) /\ r[a] = s[b]
    BY <1>1
  <2>2. ASSUME NEW j \in DOMAIN s, j > b
        PROVE  ~Lasting(k, c, s[j], p)
    <3>1. CASE j = i
      BY <1>1, <2>1, <2>2, <3>1
    <3>2. CASE j # i
      <4>1. PICK e \in DOMAIN r : r[e] = s[j] /\ (j < i => e = j) /\ (j > i => e = j - 1)
        BY <1>2, <3>2
      <4>2. e > a
        BY <1>1, <2>1, <2>2, <3>2, <4>1
      <4>. QED
        BY <1>3, <4>1, <4>2
    <3>. QED
      BY <3>1, <3>2
  <2>. QED
    BY <1>3, <2>1, <2>2 DEF Settled
<1>4. ASSUME \A j \in DOMAIN r : ~Lasting(k, c, r[j], p)
      PROVE  z.what # "nothing" /\ z.now = v
  <2>1. \A j \in DOMAIN s : j # i => ~Lasting(k, c, s[j], p)
    BY <1>2, <1>4
  <2>2. CASE Telling(k, c, s[i], p)
    <3>1. \A j \in DOMAIN s : j > i => ~Lasting(k, c, s[j], p)
      BY <1>1, <2>1
    <3>. QED
      BY <2>2, <3>1 DEF Settled
  <2>3. CASE ~Telling(k, c, s[i], p)
    BY <2>1, <2>3 DEF Settled, Telling
  <2>. QED
    BY <2>2, <2>3
<1>. QED
  BY <1>3, <1>4 DEF Settled, r

\* What comes before a message stays the same when another one is appended.
LEMMA PrecededGrows ==
    ASSUME NEW s \in Seq(Messages), NEW k, NEW c, NEW p, NEW w, NEW m \in Messages,
           NEW i \in DOMAIN s, Preceded(s, k, c, p, i, w)
    PROVE  Preceded(Append(s, m), k, c, p, i, w)
<1>. DEFINE r == Append(s, m)
<1>1. /\ Len(s) \in Nat /\ DOMAIN s = 1..Len(s) /\ DOMAIN r = 1..(Len(s) + 1)
      /\ \A j \in 1..Len(s) : r[j] = s[j]
  BY Appended
<1>. HIDE DEF r
<1>2. \A j \in DOMAIN r : j < i => j \in DOMAIN s /\ r[j] = s[j]
  BY <1>1
<1>3. r[i] = s[i] /\ \A j \in DOMAIN s : j \in DOMAIN r
  BY <1>1
<1>4. ASSUME NEW e \in DOMAIN r, e < i, Telling(k, c, r[e], p),
             \A j \in DOMAIN r : e < j /\ j < i => ~Lasting(k, c, r[j], p)
      PROVE  Carried(r[e], p).ver >= Carried(r[i], p).ver
  <2>1. e \in DOMAIN s /\ r[e] = s[e]
    BY <1>2, <1>4
  <2>2. \A j \in DOMAIN s : e < j /\ j < i => ~Lasting(k, c, s[j], p)
    BY <1>2, <1>3, <1>4
  <2>. QED
    BY <1>3, <1>4, <2>1, <2>2 DEF Preceded
<1>5. ASSUME \A j \in DOMAIN r : j < i => ~Lasting(k, c, r[j], p)
      PROVE  w.now.ver >= Carried(r[i], p).ver
  <2>1. \A j \in DOMAIN s : j < i => ~Lasting(k, c, s[j], p)
    BY <1>2, <1>3, <1>5
  <2>. QED
    BY <1>3, <2>1 DEF Preceded
<1>. QED
  BY <1>4, <1>5 DEF Preceded, r

\* An answer that is sent when everything is settled comes after as new a value.
LEMMA PrecededBySettled ==
    ASSUME NEW s \in Seq(Messages), NEW k, NEW c, NEW p, NEW v \in Version, NEW w,
           NEW m \in Messages, Settled(s, k, c, p, v, w), Carried(m, p) = v
    PROVE  Preceded(Append(s, m), k, c, p, Len(s) + 1, w)
<1>. DEFINE r == Append(s, m)
<1>1. /\ Len(s) \in Nat /\ DOMAIN s = 1..Len(s) /\ DOMAIN r = 1..(Len(s) + 1)
      /\ r[Len(s) + 1] = m /\ \A j \in 1..Len(s) : r[j] = s[j]
  BY Appended
<1>. HIDE DEF r
<1>2. /\ \A j \in DOMAIN r : j < Len(s) + 1 => j \in DOMAIN s /\ r[j] = s[j]
      /\ \A j \in DOMAIN s : j \in DOMAIN r /\ j < Len(s) + 1 /\ r[j] = s[j]
      /\ v.ver >= v.ver
  BY <1>1 DEF Version
<1>3. ASSUME NEW e \in DOMAIN r, e < Len(s) + 1, Telling(k, c, r[e], p),
             \A j \in DOMAIN r : e < j /\ j < Len(s) + 1 => ~Lasting(k, c, r[j], p)
      PROVE  Carried(r[e], p).ver >= Carried(r[Len(s) + 1], p).ver
  <2>1. e \in DOMAIN s /\ r[e] = s[e]
    BY <1>2, <1>3
  <2>2. \A j \in DOMAIN s : j > e => ~Lasting(k, c, s[j], p)
    <3>1. SUFFICES ASSUME NEW j \in DOMAIN s, j > e
                   PROVE  ~Lasting(k, c, s[j], p)
      OBVIOUS
    <3>2. e < j
      BY <1>1, <2>1, <3>1
    <3>. QED
      BY <1>2, <1>3, <3>1, <3>2
  <2>3. Carried(s[e], p) = v
    BY <1>3, <2>1, <2>2 DEF Settled
  <2>. QED
    BY <1>1, <1>2, <2>1, <2>3
<1>4. ASSUME \A j \in DOMAIN r : j < Len(s) + 1 => ~Lasting(k, c, r[j], p)
      PROVE  w.now.ver >= Carried(r[Len(s) + 1], p).ver
  <2>1. \A j \in DOMAIN s : ~Lasting(k, c, s[j], p)
    BY <1>2, <1>4
  <2>2. w.now = v
    BY <2>1 DEF Settled
  <2>. QED
    BY <1>1, <1>2, <2>2
<1>. QED
  BY <1>3, <1>4 DEF Preceded, r

\* A message is taken, and the answer s[i] moves up if it was behind it.
LEMMA PrecededShrinks ==
    ASSUME NEW s \in Seq(Messages), NEW t \in Contents, NEW k, NEW c, NEW p \in Properties,
           NEW n \in Nat, NEW x \in [Properties -> Calling], Ordered(s, t, x, n),
           NEW w \in Calling, NEW z \in Calling,
           NEW i \in DOMAIN s, NEW g \in DOMAIN s, NEW f \in DOMAIN RemoveAt(s, g),
           f = IF i < g THEN i ELSE i - 1,
           i # g, About(s[i], p), Preceded(s, k, c, p, i, w),
           g = 1 \/ ~Lasting(k, c, s[g], p),
           Telling(k, c, s[g], p) => About(s[g], p) /\ z.now = Carried(s[g], p),
           ~Telling(k, c, s[g], p) => z = w
    PROVE  Preceded(RemoveAt(s, g), k, c, p, f, z)
<1>. DEFINE r == RemoveAt(s, g)
<1>1. /\ Len(s) \in Nat /\ DOMAIN s = 1..Len(s) /\ DOMAIN r = 1..(Len(s) - 1)
      /\ \A a \in 1..(Len(s) - 1) : r[a] = IF a < g THEN s[a] ELSE s[a + 1]
  BY Removed
<1>. HIDE DEF r
<1>2. r[f] = s[i]
  BY <1>1 DEF r
<1>3. \A b \in DOMAIN s : b < i /\ b # g => \E a \in DOMAIN r :
         r[a] = s[b] /\ a < f /\ (b < g => a = b) /\ (b > g => a = b - 1)
  <2>1. SUFFICES ASSUME NEW b \in DOMAIN s, b < i, b # g
                 PROVE  \E a \in DOMAIN r :
                           r[a] = s[b] /\ a < f /\ (b < g => a = b) /\ (b > g => a = b - 1)
    OBVIOUS
  <2>2. CASE b < g
    <3>1. b \in DOMAIN r /\ r[b] = s[b] /\ b < f
      BY <1>1, <2>1, <2>2
    <3>. QED
      BY <1>1, <2>2, <3>1
  <2>3. CASE b > g
    <3>1. b - 1 \in DOMAIN r /\ ~(b - 1 < g) /\ (b - 1) + 1 = b /\ b - 1 < f
      BY <1>1, <2>1, <2>3
    <3>. QED
      BY <1>1, <2>3, <3>1
  <2>. QED
    BY <1>1, <2>1, <2>2, <2>3
<1>4. \A a \in DOMAIN r : a < f => \E b \in DOMAIN s :
         b = (IF a < g THEN a ELSE a + 1) /\ r[a] = s[b] /\ b < i /\ b # g
  BY <1>1
<1>5. ASSUME NEW a \in DOMAIN r, a < f, Telling(k, c, r[a], p),
             \A j \in DOMAIN r : a < j /\ j < f => ~Lasting(k, c, r[j], p)
      PROVE  Carried(r[a], p).ver >= Carried(r[f], p).ver
  <2>1. PICK b \in DOMAIN s : b = (IF a < g THEN a ELSE a + 1) /\ r[a] = s[b] /\ b < i /\ b # g
    BY <1>4, <1>5
  <2>2. ASSUME NEW j \in DOMAIN s, b < j, j < i
        PROVE  ~Lasting(k, c, s[j], p)
    <3>1. CASE j = g
      BY <1>1, <2>1, <2>2, <3>1
    <3>2. CASE j # g
      <4>1. PICK e \in DOMAIN r :
              r[e] = s[j] /\ e < f /\ (j < g => e = j) /\ (j > g => e = j - 1)
        BY <1>3, <2>2, <3>2
      <4>2. e > a
        BY <1>1, <2>1, <2>2, <3>2, <4>1
      <4>3. a < e
        BY <1>1, <4>2
      <4>. QED
        BY <1>5, <4>1, <4>3
    <3>. QED
      BY <3>1, <3>2
  <2>. QED
    BY <1>2, <1>5, <2>1, <2>2 DEF Preceded
<1>6. ASSUME \A j \in DOMAIN r : j < f => ~Lasting(k, c, r[j], p)
      PROVE  z.now.ver >= Carried(r[f], p).ver
  <2>1. \A j \in DOMAIN s : j < i /\ j # g => ~Lasting(k, c, s[j], p)
    BY <1>3, <1>6
  <2>2. CASE Telling(k, c, s[g], p) /\ g < i
    <3>1. \A j \in DOMAIN s : g < j /\ j < i => ~Lasting(k, c, s[j], p)
      BY <1>1, <2>1
    <3>. QED
      BY <1>2, <2>2, <3>1 DEF Preceded
  <2>3. CASE Telling(k, c, s[g], p) /\ i < g
    <3>1. Carried(s[i], p).ver <= Carried(s[g], p).ver
      BY <2>3 DEF Ordered
    <3>2. s[i] \in Messages /\ s[g] \in Messages
      BY <1>1, ElementOfSeq
    <3>3. Carried(s[i], p).ver \in Nat /\ Carried(s[g], p).ver \in Nat
      BY <3>2, CarriedType
    <3>. QED
      BY <1>2, <2>3, <3>1, <3>3
  <2>4. CASE ~Telling(k, c, s[g], p)
    <3>1. \A j \in DOMAIN s : j < i => ~Lasting(k, c, s[j], p)
      BY <2>1, <2>4 DEF Telling
    <3>. QED
      BY <1>2, <2>4, <3>1 DEF Preceded
  <2>5. g < i \/ i < g
    BY <1>1
  <2>. QED
    BY <2>2, <2>3, <2>4, <2>5
<1>. QED
  BY <1>5, <1>6 DEF Preceded, r

\* The calls a client makes or finishes do not change what is under way.
Keeps(k, l) == \A id \in DOMAIN k : l[id].op = k[id].op /\ l[id].prop = k[id].prop

\* The order of what is under way does not depend on which calls are made or done
\* meanwhile.
LEMMA SettledKept ==
    ASSUME NEW s \in Seq(Messages), NEW k, NEW l, NEW c, NEW p, Keeps(k, l),
           \A i \in DOMAIN s : IsAnswer(s[i], c) => s[i].id \in DOMAIN k
    PROVE  /\ \A v, w : Settled(s, k, c, p, v, w) => Settled(s, l, c, p, v, w)
           /\ \A i, w : Preceded(s, k, c, p, i, w) => Preceded(s, l, c, p, i, w)
<1>1. \A i \in DOMAIN s : /\ Lasting(k, c, s[i], p) <=> Lasting(l, c, s[i], p)
                          /\ Telling(k, c, s[i], p) <=> Telling(l, c, s[i], p)
  BY DEF Lasting, Telling, IsAnswer, Keeps
<1>2. ASSUME NEW v, NEW w, Settled(s, k, c, p, v, w)
      PROVE  Settled(s, l, c, p, v, w)
  BY <1>1, <1>2, Zenon DEF Settled
<1>3. ASSUME NEW i, NEW w, Preceded(s, k, c, p, i, w)
      PROVE  Preceded(s, l, c, p, i, w)
  BY <1>1, <1>3, Zenon DEF Preceded
<1>. QED
  BY <1>2, <1>3
-----------------------------------------------------------------------------
(***************************************************************************)
(* What the server does to the properties                                  *)
(***************************************************************************)
AnnouncedIn(u, p) == p \in Notifying \/ u[p].cb

\* The contents t become u, and the messages o become q: one property at most
\* has a new version, and either a signal is appended or the property is one
\* that the server says nothing of.
Changes(t, u, o, q) ==
    \/ u = t /\ q = o
    \/ \E p \in Properties :
          /\ t[p].ver <= u[p].ver /\ (u[p].cb => t[p].cb)
          /\ \A x \in Properties \ {p} : u[x] = t[x]
          /\ \/ q = o /\ ~AnnouncedIn(u, p)
             \/ \E m \in Signal : m.prop = p /\ m.now = Now(u, p) /\ q = Append(o, m)

\* What is assigned to a property is announced.
LEMMA AssignChanges ==
    ASSUME TypeOK, NEW p \in Properties, NEW v \in Values, ~AssignThrows(p)
    PROVE  /\ Assigned(p, v) \in Contents
           /\ outbox \o Notification(p, v) \in Seq(Messages)
           /\ Changes(t_, Assigned(p, v), outbox, outbox \o Notification(p, v))
<1>1. t_ \in Contents /\ outbox \in Seq(Messages) /\ outbox \o <<>> = outbox
  BY ConcatEmptySeq DEF TypeOK, Contents, Messages
<1>2. CASE ~Assigns(p, v)
  BY <1>1, <1>2 DEF Changes, Assigned, Notification
<1>3. CASE Assigns(p, v)
  <2>. DEFINE u == Next_(t_, p, v, FALSE)
  <2>1. Assigned(p, v) = u /\ u = [t_ EXCEPT ![p] = [cb |-> FALSE, val |-> v, ver |-> @.ver + 1]]
    BY <1>3 DEF Assigned, Next_
  <2>. HIDE DEF u
  <2>2. /\ u \in Contents /\ u[p].ver = t_[p].ver + 1 /\ u[p].cb = FALSE /\ u[p].val = v
        /\ \A x \in Properties \ {p} : u[x] = t_[x]
    BY <1>1, <2>1 DEF Contents
  <2>3. t_[p].ver <= u[p].ver
    BY <1>1, <2>2 DEF Contents
  <2>4. CASE p \in Notifying
    <3>. DEFINE m == Changed(u, p)
    <3>1. m \in Signal /\ m.prop = p /\ m.now = Now(u, p)
      BY <2>2 DEF Changed, Signal, Now, Version, Contents
    <3>2. Notification(p, v) = <<m>>
      BY <1>3, <2>1, <2>4 DEF Notification
    <3>. HIDE DEF m
    <3>3. outbox \o <<m>> = Append(outbox, m) /\ Append(outbox, m) \in Seq(Messages)
      BY <1>1, <3>1, Appended DEF Messages
    <3>4. Changes(t_, u, outbox, Append(outbox, m))
      BY <2>2, <2>3, <3>1 DEF Changes
    <3>. QED
      BY <2>1, <2>2, <3>2, <3>3, <3>4
  <2>5. CASE p \notin Notifying
    <3>1. Notification(p, v) = <<>>
      BY <2>5 DEF Notification
    <3>2. Changes(t_, u, outbox, outbox)
      BY <2>2, <2>3, <2>5 DEF Changes, AnnouncedIn
    <3>. QED
      BY <1>1, <2>1, <2>2, <3>1, <3>2
  <2>. QED
    BY <2>4, <2>5
<1>. QED
  BY <1>2, <1>3

\* What on_read() will compute is announced.
LEMMA NotifyChanges ==
    ASSUME TypeOK, NEW p \in Properties, NEW v \in Values, Notify(p, v) \/ Invalidate(p, v)
    PROVE  /\ t_' \in Contents /\ outbox' \in Seq(Messages)
           /\ Changes(t_, t_', outbox, outbox')
<1>1. t_ \in Contents /\ outbox \in Seq(Messages)
  BY DEF TypeOK, Contents, Messages
<1>2. t_' = [t_ EXCEPT ![p] = [cb |-> TRUE, val |-> v, ver |-> @.ver + 1]] /\ t_[p].cb
  BY DEF Notify, Invalidate, Next_
<1>3. /\ t_' \in Contents /\ t_'[p].ver = t_[p].ver + 1
      /\ \A x \in Properties \ {p} : t_'[x] = t_[x]
  BY <1>1, <1>2 DEF Contents
<1>4. t_[p].ver <= t_'[p].ver
  BY <1>1, <1>3 DEF Contents
<1>5. PICK m \in Signal : m.prop = p /\ m.now = Now(t_', p) /\ outbox' = Append(outbox, m)
  <2>1. CASE Notify(p, v)
    <3>1. outbox' = Append(outbox, Changed(t_', p))
      BY <2>1 DEF Notify
    <3>2. Changed(t_', p) \in Signal /\ Changed(t_', p).prop = p /\ Changed(t_', p).now = Now(t_', p)
      BY <1>3 DEF Changed, Signal, Now, Version, Contents
    <3>. QED
      BY <3>1, <3>2
  <2>2. CASE Invalidate(p, v)
    <3>1. outbox' = Append(outbox, Invalidated(t_', p))
      BY <2>2 DEF Invalidate
    <3>2. /\ Invalidated(t_', p) \in Signal /\ Invalidated(t_', p).prop = p
          /\ Invalidated(t_', p).now = Now(t_', p)
      BY <1>3 DEF Invalidated, Signal, Now, Version, Contents
    <3>. QED
      BY <3>1, <3>2
  <2>. QED
    BY <2>1, <2>2
<1>6. outbox' \in Seq(Messages)
  BY <1>1, <1>5, Appended DEF Messages
<1>. QED
  BY <1>2, <1>3, <1>4, <1>5, <1>6 DEF Changes

\* What a change does to the messages under way to a client, a of which the client
\* has already got.
LEMMA ChangesPipe ==
    ASSUME NEW a \in Seq(Messages), NEW o \in Seq(Messages), NEW q, NEW t \in Contents,
           NEW u \in Contents, Changes(t, u, o, q)
    PROVE  /\ a \o o \in Seq(Messages) /\ a \o q \in Seq(Messages)
           /\ \A w \in [Properties -> Calling], n \in Nat :
                 Ordered(a \o o, t, w, n) => Ordered(a \o q, u, w, n)
           /\ \A p \in Properties : AnnouncedIn(u, p) =>
                 /\ AnnouncedIn(t, p)
                 /\ \A k, c, w : Settled(a \o o, k, c, p, Now(t, p), w)
                                    => Settled(a \o q, k, c, p, Now(u, p), w)
           /\ \A i \in DOMAIN (a \o o) :
                 /\ i \in DOMAIN (a \o q) /\ (a \o q)[i] = (a \o o)[i]
                 /\ \A k, c, p, w : Preceded(a \o o, k, c, p, i, w)
                                       => Preceded(a \o q, k, c, p, i, w)
           /\ \A i \in DOMAIN (a \o q) : ~IsSignal((a \o q)[i]) => i \in DOMAIN (a \o o)
<1>. DEFINE s == a \o o
<1>1. s \in Seq(Messages)
  BY ConcatProperties
<1>2. CASE u = t /\ q = o
  BY <1>1, <1>2
<1>3. ASSUME NEW x \in Properties,
             t[x].ver <= u[x].ver, u[x].cb => t[x].cb,
             \A y \in Properties \ {x} : u[y] = t[y],
             q = o /\ ~AnnouncedIn(u, x)
      PROVE  /\ a \o q \in Seq(Messages)
             /\ \A w \in [Properties -> Calling], n \in Nat :
                   Ordered(s, t, w, n) => Ordered(a \o q, u, w, n)
             /\ \A p \in Properties : AnnouncedIn(u, p) =>
                   /\ AnnouncedIn(t, p)
                   /\ \A k, c, w : Settled(s, k, c, p, Now(t, p), w)
                                      => Settled(a \o q, k, c, p, Now(u, p), w)
             /\ a \o q = s
  <2>1. ASSUME NEW p \in Properties PROVE t[p].ver <= u[p].ver /\ t[p].ver \in Nat /\ u[p].ver \in Nat
    <3>1. t[p].ver \in Nat /\ u[p].ver \in Nat /\ (p = x \/ u[p] = t[p])
      BY <1>3 DEF Contents
    <3>. QED
      BY <1>3, <3>1
  <2>2. ASSUME NEW w \in [Properties -> Calling], NEW n \in Nat, Ordered(s, t, w, n)
        PROVE  Ordered(s, u, w, n)
    <3>1. SUFFICES ASSUME NEW p \in Properties
                   PROVE  /\ \A i, j \in DOMAIN s : i < j /\ About(s[i], p) /\ About(s[j], p)
                                => Carried(s[i], p).ver <= Carried(s[j], p).ver
                          /\ \A i \in DOMAIN s : About(s[i], p) => Carried(s[i], p).ver <= u[p].ver
                          /\ w[p].now.ver <= u[p].ver
                          /\ \A i \in DOMAIN s : i > n /\ About(s[i], p)
                                => w[p].now.ver <= Carried(s[i], p).ver
      BY Zenon DEF Ordered
    <3>2. /\ \A i, j \in DOMAIN s : i < j /\ About(s[i], p) /\ About(s[j], p)
                => Carried(s[i], p).ver <= Carried(s[j], p).ver
          /\ \A i \in DOMAIN s : About(s[i], p) => Carried(s[i], p).ver <= t[p].ver
          /\ w[p].now.ver <= t[p].ver
          /\ \A i \in DOMAIN s : i > n /\ About(s[i], p) => w[p].now.ver <= Carried(s[i], p).ver
      BY <2>2, Zenon DEF Ordered
    <3>3. \A i \in DOMAIN s : Carried(s[i], p).ver \in Nat
      <4>1. SUFFICES ASSUME NEW i \in DOMAIN s PROVE Carried(s[i], p).ver \in Nat
        OBVIOUS
      <4>2. s[i] \in Messages
        BY <1>1, ElementOfSeq, LenProperties
      <4>. QED
        BY <4>2, CarriedType
    <3>4. w[p].now.ver \in Nat
      BY DEF Calling, Version
    <3>5. \A i \in DOMAIN s : About(s[i], p) => Carried(s[i], p).ver <= u[p].ver
      <4>. HIDE DEF s
      <4>. QED
        BY <2>1, <3>2, <3>3
    <3>6. w[p].now.ver <= u[p].ver
      BY <2>1, <3>2, <3>4
    <3>. QED
      BY <3>2, <3>5, <3>6
  <2>3. \A p \in Properties : AnnouncedIn(u, p) => p # x /\ AnnouncedIn(t, p) /\ Now(u, p) = Now(t, p)
    BY <1>3 DEF AnnouncedIn, Now
  <2>. QED
    BY <1>1, <1>3, <2>2, <2>3
<1>4. ASSUME NEW x \in Properties,
             t[x].ver <= u[x].ver, u[x].cb => t[x].cb,
             \A y \in Properties \ {x} : u[y] = t[y],
             NEW m \in Signal, m.prop = x, m.now = Now(u, x), q = Append(o, m)
      PROVE  /\ a \o q \in Seq(Messages)
             /\ \A w \in [Properties -> Calling], n \in Nat :
                   Ordered(s, t, w, n) => Ordered(a \o q, u, w, n)
             /\ \A p \in Properties : AnnouncedIn(u, p) =>
                   /\ AnnouncedIn(t, p)
                   /\ \A k, c, w : Settled(s, k, c, p, Now(t, p), w)
                                      => Settled(a \o q, k, c, p, Now(u, p), w)
             /\ \A i \in DOMAIN s :
                   /\ i \in DOMAIN (a \o q) /\ (a \o q)[i] = s[i]
                   /\ \A k, c, p, w : Preceded(s, k, c, p, i, w)
                                         => Preceded(a \o q, k, c, p, i, w)
             /\ \A i \in DOMAIN (a \o q) : ~IsSignal((a \o q)[i]) => i \in DOMAIN s
  <2>1. m \in Messages /\ IsSignal(m) /\ a \o q = Append(s, m)
    BY <1>4, PipeGrows DEF Messages, Signal, IsSignal
  <2>2. \A p \in Properties : /\ t[p].ver <= u[p].ver
                              /\ About(m, p) => p = x /\ Carried(m, p) = Now(u, p)
    BY <1>4, <2>1 DEF Contents, About, Carried
  <2>3. \A w \in [Properties -> Calling], n \in Nat :
          Ordered(s, t, w, n) => Ordered(a \o q, u, w, n)
    <3>. HIDE DEF s
    <3>. QED
      BY <1>1, <2>1, <2>2, OrderedGrows
  <2>4. ASSUME NEW p \in Properties, AnnouncedIn(u, p)
        PROVE  /\ AnnouncedIn(t, p)
               /\ \A k, c, w : Settled(s, k, c, p, Now(t, p), w)
                                  => Settled(a \o q, k, c, p, Now(u, p), w)
    <3>1. AnnouncedIn(t, p)
      BY <1>4, <2>4 DEF AnnouncedIn
    <3>2. ASSUME NEW k, NEW c, NEW w, Settled(s, k, c, p, Now(t, p), w)
          PROVE  Settled(a \o q, k, c, p, Now(u, p), w)
      <4>. HIDE DEF s
      <4>1. CASE p = x
        <5>1. Lasting(k, c, m, p) /\ Carried(m, p) = Now(u, p)
          BY <1>4, <2>1, <4>1 DEF Lasting, Carried
        <5>. QED
          BY <1>1, <2>1, <5>1, SettledByLast
      <4>2. CASE p # x
        <5>1. ~Telling(k, c, m, p) /\ Now(u, p) = Now(t, p)
          BY <1>4, <2>1, <4>2 DEF Telling, Lasting, IsAnswer, Now
        <5>. QED
          BY <1>1, <2>1, <3>2, <5>1, SettledGrows
      <4>. QED
        BY <4>1, <4>2
    <3>. QED
      BY <3>1, <3>2
  <2>5. /\ DOMAIN s = 1..Len(s) /\ DOMAIN (a \o q) = 1..(Len(s) + 1) /\ Len(s) \in Nat
        /\ \A i \in 1..Len(s) : (a \o q)[i] = s[i]
        /\ (a \o q)[Len(s) + 1] = m
        /\ a \o q \in Seq(Messages)
    <3>. HIDE DEF s
    <3>. QED
      BY <1>1, <2>1, Appended
  <2>6. \A i \in DOMAIN s : \A k, c, p, w : Preceded(s, k, c, p, i, w)
                                               => Preceded(a \o q, k, c, p, i, w)
    <3>. HIDE DEF s
    <3>. QED
      BY <1>1, <2>1, PrecededGrows
  <2>7. \A i \in DOMAIN s : i \in DOMAIN (a \o q) /\ (a \o q)[i] = s[i]
    <3>. HIDE DEF s
    <3>. QED
      BY <2>5
  <2>8. \A i \in DOMAIN (a \o q) : ~IsSignal((a \o q)[i]) => i \in DOMAIN s
    <3>. DEFINE z == a \o q
    <3>. HIDE DEF s, z
    <3>1. SUFFICES ASSUME NEW i \in DOMAIN z, ~IsSignal(z[i]) PROVE i \in DOMAIN s
      BY DEF z
    <3>2. i # Len(s) + 1
      BY <2>1, <2>5, <3>1 DEF z
    <3>. QED
      BY <2>5, <3>1, <3>2 DEF z
  <2>. QED
    BY <2>3, <2>4, <2>5, <2>6, <2>7, <2>8, Zenon
<1>5. CASE ~(u = t /\ q = o)
  <2>1. PICK x \in Properties :
          /\ t[x].ver <= u[x].ver /\ (u[x].cb => t[x].cb)
          /\ \A y \in Properties \ {x} : u[y] = t[y]
          /\ \/ q = o /\ ~AnnouncedIn(u, x)
             \/ \E m \in Signal : m.prop = x /\ m.now = Now(u, x) /\ q = Append(o, m)
    BY <1>5, Zenon DEF Changes
  <2>. QED
    BY <1>1, <1>3, <1>4, <2>1, Zenon
<1>. QED
  BY <1>2, <1>5

\* What an answer does to the messages under way to a client.
LEMMA AnswerPipe ==
    ASSUME NEW a \in Seq(Messages), NEW o \in Seq(Messages), NEW u \in Contents,
           NEW m \in Answer, m.now = Snapshot(u)
    PROVE  /\ a \o o \in Seq(Messages) /\ m \in Messages /\ ~IsSignal(m)
           /\ Append(o, m) \in Seq(Messages)
           /\ a \o Append(o, m) = Append(a \o o, m) /\ a \o Append(o, m) \in Seq(Messages)
           /\ \A w \in [Properties -> Calling], n \in Nat :
                 Ordered(a \o o, u, w, n) => Ordered(a \o Append(o, m), u, w, n)
           /\ \A p \in Properties : \A k, c, w : Settled(a \o o, k, c, p, Now(u, p), w) =>
                 /\ Settled(a \o Append(o, m), k, c, p, Now(u, p), w)
                 /\ Preceded(a \o Append(o, m), k, c, p, Len(a \o o) + 1, w)
           /\ \A i \in DOMAIN (a \o o) : \A k, c, p, w :
                 Preceded(a \o o, k, c, p, i, w) => Preceded(a \o Append(o, m), k, c, p, i, w)
<1>. DEFINE s == a \o o
<1>1. s \in Seq(Messages) /\ m \in Messages /\ ~IsSignal(m)
  BY ConcatProperties DEF Messages, Answer, IsSignal
<1>2. /\ a \o Append(o, m) = Append(s, m) /\ Append(s, m) \in Seq(Messages)
      /\ Append(o, m) \in Seq(Messages)
  BY <1>1, PipeGrows, Appended
<1>3. \A p \in Properties : Carried(m, p) = Now(u, p) /\ Now(u, p) \in Version
  BY <1>1 DEF Carried, Snapshot, Now, Version, Contents
<1>. HIDE DEF s
<1>4. \A p \in Properties : u[p].ver <= u[p].ver
  BY DEF Contents
<1>5. \A w \in [Properties -> Calling], n \in Nat : Ordered(s, u, w, n) => Ordered(Append(s, m), u, w, n)
  BY <1>1, <1>3, <1>4, OrderedGrows
<1>6. \A p \in Properties : \A k, c, w : Settled(s, k, c, p, Now(u, p), w) =>
         /\ Settled(Append(s, m), k, c, p, Now(u, p), w)
         /\ Preceded(Append(s, m), k, c, p, Len(s) + 1, w)
  BY <1>1, <1>3, SettledGrows, PrecededBySettled
<1>7. \A i \in DOMAIN s : \A k, c, p, w :
         Preceded(s, k, c, p, i, w) => Preceded(Append(s, m), k, c, p, i, w)
  BY <1>1, PrecededGrows
<1>. QED
  BY <1>1, <1>2, <1>5, <1>6, <1>7 DEF s
-----------------------------------------------------------------------------
(***************************************************************************)
(* The server's steps: it says what changes, and perhaps answers a request *)
(***************************************************************************)
Speaks ==
    /\ t_' \in Contents /\ outbox' \in Seq(Messages) /\ Changes(t_, t_', outbox, outbox')
    /\ UNCHANGED <<requests, inbox, client>>

Replies(q, m) ==
    /\ requests # <<>> /\ requests' = Tail(requests)
    /\ t_' \in Contents /\ q \in Seq(Messages) /\ Changes(t_, t_', outbox, q)
    /\ m \in Answer /\ m.to = Head(requests).from /\ m.id = Head(requests).id
    /\ m.now = Snapshot(t_')
    /\ outbox' = Append(q, m)
    /\ UNCHANGED <<inbox, client>>

\* The request at the head of the queue.
LEMMA HeadRequest ==
    ASSUME TypeOK, Bookkeeping, requests # <<>>
    PROVE  /\ Head(requests) \in Request /\ Head(requests) = requests[1] /\ 1 \in DOMAIN requests
           /\ Head(requests).op # "getall" => Head(requests).prop \in Properties
<1>1. /\ Head(requests) \in Request /\ Head(requests) = requests[1] /\ 1 \in DOMAIN requests
  BY TailRemoves DEF TypeOK
<1>2. requests[1].from \in Clients
  BY <1>1 DEF Request
<1>. QED
  BY <1>1, <1>2 DEF Bookkeeping, RequestsKnown, RequestsIn

\* What the server answers tells what the properties are.
LEMMA AnswerTyped ==
    ASSUME NEW r \in Request, NEW u \in Contents, NEW kind \in {"return", "error"}
    PROVE  /\ AnswerTo(r, kind, u) \in Answer
           /\ AnswerTo(r, kind, u).to = r.from /\ AnswerTo(r, kind, u).id = r.id
           /\ AnswerTo(r, kind, u).now = Snapshot(u)
BY DEF AnswerTo, Answer, Request, Snapshot, Now, Version, Contents

\* A step of the server says something of its own, or answers the oldest request.
LEMMA ServerSteps ==
    ASSUME TypeOK, Bookkeeping,
           (\E p \in Properties, v \in Values : Assign(p, v) \/ Notify(p, v) \/ Invalidate(p, v))
              \/ Handle
    PROVE  Speaks \/ \E q, m : Replies(q, m)
<1>1. t_ \in Contents /\ outbox \in Seq(Messages) /\ Changes(t_, t_, outbox, outbox)
  BY DEF TypeOK, Contents, Messages, Changes
<1>2. ASSUME NEW p \in Properties, NEW v \in Values,
             Assign(p, v) \/ Notify(p, v) \/ Invalidate(p, v)
      PROVE  Speaks
  <2>1. UNCHANGED <<requests, inbox, client>>
    BY <1>2 DEF Assign, Notify, Invalidate
  <2>2. CASE Assign(p, v)
    <3>1. ~AssignThrows(p) /\ t_' = Assigned(p, v) /\ outbox' = outbox \o Notification(p, v)
      BY <2>2 DEF Assign
    <3>. QED
      BY <2>1, <3>1, AssignChanges DEF Speaks
  <2>3. CASE Notify(p, v) \/ Invalidate(p, v)
    BY <2>1, <2>3, NotifyChanges DEF Speaks
  <2>. QED
    BY <1>2, <2>2, <2>3
<1>3. ASSUME NEW r \in Range(requests), HandleGet(r) \/ HandleGetAll(r) \/ HandleSet(r)
      PROVE  \E q, m : Replies(q, m)
  <2>1. /\ requests # <<>> /\ r = Head(requests) /\ requests' = Tail(requests)
        /\ UNCHANGED <<inbox, client>>
    BY <1>3 DEF HandleGet, HandleGetAll, HandleSet, Serve
  <2>2. r \in Request /\ (r.op # "getall" => r.prop \in Properties)
    BY <2>1, HeadRequest
  <2>3. ASSUME NEW q \in Seq(Messages), NEW kind \in {"return", "error"},
               t_' \in Contents, Changes(t_, t_', outbox, q),
               outbox' = Append(q, AnswerTo(r, kind, t_'))
        PROVE  Replies(q, AnswerTo(r, kind, t_'))
    <3>1. /\ AnswerTo(r, kind, t_') \in Answer
          /\ AnswerTo(r, kind, t_').to = r.from /\ AnswerTo(r, kind, t_').id = r.id
          /\ AnswerTo(r, kind, t_').now = Snapshot(t_')
      <4>1. PICK u \in Contents : u = t_'
        BY <2>3
      <4>. QED
        BY <2>2, <4>1, AnswerTyped
    <3>. QED
      BY <2>1, <2>3, <3>1 DEF Replies
  <2>4. CASE HandleGet(r) \/ HandleGetAll(r)
    <3>1. t_' = t_
      BY <2>4 DEF HandleGet, HandleGetAll
    <3>2. \E kind \in {"return", "error"} : outbox' = Append(outbox, AnswerTo(r, kind, t_'))
      BY <2>4, <3>1 DEF HandleGet, HandleGetAll
    <3>. QED
      BY <1>1, <2>3, <3>1, <3>2
  <2>5. CASE HandleSet(r)
    <3>1. CASE SetRefuses(r)
      <4>1. t_' = t_
        BY <3>1 DEF SetRefuses
      <4>2. \E kind \in {"return", "error"} : outbox' = Append(outbox, AnswerTo(r, kind, t_'))
        BY <3>1, <4>1 DEF SetRefuses
      <4>. QED
        BY <1>1, <2>3, <4>1, <4>2
    <3>2. CASE SetTakes(r)
      <4>1. r.prop \in Properties /\ r.val \in Values
        BY <2>2, <2>5 DEF HandleSet, Serve, Request
      <4>2. /\ ~AssignThrows(r.prop) /\ t_' = Assigned(r.prop, r.val)
            /\ outbox' = Append(outbox \o Notification(r.prop, r.val), AnswerTo(r, "return", t_'))
        BY <3>2 DEF SetTakes
      <4>3. /\ t_' \in Contents /\ outbox \o Notification(r.prop, r.val) \in Seq(Messages)
            /\ Changes(t_, t_', outbox, outbox \o Notification(r.prop, r.val))
        BY <4>1, <4>2, AssignChanges
      <4>. QED
        BY <2>3, <4>2, <4>3
    <3>. QED
      BY <2>5, <3>1, <3>2 DEF HandleSet
  <2>. QED
    BY <1>3, <2>4, <2>5
<1>. QED
  BY <1>2, <1>3 DEF Handle
-----------------------------------------------------------------------------
(***************************************************************************)
(* Types                                                                   *)
(***************************************************************************)
\* The steps of the server keep the types.
LEMMA ServerTypes ==
    ASSUME TypeOK, Bookkeeping, Speaks \/ \E q, m : Replies(q, m)
    PROVE  TypeOK'
<1>1. CASE Speaks
  BY <1>1 DEF TypeOK, Speaks, Contents, Messages, client
<1>2. ASSUME NEW q, NEW m, Replies(q, m)
      PROVE  TypeOK'
  <2>1. Tail(requests) \in Seq(Request)
    BY <1>2, TailRemoves DEF TypeOK, Replies
  <2>2. Append(q, m) \in Seq(Messages)
    BY <1>2, Appended DEF Replies, Messages
  <2>. QED
    BY <1>2, <2>1, <2>2 DEF TypeOK, Replies, Contents, Messages, client
<1>. QED
  BY <1>1, <1>2

\* A request that is sent keeps the types.
LEMMA SendTypes ==
    ASSUME TypeOK, NEW c \in Clients, NEW op \in Ops, NEW p \in Properties \cup {NoProperty},
           NEW v \in Values, NEW waits \in BOOLEAN, Send(c, op, p, v, waits),
           attaching' \in [Clients -> Properties \cup {NoProperty}]
    PROVE  TypeOK'
<1>. DEFINE call == [op |-> op, prop |-> p, done |-> FALSE, watched |-> p \in attached[c]]
            request == [from |-> c, id |-> Len(calls[c]) + 1, op |-> op, prop |-> p, val |-> v]
<1>1. calls[c] \in Seq(Call) /\ Len(calls[c]) \in Nat /\ Len(calls[c]) + 1 \in 0..MaxCalls
  <2>1. calls[c] \in Seq(Call)
    BY DEF TypeOK
  <2>2. Len(calls[c]) < MaxCalls
    BY DEF Send
  <2>. QED
    BY <2>1, <2>2, LenProperties, PropertyAssumption
<1>2. call \in Call /\ request \in Request
  BY <1>1 DEF Call, Request
<1>3. Append(calls[c], call) \in Seq(Call) /\ Append(requests, request) \in Seq(Request)
  BY <1>1, <1>2, Appended DEF TypeOK
<1>4. /\ calls' = [calls EXCEPT ![c] = Append(calls[c], call)]
      /\ requests' = Append(requests, request)
      /\ blocked' = [blocked EXCEPT ![c] = IF waits THEN Len(calls[c]) + 1 ELSE 0]
      /\ UNCHANGED <<t_, outbox, inbox, attached, told, overtaken>>
  BY DEF Send
<1>. HIDE DEF call, request
<1>5. calls' \in [Clients -> Seq(Call)] /\ blocked' \in [Clients -> 0..MaxCalls]
  BY <1>1, <1>3, <1>4, PropertyAssumption DEF TypeOK
<1>. QED
  BY <1>3, <1>4, <1>5 DEF TypeOK

\* The bus and the client keep the messages whole.
LEMMA QueueTypes ==
    ASSUME TypeOK, NEW c \in Clients, NEW i \in DOMAIN inbox[c]
    PROVE  /\ inbox[c] \in Seq(Messages) /\ inbox[c][i] \in Messages
           /\ RemoveAt(inbox[c], i) \in Seq(Messages)
           /\ Len(inbox[c]) \in Nat /\ DOMAIN inbox[c] = 1..Len(inbox[c])
<1>1. inbox[c] \in Seq(Messages)
  BY DEF TypeOK, Messages
<1>. QED
  BY <1>1, Removed, ElementOfSeq, LenProperties

\* Callbacks are called with versions.
LEMMA EvaluateTypes ==
    ASSUME TypeOK, NEW c \in Clients, NEW P, NEW what \in {"value", "invalid", "failed"},
           NEW now, \A p \in P \cap Properties : now[p] \in Version, Evaluate(c, P, what, now)
    PROVE  told' \in [Clients -> [Properties -> Calling]]
<1>. DEFINE f == [p \in Properties |->
                     IF p \in P THEN [what |-> what, now |-> now[p]] ELSE told[c][p]]
<1>1. told \in [Clients -> [Properties -> Calling]]
  BY DEF TypeOK, Calling
<1>2. told' = [told EXCEPT ![c] = f]
  BY DEF Evaluate
<1>3. f \in [Properties -> Calling]
  BY <1>1 DEF Calling
<1>. HIDE DEF f
<1>. QED
  BY <1>1, <1>2, <1>3

\* An answer leaves the calls and what the callbacks were told well typed.
LEMMA AnsweredTypes ==
    ASSUME TypeOK, NEW c \in Clients, NEW m \in Answer, Answered(c, m), Finish(c, m.id)
    PROVE  /\ told' \in [Clients -> [Properties -> Calling]]
           /\ calls' \in [Clients -> Seq(Call)]
<1>1. \A p \in Properties : m.now[p] \in Version
  BY DEF Answer
<1>2. told' \in [Clients -> [Properties -> Calling]]
  <2>1. CASE calls[c][m.id].op = "attach"
    <3>1. \E what \in {"value", "invalid", "failed"} :
            Evaluate(c, {calls[c][m.id].prop}, what, m.now)
      BY <2>1 DEF Answered
    <3>. QED
      BY <1>1, <3>1, EvaluateTypes
  <2>2. CASE calls[c][m.id].op = "getall"
    <3>1. Evaluate(c, Properties, "value", m.now)
      BY <2>2 DEF Answered
    <3>. QED
      BY <1>1, <3>1, EvaluateTypes
  <2>3. CASE calls[c][m.id].op \notin {"attach", "getall"}
    BY <2>3 DEF Answered, TypeOK, Calling
  <2>. QED
    BY <2>1, <2>2, <2>3
<1>3. calls' \in [Clients -> Seq(Call)]
  <2>1. calls[c] \in Seq(Call) /\ calls \in [Clients -> Seq(Call)]
    BY DEF TypeOK
  <2>2. calls' = [calls EXCEPT ![c] = [calls[c] EXCEPT ![m.id].done = TRUE]]
    BY DEF Finish
  <2>3. ASSUME m.id \in DOMAIN calls[c]
        PROVE  [calls[c] EXCEPT ![m.id].done = TRUE] \in Seq(Call)
    <3>1. m.id \in 1..Len(calls[c]) /\ calls[c][m.id] \in Call
      BY <2>1, <2>3, LenProperties, ElementOfSeq
    <3>2. [calls[c][m.id] EXCEPT !.done = TRUE] \in Call
      BY <3>1 DEF Call
    <3>. QED
      BY <2>1, <3>1, <3>2, ExceptSeq
  <2>4. ASSUME m.id \notin DOMAIN calls[c]
        PROVE  [calls[c] EXCEPT ![m.id].done = TRUE] = calls[c]
    <3>1. calls[c] = [x \in DOMAIN calls[c] |-> calls[c][x]]
      BY <2>1, IsASeq, LenProperties
    <3>. QED
      BY <2>4, <3>1
  <2>5. [calls[c] EXCEPT ![m.id].done = TRUE] \in Seq(Call)
    BY <2>1, <2>3, <2>4
  <2>. QED
    BY <2>1, <2>2, <2>5
<1>. QED
  BY <1>2, <1>3
-----------------------------------------------------------------------------
(***************************************************************************)
(* A client takes a message, dispatched or as the answer it waits for      *)
(***************************************************************************)
\* The callback of p is called with m.
Called(c, m, p) == Telling(calls[c], c, m, p) /\ (IsSignal(m) => p \in attached[c])

Takes(c, i) ==
    LET m == inbox[c][i]
    IN /\ i \in DOMAIN inbox[c]
       /\ inbox' = [inbox EXCEPT ![c] = RemoveAt(inbox[c], i)]
       /\ UNCHANGED <<t_, requests, outbox, attached, attaching>>
       /\ IsSignal(m) => i = 1
       /\ ~IsSignal(m) => m.to = c /\ (i = 1 \/ calls[c][m.id].op # "attach")
       /\ IF IsSignal(m) THEN calls' = calls ELSE Finish(c, m.id)
       /\ calls' \in [Clients -> Seq(Call)]
       /\ told' \in [Clients -> [Properties -> Calling]]
       /\ \A d \in Clients \ {c} : told'[d] = told[d]
       /\ \A p \in Properties :
             IF Called(c, m, p)
             THEN told'[c][p].what # "nothing" /\ told'[c][p].now = Carried(m, p)
             ELSE told'[c][p] = told[c][p]
       /\ overtaken' \in [Clients -> Nat]
       /\ \A d \in Clients \ {c} : overtaken'[d] = overtaken[d]
       /\ \A p \in Properties :
             \/ /\ told'[c][p] = told[c][p] /\ overtaken'[c] >= overtaken[c] - 1
                /\ i > overtaken[c] => overtaken'[c] >= overtaken[c]
             \/ /\ About(m, p) /\ told'[c][p].now = Carried(m, p) /\ overtaken'[c] >= i - 1
       /\ blocked' \in {blocked, [blocked EXCEPT ![c] = 0]}

\* What an answer calls the callbacks with.
LEMMA AnsweredCalls ==
    ASSUME TypeOK, NEW c \in Clients, NEW m \in Answer, m.to = c, Answered(c, m)
    PROVE  /\ \A d \in Clients \ {c} : told'[d] = told[d]
           /\ \A p \in Properties :
                 IF Called(c, m, p)
                 THEN told'[c][p].what # "nothing" /\ told'[c][p].now = Carried(m, p)
                 ELSE told'[c][p] = told[c][p]
           /\ calls[c][m.id].op = "getall" =>
                 \A p \in Properties : About(m, p) /\ told'[c][p].now = Carried(m, p)
           /\ calls[c][m.id].op \notin {"attach", "getall"} => told' = told
<1>1. ~IsSignal(m) /\ told \in [Clients -> [Properties -> Calling]]
  BY DEF Answer, IsSignal, TypeOK, Calling
<1>2. \A p \in Properties : Carried(m, p) = m.now[p] /\ About(m, p)
  BY <1>1 DEF Carried, About
<1>3. \A p \in Properties : Called(c, m, p) <=>
         \/ calls[c][m.id].op = "attach" /\ calls[c][m.id].prop = p
         \/ calls[c][m.id].op = "getall"
  BY <1>1 DEF Called, Telling, Lasting, IsAnswer
<1>4. ASSUME NEW P, NEW what \in {"value", "failed"}, Evaluate(c, P, what, m.now)
      PROVE  /\ \A d \in Clients \ {c} : told'[d] = told[d]
             /\ \A p \in Properties :
                   IF p \in P THEN told'[c][p].what # "nothing" /\ told'[c][p].now = m.now[p]
                   ELSE told'[c][p] = told[c][p]
  <2>1. told' = [told EXCEPT ![c] = [p \in Properties |->
                   IF p \in P THEN [what |-> what, now |-> m.now[p]] ELSE told[c][p]]]
    BY <1>4 DEF Evaluate
  <2>. QED
    BY <1>1, <2>1
<1>5. CASE calls[c][m.id].op = "attach"
  <2>1. \E what \in {"value", "failed"} : Evaluate(c, {calls[c][m.id].prop}, what, m.now)
    BY <1>5 DEF Answered
  <2>. QED
    BY <1>2, <1>3, <1>4, <1>5, <2>1
<1>6. CASE calls[c][m.id].op = "getall"
  <2>1. Evaluate(c, Properties, "value", m.now)
    BY <1>6 DEF Answered
  <2>. QED
    BY <1>2, <1>3, <1>4, <1>6, <2>1
<1>7. CASE calls[c][m.id].op \notin {"attach", "getall"}
  <2>1. told' = told
    BY <1>7 DEF Answered
  <2>. QED
    BY <1>3, <1>7, <2>1
<1>. QED
  BY <1>5, <1>6, <1>7

\* The event loop takes the first message.
LEMMA DispatchTakes ==
    ASSUME TypeOK, Bookkeeping, NEW c \in Clients, Dispatch(c)
    PROVE  Takes(c, 1)
<1>. DEFINE m == inbox[c][1]
<1>1. /\ inbox[c] # <<>> /\ inbox' = [inbox EXCEPT ![c] = Tail(inbox[c])]
      /\ overtaken' = [overtaken EXCEPT ![c] = IF overtaken[c] = 0 THEN 0 ELSE overtaken[c] - 1]
      /\ UNCHANGED <<t_, requests, outbox, attached, attaching>>
      /\ blocked' \in {blocked, [blocked EXCEPT ![c] = 0]}
  BY DEF Dispatch
<1>2. /\ inbox[c] \in Seq(Messages) /\ 1 \in DOMAIN inbox[c] /\ Head(inbox[c]) = m
      /\ Tail(inbox[c]) = RemoveAt(inbox[c], 1) /\ m \in Messages
  <2>1. inbox[c] \in Seq(Messages)
    BY DEF TypeOK, Messages
  <2>2. inbox[c] # <<>>
    BY <1>1
  <2>. QED
    BY <2>1, <2>2, TailRemoves
<1>3. /\ overtaken' \in [Clients -> Nat] /\ overtaken[c] \in Nat /\ 1 \in Nat
      /\ \A d \in Clients \ {c} : overtaken'[d] = overtaken[d]
      /\ overtaken'[c] >= overtaken[c] - 1 /\ (1 > overtaken[c] => overtaken'[c] >= overtaken[c])
      /\ overtaken'[c] >= 1 - 1
  BY <1>1 DEF TypeOK
<1>. HIDE DEF m
<1>10. ASSUME \A p \in Properties :
                told'[c][p] = told[c][p] \/ (About(m, p) /\ told'[c][p].now = Carried(m, p))
       PROVE  \A p \in Properties :
                \/ /\ told'[c][p] = told[c][p] /\ overtaken'[c] >= overtaken[c] - 1
                   /\ 1 > overtaken[c] => overtaken'[c] >= overtaken[c]
                \/ /\ About(m, p) /\ told'[c][p].now = Carried(m, p) /\ overtaken'[c] >= 1 - 1
  <2>1. /\ overtaken'[c] >= overtaken[c] - 1 /\ (1 > overtaken[c] => overtaken'[c] >= overtaken[c])
        /\ overtaken'[c] >= 1 - 1
    BY <1>3
  <2>2. TAKE p \in Properties
  <2>3. CASE told'[c][p] = told[c][p]
    BY <2>1, <2>3
  <2>4. CASE About(m, p) /\ told'[c][p].now = Carried(m, p)
    BY <2>1, <2>4
  <2>. QED
    BY <1>10, <2>3, <2>4
<1>4. CASE IsSignal(m)
  <2>1. /\ calls' = calls
        /\ Evaluate(c, attached[c] \cap {m.prop}, IF m.kind = "changed" THEN "value" ELSE "invalid",
                    [p \in {m.prop} |-> m.now])
    BY <1>2, <1>4 DEF Dispatch
  <2>2. PICK what \in {"value", "invalid"} :
          Evaluate(c, attached[c] \cap {m.prop}, what, [p \in {m.prop} |-> m.now])
    BY <2>1
  <2>3. m \in Signal
    BY <1>2, <1>4, CarriedType DEF Messages, IsSignal, Signal, Answer
  <2>4. told' \in [Clients -> [Properties -> Calling]]
    <3>1. m.now \in Version
      BY <2>3 DEF Signal
    <3>2. \A p \in (attached[c] \cap {m.prop}) \cap Properties :
            [x \in {m.prop} |-> m.now][p] \in Version
      BY <3>1
    <3>3. what \in {"value", "invalid", "failed"}
      BY <2>2
    <3>4. PICK P, now : P = attached[c] \cap {m.prop} /\ now = [p \in {m.prop} |-> m.now]
      OBVIOUS
    <3>5. Evaluate(c, P, what, now) /\ \A p \in P \cap Properties : now[p] \in Version
      BY <2>2, <3>2, <3>4
    <3>. QED
      BY <3>3, <3>5, EvaluateTypes
  <2>5. /\ \A d \in Clients \ {c} : told'[d] = told[d]
        /\ \A p \in Properties :
              IF p \in attached[c] /\ p = m.prop
              THEN told'[c][p].what # "nothing" /\ told'[c][p].now = m.now
              ELSE told'[c][p] = told[c][p]
    <3>1. told' = [told EXCEPT ![c] = [p \in Properties |->
                      IF p \in attached[c] \cap {m.prop}
                      THEN [what |-> what, now |-> [x \in {m.prop} |-> m.now][p]] ELSE told[c][p]]]
      BY <2>2 DEF Evaluate
    <3>2. told \in [Clients -> [Properties -> Calling]]
      BY DEF TypeOK, Calling
    <3>. QED
      BY <3>1, <3>2
  <2>6. \A p \in Properties : /\ Called(c, m, p) <=> p \in attached[c] /\ p = m.prop
                              /\ Carried(m, p) = m.now /\ (About(m, p) <=> p = m.prop)
    BY <1>4 DEF Called, Telling, Lasting, IsAnswer, Carried, About
  <2>7. \A p \in Properties :
          /\ IF Called(c, m, p)
             THEN told'[c][p].what # "nothing" /\ told'[c][p].now = Carried(m, p)
             ELSE told'[c][p] = told[c][p]
          /\ told'[c][p] = told[c][p] \/ (About(m, p) /\ told'[c][p].now = Carried(m, p))
    BY <2>5, <2>6
  <2>8. /\ calls' \in [Clients -> Seq(Call)]
        /\ inbox' = [inbox EXCEPT ![c] = RemoveAt(inbox[c], 1)]
    BY <1>1, <1>2, <2>1 DEF TypeOK
  <2>. QED
    BY <1>1, <1>2, <1>3, <1>4, <1>10, <2>1, <2>4, <2>5, <2>7, <2>8, Zenon DEF Takes, m
<1>5. CASE ~IsSignal(m)
  <2>1. Answered(c, m) /\ Finish(c, m.id)
    BY <1>2, <1>5 DEF Dispatch
  <2>2. m \in Answer /\ m.to = c
    <3>1. m.to = c
      BY <1>2, <1>5 DEF Bookkeeping, OwnAnswers, m
    <3>. QED
      BY <1>2, <1>5, <3>1 DEF Messages, IsSignal, Signal
  <2>3. told' \in [Clients -> [Properties -> Calling]] /\ calls' \in [Clients -> Seq(Call)]
    BY <2>1, <2>2, AnsweredTypes
  <2>4. /\ \A d \in Clients \ {c} : told'[d] = told[d]
        /\ \A p \in Properties :
              IF Called(c, m, p)
              THEN told'[c][p].what # "nothing" /\ told'[c][p].now = Carried(m, p)
              ELSE told'[c][p] = told[c][p]
    BY <2>1, <2>2, AnsweredCalls
  <2>5. \A p \in Properties : About(m, p)
    BY <1>5 DEF About
  <2>. QED
    <3>1. inbox' = [inbox EXCEPT ![c] = RemoveAt(inbox[c], 1)]
      BY <1>1, <1>2
    <3>2. \A p \in Properties :
            told'[c][p] = told[c][p] \/ (About(m, p) /\ told'[c][p].now = Carried(m, p))
      BY <2>4, <2>5
    <3>. QED
      BY <1>1, <1>2, <1>3, <1>5, <1>10, <2>1, <2>2, <2>3, <2>4, <3>1, <3>2, Zenon DEF Takes, m
<1>. QED
  BY <1>4, <1>5

\* A blocking call takes a message from anywhere, but never an answer for attach().
LEMMA BlockingTakes ==
    ASSUME TypeOK, Bookkeeping, NEW c \in Clients, BlockingReturns(c)
    PROVE  \E i : Takes(c, i)
<1>1. PICK i \in DOMAIN inbox[c] :
        /\ ~IsSignal(inbox[c][i]) /\ inbox[c][i].id = blocked[c]
        /\ Answered(c, inbox[c][i]) /\ Finish(c, inbox[c][i].id)
        /\ inbox' = [inbox EXCEPT ![c] = RemoveAt(inbox[c], i)]
        /\ overtaken' = [overtaken EXCEPT ![c] =
              IF calls[c][inbox[c][i].id].op = "getall" THEN i - 1 ELSE overtaken[c]]
  BY DEF BlockingReturns
<1>. DEFINE m == inbox[c][i]
<1>2. /\ blocked[c] # 0 /\ blocked' = [blocked EXCEPT ![c] = 0]
      /\ UNCHANGED <<t_, requests, outbox, attached, attaching>>
  BY DEF BlockingReturns
<1>3. m \in Messages /\ i \in Nat /\ i - 1 \in Nat
  <2>1. inbox[c][i] \in Messages /\ i \in 1..Len(inbox[c]) /\ Len(inbox[c]) \in Nat
    BY QueueTypes
  <2>. QED
    BY <2>1
<1>4. m \in Answer /\ m.to = c /\ calls[c][m.id].op # "attach"
  <2>1. m.to = c
    BY <1>1 DEF Bookkeeping, OwnAnswers
  <2>2. calls[c][m.id].op # "attach"
    BY <1>1, <1>2 DEF Bookkeeping, BlockedAsks
  <2>. QED
    BY <1>1, <1>3, <2>1, <2>2 DEF Messages, IsSignal, Signal
<1>. HIDE DEF m
<1>5. told' \in [Clients -> [Properties -> Calling]] /\ calls' \in [Clients -> Seq(Call)]
  BY <1>1, <1>4, AnsweredTypes DEF m
<1>6. /\ \A d \in Clients \ {c} : told'[d] = told[d]
      /\ \A p \in Properties :
            IF Called(c, m, p)
            THEN told'[c][p].what # "nothing" /\ told'[c][p].now = Carried(m, p)
            ELSE told'[c][p] = told[c][p]
      /\ calls[c][m.id].op = "getall" =>
            \A p \in Properties : About(m, p) /\ told'[c][p].now = Carried(m, p)
      /\ calls[c][m.id].op \notin {"attach", "getall"} => told' = told
  BY <1>1, <1>4, AnsweredCalls DEF m
<1>7. /\ overtaken' \in [Clients -> Nat] /\ overtaken[c] \in Nat
      /\ \A d \in Clients \ {c} : overtaken'[d] = overtaken[d]
      /\ overtaken'[c] = IF calls[c][m.id].op = "getall" THEN i - 1 ELSE overtaken[c]
  BY <1>1, <1>3 DEF TypeOK, m
<1>8. ASSUME NEW p \in Properties
      PROVE  \/ /\ told'[c][p] = told[c][p] /\ overtaken'[c] >= overtaken[c] - 1
                /\ i > overtaken[c] => overtaken'[c] >= overtaken[c]
             \/ /\ About(m, p) /\ told'[c][p].now = Carried(m, p) /\ overtaken'[c] >= i - 1
  <2>1. CASE calls[c][m.id].op = "getall"
    BY <1>3, <1>6, <1>7, <2>1
  <2>2. CASE calls[c][m.id].op # "getall"
    BY <1>3, <1>4, <1>6, <1>7, <2>2
  <2>. QED
    BY <2>1, <2>2
<1>9. /\ ~IsSignal(m) /\ Finish(c, m.id) /\ inbox' = [inbox EXCEPT ![c] = RemoveAt(inbox[c], i)]
  BY <1>1 DEF m
<1>10. Takes(c, i)
  BY <1>2, <1>4, <1>5, <1>6, <1>7, <1>8, <1>9, Zenon DEF Takes, m
<1>. QED
  BY <1>10

\* A message that is taken leaves well typed variables.
LEMMA TakesTypes ==
    ASSUME TypeOK, NEW c \in Clients, NEW i, Takes(c, i)
    PROVE  TypeOK'
<1>1. RemoveAt(inbox[c], i) \in Seq(Messages)
  BY QueueTypes DEF Takes
<1>2. inbox' \in [Clients -> Seq(Messages)]
  BY <1>1 DEF Takes, TypeOK, Messages
<1>3. blocked' \in [Clients -> 0..MaxCalls]
  <2>1. blocked \in [Clients -> 0..MaxCalls] /\ 0 \in 0..MaxCalls
    BY PropertyAssumption DEF TypeOK
  <2>2. blocked' = blocked \/ blocked' = [blocked EXCEPT ![c] = 0]
    BY DEF Takes
  <2>. QED
    BY <2>1, <2>2
<1>. QED
  BY <1>2, <1>3 DEF Takes, TypeOK, Messages, Calling
-----------------------------------------------------------------------------
(***************************************************************************)
(* The other steps of the bus and of the clients keep the types            *)
(***************************************************************************)
\* What the bus hands on keeps the types.
LEMMA RouteTypes ==
    ASSUME TypeOK, Route
    PROVE  TypeOK'
<1>1. outbox \in Seq(Messages) /\ outbox # <<>> /\ inbox \in [Clients -> Seq(Messages)]
  BY DEF Route, TypeOK, Messages
<1>2. Tail(outbox) \in Seq(Messages) /\ Head(outbox) \in Messages
  BY <1>1, TailRemoves
<1>3. \A c \in Clients : Append(inbox[c], Head(outbox)) \in Seq(Messages)
  BY <1>1, <1>2, Appended
<1>4. inbox' \in [Clients -> Seq(Messages)]
  BY <1>1, <1>3 DEF Route
<1>. QED
  BY <1>2, <1>4 DEF Route, TypeOK, Messages, client

\* attach() keeps the types.
LEMMA AttachTypes ==
    ASSUME TypeOK, NEW c \in Clients, NEW p \in Properties, attach_property(c, p)
    PROVE  TypeOK'
BY DEF TypeOK, attach_property

\* What detach() leaves of the calls.
Unwatched(k, p) == [i \in DOMAIN k |-> IF k[i].prop = p THEN [k[i] EXCEPT !.watched = FALSE] ELSE k[i]]

\* detach() keeps the types; of the calls it changes the history only.
LEMMA DetachTypes ==
    ASSUME TypeOK, NEW c \in Clients, NEW p \in Properties, detach_property(c, p)
    PROVE  /\ TypeOK'
           /\ calls' = [calls EXCEPT ![c] = Unwatched(calls[c], p)]
<1>1. calls' = [calls EXCEPT ![c] = Unwatched(calls[c], p)]
  BY DEF detach_property, Unwatched
<1>2. Unwatched(calls[c], p) \in Seq(Call)
  <2>1. calls[c] \in Seq(Call) /\ Len(calls[c]) \in Nat /\ DOMAIN calls[c] = 1..Len(calls[c])
    BY LenProperties DEF TypeOK
  <2>2. \A i \in 1..Len(calls[c]) : calls[c][i] \in Call
    BY <2>1, ElementOfSeq
  <2>3. \A i \in 1..Len(calls[c]) : Unwatched(calls[c], p)[i] \in Call
    BY <2>1, <2>2 DEF Call, Unwatched
  <2>4. Unwatched(calls[c], p) \in [1..Len(calls[c]) -> Call]
    BY <2>1, <2>3 DEF Unwatched
  <2>. QED
    BY <2>1, <2>4, SeqDef
<1>3. calls' \in [Clients -> Seq(Call)]
  BY <1>1, <1>2 DEF TypeOK
<1>4. attached' \in [Clients -> SUBSET Properties]
  BY DEF TypeOK, detach_property
<1>. QED
  BY <1>1, <1>3, <1>4 DEF TypeOK, detach_property
-----------------------------------------------------------------------------
(***************************************************************************)
(* What is under way to a client                                           *)
(***************************************************************************)
LEMMA PipeTyped ==
    ASSUME TypeOK, NEW c \in Clients
    PROVE  /\ Pipe(c) \in Seq(Messages) /\ inbox[c] \in Seq(Messages) /\ outbox \in Seq(Messages)
           /\ Len(Pipe(c)) \in Nat /\ DOMAIN Pipe(c) = 1..Len(Pipe(c))
           /\ \A i \in DOMAIN Pipe(c) : Pipe(c)[i] \in Messages
<1>1. inbox[c] \in Seq(Messages) /\ outbox \in Seq(Messages)
  BY DEF TypeOK, Messages
<1>2. Pipe(c) \in Seq(Messages)
  BY <1>1, ConcatProperties DEF Pipe
<1>. QED
  BY <1>1, <1>2, LenProperties, ElementOfSeq

\* What a client takes is removed from it.
LEMMA TakesPipes ==
    ASSUME TypeOK, NEW c \in Clients, NEW i, Takes(c, i)
    PROVE  /\ i \in DOMAIN Pipe(c) /\ Pipe(c)[i] = inbox[c][i]
           /\ Pipe(c)' = RemoveAt(Pipe(c), i)
           /\ \A d \in Clients \ {c} : Pipe(d)' = Pipe(d) /\ inbox'[d] = inbox[d]
<1>1. /\ inbox' = [inbox EXCEPT ![c] = RemoveAt(inbox[c], i)] /\ outbox' = outbox
      /\ i \in DOMAIN inbox[c]
  BY DEF Takes
<1>2. /\ inbox'[c] = RemoveAt(inbox[c], i)
      /\ \A d \in Clients \ {c} : inbox'[d] = inbox[d]
  BY <1>1 DEF TypeOK
<1>3. /\ i \in DOMAIN Pipe(c) /\ Pipe(c)[i] = inbox[c][i]
      /\ RemoveAt(inbox[c], i) \o outbox = RemoveAt(Pipe(c), i)
  BY <1>1, PipeTyped, PipeTaken DEF Pipe
<1>. QED
  BY <1>1, <1>2, <1>3 DEF Pipe

\* The bus moves a message on, or drops one that is not for the client.
LEMMA RoutePipes ==
    ASSUME TypeOK, Route, NEW c \in Clients
    PROVE  LET n == Len(inbox[c]) + 1
               m == Head(outbox)
           IN /\ outbox' = Tail(outbox)
              /\ n \in DOMAIN Pipe(c) /\ Pipe(c)[n] = m
              /\ \/ Pipe(c)' = Pipe(c) /\ inbox'[c] = Append(inbox[c], m) /\ (~IsSignal(m) => m.to = c)
                 \/ /\ Pipe(c)' = RemoveAt(Pipe(c), n) /\ inbox'[c] = inbox[c]
                    /\ IF IsSignal(m) THEN attached[c] = {} ELSE m.to # c
<1>1. /\ outbox # <<>> /\ outbox' = Tail(outbox)
      /\ inbox'[c] = IF (IF IsSignal(Head(outbox)) THEN attached[c] # {} ELSE Head(outbox).to = c)
                     THEN Append(inbox[c], Head(outbox)) ELSE inbox[c]
  BY DEF Route
<1>2. inbox[c] \in Seq(Messages) /\ outbox \in Seq(Messages)
  BY PipeTyped
<1>. QED
  BY <1>1, <1>2, PipeRouted DEF Pipe
-----------------------------------------------------------------------------
(***************************************************************************)
(* Bookkeeping of requests and answers                                     *)
(***************************************************************************)
\* A message goes, and with an answer the call it is for is done.
LEMMA AnswersShrink ==
    ASSUME NEW s \in Seq(Messages), NEW k, NEW l, NEW q, NEW c, NEW g \in DOMAIN s,
           AnswersIn(s, k, q, c), DOMAIN l = DOMAIN k,
           \A id \in DOMAIN k : l[id].done =>
              k[id].done \/ (IsAnswer(s[g], c) /\ s[g].id = id)
    PROVE  AnswersIn(RemoveAt(s, g), l, q, c)
<1>. DEFINE r == RemoveAt(s, g)
<1>1. /\ Len(s) \in Nat /\ DOMAIN s = 1..Len(s) /\ DOMAIN r = 1..(Len(s) - 1)
      /\ \A a \in 1..(Len(s) - 1) : r[a] = IF a < g THEN s[a] ELSE s[a + 1]
  BY Removed
<1>. HIDE DEF r
<1>2. \A a \in DOMAIN r : \E b \in DOMAIN s :
         b = (IF a < g THEN a ELSE a + 1) /\ r[a] = s[b] /\ b # g
  BY <1>1
<1>3. \A b \in DOMAIN s : IsAnswer(s[b], c) => s[b].id \in Nat
  <2>1. \A b \in DOMAIN s : s[b] \in Messages
    BY <1>1, ElementOfSeq
  <2>. QED
    BY <2>1 DEF IsAnswer, IsSignal, Messages, Signal, Answer
<1>4. ASSUME NEW a \in DOMAIN r, IsAnswer(r[a], c)
      PROVE  /\ r[a].id \in DOMAIN l /\ ~l[r[a].id].done
             /\ \A j \in DOMAIN r : j < a /\ IsAnswer(r[j], c) => r[j].id < r[a].id
             /\ \A x \in DOMAIN q : q[x].from = c => r[a].id < q[x].id
  <2>1. PICK b \in DOMAIN s : b = (IF a < g THEN a ELSE a + 1) /\ r[a] = s[b] /\ b # g
    BY <1>2
  <2>2. /\ s[b].id \in DOMAIN k /\ ~k[s[b].id].done
        /\ \A j \in DOMAIN s : j < b /\ IsAnswer(s[j], c) => s[j].id < s[b].id
        /\ \A x \in DOMAIN q : q[x].from = c => s[b].id < q[x].id
    BY <1>4, <2>1 DEF AnswersIn
  <2>3. ASSUME IsAnswer(s[g], c)
        PROVE  s[g].id # s[b].id
    <3>1. CASE g < b
      BY <1>3, <1>4, <2>1, <2>2, <2>3, <3>1
    <3>2. CASE b < g
      <4>1. s[b].id < s[g].id
        BY <1>4, <2>1, <2>3, <3>2 DEF AnswersIn
      <4>. QED
        BY <1>3, <1>4, <2>1, <2>3, <4>1
    <3>. QED
      BY <1>1, <2>1, <3>1, <3>2
  <2>4. ASSUME NEW j \in DOMAIN r, j < a, IsAnswer(r[j], c)
        PROVE  r[j].id < r[a].id
    <3>1. PICK e \in DOMAIN s : e = (IF j < g THEN j ELSE j + 1) /\ r[j] = s[e] /\ e # g
      BY <1>2
    <3>2. e < b
      BY <1>1, <2>1, <2>4, <3>1
    <3>. QED
      BY <2>1, <2>2, <2>4, <3>1, <3>2
  <2>. QED
    BY <2>1, <2>2, <2>3, <2>4
<1>. QED
  BY <1>4 DEF AnswersIn, r

\* Signals are no answers, the others stay where they are.
LEMMA AnswersChange ==
    ASSUME NEW s, NEW r, NEW k, NEW q, NEW c, AnswersIn(s, k, q, c),
           \A i \in DOMAIN s : i \in DOMAIN r /\ r[i] = s[i],
           \A i \in DOMAIN r : ~IsSignal(r[i]) => i \in DOMAIN s
    PROVE  AnswersIn(r, k, q, c)
BY DEF AnswersIn, IsAnswer

\* The oldest request is answered.
LEMMA AnswersGrow ==
    ASSUME NEW s \in Seq(Messages), NEW k, NEW q \in Seq(Request), NEW c, NEW m \in Answer,
           AnswersIn(s, k, q, c), RequestsIn(q, k, c), q # <<>>,
           m.to = Head(q).from, m.id = Head(q).id
    PROVE  AnswersIn(Append(s, m), k, Tail(q), c) /\ RequestsIn(Tail(q), k, c)
<1>. DEFINE r == Append(s, m)
            z == Tail(q)
<1>1. /\ Len(s) \in Nat /\ DOMAIN s = 1..Len(s) /\ DOMAIN r = 1..(Len(s) + 1)
      /\ r[Len(s) + 1] = m /\ \A i \in 1..Len(s) : r[i] = s[i]
  BY Appended DEF Messages
<1>2. /\ Head(q) = q[1] /\ 1 \in DOMAIN q /\ Len(q) \in Nat /\ DOMAIN q = 1..Len(q)
      /\ DOMAIN z = 1..(Len(q) - 1) /\ \A x \in 1..(Len(q) - 1) : z[x] = q[x + 1]
  <2>1. Tail(q) = RemoveAt(q, 1) /\ Head(q) = q[1] /\ 1 \in DOMAIN q
    BY TailRemoves
  <2>2. /\ DOMAIN q = 1..Len(q) /\ Len(q) \in Nat /\ DOMAIN RemoveAt(q, 1) = 1..(Len(q) - 1)
        /\ \A x \in 1..(Len(q) - 1) : RemoveAt(q, 1)[x] = IF x < 1 THEN q[x] ELSE q[x + 1]
    BY <2>1, Removed
  <2>. QED
    BY <2>1, <2>2
<1>. HIDE DEF r, z
<1>3. \A x \in DOMAIN z : x + 1 \in DOMAIN q /\ z[x] = q[x + 1] /\ 1 < x + 1
  BY <1>2
<1>4. RequestsIn(z, k, c)
  <2>1. \A x, y \in DOMAIN z : y < x => y + 1 < x + 1
    BY <1>2
  <2>. QED
    BY <1>3, <2>1 DEF RequestsIn
<1>5. \A x \in DOMAIN z : m.to = c /\ z[x].from = c => m.id < z[x].id
  BY <1>2, <1>3 DEF RequestsIn
<1>6. IsAnswer(m, c) <=> m.to = c
  BY DEF IsAnswer, IsSignal, Answer
<1>7. ASSUME NEW i \in DOMAIN r, IsAnswer(r[i], c)
      PROVE  /\ r[i].id \in DOMAIN k /\ ~k[r[i].id].done
             /\ \A j \in DOMAIN r : j < i /\ IsAnswer(r[j], c) => r[j].id < r[i].id
             /\ \A x \in DOMAIN z : z[x].from = c => r[i].id < z[x].id
  <2>1. CASE i \in 1..Len(s)
    <3>1. \A j \in DOMAIN r : j < i => j \in DOMAIN s /\ r[j] = s[j]
      BY <1>1, <2>1
    <3>2. i \in DOMAIN s /\ r[i] = s[i]
      BY <1>1, <2>1
    <3>. QED
      BY <1>3, <1>7, <3>1, <3>2 DEF AnswersIn
  <2>2. CASE i = Len(s) + 1
    <3>1. \A j \in DOMAIN r : j < i => j \in DOMAIN s /\ r[j] = s[j]
      BY <1>1, <2>2
    <3>2. r[i] = m /\ m.to = c
      BY <1>1, <1>6, <1>7, <2>2
    <3>3. m.id \in DOMAIN k /\ ~k[m.id].done
      BY <1>2, <3>2 DEF RequestsIn
    <3>4. \A j \in DOMAIN s : IsAnswer(s[j], c) => s[j].id < m.id
      BY <1>2, <3>2 DEF AnswersIn
    <3>. QED
      BY <1>5, <3>1, <3>2, <3>3, <3>4
  <2>. QED
    BY <1>1, <2>1, <2>2
<1>. QED
  BY <1>4, <1>7 DEF AnswersIn, r, z

\* A call that is answered is done, nothing else changes of the calls.
LEMMA TakesCalls ==
    ASSUME TypeOK, NEW c \in Clients, NEW i, Takes(c, i)
    PROVE  /\ \A d \in Clients \ {c} : calls'[d] = calls[d]
           /\ DOMAIN calls'[c] = DOMAIN calls[c]
           /\ \A id \in DOMAIN calls[c] :
                 /\ calls'[c][id].op = calls[c][id].op /\ calls'[c][id].prop = calls[c][id].prop
                 /\ calls'[c][id].watched = calls[c][id].watched
                 /\ calls'[c][id].done =>
                       calls[c][id].done \/ (IsAnswer(inbox[c][i], c) /\ inbox[c][i].id = id)
<1>1. calls \in [Clients -> Seq(Call)] /\ calls[c] \in Seq(Call)
  BY DEF TypeOK
<1>2. \A id \in DOMAIN calls[c] : calls[c][id] \in Call
  BY <1>1, ElementOfSeq, LenProperties
<1>3. CASE IsSignal(inbox[c][i])
  BY <1>3 DEF Takes
<1>4. CASE ~IsSignal(inbox[c][i])
  <2>. DEFINE x == inbox[c][i].id
  <2>1. calls' = [calls EXCEPT ![c] = [calls[c] EXCEPT ![x].done = TRUE]] /\ IsAnswer(inbox[c][i], c)
    BY <1>4 DEF Takes, Finish, IsAnswer
  <2>2. /\ calls'[c] = [calls[c] EXCEPT ![x] = [calls[c][x] EXCEPT !.done = TRUE]]
        /\ \A d \in Clients \ {c} : calls'[d] = calls[d]
    BY <1>1, <2>1
  <2>3. DOMAIN calls'[c] = DOMAIN calls[c]
    BY <2>2
  <2>4. ASSUME NEW id \in DOMAIN calls[c]
        PROVE  /\ calls'[c][id].op = calls[c][id].op /\ calls'[c][id].prop = calls[c][id].prop
               /\ calls'[c][id].watched = calls[c][id].watched
               /\ id # x => calls'[c][id] = calls[c][id]
    <3>1. CASE id = x
      <4>1. calls'[c][id] = [calls[c][id] EXCEPT !.done = TRUE]
        BY <2>2, <3>1
      <4>. QED
        BY <1>2, <3>1, <4>1 DEF Call
    <3>2. CASE id # x
      BY <2>2, <3>2
    <3>. QED
      BY <3>1, <3>2
  <2>. QED
    BY <2>1, <2>2, <2>3, <2>4
<1>. QED
  BY <1>3, <1>4

\* Whoever takes an answer is the one that waits for it, and waits no more.
LEMMA TakesBooks ==
    ASSUME TypeOK, Bookkeeping, NEW c \in Clients, NEW i, Takes(c, i)
    PROVE  Bookkeeping'
<1>1. /\ \A d \in Clients \ {c} : calls'[d] = calls[d] /\ Pipe(d)' = Pipe(d) /\ inbox'[d] = inbox[d]
      /\ requests' = requests /\ attached' = attached
  <2>1. \A d \in Clients \ {c} : calls'[d] = calls[d]
    BY TakesCalls
  <2>2. \A d \in Clients \ {c} : Pipe(d)' = Pipe(d) /\ inbox'[d] = inbox[d]
    BY TakesPipes
  <2>3. requests' = requests /\ attached' = attached
    BY DEF Takes
  <2>. QED
    BY <2>1, <2>2, <2>3
<1>2. \A d \in Clients : blocked'[d] = blocked[d] \/ blocked'[d] = 0
  BY DEF Takes, TypeOK
<1>3. ASSUME NEW d \in Clients, d # c
      PROVE  RequestsKnown(d)' /\ AnswersKnown(d)' /\ OwnAnswers(d)' /\ BlockedAsks(d)' /\ WatchedAttached(d)'
  <2>1. calls'[d] = calls[d] /\ Pipe(d)' = Pipe(d) /\ inbox'[d] = inbox[d]
    BY <1>1, <1>3
  <2>2. RequestsKnown(d) /\ AnswersKnown(d) /\ OwnAnswers(d) /\ BlockedAsks(d) /\ WatchedAttached(d)
    BY DEF Bookkeeping
  <2>. QED
    BY <1>1, <1>2, <2>1, <2>2 DEF RequestsKnown, AnswersKnown, OwnAnswers, BlockedAsks, WatchedAttached
<1>4. RequestsKnown(c) /\ AnswersKnown(c) /\ OwnAnswers(c) /\ BlockedAsks(c) /\ WatchedAttached(c)
  BY DEF Bookkeeping
<1>5. /\ DOMAIN calls'[c] = DOMAIN calls[c]
      /\ \A id \in DOMAIN calls[c] :
            /\ calls'[c][id].op = calls[c][id].op /\ calls'[c][id].prop = calls[c][id].prop
            /\ calls'[c][id].watched = calls[c][id].watched
            /\ calls'[c][id].done =>
                  calls[c][id].done \/ (IsAnswer(inbox[c][i], c) /\ inbox[c][i].id = id)
  BY TakesCalls
<1>6. /\ i \in DOMAIN Pipe(c) /\ Pipe(c)[i] = inbox[c][i] /\ Pipe(c)' = RemoveAt(Pipe(c), i)
      /\ Pipe(c) \in Seq(Messages)
  BY TakesPipes, PipeTyped
<1>7. AnswersKnown(c)'
  <2>1. AnswersIn(RemoveAt(Pipe(c), i), calls'[c], requests, c)
    BY <1>4, <1>5, <1>6, AnswersShrink DEF AnswersKnown
  <2>. QED
    BY <1>1, <1>6, <2>1 DEF AnswersKnown
<1>8. RequestsKnown(c)'
  <2>1. \A x \in DOMAIN requests : requests[x].from = c =>
           requests[x].id \in Nat /\ (IsAnswer(inbox[c][i], c) => inbox[c][i].id # requests[x].id)
    <3>1. SUFFICES ASSUME NEW x \in DOMAIN requests, requests[x].from = c
                   PROVE  /\ requests[x].id \in Nat
                          /\ IsAnswer(inbox[c][i], c) => inbox[c][i].id # requests[x].id
      OBVIOUS
    <3>2. requests[x] \in Request
      BY ElementOfSeq, LenProperties DEF TypeOK
    <3>3. IsAnswer(inbox[c][i], c) => inbox[c][i].id < requests[x].id
      BY <1>4, <1>6, <3>1 DEF AnswersKnown, AnswersIn
    <3>. QED
      BY <3>2, <3>3 DEF Request
  <2>2. RequestsIn(requests, calls'[c], c)
    <3>1. SUFFICES ASSUME NEW x \in DOMAIN requests, requests[x].from = c
                   PROVE  /\ requests[x].id \in DOMAIN calls'[c] /\ ~calls'[c][requests[x].id].done
                          /\ calls'[c][requests[x].id].op = requests[x].op
                          /\ calls'[c][requests[x].id].prop = requests[x].prop
                          /\ requests[x].op # "getall" => requests[x].prop \in Properties
                          /\ \A y \in DOMAIN requests : y < x /\ requests[y].from = c
                                => requests[y].id < requests[x].id
      BY DEF RequestsIn
    <3>2. /\ requests[x].id \in DOMAIN calls[c] /\ ~calls[c][requests[x].id].done
          /\ calls[c][requests[x].id].op = requests[x].op
          /\ calls[c][requests[x].id].prop = requests[x].prop
          /\ requests[x].op # "getall" => requests[x].prop \in Properties
          /\ \A y \in DOMAIN requests : y < x /\ requests[y].from = c
                => requests[y].id < requests[x].id
      BY <1>4, <3>1 DEF RequestsKnown, RequestsIn
    <3>. QED
      BY <1>5, <2>1, <3>1, <3>2
  <2>. QED
    BY <1>1, <2>2 DEF RequestsKnown
<1>9. OwnAnswers(c)'
  <2>1. /\ inbox'[c] = RemoveAt(inbox[c], i) /\ inbox[c] \in Seq(Messages) /\ i \in DOMAIN inbox[c]
    BY DEF Takes, TypeOK, Messages
  <2>2. /\ Len(inbox[c]) \in Nat /\ DOMAIN inbox[c] = 1..Len(inbox[c])
        /\ DOMAIN RemoveAt(inbox[c], i) = 1..(Len(inbox[c]) - 1)
        /\ \A a \in 1..(Len(inbox[c]) - 1) :
              RemoveAt(inbox[c], i)[a] = IF a < i THEN inbox[c][a] ELSE inbox[c][a + 1]
    BY <2>1, Removed
  <2>3. \A a \in DOMAIN inbox'[c] : \E b \in DOMAIN inbox[c] : inbox'[c][a] = inbox[c][b]
    <3>1. SUFFICES ASSUME NEW a \in 1..(Len(inbox[c]) - 1)
                   PROVE  \E b \in DOMAIN inbox[c] : inbox'[c][a] = inbox[c][b]
      BY <2>1, <2>2
    <3>2. a \in DOMAIN inbox[c] /\ a + 1 \in DOMAIN inbox[c]
      BY <2>2
    <3>3. inbox'[c][a] = inbox[c][a] \/ inbox'[c][a] = inbox[c][a + 1]
      BY <2>1, <2>2
    <3>. QED
      BY <3>2, <3>3
  <2>. QED
    BY <1>4, <2>3 DEF OwnAnswers
<1>10. BlockedAsks(c)'
  BY <1>2, <1>4, <1>5 DEF BlockedAsks
<1>11. WatchedAttached(c)'
  BY <1>1, <1>4, <1>5 DEF WatchedAttached
<1>. QED
  BY <1>3, <1>7, <1>8, <1>9, <1>10, <1>11 DEF Bookkeeping

\* The answer is put behind the others of the same client, in the place of the
\* request.
LEMMA ServerBooks ==
    ASSUME TypeOK, Bookkeeping, Speaks \/ \E q, m : Replies(q, m)
    PROVE  Bookkeeping'
<1>1. UNCHANGED <<inbox, attached, calls, blocked>>
  BY DEF Speaks, Replies, client
<1>2. SUFFICES ASSUME NEW c \in Clients
               PROVE  RequestsKnown(c)' /\ AnswersKnown(c)'
  BY <1>1 DEF Bookkeeping, OwnAnswers, BlockedAsks, WatchedAttached
<1>3. RequestsKnown(c) /\ AnswersKnown(c)
  BY DEF Bookkeeping
<1>4. inbox[c] \in Seq(Messages) /\ outbox \in Seq(Messages) /\ t_ \in Contents
  BY PipeTyped DEF TypeOK, Contents
<1>5. ASSUME NEW q, t_' \in Contents, Changes(t_, t_', outbox, q)
      PROVE  AnswersIn(inbox[c] \o q, calls[c], requests, c)
  <2>1. PICK u \in Contents : u = t_'
    BY <1>5
  <2>2. /\ \A i \in DOMAIN Pipe(c) : i \in DOMAIN (inbox[c] \o q) /\ (inbox[c] \o q)[i] = Pipe(c)[i]
        /\ \A i \in DOMAIN (inbox[c] \o q) : ~IsSignal((inbox[c] \o q)[i]) => i \in DOMAIN Pipe(c)
    BY <1>4, <1>5, <2>1, ChangesPipe DEF Pipe
  <2>. QED
    BY <1>3, <2>2, AnswersChange DEF AnswersKnown
<1>6. CASE Speaks
  <2>1. AnswersIn(inbox[c] \o outbox', calls[c], requests, c)
    BY <1>5, <1>6 DEF Speaks
  <2>. QED
    BY <1>1, <1>3, <1>6, <2>1 DEF RequestsKnown, AnswersKnown, Pipe, Speaks
<1>7. ASSUME NEW q, NEW m, Replies(q, m)
      PROVE  RequestsKnown(c)' /\ AnswersKnown(c)'
  <2>1. /\ q \in Seq(Messages) /\ m \in Answer /\ requests # <<>> /\ requests' = Tail(requests)
        /\ m.to = Head(requests).from /\ m.id = Head(requests).id /\ outbox' = Append(q, m)
    BY <1>7 DEF Replies
  <2>2. AnswersIn(inbox[c] \o q, calls[c], requests, c)
    BY <1>5, <1>7 DEF Replies
  <2>3. inbox[c] \o q \in Seq(Messages) /\ inbox[c] \o Append(q, m) = Append(inbox[c] \o q, m)
    <3>1. m \in Messages
      BY <2>1 DEF Messages
    <3>2. q \in Seq(Messages) /\ inbox[c] \in Seq(Messages)
      BY <1>4, <2>1
    <3>3. inbox[c] \o q \in Seq(Messages)
      BY <3>2, ConcatProperties
    <3>4. inbox[c] \o Append(q, m) = Append(inbox[c] \o q, m)
      <4>1. PICK a \in Seq(Messages) : a = inbox[c]
        BY <3>2
      <4>2. a \o Append(q, m) = Append(a \o q, m)
        BY <3>1, <3>2, PipeGrows
      <4>. QED
        BY <4>1, <4>2
    <3>. QED
      BY <3>3, <3>4
  <2>4. requests \in Seq(Request)
    BY DEF TypeOK
  <2>5. /\ AnswersIn(Append(inbox[c] \o q, m), calls[c], Tail(requests), c)
        /\ RequestsIn(Tail(requests), calls[c], c)
    BY <1>3, <2>1, <2>2, <2>3, <2>4, AnswersGrow DEF RequestsKnown
  <2>. QED
    BY <1>1, <2>1, <2>3, <2>5 DEF RequestsKnown, AnswersKnown, Pipe
<1>. QED
  BY <1>6, <1>7

\* What the bus hands on, or drops, keeps the order of the answers.
LEMMA RouteBooks ==
    ASSUME TypeOK, Bookkeeping, Route
    PROVE  Bookkeeping'
<1>1. UNCHANGED <<requests, attached, calls, blocked>>
  BY DEF Route, client
<1>2. SUFFICES ASSUME NEW c \in Clients
               PROVE  AnswersKnown(c)' /\ OwnAnswers(c)'
  BY <1>1 DEF Bookkeeping, RequestsKnown, BlockedAsks, WatchedAttached
<1>3. AnswersKnown(c) /\ OwnAnswers(c)
  BY DEF Bookkeeping
<1>4. /\ Pipe(c) \in Seq(Messages) /\ inbox[c] \in Seq(Messages) /\ outbox \in Seq(Messages)
      /\ outbox # <<>>
  BY PipeTyped DEF Route
<1>. DEFINE n == Len(inbox[c]) + 1
            m == Head(outbox)
<1>5. /\ n \in DOMAIN Pipe(c)
      /\ \/ Pipe(c)' = Pipe(c) /\ inbox'[c] = Append(inbox[c], m) /\ (~IsSignal(m) => m.to = c)
         \/ Pipe(c)' = RemoveAt(Pipe(c), n) /\ inbox'[c] = inbox[c]
  BY RoutePipes
<1>6. m \in Messages
  BY <1>4, TailRemoves
<1>. HIDE DEF n, m
<1>7. CASE Pipe(c)' = Pipe(c) /\ inbox'[c] = Append(inbox[c], m) /\ (~IsSignal(m) => m.to = c)
  <2>1. AnswersKnown(c)'
    BY <1>1, <1>3, <1>7 DEF AnswersKnown
  <2>2. /\ Len(inbox[c]) \in Nat /\ DOMAIN inbox[c] = 1..Len(inbox[c])
        /\ DOMAIN inbox'[c] = 1..(Len(inbox[c]) + 1)
        /\ \A i \in 1..Len(inbox[c]) : inbox'[c][i] = inbox[c][i]
        /\ inbox'[c][Len(inbox[c]) + 1] = m
    BY <1>4, <1>6, <1>7, Appended
  <2>3. \A i \in DOMAIN inbox'[c] : \/ inbox'[c][i] = m
                                    \/ i \in DOMAIN inbox[c] /\ inbox'[c][i] = inbox[c][i]
    BY <2>2
  <2>. QED
    BY <1>3, <1>7, <2>1, <2>3 DEF OwnAnswers
<1>8. CASE Pipe(c)' = RemoveAt(Pipe(c), n) /\ inbox'[c] = inbox[c]
  <2>1. AnswersIn(RemoveAt(Pipe(c), n), calls[c], requests, c)
    BY <1>3, <1>4, <1>5, AnswersShrink DEF AnswersKnown
  <2>. QED
    BY <1>1, <1>3, <1>8, <2>1 DEF AnswersKnown, OwnAnswers
<1>. QED
  BY <1>5, <1>7, <1>8

\* A request is sent: by attach(), which is between its two steps, or by a client
\* that does nothing else.
Sends(c, op, p, v, waits) ==
    /\ Send(c, op, p, v, waits)
    /\ op \in Ops /\ p \in Properties \cup {NoProperty} /\ v \in Values /\ waits \in BOOLEAN
    /\ op # "getall" => p \in Properties
    /\ attaching' \in [Clients -> Properties \cup {NoProperty}]
    /\ \A d \in Clients \ {c} : attaching'[d] = attaching[d]
    /\ IF op = "attach" THEN ~waits /\ attaching[c] = p
       ELSE attaching[c] = NoProperty /\ attaching' = attaching

\* The requests of a client, the one of attach() and the others.
LEMMA SendSteps ==
    ASSUME TypeOK, NEW c \in Clients,
           (\E p \in Properties : get_attached(c, p)) \/ (\E waits \in BOOLEAN : Ask(c, waits))
    PROVE  \E op, p, v, waits : Sends(c, op, p, v, waits)
<1>1. Default \in Values /\ {"attach", "get", "set", "getall"} = Ops
  BY PropertyAssumption DEF Ops
<1>2. ASSUME NEW p \in Properties, get_attached(c, p)
      PROVE  Sends(c, "attach", p, Default, FALSE)
  <2>1. /\ Send(c, "attach", p, Default, FALSE) /\ attaching[c] = p
        /\ attaching' = [attaching EXCEPT ![c] = NoProperty]
    BY <1>2 DEF get_attached
  <2>. QED
    BY <1>1, <2>1 DEF Sends, TypeOK
<1>3. ASSUME NEW waits \in BOOLEAN, Ask(c, waits)
      PROVE  \E op, p, v : Sends(c, op, p, v, waits)
  <2>1. attaching' = attaching /\ attaching[c] = NoProperty
    BY <1>3 DEF Ask, Idle
  <2>5. attaching' \in [Clients -> Properties \cup {NoProperty}]
    BY <2>1 DEF TypeOK
  <2>6. ASSUME NEW op \in {"get", "set", "getall"}, NEW p \in Properties \cup {NoProperty},
               NEW v \in Values, op # "getall" => p \in Properties, Send(c, op, p, v, waits)
        PROVE  Sends(c, op, p, v, waits)
    BY <2>1, <2>5, <2>6 DEF Sends, Ops
  <2>2. CASE \E p \in Properties : Send(c, "get", p, Default, waits)
    <3>1. PICK p \in Properties : Send(c, "get", p, Default, waits)
      BY <2>2
    <3>2. Sends(c, "get", p, Default, waits)
      BY <1>1, <2>6, <3>1
    <3>. QED
      BY <3>2
  <2>3. CASE \E p \in ReadWrite, v \in Values : Send(c, "set", p, v, waits)
    <3>1. PICK p \in ReadWrite, v \in Values : Send(c, "set", p, v, waits)
      BY <2>3
    <3>2. p \in Properties
      BY PropertyAssumption
    <3>3. Sends(c, "set", p, v, waits)
      BY <2>6, <3>1, <3>2
    <3>. QED
      BY <3>3
  <2>4. CASE Send(c, "getall", NoProperty, Default, waits)
    <3>1. Sends(c, "getall", NoProperty, Default, waits)
      BY <1>1, <2>4, <2>6
    <3>. QED
      BY <3>1
  <2>. QED
    BY <1>3, <2>2, <2>3, <2>4 DEF Ask
<1>. QED
  BY <1>2, <1>3

\* The new call has the next serial and is the last request.
LEMMA SendShape ==
    ASSUME TypeOK, NEW c \in Clients, NEW op, NEW p, NEW v, NEW waits, Sends(c, op, p, v, waits)
    PROVE  LET n == Len(calls[c]) + 1
               z == Len(requests) + 1
           IN /\ n \in Nat /\ DOMAIN calls[c] = 1..Len(calls[c]) /\ Len(calls[c]) \in Nat
              /\ DOMAIN calls'[c] = 1..n
              /\ \A id \in DOMAIN calls[c] : calls'[c][id] = calls[c][id] /\ id < n
              /\ calls'[c][n] = [op |-> op, prop |-> p, done |-> FALSE, watched |-> p \in attached[c]]
              /\ \A d \in Clients \ {c} : calls'[d] = calls[d] /\ blocked'[d] = blocked[d]
              /\ blocked'[c] = IF waits THEN n ELSE 0
              /\ z \in Nat /\ DOMAIN requests = 1..Len(requests) /\ DOMAIN requests' = 1..z
              /\ \A x \in DOMAIN requests : requests'[x] = requests[x] /\ x < z
              /\ \A x \in DOMAIN requests' : x \in DOMAIN requests \/ x = z
              /\ requests'[z] = [from |-> c, id |-> n, op |-> op, prop |-> p, val |-> v]
              /\ UNCHANGED <<t_, outbox, inbox, attached, told, overtaken>>
<1>. DEFINE call == [op |-> op, prop |-> p, done |-> FALSE, watched |-> p \in attached[c]]
            request == [from |-> c, id |-> Len(calls[c]) + 1, op |-> op, prop |-> p, val |-> v]
<1>1. /\ op \in Ops /\ p \in Properties \cup {NoProperty} /\ v \in Values
      /\ calls[c] \in Seq(Call) /\ Len(calls[c]) \in Nat
  BY LenProperties DEF Sends, TypeOK
<1>2. call \in Call /\ request \in Request
  BY <1>1 DEF Call, Request
<1>3. /\ calls' = [calls EXCEPT ![c] = Append(calls[c], call)]
      /\ requests' = Append(requests, request)
      /\ blocked' = [blocked EXCEPT ![c] = IF waits THEN Len(calls[c]) + 1 ELSE 0]
      /\ UNCHANGED <<t_, outbox, inbox, attached, told, overtaken>>
  BY DEF Sends, Send
<1>. HIDE DEF call, request
<1>4. /\ DOMAIN calls[c] = 1..Len(calls[c])
      /\ DOMAIN Append(calls[c], call) = 1..(Len(calls[c]) + 1)
      /\ \A i \in 1..Len(calls[c]) : Append(calls[c], call)[i] = calls[c][i]
      /\ Append(calls[c], call)[Len(calls[c]) + 1] = call
  BY <1>1, <1>2, Appended
<1>5. /\ DOMAIN requests = 1..Len(requests) /\ Len(requests) \in Nat
      /\ DOMAIN Append(requests, request) = 1..(Len(requests) + 1)
      /\ \A i \in 1..Len(requests) : Append(requests, request)[i] = requests[i]
      /\ Append(requests, request)[Len(requests) + 1] = request
  BY <1>2, Appended DEF TypeOK
<1>6. /\ calls'[c] = Append(calls[c], call)
      /\ blocked'[c] = IF waits THEN Len(calls[c]) + 1 ELSE 0
      /\ \A d \in Clients \ {c} : calls'[d] = calls[d] /\ blocked'[d] = blocked[d]
  BY <1>3 DEF TypeOK
<1>7. /\ \A id \in 1..Len(calls[c]) : id < Len(calls[c]) + 1
      /\ \A x \in 1..Len(requests) : x < Len(requests) + 1
      /\ \A x \in 1..(Len(requests) + 1) : x \in 1..Len(requests) \/ x = Len(requests) + 1
      /\ Len(calls[c]) + 1 \in Nat /\ Len(requests) + 1 \in Nat
  BY <1>1, <1>5
<1>. QED
  BY <1>1, <1>3, <1>4, <1>5, <1>6, <1>7 DEF call, request

\* A request is for a call that has just been counted, and the last of its client.
LEMMA SendBooks ==
    ASSUME TypeOK, Bookkeeping, NEW c \in Clients, NEW op, NEW p, NEW v, NEW waits,
           Sends(c, op, p, v, waits)
    PROVE  Bookkeeping'
<1>. DEFINE n == Len(calls[c]) + 1
            z == Len(requests) + 1
<1>1. /\ n \in Nat /\ DOMAIN calls'[c] = 1..n
      /\ \A id \in DOMAIN calls[c] : calls'[c][id] = calls[c][id] /\ id < n
      /\ DOMAIN calls[c] = 1..Len(calls[c]) /\ Len(calls[c]) \in Nat
      /\ calls'[c][n] = [op |-> op, prop |-> p, done |-> FALSE, watched |-> p \in attached[c]]
      /\ \A d \in Clients \ {c} : calls'[d] = calls[d] /\ blocked'[d] = blocked[d]
      /\ blocked'[c] = IF waits THEN n ELSE 0
      /\ z \in Nat /\ DOMAIN requests' = 1..z
      /\ \A x \in DOMAIN requests : requests'[x] = requests[x] /\ x < z
      /\ \A x \in DOMAIN requests' : x \in DOMAIN requests \/ x = z
      /\ requests'[z] = [from |-> c, id |-> n, op |-> op, prop |-> p, val |-> v]
      /\ UNCHANGED <<t_, outbox, inbox, attached, told, overtaken>>
  BY SendShape
<1>2. \A id \in DOMAIN calls'[c] : id \in DOMAIN calls[c] \/ id = n
  BY <1>1
<1>3. n \in DOMAIN calls'[c] /\ \A id \in DOMAIN calls[c] : id \in DOMAIN calls'[c]
  BY <1>1
<1>4. \A d \in Clients : Pipe(d)' = Pipe(d)
  BY <1>1 DEF Pipe
<1>. HIDE DEF n, z
<1>5. ASSUME NEW d \in Clients
      PROVE  RequestsKnown(d)'
  <2>1. RequestsKnown(d)
    BY DEF Bookkeeping
  <2>2. SUFFICES ASSUME NEW x \in DOMAIN requests', requests'[x].from = d
                 PROVE  /\ requests'[x].id \in DOMAIN calls'[d] /\ ~calls'[d][requests'[x].id].done
                        /\ calls'[d][requests'[x].id].op = requests'[x].op
                        /\ calls'[d][requests'[x].id].prop = requests'[x].prop
                        /\ requests'[x].op # "getall" => requests'[x].prop \in Properties
                        /\ \A y \in DOMAIN requests' : y < x /\ requests'[y].from = d
                              => requests'[y].id < requests'[x].id
    BY DEF RequestsKnown, RequestsIn
  <2>3. CASE x \in DOMAIN requests
    <3>1. /\ requests[x].id \in DOMAIN calls[d] /\ ~calls[d][requests[x].id].done
          /\ calls[d][requests[x].id].op = requests[x].op
          /\ calls[d][requests[x].id].prop = requests[x].prop
          /\ requests[x].op # "getall" => requests[x].prop \in Properties
          /\ \A y \in DOMAIN requests : y < x /\ requests[y].from = d
                => requests[y].id < requests[x].id
      BY <1>1, <2>1, <2>2, <2>3 DEF RequestsKnown, RequestsIn
    <3>2. requests'[x] = requests[x] /\ x < z
      BY <1>1, <2>3
    <3>3. \A y \in DOMAIN requests' : y < x => y \in DOMAIN requests /\ requests'[y] = requests[y]
      <4>1. x \in Nat
        BY <2>3, LenProperties DEF TypeOK
      <4>. QED
        BY <1>1, <3>2, <4>1
    <3>4. /\ requests[x].id \in DOMAIN calls'[d]
          /\ calls'[d][requests[x].id] = calls[d][requests[x].id]
      <4>1. CASE d = c
        BY <1>1, <1>3, <3>1, <4>1
      <4>2. CASE d # c
        <5>1. calls'[d] = calls[d]
          BY <1>1, <4>2
        <5>. QED
          BY <3>1, <5>1
      <4>. QED
        BY <4>1, <4>2
    <3>. QED
      BY <3>1, <3>2, <3>3, <3>4
  <2>4. CASE x = z
    <3>1. d = c /\ requests'[x].id = n /\ requests'[x].op = op /\ requests'[x].prop = p
      BY <1>1, <2>2, <2>4
    <3>2. /\ n \in DOMAIN calls'[d] /\ ~calls'[d][n].done
          /\ calls'[d][n].op = op /\ calls'[d][n].prop = p
      BY <1>1, <1>3, <3>1
    <3>3. op # "getall" => p \in Properties
      BY DEF Sends
    <3>4. ASSUME NEW y \in DOMAIN requests', y < x, requests'[y].from = d
          PROVE  requests'[y].id < n
      <4>1. y \in DOMAIN requests /\ requests'[y] = requests[y]
        BY <1>1, <2>4, <3>4
      <4>. QED
        BY <1>1, <2>1, <3>1, <3>4, <4>1 DEF RequestsKnown, RequestsIn
    <3>. QED
      BY <3>1, <3>2, <3>3, <3>4
  <2>. QED
    BY <1>1, <2>3, <2>4
<1>6. ASSUME NEW d \in Clients
      PROVE  AnswersKnown(d)'
  <2>1. AnswersKnown(d)
    BY DEF Bookkeeping
  <2>2. ASSUME NEW i \in DOMAIN Pipe(d), IsAnswer(Pipe(d)[i], d)
        PROVE  /\ Pipe(d)[i].id \in DOMAIN calls'[d] /\ ~calls'[d][Pipe(d)[i].id].done
               /\ \A j \in DOMAIN Pipe(d) : j < i /\ IsAnswer(Pipe(d)[j], d)
                     => Pipe(d)[j].id < Pipe(d)[i].id
               /\ \A x \in DOMAIN requests' : requests'[x].from = d
                     => Pipe(d)[i].id < requests'[x].id
    <3>1. /\ Pipe(d)[i].id \in DOMAIN calls[d] /\ ~calls[d][Pipe(d)[i].id].done
          /\ \A j \in DOMAIN Pipe(d) : j < i /\ IsAnswer(Pipe(d)[j], d)
                => Pipe(d)[j].id < Pipe(d)[i].id
          /\ \A x \in DOMAIN requests : requests[x].from = d => Pipe(d)[i].id < requests[x].id
      BY <2>1, <2>2 DEF AnswersKnown, AnswersIn
    <3>2. /\ Pipe(d)[i].id \in DOMAIN calls'[d]
          /\ calls'[d][Pipe(d)[i].id] = calls[d][Pipe(d)[i].id]
      BY <1>1, <1>3, <3>1
    <3>3. d = c => Pipe(d)[i].id < n
      BY <1>1, <3>1
    <3>. QED
      BY <1>1, <3>1, <3>2, <3>3
  <2>. QED
    BY <1>4, <2>2 DEF AnswersKnown, AnswersIn
<1>7. \A d \in Clients : OwnAnswers(d)'
  BY <1>1 DEF Bookkeeping, OwnAnswers
<1>8. ASSUME NEW d \in Clients
      PROVE  BlockedAsks(d)'
  <2>1. BlockedAsks(d)
    BY DEF Bookkeeping
  <2>2. waits => op # "attach"
    BY DEF Sends
  <2>. QED
    BY <1>1, <1>3, <2>1, <2>2 DEF BlockedAsks
<1>9. ASSUME NEW d \in Clients
      PROVE  WatchedAttached(d)'
  <2>1. WatchedAttached(d)
    BY DEF Bookkeeping
  <2>2. CASE d # c
    BY <1>1, <2>1, <2>2 DEF WatchedAttached
  <2>3. CASE d = c
    <3>1. SUFFICES ASSUME NEW id \in DOMAIN calls'[c], calls'[c][id].watched
                   PROVE  calls'[c][id].prop \in attached[c]
      BY <1>1, <2>3 DEF WatchedAttached
    <3>2. CASE id = n
      <4>1. calls'[c][id] = [op |-> op, prop |-> p, done |-> FALSE, watched |-> p \in attached[c]]
        BY <1>1, <3>2
      <4>2. PICK w : w = (p \in attached[c])
        OBVIOUS
      <4>3. calls'[c][id] = [op |-> op, prop |-> p, done |-> FALSE, watched |-> w]
        BY <4>1, <4>2, Zenon
      <4>4. calls'[c][id].watched = w /\ calls'[c][id].prop = p
        BY <4>3
      <4>. QED
        BY <3>1, <4>2, <4>4, Zenon
    <3>3. CASE id \in DOMAIN calls[c]
      BY <1>1, <2>1, <2>3, <3>1, <3>3 DEF WatchedAttached
    <3>. QED
      BY <1>2, <3>2, <3>3
  <2>. QED
    BY <2>2, <2>3
<1>. QED
  BY <1>5, <1>6, <1>7, <1>8, <1>9 DEF Bookkeeping

\* attach() sends nothing by itself.
LEMMA AttachBooks ==
    ASSUME TypeOK, Bookkeeping, NEW c \in Clients, NEW p \in Properties, attach_property(c, p)
    PROVE  Bookkeeping'
<1>1. /\ UNCHANGED <<requests, outbox, inbox, calls, blocked>>
      /\ \A d \in Clients : attached[d] \subseteq attached'[d]
  BY DEF attach_property, TypeOK
<1>2. \A d \in Clients : WatchedAttached(d)'
  BY <1>1 DEF Bookkeeping, WatchedAttached
<1>. QED
  BY <1>1, <1>2 DEF Bookkeeping, RequestsKnown, AnswersKnown, OwnAnswers, BlockedAsks, Pipe

\* A property that is not attached any more is not watched any more.
LEMMA DetachCalls ==
    ASSUME TypeOK, NEW c \in Clients, NEW p \in Properties, detach_property(c, p)
    PROVE  /\ UNCHANGED <<t_, requests, outbox, inbox, attaching, blocked, told, overtaken>>
           /\ \A d \in Clients : /\ attached'[d] = (IF d = c THEN attached[d] \ {p} ELSE attached[d])
                                 /\ DOMAIN calls'[d] = DOMAIN calls[d]
           /\ \A d \in Clients : \A id \in DOMAIN calls[d] :
                 /\ calls'[d][id].op = calls[d][id].op /\ calls'[d][id].prop = calls[d][id].prop
                 /\ calls'[d][id].done = calls[d][id].done
                 /\ calls'[d][id].watched => calls[d][id].watched /\ (d = c => calls[d][id].prop # p)
<1>1. /\ calls' = [calls EXCEPT ![c] = Unwatched(calls[c], p)]
      /\ attached' = [attached EXCEPT ![c] = attached[c] \ {p}]
      /\ UNCHANGED <<t_, requests, outbox, inbox, attaching, blocked, told, overtaken>>
  BY DetachTypes DEF detach_property
<1>2. /\ calls'[c] = Unwatched(calls[c], p) /\ \A d \in Clients \ {c} : calls'[d] = calls[d]
      /\ \A d \in Clients : attached'[d] = (IF d = c THEN attached[d] \ {p} ELSE attached[d])
  BY <1>1 DEF TypeOK
<1>3. \A id \in DOMAIN calls[c] : calls[c][id] \in Call
  BY ElementOfSeq, LenProperties DEF TypeOK
<1>4. /\ DOMAIN calls'[c] = DOMAIN calls[c]
      /\ \A id \in DOMAIN calls[c] :
            calls'[c][id] = IF calls[c][id].prop = p THEN [calls[c][id] EXCEPT !.watched = FALSE]
                            ELSE calls[c][id]
  BY <1>2 DEF Unwatched
<1>5. ASSUME NEW id \in DOMAIN calls[c]
      PROVE  /\ calls'[c][id].op = calls[c][id].op /\ calls'[c][id].prop = calls[c][id].prop
             /\ calls'[c][id].done = calls[c][id].done
             /\ calls'[c][id].watched => calls[c][id].watched /\ calls[c][id].prop # p
  BY <1>3, <1>4 DEF Call
<1>. QED
  BY <1>1, <1>2, <1>4, <1>5

\* No call of a property that is detached counts as watched.
LEMMA DetachBooks ==
    ASSUME TypeOK, Bookkeeping, NEW c \in Clients, NEW p \in Properties, detach_property(c, p)
    PROVE  Bookkeeping'
<1>1. /\ UNCHANGED <<requests, outbox, inbox, blocked>>
      /\ \A d \in Clients : /\ attached'[d] = (IF d = c THEN attached[d] \ {p} ELSE attached[d])
                            /\ DOMAIN calls'[d] = DOMAIN calls[d]
      /\ \A d \in Clients : \A id \in DOMAIN calls[d] :
            /\ calls'[d][id].op = calls[d][id].op /\ calls'[d][id].prop = calls[d][id].prop
            /\ calls'[d][id].done = calls[d][id].done
            /\ calls'[d][id].watched => calls[d][id].watched /\ (d = c => calls[d][id].prop # p)
  BY DetachCalls
<1>2. \A d \in Clients : Pipe(d)' = Pipe(d)
  BY <1>1 DEF Pipe
<1>3. SUFFICES ASSUME NEW d \in Clients
               PROVE  /\ RequestsKnown(d)' /\ AnswersKnown(d)' /\ OwnAnswers(d)'
                      /\ BlockedAsks(d)' /\ WatchedAttached(d)'
  BY DEF Bookkeeping
<1>4. RequestsKnown(d) /\ AnswersKnown(d) /\ OwnAnswers(d) /\ BlockedAsks(d) /\ WatchedAttached(d)
  BY DEF Bookkeeping
<1>5. RequestsKnown(d)'
  <2>1. SUFFICES ASSUME NEW x \in DOMAIN requests, requests[x].from = d
                 PROVE  /\ requests[x].id \in DOMAIN calls'[d] /\ ~calls'[d][requests[x].id].done
                        /\ calls'[d][requests[x].id].op = requests[x].op
                        /\ calls'[d][requests[x].id].prop = requests[x].prop
                        /\ requests[x].op # "getall" => requests[x].prop \in Properties
                        /\ \A y \in DOMAIN requests : y < x /\ requests[y].from = d
                              => requests[y].id < requests[x].id
    BY <1>1 DEF RequestsKnown, RequestsIn
  <2>2. /\ requests[x].id \in DOMAIN calls[d] /\ ~calls[d][requests[x].id].done
        /\ calls[d][requests[x].id].op = requests[x].op
        /\ calls[d][requests[x].id].prop = requests[x].prop
        /\ requests[x].op # "getall" => requests[x].prop \in Properties
        /\ \A y \in DOMAIN requests : y < x /\ requests[y].from = d
              => requests[y].id < requests[x].id
    BY <1>4, <2>1 DEF RequestsKnown, RequestsIn
  <2>. QED
    BY <1>1, <2>2
<1>6. AnswersKnown(d)'
  <2>1. SUFFICES ASSUME NEW i \in DOMAIN Pipe(d), IsAnswer(Pipe(d)[i], d)
                 PROVE  /\ Pipe(d)[i].id \in DOMAIN calls'[d] /\ ~calls'[d][Pipe(d)[i].id].done
                        /\ \A j \in DOMAIN Pipe(d) : j < i /\ IsAnswer(Pipe(d)[j], d)
                              => Pipe(d)[j].id < Pipe(d)[i].id
                        /\ \A x \in DOMAIN requests : requests[x].from = d
                              => Pipe(d)[i].id < requests[x].id
    BY <1>1, <1>2 DEF AnswersKnown, AnswersIn
  <2>2. /\ Pipe(d)[i].id \in DOMAIN calls[d] /\ ~calls[d][Pipe(d)[i].id].done
        /\ \A j \in DOMAIN Pipe(d) : j < i /\ IsAnswer(Pipe(d)[j], d)
              => Pipe(d)[j].id < Pipe(d)[i].id
        /\ \A x \in DOMAIN requests : requests[x].from = d => Pipe(d)[i].id < requests[x].id
    BY <1>4, <2>1 DEF AnswersKnown, AnswersIn
  <2>. QED
    BY <1>1, <2>2
<1>7. OwnAnswers(d)' /\ BlockedAsks(d)'
  BY <1>1, <1>4 DEF OwnAnswers, BlockedAsks
<1>8. WatchedAttached(d)'
  <2>. SUFFICES ASSUME NEW id \in DOMAIN calls'[d], calls'[d][id].watched
                PROVE  calls'[d][id].prop \in attached'[d]
    BY DEF WatchedAttached
  <2>1. id \in DOMAIN calls[d] /\ calls'[d][id].prop = calls[d][id].prop
    BY <1>1
  <2>2. calls[d][id].watched /\ (d = c => calls[d][id].prop # p)
    BY <1>1, <2>1
  <2>3. calls[d][id].prop \in attached[d]
    BY <1>4, <2>1, <2>2 DEF WatchedAttached
  <2>. QED
    BY <1>1, <2>1, <2>2, <2>3
<1>. QED
  BY <1>5, <1>6, <1>7, <1>8
-----------------------------------------------------------------------------
(***************************************************************************)
(* The order of what is under way                                          *)
(***************************************************************************)
LEMMA ServerOrdered ==
    ASSUME TypeOK, PipesOrdered, Speaks \/ \E q, m : Replies(q, m)
    PROVE  PipesOrdered'
<1>1. UNCHANGED <<inbox, told, overtaken>>
  BY DEF Speaks, Replies, client
<1>2. SUFFICES ASSUME NEW c \in Clients
               PROVE  Ordered(inbox[c] \o outbox', t_', told[c], overtaken[c])
  BY <1>1 DEF PipesOrdered, Pipe
<1>3. /\ inbox[c] \in Seq(Messages) /\ outbox \in Seq(Messages) /\ t_ \in Contents
      /\ told[c] \in [Properties -> Calling] /\ overtaken[c] \in Nat
      /\ Ordered(inbox[c] \o outbox, t_, told[c], overtaken[c])
  BY PipeTyped DEF TypeOK, Contents, Calling, PipesOrdered, Pipe
<1>4. ASSUME NEW q, t_' \in Contents, Changes(t_, t_', outbox, q)
      PROVE  Ordered(inbox[c] \o q, t_', told[c], overtaken[c])
  <2>1. PICK u \in Contents : u = t_'
    BY <1>4
  <2>2. PICK a \in Seq(Messages) : a = inbox[c]
    BY <1>3
  <2>3. Ordered(a \o q, u, told[c], overtaken[c])
    BY <1>3, <1>4, <2>1, <2>2, ChangesPipe
  <2>. QED
    BY <2>1, <2>2, <2>3
<1>5. CASE Speaks
  BY <1>4, <1>5 DEF Speaks
<1>6. ASSUME NEW q, NEW m, Replies(q, m)
      PROVE  Ordered(inbox[c] \o outbox', t_', told[c], overtaken[c])
  <2>1. /\ t_' \in Contents /\ q \in Seq(Messages) /\ m \in Answer /\ m.now = Snapshot(t_')
        /\ outbox' = Append(q, m) /\ Changes(t_, t_', outbox, q)
    BY <1>6 DEF Replies
  <2>2. Ordered(inbox[c] \o q, t_', told[c], overtaken[c])
    BY <1>4, <2>1
  <2>3. PICK u \in Contents : u = t_'
    BY <2>1
  <2>4. PICK a \in Seq(Messages) : a = inbox[c]
    BY <1>3
  <2>5. Ordered(a \o Append(q, m), u, told[c], overtaken[c])
    BY <1>3, <2>1, <2>2, <2>3, <2>4, AnswerPipe
  <2>. QED
    BY <2>1, <2>3, <2>4, <2>5
<1>. QED
  BY <1>5, <1>6

\* What the callbacks are told is as new as they know, unless it was overtaken.
LEMMA TakesOrdered ==
    ASSUME TypeOK, PipesOrdered, NEW c \in Clients, NEW i, Takes(c, i)
    PROVE  PipesOrdered'
<1>1. /\ t_' = t_ /\ t_ \in Contents
      /\ \A d \in Clients \ {c} : told'[d] = told[d] /\ overtaken'[d] = overtaken[d]
                                  /\ Pipe(d)' = Pipe(d)
  BY TakesPipes DEF Takes, TypeOK, Contents
<1>2. \A d \in Clients \ {c} : Ordered(Pipe(d), t_, told[d], overtaken[d])'
  BY <1>1 DEF PipesOrdered
<1>3. /\ i \in DOMAIN Pipe(c) /\ Pipe(c)[i] = inbox[c][i] /\ Pipe(c)' = RemoveAt(Pipe(c), i)
      /\ Pipe(c) \in Seq(Messages)
  BY TakesPipes, PipeTyped
<1>4. /\ told[c] \in [Properties -> Calling] /\ told'[c] \in [Properties -> Calling]
      /\ overtaken[c] \in Nat /\ overtaken'[c] \in Nat
  BY DEF Takes, TypeOK, Calling
<1>5. Ordered(Pipe(c), t_, told[c], overtaken[c])
  BY DEF PipesOrdered
<1>6. \A p \in Properties :
         \/ /\ told'[c][p] = told[c][p] /\ overtaken'[c] >= overtaken[c] - 1
            /\ i > overtaken[c] => overtaken'[c] >= overtaken[c]
         \/ /\ About(Pipe(c)[i], p) /\ told'[c][p].now = Carried(Pipe(c)[i], p)
            /\ overtaken'[c] >= i - 1
  BY <1>3 DEF Takes
<1>7. Ordered(RemoveAt(Pipe(c), i), t_, told'[c], overtaken'[c])
  BY <1>1, <1>3, <1>4, <1>5, <1>6, OrderedShrinks
<1>. QED
  BY <1>1, <1>2, <1>3, <1>7 DEF PipesOrdered

\* A message that is dropped does not disturb the order of the others.
LEMMA RouteOrdered ==
    ASSUME TypeOK, PipesOrdered, Route
    PROVE  PipesOrdered'
<1>1. UNCHANGED <<t_, told, overtaken>>
  BY DEF Route, client
<1>2. SUFFICES ASSUME NEW c \in Clients
               PROVE  Ordered(Pipe(c)', t_, told[c], overtaken[c])
  BY <1>1 DEF PipesOrdered
<1>3. /\ Ordered(Pipe(c), t_, told[c], overtaken[c]) /\ t_ \in Contents
      /\ told[c] \in [Properties -> Calling] /\ overtaken[c] \in Nat
      /\ Pipe(c) \in Seq(Messages) /\ Len(inbox[c]) \in Nat
  BY PipeTyped, LenProperties DEF PipesOrdered, TypeOK, Contents, Calling
<1>4. PICK n \in DOMAIN Pipe(c) : Pipe(c)' = Pipe(c) \/ Pipe(c)' = RemoveAt(Pipe(c), n)
  BY RoutePipes
<1>5. Ordered(RemoveAt(Pipe(c), n), t_, told[c], overtaken[c])
  <2>1. /\ overtaken[c] >= overtaken[c] - 1 /\ overtaken[c] >= overtaken[c]
    BY <1>3
  <2>. QED
    BY <1>3, <2>1, OrderedShrinks
<1>. QED
  BY <1>3, <1>4, <1>5
-----------------------------------------------------------------------------
(***************************************************************************)
(* The last change is told                                                 *)
(***************************************************************************)
LEMMA TakesFollows ==
    ASSUME TypeOK, Bookkeeping, PipesOrdered, Follows, NEW c \in Clients, NEW i, Takes(c, i)
    PROVE  Follows'
<1>. DEFINE m == inbox[c][i]
<1>1. /\ \A d \in Clients \ {c} : /\ calls'[d] = calls[d] /\ Pipe(d)' = Pipe(d)
                                  /\ told'[d] = told[d]
      /\ UNCHANGED <<t_, requests, outbox, attached, attaching>>
      /\ i = 1 \/ (~IsSignal(m) /\ calls[c][m.id].op # "attach")
      /\ \A p \in Properties :
            IF Called(c, m, p)
            THEN told'[c][p].what # "nothing" /\ told'[c][p].now = Carried(m, p)
            ELSE told'[c][p] = told[c][p]
  <2>1. \A d \in Clients \ {c} : calls'[d] = calls[d]
    BY TakesCalls
  <2>2. \A d \in Clients \ {c} : Pipe(d)' = Pipe(d)
    BY TakesPipes
  <2>3. /\ \A d \in Clients \ {c} : told'[d] = told[d]
        /\ UNCHANGED <<t_, requests, outbox, attached, attaching>>
    BY DEF Takes
  <2>4. i = 1 \/ (~IsSignal(m) /\ calls[c][m.id].op # "attach")
    BY DEF Takes
  <2>5. \A p \in Properties :
           IF Called(c, m, p)
           THEN told'[c][p].what # "nothing" /\ told'[c][p].now = Carried(m, p)
           ELSE told'[c][p] = told[c][p]
    BY DEF Takes
  <2>. HIDE DEF m
  <2>. QED
    BY <2>1, <2>2, <2>3, <2>4, <2>5
<1>2. ASSUME NEW d \in Clients, d # c
      PROVE  Settles(d)' /\ SetsBehind(d)' /\ SetsAnswered(d)'
  <2>1. Settles(d) /\ SetsBehind(d) /\ SetsAnswered(d)
    BY DEF Follows
  <2>2. calls'[d] = calls[d] /\ Pipe(d)' = Pipe(d) /\ told'[d] = told[d]
    BY <1>1, <1>2
  <2>3. Settles(d)'
    BY <1>1, <2>1, <2>2 DEF Settles, IsSettled, Announced
  <2>4. SetsBehind(d)'
    BY <1>1, <2>1, <2>2 DEF SetsBehind, IsSettled
  <2>5. SetsAnswered(d)'
    BY <1>1, <2>1, <2>2 DEF SetsAnswered
  <2>. QED
    BY <2>3, <2>4, <2>5
<1>3. /\ DOMAIN calls'[c] = DOMAIN calls[c] /\ Keeps(calls[c], calls'[c])
      /\ \A id \in DOMAIN calls[c] : calls'[c][id].watched = calls[c][id].watched
  BY TakesCalls DEF Keeps
<1>4. /\ i \in DOMAIN Pipe(c) /\ Pipe(c)[i] = m /\ Pipe(c)' = RemoveAt(Pipe(c), i)
      /\ Pipe(c) \in Seq(Messages) /\ t_ \in Contents
      /\ told[c] \in [Properties -> Calling] /\ told'[c] \in [Properties -> Calling]
      /\ overtaken[c] \in Nat /\ Ordered(Pipe(c), t_, told[c], overtaken[c])
  <2>1. i \in DOMAIN Pipe(c) /\ Pipe(c)[i] = m /\ Pipe(c)' = RemoveAt(Pipe(c), i)
    BY TakesPipes
  <2>2. Pipe(c) \in Seq(Messages) /\ t_ \in Contents
    BY PipeTyped DEF TypeOK, Contents
  <2>3. told \in [Clients -> [Properties -> Calling]] /\ overtaken[c] \in Nat
    BY DEF TypeOK, Calling
  <2>4. told' \in [Clients -> [Properties -> Calling]]
    BY DEF Takes
  <2>5. Ordered(Pipe(c), t_, told[c], overtaken[c])
    BY DEF PipesOrdered
  <2>. QED
    BY <2>1, <2>2, <2>3, <2>4, <2>5
<1>5. /\ Settles(c) /\ SetsBehind(c) /\ SetsAnswered(c)
      /\ AnswersKnown(c) /\ RequestsKnown(c) /\ WatchedAttached(c) /\ attached[c] \subseteq Properties
  BY DEF Follows, Bookkeeping, TypeOK
<1>. HIDE DEF m
<1>6. \A x \in DOMAIN Pipe(c) : IsAnswer(Pipe(c)[x], c) => Pipe(c)[x].id \in DOMAIN calls[c]
  BY <1>5 DEF AnswersKnown, AnswersIn
<1>7. /\ Len(Pipe(c)) \in Nat /\ DOMAIN Pipe(c) = 1..Len(Pipe(c))
      /\ DOMAIN RemoveAt(Pipe(c), i) = 1..(Len(Pipe(c)) - 1)
      /\ RemoveAt(Pipe(c), i) \in Seq(Messages)
      /\ \A a \in 1..(Len(Pipe(c)) - 1) :
            RemoveAt(Pipe(c), i)[a] = IF a < i THEN Pipe(c)[a] ELSE Pipe(c)[a + 1]
  BY <1>4, Removed
<1>8. ASSUME NEW a \in DOMAIN RemoveAt(Pipe(c), i)
      PROVE  \E b \in DOMAIN Pipe(c) : /\ RemoveAt(Pipe(c), i)[a] = Pipe(c)[b] /\ b # i
                                       /\ a = IF b < i THEN b ELSE b - 1
  <2>1. CASE a < i
    BY <1>7, <2>1
  <2>2. CASE ~(a < i)
    <3>1. PICK b \in DOMAIN Pipe(c) : b = a + 1
      BY <1>7
    <3>2. RemoveAt(Pipe(c), i)[a] = Pipe(c)[b] /\ b # i /\ ~(b < i) /\ a = b - 1
      BY <1>4, <1>7, <2>2, <3>1
    <3>. QED
      BY <3>2
  <2>. QED
    BY <2>1, <2>2
<1>9. \A x \in DOMAIN RemoveAt(Pipe(c), i) :
        IsAnswer(RemoveAt(Pipe(c), i)[x], c) => RemoveAt(Pipe(c), i)[x].id \in DOMAIN calls[c]
  BY <1>6, <1>8
<1>10. ASSUME NEW p \in attached[c]
       PROVE  /\ i = 1 \/ ~Lasting(calls[c], c, m, p)
              /\ Telling(calls[c], c, m, p) =>
                    told'[c][p].what # "nothing" /\ told'[c][p].now = Carried(m, p) /\ About(m, p)
              /\ ~Telling(calls[c], c, m, p) => told'[c][p] = told[c][p]
  <2>1. p \in Properties
    BY <1>5
  <2>2. Telling(calls[c], c, m, p) <=> Called(c, m, p)
    BY DEF Called
  <2>3. Telling(calls[c], c, m, p) => About(m, p)
    BY DEF Telling, Lasting, IsAnswer, About
  <2>4. i = 1 \/ ~Lasting(calls[c], c, m, p)
    BY <1>1 DEF Lasting, m
  <2>. QED
    BY <1>1, <2>1, <2>2, <2>3, <2>4 DEF m
<1>11. ASSUME NEW p \in attached[c], IsSettled(c, p)
       PROVE  IsSettled(c, p)'
  <2>1. Settled(RemoveAt(Pipe(c), i), calls[c], c, p, Now(t_, p), told'[c][p])
    BY <1>4, <1>10, <1>11, SettledShrinks DEF IsSettled
  <2>2. Settled(RemoveAt(Pipe(c), i), calls'[c], c, p, Now(t_, p), told'[c][p])
    BY <1>3, <1>7, <1>9, <2>1, SettledKept
  <2>. QED
    BY <1>1, <1>4, <2>2 DEF IsSettled, Now
<1>12. Settles(c)'
  <2>1. SUFFICES ASSUME NEW p \in attached[c], Announced(p)
                 PROVE  \/ attaching[c] = p
                        \/ \E x \in DOMAIN requests : IsAttach(requests[x], c, p)
                        \/ IsSettled(c, p)'
    BY <1>1 DEF Settles, Announced
  <2>. QED
    BY <1>5, <1>11, <2>1 DEF Settles
<1>13. SetsBehind(c)'
  <2>1. SUFFICES ASSUME NEW x \in DOMAIN requests, requests[x].from = c, requests[x].op = "set",
                        calls'[c][requests[x].id].watched, requests[x].prop \in Notifying
                 PROVE  \/ \E y \in DOMAIN requests : y < x /\ IsAttach(requests[y], c, requests[x].prop)
                        \/ IsSettled(c, requests[x].prop)'
    BY <1>1 DEF SetsBehind
  <2>2. requests[x].id \in DOMAIN calls[c] /\ calls[c][requests[x].id].prop = requests[x].prop
    BY <1>5, <2>1 DEF RequestsKnown, RequestsIn
  <2>3. calls[c][requests[x].id].watched
    BY <1>3, <2>1, <2>2
  <2>4. requests[x].prop \in attached[c]
    BY <1>5, <2>2, <2>3 DEF WatchedAttached
  <2>5. \/ \E y \in DOMAIN requests : y < x /\ IsAttach(requests[y], c, requests[x].prop)
        \/ IsSettled(c, requests[x].prop)
    BY <1>5, <2>1, <2>3 DEF SetsBehind
  <2>6. PICK p \in attached[c] : p = requests[x].prop
    BY <2>4
  <2>7. IsSettled(c, p) => IsSettled(c, p)'
    BY <1>11
  <2>. QED
    BY <1>1, <2>5, <2>6, <2>7 DEF IsSettled
<1>14. SetsAnswered(c)'
  <2>. DEFINE r == RemoveAt(Pipe(c), i)
  <2>1. SUFFICES ASSUME NEW f \in DOMAIN r, IsAnswer(r[f], c), IsWatchedSet(calls'[c][r[f].id])
                 PROVE  Preceded(r, calls'[c], c, calls'[c][r[f].id].prop, f,
                                 told'[c][calls'[c][r[f].id].prop])
    BY <1>4 DEF SetsAnswered
  <2>2. PICK b \in DOMAIN Pipe(c) : r[f] = Pipe(c)[b] /\ b # i /\ f = IF b < i THEN b ELSE b - 1
    BY <1>8
  <2>. HIDE DEF r
  <2>3. /\ r[f].id \in DOMAIN calls[c] /\ calls'[c][r[f].id].prop = calls[c][r[f].id].prop
        /\ IsWatchedSet(calls[c][r[f].id])
    BY <1>3, <1>6, <2>1, <2>2 DEF Keeps, IsWatchedSet
  <2>4. PICK p \in attached[c] : p = calls[c][r[f].id].prop
    BY <1>5, <2>3 DEF WatchedAttached, IsWatchedSet
  <2>5. Preceded(Pipe(c), calls[c], c, p, b, told[c][p])
    BY <1>5, <2>1, <2>2, <2>3, <2>4 DEF SetsAnswered
  <2>6. p \in Properties /\ About(Pipe(c)[b], p) /\ told[c][p] \in Calling /\ told'[c][p] \in Calling
    BY <1>4, <1>5, <2>1, <2>2 DEF IsAnswer, About
  <2>7. Preceded(RemoveAt(Pipe(c), i), calls[c], c, p, f, told'[c][p])
    BY <1>4, <1>10, <2>2, <2>5, <2>6, PrecededShrinks DEF r
  <2>8. Preceded(RemoveAt(Pipe(c), i), calls'[c], c, p, f, told'[c][p])
    BY <1>3, <1>7, <1>9, <2>7, SettledKept
  <2>. QED
    BY <2>3, <2>4, <2>8 DEF r
<1>. QED
  BY <1>2, <1>12, <1>13, <1>14 DEF Follows

\* A signal is dropped for a client only if nothing is attached.
LEMMA RouteFollows ==
    ASSUME TypeOK, Bookkeeping, PipesOrdered, Follows, Route
    PROVE  Follows'
<1>1. UNCHANGED <<t_, requests, attached, attaching, calls, told>>
  BY DEF Route, client
<1>2. SUFFICES ASSUME NEW c \in Clients
               PROVE  Settles(c)' /\ SetsBehind(c)' /\ SetsAnswered(c)'
  BY DEF Follows
<1>3. /\ Settles(c) /\ SetsBehind(c) /\ SetsAnswered(c)
      /\ AnswersKnown(c) /\ RequestsKnown(c) /\ WatchedAttached(c) /\ attached[c] \subseteq Properties
  BY DEF Follows, Bookkeeping, TypeOK
<1>. DEFINE n == Len(inbox[c]) + 1
            m == Head(outbox)
<1>4. /\ n \in DOMAIN Pipe(c) /\ Pipe(c)[n] = m
      /\ \/ Pipe(c)' = Pipe(c)
         \/ Pipe(c)' = RemoveAt(Pipe(c), n) /\ (IF IsSignal(m) THEN attached[c] = {} ELSE m.to # c)
  BY RoutePipes
<1>. HIDE DEF n, m
<1>5. CASE Pipe(c)' = Pipe(c)
  <2>1. Settles(c)'
    BY <1>1, <1>3, <1>5 DEF Settles, IsSettled, Announced
  <2>2. SetsBehind(c)'
    BY <1>1, <1>3, <1>5 DEF SetsBehind, IsSettled
  <2>3. SetsAnswered(c)'
    BY <1>1, <1>3, <1>5 DEF SetsAnswered
  <2>. QED
    BY <2>1, <2>2, <2>3
<1>6. CASE /\ Pipe(c)' = RemoveAt(Pipe(c), n)
           /\ IF IsSignal(m) THEN attached[c] = {} ELSE m.to # c
  <2>1. /\ Pipe(c) \in Seq(Messages) /\ t_ \in Contents /\ told[c] \in [Properties -> Calling]
        /\ overtaken[c] \in Nat /\ Ordered(Pipe(c), t_, told[c], overtaken[c])
    BY PipeTyped DEF TypeOK, Contents, Calling, PipesOrdered
  <2>2. \A p \in attached[c] : ~Telling(calls[c], c, m, p) /\ ~Lasting(calls[c], c, m, p)
    BY <1>6 DEF Telling, Lasting, IsAnswer
  <2>3. \A p \in attached[c] : IsSettled(c, p) => IsSettled(c, p)'
    <3>1. SUFFICES ASSUME NEW p \in attached[c], IsSettled(c, p)
                   PROVE  Settled(RemoveAt(Pipe(c), n), calls[c], c, p, Now(t_, p), told[c][p])
      BY <1>1, <1>6 DEF IsSettled, Now
    <3>. QED
      BY <1>4, <2>1, <2>2, <3>1, SettledShrinks DEF IsSettled
  <2>4. Settles(c)'
    <3>1. SUFFICES ASSUME NEW p \in attached[c], Announced(p)
                   PROVE  \/ attaching[c] = p
                          \/ \E x \in DOMAIN requests : IsAttach(requests[x], c, p)
                          \/ IsSettled(c, p)'
      BY <1>1 DEF Settles, Announced
    <3>. QED
      BY <1>3, <2>3, <3>1 DEF Settles
  <2>5. SetsBehind(c)'
    <3>1. SUFFICES ASSUME NEW x \in DOMAIN requests, requests[x].from = c, requests[x].op = "set",
                          calls[c][requests[x].id].watched, requests[x].prop \in Notifying
                   PROVE  \/ \E y \in DOMAIN requests : y < x /\ IsAttach(requests[y], c, requests[x].prop)
                          \/ IsSettled(c, requests[x].prop)'
      BY <1>1 DEF SetsBehind
    <3>2. requests[x].id \in DOMAIN calls[c] /\ calls[c][requests[x].id].prop = requests[x].prop
      BY <1>3, <3>1 DEF RequestsKnown, RequestsIn
    <3>3. PICK p \in attached[c] : p = requests[x].prop
      BY <1>3, <3>1, <3>2 DEF WatchedAttached
    <3>4. \/ \E y \in DOMAIN requests : y < x /\ IsAttach(requests[y], c, requests[x].prop)
          \/ IsSettled(c, requests[x].prop)
      BY <1>3, <3>1 DEF SetsBehind
    <3>5. IsSettled(c, p) => IsSettled(c, p)'
      BY <2>3
    <3>. QED
      BY <1>1, <3>3, <3>4, <3>5 DEF IsSettled
  <2>6. SetsAnswered(c)'
    <3>. DEFINE r == RemoveAt(Pipe(c), n)
    <3>1. SUFFICES ASSUME NEW f \in DOMAIN r, IsAnswer(r[f], c), IsWatchedSet(calls[c][r[f].id])
                   PROVE  Preceded(r, calls[c], c, calls[c][r[f].id].prop, f,
                                   told[c][calls[c][r[f].id].prop])
      BY <1>1, <1>6 DEF SetsAnswered
    <3>2. \E b \in DOMAIN Pipe(c) : r[f] = Pipe(c)[b] /\ b # n /\ f = IF b < n THEN b ELSE b - 1
      <4>1. /\ Len(Pipe(c)) \in Nat /\ DOMAIN Pipe(c) = 1..Len(Pipe(c))
            /\ DOMAIN RemoveAt(Pipe(c), n) = 1..(Len(Pipe(c)) - 1)
            /\ \A a \in 1..(Len(Pipe(c)) - 1) :
                  RemoveAt(Pipe(c), n)[a] = IF a < n THEN Pipe(c)[a] ELSE Pipe(c)[a + 1]
        BY <1>4, <2>1, Removed
      <4>. HIDE DEF r
      <4>2. CASE f < n
        BY <1>4, <3>1, <4>1, <4>2 DEF r
      <4>3. CASE ~(f < n)
        <5>1. PICK b \in DOMAIN Pipe(c) : b = f + 1
          BY <3>1, <4>1 DEF r
        <5>2. r[f] = Pipe(c)[b] /\ b # n /\ ~(b < n) /\ f = b - 1
          BY <1>4, <3>1, <4>1, <4>3, <5>1 DEF r
        <5>. QED
          BY <5>2
      <4>. QED
        BY <4>2, <4>3
    <3>3. PICK b \in DOMAIN Pipe(c) : r[f] = Pipe(c)[b] /\ b # n /\ f = IF b < n THEN b ELSE b - 1
      BY <3>2
    <3>. HIDE DEF r
    <3>4. r[f].id \in DOMAIN calls[c]
      BY <1>3, <3>1, <3>3 DEF AnswersKnown, AnswersIn
    <3>5. PICK p \in attached[c] : p = calls[c][r[f].id].prop
      BY <1>3, <3>1, <3>4 DEF WatchedAttached, IsWatchedSet
    <3>6. Preceded(Pipe(c), calls[c], c, p, b, told[c][p])
      BY <1>3, <3>1, <3>3, <3>5 DEF SetsAnswered
    <3>7. p \in Properties /\ About(Pipe(c)[b], p) /\ told[c][p] \in Calling
      BY <1>3, <2>1, <3>1, <3>3 DEF IsAnswer, About
    <3>8. Preceded(RemoveAt(Pipe(c), n), calls[c], c, p, f, told[c][p])
      BY <1>4, <2>1, <2>2, <3>1, <3>3, <3>6, <3>7, PrecededShrinks DEF r
    <3>. QED
      BY <3>5, <3>8 DEF r
  <2>. QED
    BY <2>4, <2>5, <2>6
<1>. QED
  BY <1>4, <1>5, <1>6

\* What a client knows is not disturbed by its own calls.
LEMMA KeptSettled ==
    ASSUME TypeOK, Bookkeeping, NEW c \in Clients, NEW l, Keeps(calls[c], l), NEW p
    PROVE  /\ IsSettled(c, p) => Settled(Pipe(c), l, c, p, Now(t_, p), told[c][p])
           /\ \A i, w : Preceded(Pipe(c), calls[c], c, p, i, w) => Preceded(Pipe(c), l, c, p, i, w)
<1>1. \A x \in DOMAIN Pipe(c) : IsAnswer(Pipe(c)[x], c) => Pipe(c)[x].id \in DOMAIN calls[c]
  BY DEF Bookkeeping, AnswersKnown, AnswersIn
<1>2. Pipe(c) \in Seq(Messages)
  BY PipeTyped
<1>. QED
  BY <1>1, <1>2, SettledKept DEF IsSettled

\* Get is sent with attach() already effective, and every Set of an attached
\* property behind that Get.
LEMMA SendFollows ==
    ASSUME TypeOK, Bookkeeping, Follows, NEW c \in Clients, NEW op, NEW p, NEW v, NEW waits,
           Sends(c, op, p, v, waits)
    PROVE  Follows'
<1>. DEFINE n == Len(calls[c]) + 1
            z == Len(requests) + 1
<1>1. /\ \A id \in DOMAIN calls[c] : calls'[c][id] = calls[c][id] /\ id < n
      /\ calls'[c][n] = [op |-> op, prop |-> p, done |-> FALSE, watched |-> p \in attached[c]]
      /\ \A d \in Clients \ {c} : calls'[d] = calls[d]
      /\ DOMAIN requests' = 1..z /\ z \in Nat
      /\ \A x \in DOMAIN requests : requests'[x] = requests[x] /\ x < z
      /\ \A x \in DOMAIN requests' : x \in DOMAIN requests \/ x = z
      /\ requests'[z] = [from |-> c, id |-> n, op |-> op, prop |-> p, val |-> v]
      /\ UNCHANGED <<t_, outbox, inbox, attached, told, overtaken>>
  BY SendShape
<1>2. /\ DOMAIN requests = 1..Len(requests) /\ DOMAIN requests \subseteq DOMAIN requests'
      /\ z \in DOMAIN requests'
      /\ Len(requests) \in Nat
  BY <1>1, LenProperties DEF TypeOK
<1>. HIDE DEF n, z
<1>3. \A d \in Clients : Pipe(d)' = Pipe(d)
  BY <1>1 DEF Pipe
<1>4. ASSUME NEW d \in Clients
      PROVE  Keeps(calls[d], calls'[d])
  BY <1>1 DEF Keeps
<1>. DEFINE StillSettled(d, x) == Settled(Pipe(d), calls'[d], d, x, Now(t_, x), told[d][x])
<1>5. \A d \in Clients : \A x : IsSettled(d, x) => StillSettled(d, x)
  BY <1>4, KeptSettled
<1>. HIDE DEF StillSettled
<1>6. ASSUME NEW d \in Clients
      PROVE  Settles(d)'
  <2>1. Settles(d)
    BY DEF Follows
  <2>2. SUFFICES ASSUME NEW x \in attached[d], Announced(x)
                 PROVE  \/ attaching'[d] = x
                        \/ \E y \in DOMAIN requests' : IsAttach(requests'[y], d, x)
                        \/ StillSettled(d, x)
    BY <1>1, <1>3 DEF Settles, Announced, StillSettled, IsSettled, Now
  <2>3. CASE attaching[d] = x
    <3>1. CASE d = c /\ op = "attach"
      <4>1. x = p /\ IsAttach(requests'[z], d, x)
        BY <1>1, <2>3, <3>1 DEF Sends, IsAttach
      <4>. QED
        BY <1>2, <4>1
    <3>2. CASE d # c \/ op # "attach"
      BY <2>3, <3>2 DEF Sends
    <3>. QED
      BY <3>1, <3>2
  <2>4. CASE \E y \in DOMAIN requests : IsAttach(requests[y], d, x)
    BY <1>1, <1>2, <2>4
  <2>5. CASE IsSettled(d, x)
    BY <1>5, <2>5
  <2>. QED
    BY <2>1, <2>2, <2>3, <2>4, <2>5 DEF Settles
<1>7. ASSUME NEW d \in Clients
      PROVE  SetsBehind(d)'
  <2>1. SetsBehind(d) /\ Settles(d) /\ RequestsKnown(d)
    BY DEF Follows, Bookkeeping
  <2>2. SUFFICES ASSUME NEW x \in DOMAIN requests', requests'[x].from = d, requests'[x].op = "set",
                        calls'[d][requests'[x].id].watched, requests'[x].prop \in Notifying
                 PROVE  \/ \E y \in DOMAIN requests' : y < x /\ IsAttach(requests'[y], d, requests'[x].prop)
                        \/ StillSettled(d, requests'[x].prop)
    BY <1>1, <1>3 DEF SetsBehind, StillSettled, IsSettled, Now
  <2>3. CASE x \in DOMAIN requests
    <3>1. requests'[x] = requests[x] /\ requests[x].id \in DOMAIN calls[d]
      BY <1>1, <2>1, <2>2, <2>3 DEF RequestsKnown, RequestsIn
    <3>2. calls[d][requests[x].id].watched
      BY <1>1, <2>2, <3>1
    <3>3. \/ \E y \in DOMAIN requests : y < x /\ IsAttach(requests[y], d, requests[x].prop)
          \/ IsSettled(d, requests[x].prop)
      BY <2>1, <2>2, <2>3, <3>1, <3>2 DEF SetsBehind
    <3>6. CASE IsSettled(d, requests[x].prop)
      BY <1>5, <3>1, <3>6
    <3>7. CASE \E y \in DOMAIN requests : y < x /\ IsAttach(requests[y], d, requests[x].prop)
      BY <1>1, <1>2, <3>1, <3>7
    <3>. QED
      BY <3>3, <3>6, <3>7
  <2>4. CASE x = z
    <3>1. d = c /\ op = "set" /\ requests'[x].prop = p /\ requests'[x].id = n
      BY <1>1, <2>2, <2>4
    <3>2. p \in attached[d]
      <4>1. PICK w : w = (p \in attached[c])
        OBVIOUS
      <4>2. calls'[c][n] = [op |-> op, prop |-> p, done |-> FALSE, watched |-> w]
        BY <1>1, <4>1, Zenon
      <4>3. calls'[c][n].watched = w
        BY <4>2
      <4>. QED
        BY <2>2, <3>1, <4>1, <4>3, Zenon
    <3>3. p \in Notifying /\ Announced(p)
      BY <2>2, <3>1 DEF Announced
    <3>4. attaching[d] # p
      BY <3>1, <3>2, PropertyAssumption DEF Sends, TypeOK
    <3>5. CASE \E y \in DOMAIN requests : IsAttach(requests[y], d, p)
      <4>1. PICK y \in DOMAIN requests : IsAttach(requests[y], d, p)
        BY <3>5
      <4>2. y \in DOMAIN requests' /\ requests'[y] = requests[y] /\ y < x
        BY <1>1, <1>2, <2>4
      <4>. QED
        BY <3>1, <4>1, <4>2
    <3>6. CASE IsSettled(d, p)
      BY <1>5, <3>1, <3>6
    <3>. QED
      BY <2>1, <3>2, <3>3, <3>4, <3>5, <3>6 DEF Settles
  <2>. QED
    BY <1>1, <2>3, <2>4
<1>8. ASSUME NEW d \in Clients
      PROVE  SetsAnswered(d)'
  <2>1. SetsAnswered(d) /\ AnswersKnown(d)
    BY DEF Follows, Bookkeeping
  <2>2. SUFFICES ASSUME NEW f \in DOMAIN Pipe(d), IsAnswer(Pipe(d)[f], d),
                        IsWatchedSet(calls'[d][Pipe(d)[f].id])
                 PROVE  Preceded(Pipe(d), calls'[d], d, calls'[d][Pipe(d)[f].id].prop, f,
                                 told[d][calls'[d][Pipe(d)[f].id].prop])
    BY <1>1, <1>3 DEF SetsAnswered
  <2>3. Pipe(d)[f].id \in DOMAIN calls[d]
    BY <2>1, <2>2 DEF AnswersKnown, AnswersIn
  <2>4. calls'[d][Pipe(d)[f].id] = calls[d][Pipe(d)[f].id]
    BY <1>1, <2>3
  <2>5. PICK e : e = calls[d][Pipe(d)[f].id].prop
    OBVIOUS
  <2>6. Preceded(Pipe(d), calls[d], d, e, f, told[d][e])
    BY <2>1, <2>2, <2>4, <2>5 DEF SetsAnswered
  <2>7. Preceded(Pipe(d), calls'[d], d, e, f, told[d][e])
    BY <1>4, <2>6, KeptSettled
  <2>. QED
    BY <2>4, <2>5, <2>7
<1>. QED
  BY <1>6, <1>7, <1>8 DEF Follows

\* Between the match rule and the Get nothing is promised yet.
LEMMA AttachFollows ==
    ASSUME TypeOK, Follows, NEW c \in Clients, NEW p \in Properties, attach_property(c, p)
    PROVE  Follows'
<1>1. /\ UNCHANGED <<t_, requests, outbox, inbox, calls, blocked, told, overtaken>>
      /\ attaching[c] = NoProperty /\ attaching'[c] = p /\ attached'[c] = attached[c] \cup {p}
      /\ \A d \in Clients \ {c} : attached'[d] = attached[d] /\ attaching'[d] = attaching[d]
  BY DEF attach_property, Idle, TypeOK
<1>2. \A d \in Clients : Pipe(d)' = Pipe(d)
  BY <1>1 DEF Pipe
<1>3. \A d \in Clients : SetsBehind(d)' /\ SetsAnswered(d)'
  BY <1>1, <1>2 DEF Follows, SetsBehind, SetsAnswered, IsSettled
<1>4. ASSUME NEW d \in Clients
      PROVE  Settles(d)'
  <2>1. SUFFICES ASSUME NEW x \in attached'[d], Announced(x)
                 PROVE  \/ attaching'[d] = x
                        \/ \E y \in DOMAIN requests : IsAttach(requests[y], d, x)
                        \/ IsSettled(d, x)
    BY <1>1, <1>2 DEF Settles, Announced, IsSettled
  <2>2. CASE x \in attached[d]
    <3>1. \/ attaching[d] = x
          \/ \E y \in DOMAIN requests : IsAttach(requests[y], d, x)
          \/ IsSettled(d, x)
      BY <2>1, <2>2 DEF Follows, Settles
    <3>2. attaching[d] = x => d # c
      BY <1>1, <2>2, PropertyAssumption DEF TypeOK
    <3>. QED
      BY <1>1, <3>1, <3>2
  <2>3. CASE x \notin attached[d]
    BY <1>1, <2>1, <2>3
  <2>. QED
    BY <2>2, <2>3
<1>. QED
  BY <1>3, <1>4 DEF Follows

\* Nothing is promised of a property that is detached.
LEMMA DetachFollows ==
    ASSUME TypeOK, Bookkeeping, Follows, NEW c \in Clients, NEW p \in Properties,
           detach_property(c, p)
    PROVE  Follows'
<1>1. /\ UNCHANGED <<t_, requests, outbox, inbox, attaching, told>>
      /\ \A d \in Clients : attached'[d] \subseteq attached[d]
      /\ \A d \in Clients : \A id \in DOMAIN calls[d] :
            /\ calls'[d][id].op = calls[d][id].op /\ calls'[d][id].prop = calls[d][id].prop
            /\ calls'[d][id].watched => calls[d][id].watched
  <2>3. UNCHANGED <<t_, requests, outbox, inbox, attaching, told>>
    BY DEF detach_property
  <2>1. /\ \A d \in Clients : /\ attached'[d] = (IF d = c THEN attached[d] \ {p} ELSE attached[d])
                              /\ DOMAIN calls'[d] = DOMAIN calls[d]
        /\ \A d \in Clients : \A id \in DOMAIN calls[d] :
              /\ calls'[d][id].op = calls[d][id].op /\ calls'[d][id].prop = calls[d][id].prop
              /\ calls'[d][id].done = calls[d][id].done
              /\ calls'[d][id].watched => calls[d][id].watched /\ (d = c => calls[d][id].prop # p)
    BY DetachCalls, Z3
  <2>2. \A d \in Clients : attached'[d] \subseteq attached[d]
    BY <2>1
  <2>. QED
    BY <2>3, <2>1, <2>2
<1>2. SUFFICES ASSUME NEW d \in Clients
               PROVE  Settles(d)' /\ SetsBehind(d)' /\ SetsAnswered(d)'
  BY DEF Follows
<1>3. Settles(d) /\ SetsBehind(d) /\ SetsAnswered(d) /\ RequestsKnown(d) /\ AnswersKnown(d)
  BY DEF Follows, Bookkeeping
<1>4. Pipe(d)' = Pipe(d) /\ Keeps(calls[d], calls'[d])
  BY <1>1 DEF Pipe, Keeps
<1>. DEFINE StillSettled(x) == Settled(Pipe(d), calls'[d], d, x, Now(t_, x), told[d][x])
<1>5. \A x : IsSettled(d, x) => StillSettled(x)
  BY <1>4, KeptSettled
<1>. HIDE DEF StillSettled
<1>6. Settles(d)'
  <2>1. SUFFICES ASSUME NEW x \in attached'[d], Announced(x)
                 PROVE  \/ attaching[d] = x
                        \/ \E y \in DOMAIN requests : IsAttach(requests[y], d, x)
                        \/ StillSettled(x)
    BY <1>1, <1>4 DEF Settles, Announced, StillSettled, IsSettled, Now
  <2>2. x \in attached[d]
    BY <1>1
  <2>. QED
    BY <1>3, <1>5, <2>1, <2>2 DEF Settles
<1>7. SetsBehind(d)'
  <2>1. SUFFICES ASSUME NEW x \in DOMAIN requests, requests[x].from = d, requests[x].op = "set",
                        calls'[d][requests[x].id].watched, requests[x].prop \in Notifying
                 PROVE  \/ \E y \in DOMAIN requests : y < x /\ IsAttach(requests[y], d, requests[x].prop)
                        \/ StillSettled(requests[x].prop)
    BY <1>1, <1>4 DEF SetsBehind, StillSettled, IsSettled, Now
  <2>2. requests[x].id \in DOMAIN calls[d]
    BY <1>3, <2>1 DEF RequestsKnown, RequestsIn
  <2>3. calls[d][requests[x].id].watched
    BY <1>1, <2>1, <2>2
  <2>. QED
    BY <1>3, <1>5, <2>1, <2>3 DEF SetsBehind
<1>8. SetsAnswered(d)'
  <2>1. SUFFICES ASSUME NEW f \in DOMAIN Pipe(d), IsAnswer(Pipe(d)[f], d),
                        IsWatchedSet(calls'[d][Pipe(d)[f].id])
                 PROVE  Preceded(Pipe(d), calls'[d], d, calls'[d][Pipe(d)[f].id].prop, f,
                                 told[d][calls'[d][Pipe(d)[f].id].prop])
    BY <1>1, <1>4 DEF SetsAnswered
  <2>2. Pipe(d)[f].id \in DOMAIN calls[d]
    BY <1>3, <2>1 DEF AnswersKnown, AnswersIn
  <2>3. /\ calls'[d][Pipe(d)[f].id].prop = calls[d][Pipe(d)[f].id].prop
        /\ IsWatchedSet(calls[d][Pipe(d)[f].id])
    BY <1>1, <2>1, <2>2 DEF IsWatchedSet
  <2>4. PICK e : e = calls[d][Pipe(d)[f].id].prop
    OBVIOUS
  <2>5. Preceded(Pipe(d), calls[d], d, e, f, told[d][e])
    BY <1>3, <2>1, <2>3, <2>4 DEF SetsAnswered
  <2>6. Preceded(Pipe(d), calls'[d], d, e, f, told[d][e])
    BY <1>4, <2>5, KeptSettled
  <2>. QED
    BY <2>3, <2>4, <2>6
<1>. QED
  BY <1>6, <1>7, <1>8

\* A change is announced, so that it is the last thing a client is told.
LEMMA SpeaksFollows ==
    ASSUME TypeOK, Bookkeeping, Follows, Speaks
    PROVE  Follows'
<1>1. /\ UNCHANGED <<requests, inbox, attached, attaching, calls, told>>
      /\ t_' \in Contents /\ Changes(t_, t_', outbox, outbox')
  BY DEF Speaks, client
<1>2. SUFFICES ASSUME NEW c \in Clients
               PROVE  Settles(c)' /\ SetsBehind(c)' /\ SetsAnswered(c)'
  BY DEF Follows
<1>3. /\ Settles(c) /\ SetsBehind(c) /\ SetsAnswered(c) /\ RequestsKnown(c) /\ WatchedAttached(c)
      /\ attached[c] \subseteq Properties
  BY DEF Follows, Bookkeeping, TypeOK
<1>4. PICK u \in Contents : u = t_'
  BY <1>1
<1>5. PICK a \in Seq(Messages) : a = inbox[c]
  BY PipeTyped
<1>6. outbox \in Seq(Messages) /\ t_ \in Contents
  BY PipeTyped DEF TypeOK, Contents
<1>7. /\ \A p \in Properties : AnnouncedIn(u, p) =>
            /\ AnnouncedIn(t_, p)
            /\ \A k, w : Settled(a \o outbox, k, c, p, Now(t_, p), w)
                            => Settled(a \o outbox', k, c, p, Now(u, p), w)
      /\ \A i \in DOMAIN (a \o outbox) :
            /\ i \in DOMAIN (a \o outbox') /\ (a \o outbox')[i] = (a \o outbox)[i]
            /\ \A k, p, w : Preceded(a \o outbox, k, c, p, i, w)
                               => Preceded(a \o outbox', k, c, p, i, w)
      /\ \A i \in DOMAIN (a \o outbox') : ~IsSignal((a \o outbox')[i]) => i \in DOMAIN (a \o outbox)
  BY <1>1, <1>4, <1>6, ChangesPipe
<1>. DEFINE r == a \o outbox'
            NowSettled(p) == Settled(r, calls[c], c, p, Now(u, p), told[c][p])
<1>8. /\ Pipe(c)' = r /\ Pipe(c) = a \o outbox
      /\ \A p : Announced(p)' <=> AnnouncedIn(u, p)
      /\ \A p : Announced(p) <=> AnnouncedIn(t_, p)
  BY <1>1, <1>4, <1>5 DEF Pipe, Announced, AnnouncedIn
<1>9. \A p \in Properties : AnnouncedIn(u, p) /\ IsSettled(c, p) => NowSettled(p)
  BY <1>7, <1>8, Zenon DEF IsSettled
<1>10. Settles(c)'
  <2>1. SUFFICES ASSUME NEW p \in attached[c], AnnouncedIn(u, p)
                 PROVE  \/ attaching[c] = p
                        \/ \E x \in DOMAIN requests : IsAttach(requests[x], c, p)
                        \/ NowSettled(p)
    BY <1>1, <1>4, <1>8 DEF Settles, IsSettled, Now
  <2>. HIDE DEF NowSettled
  <2>2. p \in Properties /\ Announced(p)
    BY <1>3, <1>7, <1>8, <2>1
  <2>. QED
    BY <1>3, <1>9, <2>1, <2>2 DEF Settles
<1>11. SetsBehind(c)'
  <2>1. SUFFICES ASSUME NEW x \in DOMAIN requests, requests[x].from = c, requests[x].op = "set",
                        calls[c][requests[x].id].watched, requests[x].prop \in Notifying
                 PROVE  \/ \E y \in DOMAIN requests : y < x /\ IsAttach(requests[y], c, requests[x].prop)
                        \/ NowSettled(requests[x].prop)
    BY <1>1, <1>4, <1>8 DEF SetsBehind, IsSettled, Now
  <2>. HIDE DEF NowSettled
  <2>2. requests[x].prop \in Properties /\ AnnouncedIn(u, requests[x].prop)
    BY <2>1, PropertyAssumption DEF AnnouncedIn
  <2>. QED
    BY <1>3, <1>9, <2>1, <2>2 DEF SetsBehind
<1>12. SetsAnswered(c)'
  <2>1. SUFFICES ASSUME NEW f \in DOMAIN r, IsAnswer(r[f], c), IsWatchedSet(calls[c][r[f].id])
                 PROVE  Preceded(r, calls[c], c, calls[c][r[f].id].prop, f,
                                 told[c][calls[c][r[f].id].prop])
    BY <1>1, <1>8 DEF SetsAnswered
  <2>2. f \in DOMAIN Pipe(c) /\ r[f] = Pipe(c)[f]
    BY <1>7, <1>8, <2>1 DEF IsAnswer
  <2>3. Preceded(Pipe(c), calls[c], c, calls[c][r[f].id].prop, f, told[c][calls[c][r[f].id].prop])
    BY <1>3, <2>1, <2>2 DEF SetsAnswered
  <2>. QED
    BY <1>7, <1>8, <2>2, <2>3
<1>. QED
  BY <1>10, <1>11, <1>12

\* A request is answered behind the change it made: the client is told of both in
\* that order, and the answer to attach() has the value of the property by then.
LEMMA RepliesFollows ==
    ASSUME TypeOK, Bookkeeping, Follows, NEW q, NEW m, Replies(q, m)
    PROVE  Follows'
<1>1. /\ UNCHANGED <<inbox, attached, attaching, calls, told>>
      /\ t_' \in Contents /\ Changes(t_, t_', outbox, q) /\ q \in Seq(Messages)
      /\ m \in Answer /\ m.to = Head(requests).from /\ m.id = Head(requests).id
      /\ m.now = Snapshot(t_') /\ outbox' = Append(q, m)
      /\ requests # <<>> /\ requests' = Tail(requests)
  BY DEF Replies, client
<1>2. SUFFICES ASSUME NEW c \in Clients
               PROVE  Settles(c)' /\ SetsBehind(c)' /\ SetsAnswered(c)'
  BY DEF Follows
<1>3. /\ Settles(c) /\ SetsBehind(c) /\ SetsAnswered(c) /\ RequestsKnown(c) /\ WatchedAttached(c)
      /\ attached[c] \subseteq Properties
  BY DEF Follows, Bookkeeping, TypeOK
<1>4. PICK u \in Contents : u = t_'
  BY <1>1
<1>5. PICK a \in Seq(Messages) : a = inbox[c]
  BY PipeTyped
<1>6. outbox \in Seq(Messages) /\ t_ \in Contents
  BY PipeTyped DEF TypeOK, Contents
<1>. DEFINE s == a \o q
            r == a \o Append(q, m)
            Keeping(p) == Settled(s, calls[c], c, p, Now(u, p), told[c][p])
            NowSettled(p) == Settled(r, calls[c], c, p, Now(u, p), told[c][p])
<1>7. /\ \A p \in Properties : AnnouncedIn(u, p) =>
            /\ AnnouncedIn(t_, p)
            /\ \A k, w : Settled(a \o outbox, k, c, p, Now(t_, p), w)
                            => Settled(s, k, c, p, Now(u, p), w)
      /\ \A i \in DOMAIN (a \o outbox) :
            /\ i \in DOMAIN s /\ s[i] = (a \o outbox)[i]
            /\ \A k, p, w : Preceded(a \o outbox, k, c, p, i, w) => Preceded(s, k, c, p, i, w)
      /\ \A i \in DOMAIN s : ~IsSignal(s[i]) => i \in DOMAIN (a \o outbox)
  BY <1>1, <1>4, <1>6, ChangesPipe
<1>8. /\ s \in Seq(Messages) /\ m \in Messages /\ ~IsSignal(m) /\ r = Append(s, m)
      /\ \A p \in Properties : \A k, w : Settled(s, k, c, p, Now(u, p), w) =>
            Settled(r, k, c, p, Now(u, p), w) /\ Preceded(r, k, c, p, Len(s) + 1, w)
      /\ \A i \in DOMAIN s : \A k, p, w : Preceded(s, k, c, p, i, w) => Preceded(r, k, c, p, i, w)
  BY <1>1, <1>4, AnswerPipe
<1>9. /\ Pipe(c)' = r /\ Pipe(c) = a \o outbox
      /\ \A p : Announced(p)' <=> AnnouncedIn(u, p)
      /\ \A p : Announced(p) <=> AnnouncedIn(t_, p)
  BY <1>1, <1>4, <1>5 DEF Pipe, Announced, AnnouncedIn
<1>10. ASSUME NEW p \in Properties, AnnouncedIn(u, p), IsSettled(c, p)
       PROVE  /\ Keeping(p) /\ NowSettled(p)
              /\ Preceded(r, calls[c], c, p, Len(s) + 1, told[c][p])
  <2>1. Settled(a \o outbox, calls[c], c, p, Now(t_, p), told[c][p])
    BY <1>9, <1>10 DEF IsSettled
  <2>2. Keeping(p)
    BY <1>7, <1>10, <2>1
  <2>. HIDE DEF s, r
  <2>. QED
    BY <1>8, <2>2
<1>11. /\ Head(requests) = requests[1] /\ 1 \in DOMAIN requests
       /\ requests \in Seq(Request) /\ DOMAIN requests = 1..Len(requests) /\ Len(requests) \in Nat
       /\ Tail(requests) = RemoveAt(requests, 1)
       /\ DOMAIN RemoveAt(requests, 1) = 1..(Len(requests) - 1)
       /\ \A k \in 1..(Len(requests) - 1) :
             RemoveAt(requests, 1)[k] = IF k < 1 THEN requests[k] ELSE requests[k + 1]
  <2>1. requests \in Seq(Request) /\ Len(requests) \in Nat /\ DOMAIN requests = 1..Len(requests)
    BY LenProperties DEF TypeOK
  <2>2. Head(requests) = requests[1] /\ 1 \in DOMAIN requests /\ Tail(requests) = RemoveAt(requests, 1)
    BY <1>1, <2>1, TailRemoves
  <2>. QED
    BY <2>1, <2>2, Removed
<1>12. \A x \in DOMAIN requests' : x + 1 \in DOMAIN requests /\ requests'[x] = requests[x + 1] /\ x \in Nat
  BY <1>1, <1>11
<1>13. \A x \in DOMAIN requests \ {1} : x - 1 \in DOMAIN requests' /\ requests'[x - 1] = requests[x]
  BY <1>1, <1>11
<1>14. ASSUME NEW p \in Properties, IsAttach(requests[1], c, p)
       PROVE  NowSettled(p)
  <2>1. calls[c][m.id].op = "attach" /\ calls[c][m.id].prop = p /\ m.to = c
    <3>1. PICK h : h = requests[1]
      OBVIOUS
    <3>2. m.to = h.from /\ m.id = h.id /\ h.from = c /\ h.op = "attach" /\ h.prop = p
      BY <1>1, <1>11, <1>14, <3>1 DEF IsAttach
    <3>3. calls[c][h.id].op = h.op /\ calls[c][h.id].prop = h.prop
      BY <1>3, <1>11, <3>1, <3>2 DEF RequestsKnown, RequestsIn
    <3>. QED
      BY <3>2, <3>3
  <2>2. Lasting(calls[c], c, m, p)
    BY <1>8, <2>1 DEF Lasting
  <2>3. Carried(m, p) = Now(u, p)
    BY <1>1, <1>4, <1>8 DEF Carried, Snapshot
  <2>. HIDE DEF s, r
  <2>. QED
    BY <1>8, <2>2, <2>3, SettledByLast
<1>. HIDE DEF Keeping, s
<1>15. Settles(c)'
  <2>1. SUFFICES ASSUME NEW p \in attached[c], AnnouncedIn(u, p)
                 PROVE  \/ attaching[c] = p
                        \/ \E x \in DOMAIN requests' : IsAttach(requests'[x], c, p)
                        \/ NowSettled(p)
    BY <1>1, <1>4, <1>9 DEF Settles, IsSettled, Now
  <2>. HIDE DEF NowSettled
  <2>2. p \in Properties /\ Announced(p)
    BY <1>3, <1>7, <1>9, <2>1
  <2>3. ASSUME NEW x \in DOMAIN requests, IsAttach(requests[x], c, p)
        PROVE  NowSettled(p) \/ \E y \in DOMAIN requests' : IsAttach(requests'[y], c, p)
    BY <1>13, <1>14, <2>2, <2>3
  <2>. QED
    BY <1>3, <1>10, <2>1, <2>2, <2>3 DEF Settles
<1>16. SetsBehind(c)'
  <2>1. SUFFICES ASSUME NEW x \in DOMAIN requests', requests'[x].from = c, requests'[x].op = "set",
                        calls[c][requests'[x].id].watched, requests'[x].prop \in Notifying
                 PROVE  \/ \E y \in DOMAIN requests' : y < x /\ IsAttach(requests'[y], c, requests'[x].prop)
                        \/ NowSettled(requests'[x].prop)
    BY <1>1, <1>4, <1>9 DEF SetsBehind, IsSettled, Now
  <2>. HIDE DEF NowSettled
  <2>2. PICK z \in DOMAIN requests : z = x + 1 /\ requests'[x] = requests[z]
    BY <1>12
  <2>3. PICK p : p = requests[z].prop
    OBVIOUS
  <2>4. p \in Properties /\ AnnouncedIn(u, p)
    BY <2>1, <2>2, <2>3, PropertyAssumption DEF AnnouncedIn
  <2>5. \/ \E y \in DOMAIN requests : y < z /\ IsAttach(requests[y], c, p)
        \/ IsSettled(c, p)
    BY <1>3, <2>1, <2>2, <2>3 DEF SetsBehind
  <2>6. ASSUME NEW y \in DOMAIN requests, y < z, IsAttach(requests[y], c, p)
        PROVE  NowSettled(p) \/ \E l \in DOMAIN requests' : l < x /\ IsAttach(requests'[l], c, p)
    <3>1. y - 1 < x
      BY <1>11, <1>12, <2>2, <2>6
    <3>. QED
      BY <1>13, <1>14, <2>4, <2>6, <3>1
  <2>. QED
    BY <1>10, <2>2, <2>3, <2>4, <2>5, <2>6
<1>17. SetsAnswered(c)'
  <2>1. SUFFICES ASSUME NEW f \in DOMAIN r, IsAnswer(r[f], c), IsWatchedSet(calls[c][r[f].id])
                 PROVE  Preceded(r, calls[c], c, calls[c][r[f].id].prop, f,
                                 told[c][calls[c][r[f].id].prop])
    BY <1>1, <1>9 DEF SetsAnswered
  <2>. HIDE DEF r
  <2>2. /\ Len(s) \in Nat /\ DOMAIN s = 1..Len(s) /\ DOMAIN r = 1..(Len(s) + 1)
        /\ \A i \in 1..Len(s) : r[i] = s[i]
        /\ r[Len(s) + 1] = m
    BY <1>8, Appended
  <2>3. CASE f \in DOMAIN s
    <3>1. r[f] = s[f]
      BY <2>2, <2>3
    <3>2. f \in DOMAIN Pipe(c) /\ r[f] = Pipe(c)[f]
      BY <1>7, <1>9, <2>1, <2>3, <3>1 DEF IsAnswer
    <3>3. PICK p : p = calls[c][r[f].id].prop
      OBVIOUS
    <3>4. Preceded(Pipe(c), calls[c], c, p, f, told[c][p])
      BY <1>3, <2>1, <3>2, <3>3 DEF SetsAnswered
    <3>5. Preceded(s, calls[c], c, p, f, told[c][p])
      BY <1>7, <1>9, <3>2, <3>4
    <3>. QED
      BY <1>8, <2>3, <3>3, <3>5
  <2>4. CASE f = Len(s) + 1
    <3>1. r[f] = m /\ m.to = c /\ requests[1].from = c /\ requests[1].id = m.id
      BY <1>1, <1>11, <2>1, <2>2, <2>4 DEF IsAnswer
    <3>2. /\ requests[1].op = "set" /\ calls[c][m.id].prop = requests[1].prop
          /\ calls[c][requests[1].id].watched /\ requests[1].prop \in Notifying
      BY <1>3, <1>11, <2>1, <3>1 DEF RequestsKnown, RequestsIn, IsWatchedSet
    <3>3. IsSettled(c, requests[1].prop)
      <4>1. \/ \E y \in DOMAIN requests : y < 1 /\ IsAttach(requests[y], c, requests[1].prop)
            \/ IsSettled(c, requests[1].prop)
        BY <1>3, <1>11, <3>1, <3>2 DEF SetsBehind
      <4>2. \A y \in DOMAIN requests : ~(y < 1)
        BY <1>11
      <4>. QED
        BY <4>1, <4>2
    <3>4. PICK p \in Properties : p = requests[1].prop /\ AnnouncedIn(u, p)
      BY <3>2, PropertyAssumption DEF AnnouncedIn
    <3>5. Preceded(r, calls[c], c, p, Len(s) + 1, told[c][p])
      BY <1>10, <3>3, <3>4
    <3>. QED
      BY <2>4, <3>1, <3>2, <3>4, <3>5
  <2>. QED
    BY <2>2, <2>3, <2>4
<1>. QED
  BY <1>15, <1>16, <1>17
-----------------------------------------------------------------------------
(***************************************************************************)
(* The inductive invariant, and what follows from it                       *)
(***************************************************************************)
IInv == TypeOK /\ Bookkeeping /\ PipesOrdered /\ Follows

\* What any step does, as the lemmas above tell the steps apart.
LEMMA StepKinds ==
    ASSUME TypeOK, Bookkeeping, [Next]_vars
    PROVE  \/ Speaks \/ \E q, m : Replies(q, m)
           \/ Route
           \/ \E c \in Clients, p \in Properties : attach_property(c, p) \/ detach_property(c, p)
           \/ \E c \in Clients : \E op, p, v, waits : Sends(c, op, p, v, waits)
           \/ \E c \in Clients : Dispatch(c) \/ BlockingReturns(c)
           \/ UNCHANGED vars
<1>1. CASE \/ \E p \in Properties, v \in Values : Assign(p, v) \/ Notify(p, v) \/ Invalidate(p, v)
           \/ Handle
  BY <1>1, ServerSteps
<1>2. ASSUME NEW c \in Clients,
             (\E p \in Properties : get_attached(c, p)) \/ (\E waits \in BOOLEAN : Ask(c, waits))
      PROVE  \E op, p, v, waits : Sends(c, op, p, v, waits)
  BY <1>2, SendSteps
<1>. QED
  BY <1>1, <1>2 DEF Next

\* In the beginning nothing is under way and nobody attached.
LEMMA InitIInv == Init => IInv
<1>. SUFFICES ASSUME Init
              PROVE  IInv
  OBVIOUS
<1>1. TypeOK
  <2>1. <<>> \in Seq(Request) /\ <<>> \in Seq(Messages) /\ <<>> \in Seq(Call)
    BY EmptySeq
  <2>2. Default \in Values /\ OnRead \subseteq Properties /\ MaxCalls \in Nat /\ 0 \in 0..MaxCalls
    BY PropertyAssumption
  <2>3. t_ \in [Properties -> [cb : BOOLEAN, val : Values, ver : Nat]]
    <3>1. ASSUME NEW p \in Properties
          PROVE  [cb |-> p \in OnRead, val |-> Default, ver |-> 0] \in [cb : BOOLEAN, val : Values, ver : Nat]
      <4>1. PICK w \in BOOLEAN : w = (p \in OnRead)
        <5>1. (p \in OnRead) \in BOOLEAN
          BY SMT
        <5>. QED
          BY <5>1, Zenon
      <4>2. [cb |-> w, val |-> Default, ver |-> 0] \in [cb : BOOLEAN, val : Values, ver : Nat]
        BY <2>2
      <4>. QED
        BY <4>1, <4>2, Zenon
    <3>. QED
      BY <3>1, Zenon DEF Init
  <2>4. told \in [Clients -> [Properties ->
                    [what : {"nothing", "value", "invalid", "failed"}, now : Version]]]
    BY <2>2 DEF Init, Version
  <2>. QED
    BY <2>1, <2>2, <2>3, <2>4 DEF Init, TypeOK, Messages
<1>2. /\ requests = <<>> /\ DOMAIN requests = {}
      /\ \A c \in Clients : inbox[c] = <<>> /\ Pipe(c) = <<>> /\ DOMAIN Pipe(c) = {}
                            /\ DOMAIN calls[c] = {} /\ blocked[c] = 0 /\ attached[c] = {}
  <2>1. DOMAIN <<>> = {} /\ <<>> \o <<>> = <<>>
    BY EmptySeq, ConcatEmptySeq, LenProperties
  <2>. QED
    BY <2>1 DEF Init, Pipe
<1>3. Bookkeeping
  BY <1>2 DEF Bookkeeping, RequestsKnown, RequestsIn, AnswersKnown, AnswersIn, OwnAnswers,
              BlockedAsks, WatchedAttached
<1>4. PipesOrdered
  <2>1. \A c \in Clients, p \in Properties : told[c][p].now.ver = 0 /\ t_[p].ver = 0
    BY DEF Init
  <2>. QED
    BY <1>2, <2>1 DEF PipesOrdered, Ordered
<1>5. Follows
  BY <1>2 DEF Follows, Settles, SetsBehind, SetsAnswered
<1>. QED
  BY <1>1, <1>3, <1>4, <1>5 DEF IInv

\* Every step keeps the invariant.
LEMMA NextIInv == IInv /\ [Next]_vars => IInv'
<1>. SUFFICES ASSUME TypeOK, Bookkeeping, PipesOrdered, Follows, [Next]_vars
              PROVE  IInv'
  BY DEF IInv
<1>1. CASE Speaks \/ \E q, m : Replies(q, m)
  <2>1. Follows'
    BY <1>1, SpeaksFollows, RepliesFollows
  <2>. QED
    BY <1>1, <2>1, ServerTypes, ServerBooks, ServerOrdered DEF IInv
<1>2. CASE Route
  BY <1>2, RouteTypes, RouteBooks, RouteOrdered, RouteFollows DEF IInv
<1>3. ASSUME NEW c \in Clients, NEW i, Takes(c, i)
      PROVE  IInv'
  BY <1>3, TakesTypes, TakesBooks, TakesOrdered, TakesFollows DEF IInv
<1>4. ASSUME UNCHANGED <<t_, outbox, inbox, told, overtaken>>
      PROVE  PipesOrdered'
  BY <1>4 DEF PipesOrdered, Pipe
<1>5. ASSUME NEW c \in Clients, NEW p \in Properties, attach_property(c, p)
      PROVE  IInv'
  <2>1. PipesOrdered'
    BY <1>4, <1>5 DEF attach_property
  <2>. QED
    BY <1>5, <2>1, AttachTypes, AttachBooks, AttachFollows DEF IInv
<1>6. ASSUME NEW c \in Clients, NEW p \in Properties, detach_property(c, p)
      PROVE  IInv'
  <2>1. PipesOrdered'
    BY <1>4, <1>6 DEF detach_property
  <2>. QED
    BY <1>6, <2>1, DetachTypes, DetachBooks, DetachFollows DEF IInv
<1>7. ASSUME NEW c \in Clients, NEW op, NEW p, NEW v, NEW waits, Sends(c, op, p, v, waits)
      PROVE  IInv'
  <2>1. PipesOrdered'
    BY <1>4, <1>7 DEF Sends, Send
  <2>2. TypeOK'
    BY <1>7, SendTypes DEF Sends
  <2>. QED
    BY <1>7, <2>1, <2>2, SendBooks, SendFollows DEF IInv
<1>8. CASE UNCHANGED vars
  BY <1>8 DEF vars, IInv, TypeOK, Bookkeeping, RequestsKnown, AnswersKnown, OwnAnswers, BlockedAsks,
              WatchedAttached, PipesOrdered, Follows, Settles, SetsBehind, SetsAnswered, IsSettled,
              Announced, Now, Pipe
<1>9. ASSUME NEW c \in Clients, Dispatch(c) \/ BlockingReturns(c)
      PROVE  IInv'
  BY <1>3, <1>9, DispatchTakes, BlockingTakes
<1>. QED
  BY <1>1, <1>2, <1>5, <1>6, <1>7, <1>8, <1>9, StepKinds

\* The invariant holds of every state that is reached.
THEOREM Invariance == Spec => []IInv
<1>. QED
  BY InitIInv, NextIInv, PTL DEF Spec

\* The variables have their types.
THEOREM TypeCorrect == Spec => []TypeOK
<1>1. IInv => TypeOK
  BY DEF IInv
<1>. QED
  BY <1>1, Invariance, PTL

\* A client that attached and has nothing left to receive was told the value the
\* property has, or that it cannot know: nothing is lost between the match rule, the
\* Get of attach(), the assignments, the Sets of all clients and re-attaching.
THEOREM ClientsConverge == Spec => []Converges
<1>1. IInv => Converges
  <2>1. SUFFICES ASSUME IInv, NEW c \in Clients, NEW p \in attached[c], Announced(p), Quiet(c, p)
                 PROVE  UpToDate(c, p)
    BY DEF Converges
  <2>2. /\ TypeOK /\ Settles(c) /\ RequestsKnown(c) /\ AnswersKnown(c)
        /\ p \in Properties
    BY <2>1 DEF IInv, Follows, Bookkeeping, TypeOK
  <2>3. attaching[c] # p
    BY <2>1 DEF Quiet
  <2>4. \A x \in DOMAIN requests : ~IsAttach(requests[x], c, p)
    BY <2>1, <2>2 DEF RequestsKnown, RequestsIn, IsAttach, Quiet
  <2>5. IsSettled(c, p)
    BY <2>1, <2>2, <2>3, <2>4 DEF Settles
  <2>6. ASSUME NEW j \in DOMAIN Pipe(c)
        PROVE  ~Lasting(calls[c], c, Pipe(c)[j], p)
    <3>1. Pipe(c)[j] \in Range(outbox) \cup Range(inbox[c])
      <4>1. PICK a \in Seq(Messages), b \in Seq(Messages) : a = inbox[c] /\ b = outbox
        BY <2>2, PipeTyped
      <4>2. /\ DOMAIN a = 1..Len(a) /\ DOMAIN b = 1..Len(b) /\ Len(a) \in Nat /\ Len(b) \in Nat
            /\ DOMAIN (a \o b) = 1..(Len(a) + Len(b))
            /\ \A i \in 1..(Len(a) + Len(b)) : (a \o b)[i] = IF i <= Len(a) THEN a[i] ELSE b[i - Len(a)]
        BY ConcatProperties, LenProperties
      <4>3. j \in 1..(Len(a) + Len(b)) /\ Pipe(c)[j] = (a \o b)[j]
        BY <2>6, <4>1, <4>2 DEF Pipe
      <4>4. \/ j \in DOMAIN a /\ Pipe(c)[j] = a[j]
            \/ j - Len(a) \in DOMAIN b /\ Pipe(c)[j] = b[j - Len(a)]
        BY <4>2, <4>3
      <4>. QED
        BY <4>1, <4>4 DEF Range
    <3>2. IsSignal(Pipe(c)[j]) => Pipe(c)[j].prop # p
      BY <2>1, <3>1 DEF Quiet
    <3>3. IsAnswer(Pipe(c)[j], c) =>
             Pipe(c)[j].id \in DOMAIN calls[c] /\ ~calls[c][Pipe(c)[j].id].done
      BY <2>2 DEF AnswersKnown, AnswersIn
    <3>. QED
      BY <2>1, <3>2, <3>3 DEF Lasting, IsAnswer, Quiet
  <2>7. told[c][p].what # "nothing" /\ told[c][p].now = Now(t_, p)
    BY <2>5, <2>6 DEF IsSettled, Settled
  <2>8. told[c][p] \in [what : {"nothing", "value", "invalid", "failed"}, now : Version]
    BY <2>2 DEF TypeOK
  <2>. QED
    BY <2>7, <2>8 DEF UpToDate
<1>. QED
  BY <1>1, Invariance, PTL

\* The callback of a property is never taken back to an older value, except by
\* messages that a blocking GetAll overtook.
THEOREM ToldForward == Spec => ToldInOrder
<1>. DEFINE Forward(c, p) == overtaken[c] = 0 => told'[c][p].now.ver >= told[c][p].now.ver
<1>1. ASSUME IInv, [Next]_vars, NEW c \in Clients, NEW p \in Properties
      PROVE  Forward(c, p)
  <2>1. TypeOK /\ Bookkeeping /\ Ordered(Pipe(c), t_, told[c], overtaken[c])
    BY <1>1 DEF IInv, PipesOrdered
  <2>2. told[c][p].now.ver \in Nat
    BY <2>1 DEF TypeOK, Version
  <2>3. CASE told'[c] = told[c]
    BY <2>2, <2>3
  <2>4. ASSUME NEW d \in Clients, NEW i, Takes(d, i)
        PROVE  Forward(c, p)
    <3>1. CASE d # c
      BY <2>3, <2>4, <3>1 DEF Takes
    <3>2. CASE d = c /\ ~Called(c, inbox[c][i], p)
      BY <2>2, <2>4, <3>2 DEF Takes
    <3>3. CASE d = c /\ Called(c, inbox[c][i], p)
      <4>1. i \in DOMAIN Pipe(c) /\ Pipe(c)[i] = inbox[c][i]
        BY <2>1, <2>4, <3>3, TakesPipes
      <4>2. About(Pipe(c)[i], p)
        BY <3>3, <4>1 DEF Called, Telling, Lasting, About, IsAnswer
      <4>3. told'[c][p].now = Carried(Pipe(c)[i], p)
        BY <2>4, <3>3, <4>1 DEF Takes
      <4>4. i > 0 /\ Pipe(c)[i] \in Messages
        BY <2>1, <4>1, PipeTyped
      <4>5. overtaken[c] = 0 => told[c][p].now.ver <= Carried(Pipe(c)[i], p).ver
        BY <2>1, <4>1, <4>2, <4>4 DEF Ordered
      <4>6. Carried(Pipe(c)[i], p).ver \in Nat
        BY <4>4, CarriedType
      <4>. QED
        BY <2>2, <4>3, <4>5, <4>6
    <3>. QED
      BY <3>1, <3>2, <3>3
  <2>5. ASSUME NEW d \in Clients, Dispatch(d) \/ BlockingReturns(d)
        PROVE  Forward(c, p)
    BY <2>1, <2>4, <2>5, DispatchTakes, BlockingTakes
  <2>6. CASE Speaks \/ \E q, m : Replies(q, m)
    BY <2>3, <2>6 DEF Speaks, Replies, client
  <2>7. CASE Route
    BY <2>3, <2>7 DEF Route, client
  <2>8. ASSUME NEW d \in Clients, NEW x \in Properties, attach_property(d, x) \/ detach_property(d, x)
        PROVE  Forward(c, p)
    BY <2>3, <2>8 DEF attach_property, detach_property
  <2>9. ASSUME NEW d \in Clients, NEW op, NEW x, NEW v, NEW waits, Sends(d, op, x, v, waits)
        PROVE  Forward(c, p)
    BY <2>3, <2>9 DEF Sends, Send
  <2>10. CASE UNCHANGED vars
    BY <2>3, <2>10 DEF vars
  <2>. QED
    BY <1>1, <2>1, <2>5, <2>6, <2>7, <2>8, <2>9, <2>10, StepKinds
<1>2. IInv /\ [Next]_vars => \A c \in Clients, p \in Properties :
         overtaken[c] = 0 => told'[c][p].now.ver >= told[c][p].now.ver
  BY <1>1
<1>. QED
  BY <1>2, Invariance, PTL DEF Spec, ToldInOrder

\* When the callback of set_async() runs, the callback of the property that was
\* attached when the Set was sent has been told of the change before, as
\* tests/properties.cpp counts on.
THEOREM ToldBeforehand == Spec => ToldBeforeSetCallback
<1>1. ASSUME IInv, [Next]_vars, NEW c \in Clients, NEW i \in DOMAIN calls[c],
             blocked[c] = 0, ~calls[c][i].done, calls'[c][i].done, IsWatchedSet(calls[c][i])
      PROVE  told[c][calls[c][i].prop].now.ver >= Head(inbox[c]).now[calls[c][i].prop].ver
  <2>1. TypeOK /\ Bookkeeping /\ SetsAnswered(c)
    BY <1>1 DEF IInv, Follows
  <2>2. ASSUME NEW d \in Clients, NEW k, Takes(d, k)
        PROVE  d = c /\ IsAnswer(inbox[c][k], c) /\ inbox[c][k].id = i
    BY <1>1, <2>1, <2>2, TakesCalls
  <2>3. calls'[c] # calls[c]
    BY <1>1
  <2>4. Dispatch(c)
    <3>1. ~(Speaks \/ \E q, m : Replies(q, m))
      BY <2>3 DEF Speaks, Replies, client
    <3>2. ~Route /\ ~UNCHANGED vars
      BY <2>3 DEF Route, client, vars
    <3>3. ASSUME NEW d \in Clients, NEW x \in Properties
          PROVE  ~attach_property(d, x)
      BY <2>3 DEF attach_property
    <3>4. ASSUME NEW d \in Clients, NEW x \in Properties, detach_property(d, x)
          PROVE  FALSE
      <4>1. calls'[c][i].done = calls[c][i].done
        BY <1>1, <2>1, <3>4, DetachCalls
      <4>. QED
        BY <1>1, <4>1
    <3>5. ASSUME NEW d \in Clients, NEW op, NEW x, NEW v, NEW waits, Sends(d, op, x, v, waits)
          PROVE  FALSE
      <4>1. /\ \A id \in DOMAIN calls[d] : calls'[d][id] = calls[d][id]
            /\ \A e \in Clients \ {d} : calls'[e] = calls[e]
        BY <2>1, <3>5, SendShape
      <4>2. calls'[c][i] = calls[c][i]
        BY <1>1, <4>1
      <4>. QED
        BY <1>1, <4>2
    <3>6. ASSUME NEW d \in Clients, BlockingReturns(d)
          PROVE  FALSE
      <4>1. d = c
        BY <2>1, <2>2, <3>6, BlockingTakes
      <4>. QED
        BY <1>1, <3>6, <4>1 DEF BlockingReturns
    <3>7. ASSUME NEW d \in Clients, Dispatch(d)
          PROVE  d = c
      BY <2>1, <2>2, <3>7, DispatchTakes
    <3>. QED
      BY <1>1, <2>1, <3>1, <3>2, <3>3, <3>4, <3>5, <3>6, <3>7, StepKinds
  <2>5. Takes(c, 1)
    BY <2>1, <2>4, DispatchTakes
  <2>6. IsAnswer(inbox[c][1], c) /\ inbox[c][1].id = i
    BY <2>2, <2>5
  <2>7. 1 \in DOMAIN Pipe(c) /\ Pipe(c)[1] = inbox[c][1] /\ DOMAIN Pipe(c) = 1..Len(Pipe(c))
    BY <2>1, <2>5, TakesPipes, PipeTyped
  <2>8. Head(inbox[c]) = inbox[c][1]
    <3>1. inbox[c] \in Seq(Messages) /\ inbox[c] # <<>>
      BY <2>1, <2>4, PipeTyped DEF Dispatch
    <3>. QED
      BY <3>1, TailRemoves
  <2>9. PICK p : p = calls[c][i].prop
    OBVIOUS
  <2>10. Preceded(Pipe(c), calls[c], c, p, 1, told[c][p])
    BY <1>1, <2>1, <2>6, <2>7, <2>9 DEF SetsAnswered
  <2>11. \A j \in DOMAIN Pipe(c) : ~(j < 1)
    BY <2>7
  <2>12. told[c][p].now.ver >= Carried(Pipe(c)[1], p).ver
    BY <2>10, <2>11 DEF Preceded
  <2>. QED
    BY <2>6, <2>7, <2>8, <2>9, <2>12 DEF Carried, IsAnswer
<1>2. IInv /\ [Next]_vars => \A c \in Clients : \A i \in DOMAIN calls[c] :
         LET call == calls[c][i]
         IN /\ blocked[c] = 0 /\ ~call.done /\ calls'[c][i].done
            /\ call.op = "set" /\ call.watched /\ call.prop \in Notifying
            => told[c][call.prop].now.ver >= Head(inbox[c]).now[call.prop].ver
  BY <1>1 DEF IsWatchedSet
<1>. QED
  BY <1>2, Invariance, PTL DEF Spec, ToldBeforeSetCallback
=============================================================================
