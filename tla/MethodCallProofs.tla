--------------------------- MODULE MethodCallProofs ---------------------------
(***************************************************************************)
(* Proofs about MethodCall for every set of calls and every liberty: a     *)
(* call ends once, and a timeout of its own serves one request at most.    *)
(***************************************************************************)
EXTENDS MethodCall, SequenceTheorems, TLAPS

-----------------------------------------------------------------------------
(***************************************************************************)
(* The inductive invariant                                                 *)
(***************************************************************************)

\* A call that has not ended has given its caller nothing yet.
NothingYet == \A c \in Calls : state[c] \in {"idle", "pending"} => result[c] = <<>>

\* Only a call that expects a reply is pending.
PendingReplies == \A c \in Calls : state[c] = "pending" => mode[c] # "oneway"

\* The thread waits for a call that is pending: nobody ends it meanwhile.
WaitsForPending == blocked # NoCall => state[blocked] = "pending"

\* The arguments of a call are evaluated before it is made.
AskingIdle == asking # NoCall => state[asking] = "idle"

\* m[timeout = t] was evaluated for this call; it never is again.
Spent(c) == c = asking \/ state[c] # "idle"

\* A timeout that is in the thread's variable or was sent is spent, and it is not
\* in both places.
TimeoutsSpent ==
    /\ request_specific_timeout # NoCall => Spent(request_specific_timeout)
    /\ \A c \in Calls : timeout[c] # NoCall =>
          Spent(timeout[c]) /\ timeout[c] # request_specific_timeout

IInv == /\ TypeOK /\ NothingYet /\ PendingReplies /\ WaitsForPending /\ AskingIdle
        /\ TimeoutsSpent /\ TimeoutUsedOnce
-----------------------------------------------------------------------------
(***************************************************************************)
(* The queue                                                               *)
(***************************************************************************)

\* The message the event loop takes is one, and so are those it leaves.
LEMMA TakeHead ==
    ASSUME TypeOK, queue # <<>>
    PROVE  Head(queue) \in Messages /\ Tail(queue) \in Seq(Messages)
BY HeadTailProperties DEF TypeOK

\* A message taken out of the middle of the queue.
LEMMA TakeOut ==
    ASSUME TypeOK, NEW i \in 1..Len(queue)
    PROVE  /\ queue[i] \in Messages
           /\ SubSeq(queue, 1, i - 1) \o SubSeq(queue, i + 1, Len(queue)) \in Seq(Messages)
<1>1. Len(queue) \in Nat /\ \A j \in 1..Len(queue) : queue[j] \in Messages
  BY ElementOfSeq, LenProperties DEF TypeOK
<1>2. SubSeq(queue, 1, i - 1) \in Seq(Messages)
  BY <1>1, SubSeqProperties
<1>3. SubSeq(queue, i + 1, Len(queue)) \in Seq(Messages)
  BY <1>1, SubSeqProperties
<1>. QED
  BY <1>1, <1>2, <1>3, ConcatProperties

\* A message that is queued keeps the type of the queue.
LEMMA Enqueue ==
    ASSUME TypeOK, NEW m \in Messages, queue' = Append(queue, m)
    PROVE  queue' \in Seq(Messages)
BY AppendProperties DEF TypeOK
-----------------------------------------------------------------------------
(***************************************************************************)
(* What the actions preserve                                               *)
(***************************************************************************)

\* In the beginning no call is made.
LEMMA InitIInv == Init => IInv
<1>1. <<>> \in Seq(Messages) /\ <<>> \in Seq(Result)
  BY EmptySeq
<1>2. Init => TypeOK
  BY <1>1 DEF Init, TypeOK, Modes, States
<1>. QED
  BY <1>2, CallAssumption
     DEF Init, IInv, NothingYet, PendingReplies, WaitsForPending, AskingIdle, TimeoutsSpent,
         TimeoutUsedOnce

\* m[timeout = t]: the timeout of a call that was not made, hence not spent.
LEMMA AskStep ==
    ASSUME IInv, NEW c \in Calls, Ask(c)
    PROVE  IInv'
<1>. USE DEF IInv
<1>1. /\ blocked = NoCall /\ asking = NoCall /\ state[c] = "idle"
      /\ asking' = c /\ asked' = asked \cup {c} /\ request_specific_timeout' = c
      /\ UNCHANGED <<mode, state, result, armed, wire, queue, blocked, timeout>>
  BY DEF Ask
<1>2. TypeOK'
  BY <1>1 DEF TypeOK
<1>3. NothingYet' /\ PendingReplies' /\ WaitsForPending' /\ AskingIdle' /\ TimeoutUsedOnce'
  BY <1>1 DEF NothingYet, PendingReplies, WaitsForPending, AskingIdle, TimeoutUsedOnce
<1>4. ~Spent(c)
  BY <1>1, CallAssumption DEF Spent
<1>5. TimeoutsSpent'
  BY <1>1, <1>4 DEF TimeoutsSpent, Spent
<1>. QED
  BY <1>2, <1>3, <1>5

\* An exception leaves the arguments: the call is not made, and the timeout set for
\* it stays in the variable.
LEMMA ArgumentsThrowStep ==
    ASSUME IInv, ArgumentsThrow
    PROVE  IInv'
<1>. USE DEF IInv
<1>0. PICK a : a = asking
  OBVIOUS
<1>1. /\ blocked = NoCall /\ a \in Calls /\ asking' = NoCall
      /\ state' = [state EXCEPT ![a] = "abandoned"]
      /\ asked' = asked \ {a}
      /\ UNCHANGED <<mode, result, armed, wire, queue, blocked,
                     request_specific_timeout, timeout>>
  BY <1>0 DEF ArgumentsThrow, TypeOK
<1>2. TypeOK'
  BY <1>1 DEF TypeOK, States
<1>3. state'[a] = "abandoned" /\ \A d \in Calls \ {a} : state'[d] = state[d]
  BY <1>1 DEF TypeOK
<1>4. NothingYet' /\ PendingReplies'
  BY <1>1, <1>3 DEF NothingYet, PendingReplies
<1>5. WaitsForPending' /\ AskingIdle' /\ TimeoutUsedOnce'
  BY <1>1 DEF WaitsForPending, AskingIdle, TimeoutUsedOnce
<1>6. \A d \in Calls : Spent(d) => Spent(d)'
  BY <1>0, <1>1, <1>3 DEF Spent
<1>7. TimeoutsSpent'
  BY <1>1, <1>6 DEF TimeoutsSpent, TypeOK
<1>. QED
  BY <1>2, <1>4, <1>5, <1>7

\* The request leaves with the timeout that is in the thread's variable: it is no
\* other request's, and the variable is empty afterwards.
LEMMA SendStep ==
    ASSUME IInv, NEW c \in Calls, NEW m \in {"async", "blocking"}, MayCall(c),
           SendWithReply(c, m), blocked' \in {NoCall, c}
    PROVE  IInv'
<1>. USE DEF IInv
<1>0. PICK t : t = request_specific_timeout
  OBVIOUS
<1>1. /\ blocked = NoCall /\ state[c] = "idle"
      /\ mode' = [mode EXCEPT ![c] = m]
      /\ state' = [state EXCEPT ![c] = "pending"]
      /\ armed' = [armed EXCEPT ![c] = TRUE]
      /\ wire' = wire \cup {c}
      /\ timeout' = [timeout EXCEPT ![c] = t]
      /\ request_specific_timeout' = NoCall
      /\ asking' = IF asking = c THEN NoCall ELSE asking
      /\ UNCHANGED <<result, queue, asked>>
  BY <1>0 DEF MayCall, SendWithReply
<1>2. t \in Calls \cup {NoCall}
  BY <1>0 DEF TypeOK
<1>3. TypeOK'
  BY <1>1, <1>2 DEF TypeOK, Modes, States
<1>4. /\ state'[c] = "pending" /\ \A d \in Calls \ {c} : state'[d] = state[d]
      /\ mode'[c] = m /\ \A d \in Calls \ {c} : mode'[d] = mode[d]
      /\ timeout'[c] = t /\ \A d \in Calls \ {c} : timeout'[d] = timeout[d]
  BY <1>1 DEF TypeOK
<1>5. NothingYet' /\ PendingReplies' /\ WaitsForPending'
  BY <1>1, <1>4 DEF NothingYet, PendingReplies, WaitsForPending
<1>6. AskingIdle'
  BY <1>1, <1>4 DEF AskingIdle, TypeOK
<1>7. \A d \in Calls : Spent(d) => Spent(d)'
  BY <1>1, <1>4 DEF Spent
<1>8. TimeoutsSpent'
  BY <1>0, <1>1, <1>2, <1>4, <1>7, CallAssumption DEF TimeoutsSpent, TypeOK
<1>9. TimeoutUsedOnce'
  BY <1>0, <1>4 DEF TimeoutsSpent, TimeoutUsedOnce
<1>. QED
  BY <1>3, <1>5, <1>6, <1>8, <1>9

\* Calls that take no timeout.
LEMMA DefaultTimeoutStep ==
    ASSUME IInv, NEW c \in Calls, CallOneway(c) \/ GetProperty(c)
    PROVE  IInv'
<1>. USE DEF IInv
<1>1. /\ blocked = NoCall /\ state[c] = "idle" /\ c # asking
      /\ UNCHANGED <<result, queue, blocked, asking, asked, request_specific_timeout, timeout>>
  BY DEF CallOneway, GetProperty, MayCall, timing
<1>2. PICK m \in Modes, s \in {"completed", "pending"} :
        /\ mode' = [mode EXCEPT ![c] = m]
        /\ state' = [state EXCEPT ![c] = s]
        /\ s = "pending" => m = "async"
  BY DEF CallOneway, GetProperty, Modes
<1>3. TypeOK'
  <2>1. mode' \in [Calls -> Modes] /\ state' \in [Calls -> States]
    BY <1>2 DEF TypeOK, States
  <2>2. armed' \in [Calls -> BOOLEAN] /\ wire' \in SUBSET Calls
    BY DEF CallOneway, GetProperty, TypeOK
  <2>. QED
    BY <1>1, <2>1, <2>2 DEF TypeOK
<1>4. /\ state'[c] = s /\ \A d \in Calls \ {c} : state'[d] = state[d]
      /\ mode'[c] = m /\ \A d \in Calls \ {c} : mode'[d] = mode[d]
  BY <1>2 DEF TypeOK
<1>5. NothingYet' /\ PendingReplies'
  BY <1>1, <1>2, <1>4 DEF NothingYet, PendingReplies
<1>6. WaitsForPending' /\ AskingIdle' /\ TimeoutUsedOnce'
  BY <1>1, <1>4 DEF WaitsForPending, AskingIdle, TimeoutUsedOnce, TypeOK
<1>7. \A d \in Calls : Spent(d) => Spent(d)'
  BY <1>1, <1>4 DEF Spent
<1>8. TimeoutsSpent'
  BY <1>1, <1>7 DEF TimeoutsSpent, TypeOK
<1>. QED
  BY <1>3, <1>5, <1>6, <1>8

\* Messages arrive; no call ends yet.
LEMMA ArrivalStep ==
    ASSUME IInv, NEW c \in Calls,
           TimerFires(c) \/ \E kind \in Reply : Read(c, kind)
    PROVE  IInv'
<1>. USE DEF IInv
<1>1. /\ UNCHANGED <<mode, state, result, blocked, asking, asked, request_specific_timeout, timeout>>
      /\ armed' = [armed EXCEPT ![c] = FALSE]
      /\ wire' \in SUBSET Calls
  BY DEF TimerFires, Read, timing, TypeOK
<1>2. PICK kind \in Result : queue' = Append(queue, [re |-> c, kind |-> kind])
  BY DEF TimerFires, Read, Result
<1>3. queue' \in Seq(Messages)
  BY <1>2, Enqueue DEF Messages
<1>4. TypeOK'
  BY <1>1, <1>3 DEF TypeOK
<1>. QED
  BY <1>1, <1>4 DEF NothingYet, PendingReplies, WaitsForPending, AskingIdle, TimeoutsSpent,
                    Spent, TimeoutUsedOnce

\* A call ends, by its result or by being cancelled.
LEMMA EndStep ==
    ASSUME IInv, NEW c \in Calls, state[c] = "pending", NEW s \in {"completed", "cancelled"},
           state' = [state EXCEPT ![c] = s],
           \A d \in Calls \ {c} : result'[d] = result[d],
           blocked' = NoCall,
           UNCHANGED <<mode, timing>>
    PROVE  /\ NothingYet' /\ PendingReplies' /\ WaitsForPending' /\ AskingIdle'
           /\ TimeoutsSpent' /\ TimeoutUsedOnce'
<1>. USE DEF IInv
<1>1. state'[c] = s /\ \A d \in Calls \ {c} : state'[d] = state[d]
  BY DEF TypeOK
<1>2. UNCHANGED <<asking, request_specific_timeout, timeout>>
  BY DEF timing
<1>3. NothingYet' /\ PendingReplies' /\ WaitsForPending'
  BY <1>1 DEF NothingYet, PendingReplies, WaitsForPending
<1>4. AskingIdle' /\ TimeoutUsedOnce'
  BY <1>1, <1>2 DEF AskingIdle, TimeoutUsedOnce, TypeOK
<1>5. \A d \in Calls : Spent(d) => Spent(d)'
  BY <1>1, <1>2 DEF Spent
<1>6. TimeoutsSpent'
  BY <1>2, <1>5 DEF TimeoutsSpent, TypeOK
<1>. QED
  BY <1>3, <1>4, <1>6

\* Who gets a result: a pending call, once.
LEMMA CompleteFacts ==
    ASSUME IInv, NEW c \in Calls, NEW kind \in Result, state[c] = "pending", Complete(c, kind)
    PROVE  /\ state' = [state EXCEPT ![c] = "completed"]
           /\ state' \in [Calls -> States] /\ armed' \in [Calls -> BOOLEAN]
           /\ result' \in [Calls -> Seq(Result)]
           /\ \A d \in Calls \ {c} : result'[d] = result[d] /\ state'[d] = state[d]
           /\ result[c] = <<>> /\ Len(result'[c]) = 1
           /\ state'[c] = "completed" /\ mode[c] # "oneway"
<1>. USE DEF IInv
<1>1. result[c] = <<>> /\ mode[c] # "oneway"
  BY DEF NothingYet, PendingReplies
<1>2. <<>> \in Seq(Result)
  BY EmptySeq
<1>3. Append(<<>>, kind) \in Seq(Result) /\ Len(Append(<<>>, kind)) = Len(<<>>) + 1
  BY <1>2, AppendProperties
<1>4. /\ result'[c] = Append(<<>>, kind) /\ \A d \in Calls \ {c} : result'[d] = result[d]
      /\ state'[c] = "completed" /\ \A d \in Calls \ {c} : state'[d] = state[d]
  BY <1>1 DEF Complete, TypeOK
<1>5. result' \in [Calls -> Seq(Result)]
  BY <1>1, <1>3 DEF Complete, TypeOK
<1>6. state' \in [Calls -> States] /\ armed' \in [Calls -> BOOLEAN]
  BY DEF Complete, TypeOK, States
<1>. QED
  BY <1>1, <1>3, <1>4, <1>5, <1>6, EmptySeq DEF Complete

\* A step that ends a call, as the loop or the blocked thread does it.
Completes(c) == /\ state[c] = "pending" /\ \E kind \in Result : Complete(c, kind)
                /\ blocked' = NoCall
                /\ UNCHANGED <<mode, wire, timing>>

\* A call is given its result, the message it comes from being taken or dropped.
LEMMA CompletesStep ==
    ASSUME IInv, NEW c \in Calls, Completes(c), queue' \in Seq(Messages)
    PROVE  IInv'
<1>1. TypeOK'
  BY CompleteFacts DEF Completes, IInv, TypeOK, timing
<1>. QED
  BY <1>1, CompleteFacts, EndStep DEF Completes, IInv

\* The oldest message completes its call or is dropped; a blocking call takes its
\* own reply or gives up.
LEMMA CompletionSteps ==
    ASSUME IInv, Dispatch \/ Blocking
    PROVE  /\ queue' \in Seq(Messages)
           /\ \/ \E c \in Calls : Completes(c)
              \/ UNCHANGED <<mode, state, result, armed, wire, blocked, timing>>
<1>. USE DEF IInv
<1>1. CASE Dispatch
  <2>1. /\ blocked = NoCall /\ queue # <<>> /\ queue' = Tail(queue)
        /\ UNCHANGED <<mode, wire, blocked, timing>>
    BY <1>1 DEF Dispatch, LoopRuns
  <2>2. queue' \in Seq(Messages) /\ Head(queue).re \in Calls /\ Head(queue).kind \in Result
    BY <2>1, TakeHead DEF Messages
  <2>3. \/ state[Head(queue).re] = "pending" /\ Complete(Head(queue).re, Head(queue).kind)
        \/ UNCHANGED <<state, result, armed>>
    BY <1>1 DEF Dispatch
  <2>. QED
    BY <2>1, <2>2, <2>3 DEF Completes
<1>2. CASE Blocking
  <2>1. blocked \in Calls /\ state[blocked] = "pending"
    BY <1>2 DEF Blocking, BlockingReturns, BlockingTimesOut, WaitsForPending, TypeOK
  <2>2. blocked' = NoCall /\ UNCHANGED <<mode, wire, timing>>
    BY <1>2 DEF Blocking, BlockingReturns, BlockingTimesOut
  <2>3. CASE BlockingReturns
    <3>1. PICK i \in 1..Len(queue) :
            /\ Complete(blocked, queue[i].kind)
            /\ queue' = SubSeq(queue, 1, i - 1) \o SubSeq(queue, i + 1, Len(queue))
      BY <2>3 DEF BlockingReturns
    <3>2. queue[i].kind \in Result /\ queue' \in Seq(Messages)
      BY <3>1, TakeOut DEF Messages
    <3>. QED
      BY <2>1, <2>2, <3>1, <3>2 DEF Completes
  <2>4. CASE BlockingTimesOut
    <3>1. Complete(blocked, "no_reply") /\ UNCHANGED queue
      BY <2>4 DEF BlockingTimesOut
    <3>. QED
      BY <2>1, <2>2, <3>1 DEF Completes, Result, TypeOK
  <2>. QED
    BY <1>2, <2>3, <2>4 DEF Blocking
<1>. QED
  BY <1>1, <1>2

\* A pending call is cancelled and waits for nothing any more.
LEMMA CancelStep ==
    ASSUME IInv, NEW c \in Calls, Cancel(c)
    PROVE  IInv'
<1>. USE DEF IInv
<1>1. /\ blocked' = NoCall /\ state[c] = "pending"
      /\ state' = [state EXCEPT ![c] = "cancelled"]
      /\ armed' = [armed EXCEPT ![c] = FALSE]
      /\ UNCHANGED <<mode, result, wire, queue, blocked, timing>>
  BY DEF Cancel, LoopRuns
<1>2. TypeOK'
  BY <1>1 DEF TypeOK, States, timing
<1>. QED
  BY <1>1, <1>2, EndStep

\* Every step keeps the invariant.
LEMMA NextIInv == IInv /\ [Next]_vars => IInv'
<1>. SUFFICES ASSUME IInv, [Next]_vars PROVE IInv'
  OBVIOUS
<1>1. ASSUME NEW c \in Calls,
             Ask(c) \/ CallAsync(c) \/ CallBlocking(c) \/ CallOneway(c) \/ GetProperty(c) \/ Cancel(c)
      PROVE  IInv'
  <2>1. CASE CallAsync(c) \/ CallBlocking(c)
    BY <2>1, SendStep DEF CallAsync, CallBlocking, MayCall
  <2>. QED
    BY <1>1, <2>1, AskStep, DefaultTimeoutStep, CancelStep
<1>2. CASE ArgumentsThrow
  BY <1>2, ArgumentsThrowStep
<1>3. CASE \E c \in Calls : TimerFires(c) \/ \E kind \in Reply : Read(c, kind)
  BY <1>3, ArrivalStep
<1>4. CASE Dispatch \/ Blocking
  <2>1. queue' \in Seq(Messages)
    BY <1>4, CompletionSteps
  <2>2. CASE \E c \in Calls : Completes(c)
    BY <2>1, <2>2, CompletesStep
  <2>3. CASE UNCHANGED <<mode, state, result, armed, wire, blocked, timing>>
    BY <2>1, <2>3 DEF IInv, TypeOK, NothingYet, PendingReplies, WaitsForPending, AskingIdle,
                      TimeoutsSpent, Spent, TimeoutUsedOnce, timing
  <2>. QED
    BY <1>4, <2>2, <2>3, CompletionSteps
<1>5. CASE UNCHANGED vars
  BY <1>5 DEF vars, IInv, TypeOK, NothingYet, PendingReplies, WaitsForPending, AskingIdle,
              TimeoutsSpent, Spent, TimeoutUsedOnce
<1>. QED
  BY <1>1, <1>2, <1>3, <1>4, <1>5 DEF Next, User, Loop
-----------------------------------------------------------------------------
(***************************************************************************)
(* The theorems                                                            *)
(***************************************************************************)

\* The variables keep their types, for every set of calls.
THEOREM TypeCorrect == Spec => []TypeOK
<1>1. IInv => TypeOK
  BY DEF IInv
<1>. QED
  BY <1>1, InitIInv, NextIInv, PTL DEF Spec

\* A timeout left in the thread's variable by stub.m[timeout = t] serves one
\* request at most, even if the arguments contain other calls or throw.
THEOREM TimeoutServesOnce == Spec => []TimeoutUsedOnce
<1>1. IInv => TimeoutUsedOnce
  BY DEF IInv
<1>. QED
  BY <1>1, InitIInv, NextIInv, PTL DEF Spec

\* What a step may do to a call: nothing, or end it by its one result, or make it
\* or end it without a result.
CallSteps(c) ==
    \/ state'[c] = state[c] /\ result'[c] = result[c]
    \/ /\ state[c] \in {"idle", "pending"}
       /\ result[c] = <<>>
       /\ Len(result'[c]) = IF state'[c] = "completed" /\ mode'[c] # "oneway" THEN 1 ELSE 0

\* A call that is made, given up or cancelled has no result.
LEMMA NoResult ==
    ASSUME IInv, NEW c \in Calls, UNCHANGED result, state[c] \in {"idle", "pending"},
           state'[c] = "completed" => mode'[c] = "oneway"
    PROVE  CallSteps(c)
<1>1. result[c] = <<>> /\ result'[c] = <<>>
  BY DEF IInv, NothingYet
<1>. QED
  BY <1>1, EmptySeq DEF CallSteps

\* Seen from one call, every step is one of a few.
LEMMA EachCallSteps ==
    ASSUME IInv, [Next]_vars, NEW d \in Calls
    PROVE  CallSteps(d)
<1>. USE DEF IInv
<1>1. ASSUME NEW c \in Calls, CallAsync(c) \/ CallBlocking(c) \/ CallOneway(c) \/ GetProperty(c)
      PROVE  CallSteps(d)
  <2>1. /\ state[c] = "idle" /\ UNCHANGED result
        /\ \A q \in Calls \ {c} : state'[q] = state[q]
        /\ state'[c] = "completed" => mode'[c] = "oneway"
    BY <1>1 DEF CallAsync, CallBlocking, CallOneway, GetProperty, MayCall, SendWithReply, TypeOK
  <2>. QED
    BY <2>1, NoResult DEF CallSteps
<1>2. ASSUME NEW c \in Calls, Cancel(c)
      PROVE  CallSteps(d)
  <2>1. /\ state[c] = "pending" /\ UNCHANGED result /\ state'[c] = "cancelled"
        /\ \A q \in Calls \ {c} : state'[q] = state[q]
    BY <1>2 DEF Cancel, TypeOK
  <2>. QED
    BY <2>1, NoResult DEF CallSteps
<1>3. CASE ArgumentsThrow
  <2>1. PICK a \in Calls : a = asking
    BY <1>3 DEF ArgumentsThrow, TypeOK
  <2>2. state[a] = "idle"
    BY <2>1, CallAssumption DEF AskingIdle
  <2>3. /\ UNCHANGED result /\ state'[a] = "abandoned"
        /\ \A q \in Calls \ {a} : state'[q] = state[q]
    BY <1>3, <2>1 DEF ArgumentsThrow, TypeOK
  <2>. QED
    BY <2>2, <2>3, NoResult DEF CallSteps
<1>4. CASE Dispatch \/ Blocking
  <2>1. ASSUME NEW c \in Calls, Completes(c)
        PROVE  CallSteps(d)
    <3>1. /\ \A q \in Calls \ {c} : result'[q] = result[q] /\ state'[q] = state[q]
          /\ state[c] = "pending" /\ state'[c] = "completed" /\ mode'[c] # "oneway"
          /\ result[c] = <<>> /\ Len(result'[c]) = 1
      BY <2>1, CompleteFacts DEF Completes
    <3>. QED
      BY <3>1 DEF CallSteps
  <2>. QED
    BY <1>4, <2>1, CompletionSteps DEF CallSteps
<1>5. CASE \/ UNCHANGED vars
           \/ \E c \in Calls : Ask(c) \/ TimerFires(c) \/ \E kind \in Reply : Read(c, kind)
  BY <1>5 DEF vars, Ask, TimerFires, Read, CallSteps
<1>. QED
  BY <1>1, <1>2, <1>3, <1>4, <1>5 DEF Next, User, Loop

\* Every call ends once, with one result or without any: a late reply, a timer that
\* fired as the reply was read, a cancelled call whose answer still arrives, or a
\* blocking call that overtakes the queue change nothing about how a call ended.
THEOREM CallsEndOnce == Spec => OneResult
<1>1. ASSUME IInv, [Next]_vars
      PROVE  \A c \in Calls : CallSteps(c)
  BY <1>1, EachCallSteps
<1>. QED
  BY <1>1, InitIInv, NextIInv, PTL DEF Spec, OneResult, CallSteps
-----------------------------------------------------------------------------
(***************************************************************************)
(* Whose timeout a call that has one of its own is sent with               *)
(***************************************************************************)

\* A call made among the arguments of c, without a timeout, was sent with that of c.
Diverted(c) == \E d \in Calls \ asked : timeout[d] = c

\* The timeout of the call whose arguments are evaluated is in the thread's variable,
\* or has been diverted.
AskedHeld ==
    /\ asking # NoCall =>
          /\ asking \in asked
          /\ \/ request_specific_timeout = asking
             \/ request_specific_timeout = NoCall /\ Diverted(asking)
    /\ \A c \in asked : state[c] = "idle" => c = asking
    /\ \A c \in Calls : timeout[c] # NoCall => state[c] # "idle"

KInv == IInv /\ AskedHeld /\ TimeoutKept

LEMMA SentWith ==
    ASSUME KInv, NEW e \in asked, state[e] # "idle"
    PROVE  timeout[e] = e \/ (timeout[e] = NoCall /\ Diverted(e))
<1>1. TimeoutKept
  BY DEF KInv
<1>. QED
  BY <1>1 DEF TimeoutKept, Diverted

LEMMA VariableHolds ==
    ASSUME KInv, NEW a \in Calls, asking = a
    PROVE  /\ a \in asked
           /\ request_specific_timeout = a \/ (request_specific_timeout = NoCall /\ Diverted(a))
<1>1. AskedHeld /\ asking # NoCall
  BY CallAssumption DEF KInv
<1>. QED
  BY <1>1 DEF AskedHeld, Diverted

\* What AskedHeld says of the calls that have not been made.
LEMMA IdleCalls ==
    ASSUME KInv
    PROVE  /\ asked \subseteq Calls
           /\ asking # NoCall => asking \in Calls
           /\ \A c \in asked : state[c] = "idle" => c = asking
           /\ \A c \in Calls : timeout[c] # NoCall => state[c] # "idle"
  BY DEF KInv, AskedHeld, IInv, TypeOK

\* A call that has been sent stays as it is, and a diverted timeout diverted.
LEMMA KeptWhileTimingStays ==
    ASSUME KInv, UNCHANGED timing,
           \A d \in Calls : state'[d] = state[d] \/ (state[d] # "idle" /\ state'[d] # "idle")
    PROVE  AskedHeld' /\ TimeoutKept'
<1>1. UNCHANGED <<asking, asked, request_specific_timeout, timeout>>
  BY DEF timing
<1>2. AskedHeld'
  <2>1. AskedHeld
    BY DEF KInv
  <2>. QED
    BY <1>1, <2>1, IdleCalls DEF AskedHeld, Diverted
<1>3. ASSUME NEW e \in asked, state'[e] # "idle"
      PROVE  timeout[e] = e \/ (timeout[e] = NoCall /\ Diverted(e))
  <2>1. state[e] # "idle"
    BY <1>3, IdleCalls
  <2>. QED
    BY <2>1, SentWith
<1>4. TimeoutKept'
  BY <1>1, <1>3 DEF TimeoutKept, Diverted
<1>. QED
  BY <1>2, <1>4

\* A call whose arguments are to be evaluated sets the variable anew.
LEMMA AskKept ==
    ASSUME KInv, NEW c \in Calls, Ask(c)
    PROVE  AskedHeld' /\ TimeoutKept'
<1>1. /\ asking = NoCall /\ state[c] = "idle" /\ asking' = c /\ asked' = asked \cup {c}
      /\ request_specific_timeout' = c /\ state' = state /\ timeout' = timeout
  BY DEF Ask
<1>2. timeout[c] = NoCall
  BY <1>1, IdleCalls
<1>3. AskedHeld'
  <2>1. \A e \in asked' : state'[e] = "idle" => e = asking'
    BY <1>1, IdleCalls, CallAssumption
  <2>2. \A e \in Calls : timeout'[e] # NoCall => state'[e] # "idle"
    BY <1>1, IdleCalls
  <2>. QED
    BY <1>1, <2>1, <2>2 DEF AskedHeld
<1>4. ASSUME NEW e \in asked', state'[e] # "idle"
      PROVE  \/ timeout'[e] = e
             \/ timeout'[e] = NoCall /\ \E d \in Calls \ asked' : timeout'[d] = e
  <2>1. e \in asked /\ e \in Calls /\ state[e] # "idle"
    BY <1>1, <1>4, IdleCalls
  <2>2. timeout[e] = e \/ (timeout[e] = NoCall /\ \E d \in Calls \ asked : timeout[d] = e)
    BY <2>1, SentWith DEF Diverted
  <2>3. ASSUME NEW d \in Calls \ asked, timeout[d] = e
        PROVE  d \in Calls \ asked'
    BY <1>1, <1>2, <2>1, <2>3, CallAssumption
  <2>. QED
    BY <1>1, <2>2, <2>3
<1>. QED
  BY <1>3, <1>4 DEF TimeoutKept

\* Arguments that throw leave the timeout in the variable, and the call is not made.
LEMMA ThrowKept ==
    ASSUME KInv, ArgumentsThrow
    PROVE  AskedHeld' /\ TimeoutKept'
<1>1. /\ asking # NoCall /\ asking \in Calls /\ state[asking] = "idle"
      /\ asked' = asked \ {asking} /\ asking' = NoCall
      /\ UNCHANGED <<request_specific_timeout, timeout>>
      /\ state'[asking] = "abandoned"
      /\ \A d \in Calls \ {asking} : state'[d] = state[d]
  BY DEF ArgumentsThrow, KInv, IInv, TypeOK, AskingIdle
<1>2. AskedHeld'
  <2>1. \A e \in asked' : state'[e] # "idle"
    BY <1>1, IdleCalls
  <2>2. \A e \in Calls : timeout'[e] # NoCall => state'[e] # "idle"
    BY <1>1, IdleCalls
  <2>. QED
    BY <1>1, <2>1, <2>2 DEF AskedHeld
<1>3. ASSUME NEW e \in asked', state'[e] # "idle"
      PROVE  \/ timeout'[e] = e
             \/ timeout'[e] = NoCall /\ \E d \in Calls \ asked' : timeout'[d] = e
  <2>1. e \in asked /\ e # asking /\ e \in Calls /\ state[e] # "idle"
    BY <1>1, <1>3, IdleCalls
  <2>2. timeout[e] = e \/ (timeout[e] = NoCall /\ \E d \in Calls \ asked : timeout[d] = e)
    BY <2>1, SentWith DEF Diverted
  <2>. QED
    BY <1>1, <2>2
<1>. QED
  BY <1>2, <1>3 DEF TimeoutKept

\* A request that is sent with what is in the variable: its own timeout, that of the
\* call whose arguments it is part of, or one that was left there.
LEMMA SendKept ==
    ASSUME KInv, NEW c \in Calls, CallAsync(c) \/ CallBlocking(c)
    PROVE  AskedHeld' /\ TimeoutKept'
<1>1. /\ state[c] = "idle" /\ UNCHANGED asked
      /\ asking' = (IF asking = c THEN NoCall ELSE asking)
      /\ request_specific_timeout' = NoCall
      /\ state'[c] = "pending" /\ \A d \in Calls \ {c} : state'[d] = state[d]
      /\ timeout'[c] = request_specific_timeout
      /\ \A d \in Calls \ {c} : timeout'[d] = timeout[d]
  BY DEF CallAsync, CallBlocking, MayCall, SendWithReply, KInv, IInv, TypeOK
<1>2. (c \in asked => c = asking) /\ timeout[c] = NoCall
  BY <1>1, IdleCalls
<1>3. ASSUME NEW e \in Calls, Diverted(e)
      PROVE  \E d \in Calls \ asked' : timeout'[d] = e
  <2>1. PICK d \in Calls \ asked : timeout[d] = e
    BY <1>3 DEF Diverted
  <2>2. d # c
    BY <1>2, <2>1, CallAssumption
  <2>. QED
    BY <1>1, <2>1, <2>2
<1>4. ASSUME NEW a \in Calls, asking = a, a # c
      PROVE  \E d \in Calls \ asked' : timeout'[d] = a
  <2>1. CASE request_specific_timeout = a
    BY <1>1, <1>2, <1>4, <2>1
  <2>2. CASE Diverted(a)
    BY <1>3, <2>2
  <2>. QED
    BY <1>4, <2>1, <2>2, VariableHolds
<1>5. AskedHeld'
  <2>1. ASSUME asking' # NoCall
        PROVE  /\ asking' \in asked'
               /\ \E d \in Calls \ asked' : timeout'[d] = asking'
    <3>1. asking' = asking /\ asking \in Calls /\ asking # c
      BY <1>1, <2>1, IdleCalls
    <3>2. PICK a \in Calls : a = asking
      BY <3>1
    <3>. QED
      BY <1>1, <1>4, <3>1, <3>2, VariableHolds
  <2>2. \A e \in asked' : state'[e] = "idle" => e = asking'
    BY <1>1, IdleCalls
  <2>3. \A e \in Calls : timeout'[e] # NoCall => state'[e] # "idle"
    BY <1>1, IdleCalls
  <2>. QED
    BY <1>1, <2>1, <2>2, <2>3 DEF AskedHeld, Diverted
<1>6. ASSUME NEW e \in asked', state'[e] # "idle"
      PROVE  \/ timeout'[e] = e
             \/ timeout'[e] = NoCall /\ \E d \in Calls \ asked' : timeout'[d] = e
  <2>1. e \in asked /\ e \in Calls
    BY <1>1, IdleCalls
  <2>2. CASE e = c
    <3>1. request_specific_timeout = c \/ (request_specific_timeout = NoCall /\ Diverted(c))
      BY <1>2, <2>1, <2>2, VariableHolds
    <3>. QED
      BY <1>1, <1>3, <2>2, <3>1
  <2>3. CASE e # c
    <3>1. state[e] # "idle" /\ timeout'[e] = timeout[e]
      BY <1>1, <1>6, <2>1, <2>3
    <3>2. timeout[e] = e \/ (timeout[e] = NoCall /\ Diverted(e))
      BY <2>1, <3>1, SentWith
    <3>. QED
      BY <1>3, <2>1, <3>1, <3>2
  <2>. QED
    BY <2>2, <2>3
<1>. QED
  BY <1>5, <1>6 DEF TimeoutKept

\* A oneway call or a Get of a property leaves the variable alone.
LEMMA OthersKept ==
    ASSUME KInv, NEW c \in Calls, CallOneway(c) \/ GetProperty(c)
    PROVE  AskedHeld' /\ TimeoutKept'
<1>1. /\ state[c] = "idle" /\ c # asking
      /\ UNCHANGED <<asking, asked, request_specific_timeout, timeout>>
      /\ state'[c] # "idle" /\ \A d \in Calls \ {c} : state'[d] = state[d]
  BY DEF CallOneway, GetProperty, MayCall, KInv, IInv, TypeOK, timing
<1>2. AskedHeld'
  <2>1. AskedHeld
    BY DEF KInv
  <2>. QED
    BY <1>1, <2>1, IdleCalls DEF AskedHeld, Diverted
<1>3. ASSUME NEW e \in asked, state'[e] # "idle"
      PROVE  timeout[e] = e \/ (timeout[e] = NoCall /\ Diverted(e))
  <2>1. state[e] # "idle"
    BY <1>1, <1>3, IdleCalls
  <2>. QED
    BY <2>1, SentWith
<1>4. TimeoutKept'
  BY <1>1, <1>3 DEF TimeoutKept, Diverted
<1>. QED
  BY <1>2, <1>4

\* Every step keeps the timeouts where they belong.
LEMMA NextKInv == KInv /\ [Next]_vars => KInv'
<1>. SUFFICES ASSUME KInv, [Next]_vars PROVE AskedHeld' /\ TimeoutKept'
  BY NextIInv DEF KInv
<1>1. CASE Dispatch \/ Blocking
  <2>1. UNCHANGED timing
    BY <1>1 DEF Dispatch, Blocking, BlockingReturns, BlockingTimesOut
  <2>2. ASSUME NEW c \in Calls, Completes(c), NEW d \in Calls
        PROVE  state'[d] = state[d] \/ (state[d] # "idle" /\ state'[d] # "idle")
    BY <2>2, CompleteFacts DEF Completes, KInv, IInv
  <2>3. IInv
    BY DEF KInv
  <2>. QED
    BY <1>1, <2>1, <2>2, <2>3, CompletionSteps, KeptWhileTimingStays
<1>2. ASSUME NEW c \in Calls, Cancel(c) \/ TimerFires(c) \/ \E kind \in Reply : Read(c, kind)
      PROVE  AskedHeld' /\ TimeoutKept'
  <2>1. /\ UNCHANGED timing
        /\ \A d \in Calls : state'[d] = state[d] \/ (state[d] # "idle" /\ state'[d] # "idle")
    BY <1>2 DEF Cancel, TimerFires, Read, KInv, IInv, TypeOK
  <2>. QED
    BY <2>1, KeptWhileTimingStays
<1>3. CASE UNCHANGED vars
  <2>1. UNCHANGED timing /\ \A d \in Calls : state'[d] = state[d]
    BY <1>3 DEF vars, timing
  <2>. QED
    BY <2>1, KeptWhileTimingStays
<1>. QED
  BY <1>1, <1>2, <1>3, AskKept, ThrowKept, SendKept, OthersKept DEF Next, User, Loop

\* Whatever calls the arguments make and whether they throw or not: a call with a
\* timeout of its own is sent with it, or with the default because a call without one
\* among its arguments took it.
THEOREM TimeoutFindsCall == Spec => []TimeoutKept
<1>1. Init => KInv
  <2>1. Init => AskedHeld /\ TimeoutKept
    BY CallAssumption DEF Init, AskedHeld, TimeoutKept
  <2>. QED
    BY <2>1, InitIInv DEF KInv
<1>2. KInv => TimeoutKept
  BY DEF KInv
<1>. QED
  BY <1>1, <1>2, NextKInv, PTL DEF Spec
-----------------------------------------------------------------------------
(***************************************************************************)
(* What the library documents about m[timeout = t] holds when nothing      *)
(* comes between the operator[] and the send                               *)
(***************************************************************************)

\* The thread's variable holds the timeout of the call whose arguments are being
\* evaluated, and a call is given one before it is made.
VariableFollows ==
    /\ request_specific_timeout = asking
    /\ \A c \in Calls : c \in asked => c = asking \/ state[c] # "idle"
    /\ asking # NoCall => asking \in asked
    /\ \A c \in Calls : state[c] = "idle" => timeout[c] = NoCall

OInv == IInv /\ VariableFollows /\ OwnTimeout

\* As long as the arguments of a call neither throw nor make calls of their own,
\* every step keeps it that a call has the timeout that was set for it.
LEMMA NextOInv ==
    ASSUME Liberties = {}
    PROVE  OInv /\ [Next]_vars => OInv'
<1>. SUFFICES ASSUME OInv, [Next]_vars PROVE VariableFollows' /\ OwnTimeout'
  BY NextIInv DEF OInv
<1>. USE DEF OInv, IInv
<1>1. ASSUME NEW c \in Calls, Ask(c)
      PROVE  VariableFollows' /\ OwnTimeout'
  <2>1. /\ asking = NoCall /\ state[c] = "idle"
        /\ asking' = c /\ asked' = asked \cup {c} /\ request_specific_timeout' = c
        /\ UNCHANGED <<state, timeout>>
    BY <1>1 DEF Ask
  <2>. QED
    BY <2>1, CallAssumption DEF VariableFollows, OwnTimeout
<1>2. ASSUME NEW c \in Calls, CallAsync(c) \/ CallBlocking(c)
      PROVE  VariableFollows' /\ OwnTimeout'
  <2>1. /\ state[c] = "idle" /\ asking \in {NoCall, c} /\ asking' = NoCall
        /\ request_specific_timeout' = NoCall /\ UNCHANGED asked
        /\ state'[c] = "pending" /\ \A d \in Calls \ {c} : state'[d] = state[d]
        /\ timeout'[c] = asking /\ \A d \in Calls \ {c} : timeout'[d] = timeout[d]
    BY <1>2 DEF CallAsync, CallBlocking, MayCall, SendWithReply, TypeOK, VariableFollows
  <2>2. asking = IF c \in asked THEN c ELSE NoCall
    BY <2>1, CallAssumption DEF VariableFollows
  <2>. QED
    BY <2>1, <2>2, CallAssumption DEF VariableFollows, OwnTimeout
<1>3. ASSUME NEW c \in Calls, CallOneway(c) \/ GetProperty(c)
      PROVE  VariableFollows' /\ OwnTimeout'
  <2>1. /\ state[c] = "idle" /\ asking = NoCall
        /\ UNCHANGED <<asking, asked, request_specific_timeout, timeout>>
        /\ state'[c] # "idle" /\ \A d \in Calls \ {c} : state'[d] = state[d]
    BY <1>3 DEF CallOneway, GetProperty, MayCall, TypeOK, timing
  <2>2. c \notin asked /\ timeout[c] = NoCall
    BY <2>1, CallAssumption DEF VariableFollows
  <2>. QED
    BY <2>1, <2>2 DEF VariableFollows, OwnTimeout
<1>4. CASE /\ UNCHANGED timing
           /\ \A d \in Calls : state'[d] = state[d] \/ (state[d] # "idle" /\ state'[d] # "idle")
  <2>1. UNCHANGED <<asking, asked, request_specific_timeout, timeout>>
    BY <1>4 DEF timing
  <2>. QED
    BY <1>4, <2>1 DEF VariableFollows, OwnTimeout
<1>5. CASE Dispatch \/ Blocking
  <2>1. UNCHANGED timing
    BY <1>5 DEF Dispatch, Blocking, BlockingReturns, BlockingTimesOut
  <2>2. ASSUME NEW c \in Calls, Completes(c), NEW d \in Calls
        PROVE  state'[d] = state[d] \/ (state[d] # "idle" /\ state'[d] # "idle")
    BY <2>2, CompleteFacts DEF Completes
  <2>. QED
    BY <1>4, <1>5, <2>1, <2>2, CompletionSteps
<1>6. ASSUME NEW c \in Calls, Cancel(c) \/ TimerFires(c) \/ \E kind \in Reply : Read(c, kind)
      PROVE  VariableFollows' /\ OwnTimeout'
  BY <1>4, <1>6 DEF Cancel, TimerFires, Read, TypeOK
<1>7. CASE UNCHANGED vars
  BY <1>4, <1>7 DEF vars, timing
<1>8. ~ArgumentsThrow
  BY DEF ArgumentsThrow
<1>. QED
  BY <1>1, <1>2, <1>3, <1>5, <1>6, <1>7, <1>8 DEF Next, User, Loop

\* "request specific timeout -> overrides default": true of every call if the
\* arguments of a call with a timeout of its own neither contain another call nor
\* throw.
THEOREM OwnTimeoutUndisturbed ==
    ASSUME Liberties = {}
    PROVE  Spec => []OwnTimeout
<1>1. Init => OInv
  <2>1. Init => VariableFollows /\ OwnTimeout
    BY CallAssumption DEF Init, VariableFollows, OwnTimeout
  <2>. QED
    BY <2>1, InitIInv DEF OInv
<1>2. OInv => OwnTimeout
  BY DEF OInv
<1>. QED
  BY <1>1, <1>2, NextOInv, PTL DEF Spec
=============================================================================
