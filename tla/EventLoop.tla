------------------------------ MODULE EventLoop ------------------------------
(***************************************************************************)
(* The event loop of a dispatcher: run() polls the socket of the bus and   *)
(* one timerfd per pending call, handles the first descriptor that is      *)
(* ready, and dispatches what libdbus has read.  The callbacks of the user *)
(* run in dispatch(); they make calls, cancel them and stop the loop.      *)
(* Another thread may stop it, too.                                        *)
(*                                                                         *)
(* External: libdbus adds the timeout of a call when it is sent and        *)
(* removes it when its reply is read, when it is handled or when the call  *)
(* is cancelled.  The kernel gives a new timer the number of any closed    *)
(* descriptor.  The connection stays; the write watch of libdbus is        *)
(* disabled when it is added, so that it never gets into fds_.             *)
(*                                                                         *)
(* run() may be called again when it has returned, but not while calls are *)
(* pending: libdbus would add their timeouts a second time and remove them *)
(* through the old functions, which take the new timers for the old ones.  *)
(***************************************************************************)
EXTENDS Naturals, Sequences, SequencesExt

CONSTANTS Timeouts,   \* the DBusTimeouts of the calls that are made
          Timers,     \* numbers of descriptors the kernel may give to a timerfd
          Socket,     \* the descriptor of the connection
          NoTimeout,  \* no entry in tm_handlers_
          Signal,     \* a message that answers no call
          MaxSignals, \* bound: how many of them arrive
          MaxRuns     \* bound: how often run() is called

ASSUME LoopAssumption ==
    /\ Socket \notin Timers
    /\ NoTimeout \notin Timeouts /\ Signal \notin Timeouts
    /\ MaxSignals \in Nat /\ MaxRuns \in Nat \ {0}

VARIABLES
    fds_,         \* Private::fds_: descriptors and what poll() said of them
    tm_handlers_, \* Private::tm_handlers_
    running_,     \* Private::running_
    pc,           \* where the thread of the loop is
    at,           \* how far the loop over fds_ got
    status,       \* of the timeouts: "unused", "listed" by libdbus, "added", "gone"
    data,         \* dbus_timeout_get_data(): the descriptor of a timeout
    timer,        \* the kernel: state of each timerfd
    socket,       \* messages in the socket
    queue,        \* messages read and not dispatched
    answered,     \* calls the other side has answered
    signals,      \* how many signals were sent
    fired,        \* timeouts that were handled
    runs,         \* calls of run()
    stopped       \* history: stop() was called while running_ was set

vars  == <<fds_, tm_handlers_, running_, pc, at, status, data, timer, socket, queue,
           answered, signals, fired, runs, stopped>>
table == <<fds_, tm_handlers_, status, data, timer>>
-----------------------------------------------------------------------------
Messages == Timeouts \cup {Signal}
TimerState == {"closed", "armed", "expired"}
Phases == {"created", "starting", "testing", "polling", "scanning", "dispatching", "ended"}

Open(f) == f = Socket \/ timer[f] # "closed"

Init ==
    /\ fds_ = <<>>
    /\ tm_handlers_ = [f \in Timers |-> NoTimeout]
    /\ running_ = FALSE
    /\ pc = "created"
    /\ at = 1
    /\ status = [t \in Timeouts |-> "unused"]
    /\ data = [t \in Timeouts |-> Socket]
    /\ timer = [f \in Timers |-> "closed"]
    /\ socket = <<>>
    /\ queue = <<>>
    /\ answered = {}
    /\ signals = 0
    /\ fired = {}
    /\ runs = 0
    /\ stopped = FALSE
-----------------------------------------------------------------------------
\* revents of a new entry is not initialized: poll() has not looked at it yet.
Entry(f, garbage) == [fd |-> f, revents |-> garbage]

\* [mutant of add_timeout] the timeout remembers its place in fds_
add_timeout_by_index(t) ==
    \E f \in Timers, garbage \in BOOLEAN :
        /\ timer[f] = "closed"
        /\ timer' = [timer EXCEPT ![f] = "armed"]
        /\ data' = [data EXCEPT ![t] = Len(fds_)]
        /\ fds_' = Append(fds_, Entry(f, garbage))
        /\ tm_handlers_' = [tm_handlers_ EXCEPT ![f] = t]
        /\ status' = [status EXCEPT ![t] = "added"]

add_timeout(t) ==
    \E f \in Timers, garbage \in BOOLEAN :
        /\ timer[f] = "closed"
        /\ timer' = [timer EXCEPT ![f] = "armed"]
        /\ data' = [data EXCEPT ![t] = f]
        /\ fds_' = Append(fds_, Entry(f, garbage))
        /\ tm_handlers_' = [tm_handlers_ EXCEPT ![f] = t]
        /\ status' = [status EXCEPT ![t] = "added"]

\* [mutant of remove_timeout] the timerfd is not closed
remove_timeout_leaks(t) ==
    LET found == {i \in DOMAIN fds_ : fds_[i].fd = data[t]}
    IN /\ status' = [status EXCEPT ![t] = "gone"]
       /\ IF found = {} THEN UNCHANGED <<fds_, tm_handlers_>>
          ELSE LET i == CHOOSE j \in found : \A k \in found : j <= k
               IN /\ tm_handlers_' = [tm_handlers_ EXCEPT ![fds_[i].fd] = NoTimeout]
                  /\ fds_' = RemoveAt(fds_, i)
       /\ UNCHANGED <<data, timer>>

\* The first entry with the descriptor of the timeout goes, if there is one.
remove_timeout(t) ==
    LET found == {i \in DOMAIN fds_ : fds_[i].fd = data[t]}
    IN /\ status' = [status EXCEPT ![t] = "gone"]
       /\ IF found = {} THEN UNCHANGED <<fds_, tm_handlers_, timer>>
          ELSE LET i == CHOOSE j \in found : \A k \in found : j <= k
               IN /\ tm_handlers_' = [tm_handlers_ EXCEPT ![fds_[i].fd] = NoTimeout]
                  /\ timer' = [timer EXCEPT ![fds_[i].fd] = "closed"]
                  /\ fds_' = RemoveAt(fds_, i)
       /\ UNCHANGED data
-----------------------------------------------------------------------------
\* The surroundings

\* The timer is periodic; it stays readable until it is read.
Expire(f) ==
    /\ timer[f] = "armed"
    /\ timer' = [timer EXCEPT ![f] = "expired"]
    /\ UNCHANGED <<fds_, tm_handlers_, running_, pc, at, status, data, socket, queue,
                   answered, signals, fired, runs, stopped>>

Answer(t) ==
    /\ status[t] # "unused" /\ t \notin answered
    /\ answered' = answered \cup {t}
    /\ socket' = Append(socket, t)
    /\ UNCHANGED <<table, running_, pc, at, queue, signals, fired, runs, stopped>>

SendSignal ==
    /\ signals < MaxSignals
    /\ signals' = signals + 1
    /\ socket' = Append(socket, Signal)
    /\ UNCHANGED <<table, running_, pc, at, queue, answered, fired, runs, stopped>>

\* stop() from a callback or from another thread, at any time.  Before run() has
\* stored TRUE it has no effect.
stop ==
    /\ pc # "ended"
    /\ running_' = FALSE
    /\ stopped' = (stopped \/ running_)
    /\ UNCHANGED <<table, pc, at, socket, queue, answered, signals, fired, runs>>
-----------------------------------------------------------------------------
\* A call is made before the loop runs, from a callback, or after run() has returned.
Call(t) ==
    /\ status[t] = "unused"
    /\ \/ pc = "created" /\ status' = [status EXCEPT ![t] = "listed"]
          /\ UNCHANGED <<fds_, tm_handlers_, data, timer>>
       \/ pc \in {"dispatching", "ended"} /\ add_timeout(t)
    /\ UNCHANGED <<running_, pc, at, socket, queue, answered, signals, fired, runs, stopped>>

\* libdbus lets go of a timeout; without functions of the dispatcher that is all.
Forget(t) ==
    \/ status[t] = "added" /\ remove_timeout(t)
    \/ /\ status[t] = "listed"
       /\ status' = [status EXCEPT ![t] = "gone"]
       /\ UNCHANGED <<fds_, tm_handlers_, data, timer>>

\* PendingCall::cancel(), whenever the loop is not in poll()
Cancel(t) ==
    /\ pc \in {"created", "dispatching", "ended"}
    /\ Forget(t)
    /\ UNCHANGED <<running_, pc, at, socket, queue, answered, signals, fired, runs, stopped>>

\* libdbus reads a message; a reply removes the timeout of its call.
ReadMessage ==
    /\ socket' = Tail(socket)
    /\ queue' = Append(queue, Head(socket))
    /\ IF Head(socket) \in {t \in Timeouts : status[t] # "gone"}
       THEN Forget(Head(socket)) ELSE UNCHANGED table

\* So does a blocking call, whenever the loop is not in poll(): what it waits
\* for is in MethodCall, what it reads besides is left in the queue.
BlockingCallReads ==
    /\ pc \in {"created", "dispatching", "ended"} /\ socket # <<>>
    /\ ReadMessage
    /\ UNCHANGED <<running_, pc, at, answered, signals, fired, runs, stopped>>

\* Dispatcher::run(): init() adds the read watch, then the timeouts there are.
AddWatch ==
    /\ pc = "created"
    /\ pc' = "starting"
    /\ runs' = 1
    /\ fds_' = Append(fds_, Entry(Socket, FALSE))
    /\ UNCHANGED <<tm_handlers_, running_, at, status, data, timer, socket, queue,
                   answered, signals, fired, stopped>>

\* run() again: libdbus adds the watch a second time and has the old one removed.
\* remove_watch() finds its entry only if the last poll() said it was readable.
AddWatchAgain ==
    /\ pc = "ended" /\ runs < MaxRuns
    /\ \A t \in Timeouts : status[t] # "added"
    /\ pc' = "starting"
    /\ runs' = runs + 1
    /\ stopped' = FALSE
    /\ LET added == Append(fds_, Entry(Socket, FALSE))
           found == {i \in DOMAIN added : added[i].fd = Socket /\ added[i].revents}
       IN fds_' = IF found = {} THEN added
                  ELSE RemoveAt(added, CHOOSE i \in found : \A j \in found : i <= j)
    /\ UNCHANGED <<tm_handlers_, running_, at, status, data, timer, socket, queue,
                   answered, signals, fired>>

AddListed(t) ==
    /\ pc = "starting" /\ status[t] = "listed"
    /\ add_timeout(t)
    /\ UNCHANGED <<running_, pc, at, socket, queue, answered, signals, fired, runs, stopped>>

run ==
    /\ pc = "starting" /\ \A t \in Timeouts : status[t] # "listed"
    /\ running_' = TRUE
    /\ pc' = "testing"
    /\ UNCHANGED <<table, at, socket, queue, answered, signals, fired, runs, stopped>>

TestRunning ==
    /\ pc = "testing"
    /\ pc' = IF running_ THEN "polling" ELSE "ended"
    /\ UNCHANGED <<table, running_, at, socket, queue, answered, signals, fired, runs, stopped>>

Readable(f) == IF f = Socket THEN socket # <<>> ELSE timer[f] # "armed"

\* [mutant of poll] the timeout of poll() is infinite
poll_for_ever ==
    /\ pc = "polling"
    /\ \E i \in DOMAIN fds_ : Readable(fds_[i].fd)
    /\ fds_' = [i \in DOMAIN fds_ |-> Entry(fds_[i].fd, Readable(fds_[i].fd))]
    /\ at' = 1
    /\ pc' = "scanning"
    /\ UNCHANGED <<tm_handlers_, running_, status, data, timer, socket, queue,
                   answered, signals, fired, runs, stopped>>

\* ::poll() returns with what is ready (a closed descriptor is: POLLNVAL), at
\* the latest when step_ms() has no more time.
poll ==
    /\ pc = "polling"
    /\ fds_' = [i \in DOMAIN fds_ |-> Entry(fds_[i].fd, Readable(fds_[i].fd))]
    /\ at' = 1
    /\ pc' = "scanning"
    /\ UNCHANGED <<tm_handlers_, running_, status, data, timer, socket, queue,
                   answered, signals, fired, runs, stopped>>

\* [mutant of PollInterrupted] what ::poll() returned is not looked at
PollUnchecked ==
    /\ pc = "polling"
    /\ at' = 1
    /\ pc' = "scanning"
    /\ UNCHANGED <<table, running_, socket, queue, answered, signals, fired, runs, stopped>>

\* A signal handler interrupts ::poll(): the entries keep what they said before.
PollInterrupted ==
    /\ pc = "polling"
    /\ pc' = "dispatching"
    /\ UNCHANGED <<table, running_, at, socket, queue, answered, signals, fired, runs, stopped>>

\* One descriptor is handled, the loop is left.
Scanned(i) == pc' = "dispatching" /\ at' = 1

HandleWatch(i) ==
    /\ fds_[i].fd = Socket
    /\ Scanned(i)
    /\ IF socket = <<>> THEN UNCHANGED <<table, socket, queue>> ELSE ReadMessage
    /\ UNCHANGED fired

\* The timer is read; its timeout is handled: an error takes its place in the
\* queue, the timeout is removed.
HandleTimer(i) ==
    LET f == fds_[i].fd
        t == tm_handlers_[f]
    IN /\ f # Socket
       /\ Scanned(i)
       /\ IF t = NoTimeout THEN UNCHANGED <<table, queue, fired>>
          ELSE remove_timeout(t) /\ fired' = fired \cup {t} /\ queue' = Append(queue, t)
       /\ UNCHANGED socket

\* [mutant of Handle] only the first entry of fds_ is looked at
HandleFirst ==
    /\ pc = "scanning"
    /\ fds_[1].revents
    /\ HandleWatch(1) \/ HandleTimer(1)
    /\ UNCHANGED <<running_, answered, signals, runs, stopped>>

Handle ==
    /\ pc = "scanning"
    /\ \E i \in DOMAIN fds_ :
          /\ i >= at /\ fds_[i].revents
          /\ \A j \in at..(i - 1) : ~fds_[j].revents
          /\ HandleWatch(i) \/ HandleTimer(i)
    /\ UNCHANGED <<running_, answered, signals, runs, stopped>>

\* [mutant of NothingReady] dispatch() is called only if poll() handled something
NothingToDo ==
    /\ pc = "scanning"
    /\ \A i \in DOMAIN fds_ : i >= at => ~fds_[i].revents
    /\ pc' = "testing"
    /\ UNCHANGED <<table, running_, at, socket, queue, answered, signals, fired, runs, stopped>>

NothingReady ==
    /\ pc = "scanning"
    /\ \A i \in DOMAIN fds_ : i >= at => ~fds_[i].revents
    /\ pc' = "dispatching"
    /\ UNCHANGED <<table, running_, at, socket, queue, answered, signals, fired, runs, stopped>>

\* dbus_connection_dispatch() for each message, while the callbacks run
Dispatch ==
    /\ pc = "dispatching"
    /\ queue # <<>>
    /\ queue' = Tail(queue)
    /\ UNCHANGED <<table, running_, pc, at, socket, answered, signals, fired, runs, stopped>>

\* DBUS_DISPATCH_COMPLETE
Complete ==
    /\ pc = "dispatching" /\ queue = <<>>
    /\ pc' = "testing"
    /\ UNCHANGED <<table, running_, at, socket, queue, answered, signals, fired, runs, stopped>>
-----------------------------------------------------------------------------
Loop == AddWatch \/ (\E t \in Timeouts : AddListed(t)) \/ run \/ TestRunning
        \/ poll \/ Handle \/ NothingReady \/ Dispatch \/ Complete

Next ==
    \/ Loop
    \/ AddWatchAgain
    \/ PollInterrupted
    \/ \E t \in Timeouts : Call(t) \/ Cancel(t) \/ Answer(t)
    \/ BlockingCallReads
    \/ \E f \in Timers : Expire(f)
    \/ SendSignal
    \/ stop

Spec == Init /\ [][Next]_vars

\* The thread of the loop runs, it is not interrupted in every poll(), and time
\* passes; nothing else is certain.
Fairness == WF_vars(Loop) /\ SF_vars(poll) /\ \A f \in Timers : WF_vars(Expire(f))

FairSpec == Spec /\ Fairness
-----------------------------------------------------------------------------
(***************************************************************************)
(* Properties                                                              *)
(***************************************************************************)
\* The variables have their types.
TypeOK ==
    /\ fds_ \in Seq([fd : Timers \cup {Socket}, revents : BOOLEAN])
    /\ tm_handlers_ \in [Timers -> Timeouts \cup {NoTimeout}]
    /\ running_ \in BOOLEAN
    /\ pc \in Phases
    /\ at \in Nat
    /\ status \in [Timeouts -> {"unused", "listed", "added", "gone"}]
    /\ data \in [Timeouts -> Timers \cup {Socket}]
    /\ timer \in [Timers -> TimerState]
    /\ socket \in Seq(Messages)
    /\ queue \in Seq(Messages)
    /\ answered \subseteq Timeouts
    /\ signals \in 0..MaxSignals
    /\ fired \subseteq Timeouts
    /\ runs \in 0..MaxRuns
    /\ stopped \in BOOLEAN

\* What libdbus, the dispatcher and the kernel know of the timers agrees, in
\* whatever order calls are made, answered, cancelled and timed out and numbers
\* of descriptors used again: each added timeout has its own open descriptor,
\* entered once, and nothing else is polled or open.
TablesAgree ==
    /\ \A t \in Timeouts : status[t] = "added" =>
          tm_handlers_[data[t]] = t /\ timer[data[t]] # "closed"
    /\ \A f \in Timers : timer[f] # "closed" <=>
          \E t \in Timeouts : status[t] = "added" /\ data[t] = f
    /\ \A f \in Timers : (tm_handlers_[f] # NoTimeout) <=> (timer[f] # "closed")
    /\ {fds_[i].fd : i \in DOMAIN fds_} \ {Socket} = {f \in Timers : timer[f] # "closed"}
    /\ \A i, j \in DOMAIN fds_ : fds_[i].fd = fds_[j].fd /\ fds_[i].fd # Socket => i = j

\* A call is timed out only when its own timer has expired: neither what poll()
\* said about an earlier owner of the descriptor nor the order of the entries
\* times out another call.
OnlyExpired ==
    [][\A t \in Timeouts : t \in fired' \ fired => timer[data[t]] = "expired"]_vars

\* A timer that expired is handled, or its call ends otherwise, although poll()
\* serves one descriptor at a time and the socket comes first.
TimersServed ==
    \A t \in Timeouts :
        status[t] = "added" /\ timer[data[t]] = "expired"
            ~> status[t] = "gone" \/ pc = "ended"

\* What arrives is read and dispatched as long as the loop runs.
EverythingDispatched ==
    socket # <<>> \/ queue # <<>> ~> (socket = <<>> /\ queue = <<>>) \/ pc = "ended"

\* "runs step_ms() in a loop until stop() is called": a running loop that is
\* stopped ends, though nothing may ever arrive again.
StopEnds == stopped ~> pc = "ended"
=============================================================================
