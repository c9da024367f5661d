# A verification of simppl

simppl is a C++ library on top of libdbus. A program declares an interface once
and gets a *skeleton* (the server's side) and a *stub* (the client's side) for it.
One *dispatcher* per thread owns the connection to the bus and the event loop;
everything the library does runs in the callbacks of that loop or in calls the
user makes from the same thread. What goes wrong in such a library goes wrong
between callbacks: an answer that is sent twice, a reply that meets its own
timeout, a signal that arrives before the answer to the question that was asked
first, a registration that outlives the object it was made for.

This directory has TLA+ modules of those parts, TLC configurations that check
them on small instances, and proofs for TLAPS. `PROJECT.json` lists, for every
definition, the lines of the source it stands for.

    tlc -workers 2 -config connection.cfg MCConnection.tla     # a run
    tlapm ServerRequestProofs.tla                              # the proofs

## The system: components, state, operations

| component | state it keeps | operations | talks to |
|---|---|---|---|
| request routing (`skeletonbase.cpp`, `interposer.h`) | `ifaces_`, the lists of methods and properties per interface id | `find_interface`, `iface`, `find_method`, `find_property`, `handle_request` | the dispatcher calls it for each message of an object path |
| server requests (`skeletonbase.cpp`, `serverrequestdescriptor.cpp`) | `current_request_`, the descriptors of deferred requests, message references | `respond_with`, `defer_response`, `respond_on`, destruction, exceptions of a method | methods of the user; libdbus, which counts references |
| method calls (`stubbase.cpp`, `clientside.h`, `pendingcall.cpp`, `timeout.cpp`) | the pending calls of libdbus, the thread's `request_specific_timeout` | async, blocking and oneway calls, `cancel`, `m[timeout = t](...)` | event loop (replies, timers), the other side |
| connection state (`dispatcher.cpp`, `StubBase::Connected`) | `busnames_`, `stubs_`, `conn_state_` | `init`, `add_client`, `remove_client`, `notify_client(s)`, `set_callback` | the bus (`NameOwnerChanged`, `ListNames`), callbacks of the user |
| signal registration (`dispatcher.cpp`, `stubbase.cpp`) | `signal_matches_`, the attached signals and properties of a stub | attach, detach, destruction, dispatch of signals | the bus (`AddMatch`, `RemoveMatch`) |
| properties (`serverside.h`, `clientside.h`, both `*base.cpp`) | value or callback on the server, flags and callbacks on the client | assignment, `notify`, `invalidate`, Get, Set, GetAll, attach, detach | method calls and signals of the above |
| event loop (`dispatcher.cpp`) | `fds_`, `watch_handlers_`, `tm_handlers_`, `running_` | `poll`, `run`, `stop`, watch and timeout functions | libdbus, the kernel |
| serialisation (`serialization.h` and the headers of the types) | an iterator into a message; an `Any` keeps one, with its message | encode, decode, `is`, `as` | all calls and signals |
| file descriptors (`filedescriptor.cpp`) | `fd_` and whether it is closed | construction, assignment, move, `release`, decode | the kernel, messages |
| declarations (`typelist.h`, `parameter_deduction.h`, `callinterface.h`) | none: types computed by templates | which parameters travel in a call, an answer, an error; introspection | both sides of each method and signal |
| names, errors (`util.cpp`, `error.cpp`, `detail/error.h`) | an exception has a name, a text and members | names from C++ types; error reply and back | headers of all messages, calls that fail |
| object manager (`objectmanagermixin.cpp`) | `objects_` | add, remove, `GetManagedObjects` | clients that keep a view of the objects |

The behaviours that are hard here, and what makes each component right:

- **Requests** may be answered within the method, later from any callback, or
  never; methods may throw before or after they answered. Right means: at most
  one answer, no message released twice or leaked, no request lost by the
  library itself.
- **Calls** end by a reply, a timeout or a cancellation that may all happen; a
  blocking call stops the event loop and takes its reply from the middle of the
  queue. Right means: one result for each call, and an end for each call.
- **Connection state**: names change owner at any moment, before, during and
  after the set-up, and a stub created late is told by a signal the dispatcher
  sends to itself, which is old when it arrives. Right means: when nothing is on
  its way, list, stubs and callbacks agree with the bus.
- **Registrations** are shared by stubs and counted; calls of the bus may fail
  half-way. Right means: a rule exists exactly while somebody needs it.
- **Properties**: attach is a match rule and a Get, two steps in the middle of
  which the server changes the value. Right means: the client ends up with the
  server's value and sees the changes in order.
- **Event loop**: timers are made and removed in the callbacks that run between two
  `poll()`s, descriptors are reused, and one descriptor is served per round. Right
  means: the tables agree, a timer times out its own call only, everything is served,
  and a running loop can be stopped.
- **Data**: each decoder has to leave the iterator where the next one starts; what is
  decoded may own things (a message, a descriptor). Right means: what was sent or an
  error, and everything owned once.
- **Declarations and names** are computed twice, on either side, and a third time for
  introspection. Right means: all three agree, wherever the markers of a
  declaration stand, and an error keeps its name, text and members.
- **Managed objects** are told by signals and all at once by an answer that may overtake
  them; the server may die in between. Right means: the view of a client ends up as
  the set of the server.

`PROJECT.json` has the components that are not modelled with the reason, and under
`hazards` each of these behaviours at its line with the properties that watch it.

## Modules

| module | models | composed of |
|---|---|---|
| `SkeletonRouting` | the lookup of interfaces, methods and properties up to the code of the user | |
| `ServerRequest` | requests inside a skeleton | extends `SkeletonRouting`, refines `RequestContract` |
| `RequestContract` | what a server promises: pending, then one outcome for ever | |
| `ServerRequestProofs` | proofs about `ServerRequest` | extends `ServerRequest` |
| `MethodCall` | the calls of a client | |
| `Connection` | bus names and the state of stubs | |
| `SignalMatch` | match rules and their counts, dispatch of signals to stubs | |
| `PropertyUpdates` | properties between a server and its clients over a bus | |
| `EventLoop` | `poll()`, `dispatch()`, `run()` and `stop()` over the socket and the timers of calls | |
| `Codecs` | signatures, encoding and decoding of nested types; what they are for | |
| `Ownership` | messages held by `Any`, file descriptors held by objects and messages | |
| `Names` | interface names, error names, object paths and bus names out of C++ names | |
| `Declarations` | what follows from a declared method: argument and result types, exceptions, introspection, error replies | extends `Codecs` and `Names` |
| `MessageData` | a receiver of calls, answers, errors, signals and properties that decodes what it is sent and keeps what it got | extends `Declarations` and `Ownership` |
| `ObjectManager` | managed objects between a server that may die and a client | instances of `SkeletonRouting` |
| `MethodCallProofs`, `ConnectionProofs`, `SignalMatchProofs`, `PropertyUpdatesProofs`, `EventLoopProofs`, `OwnershipProofs`, `ObjectManagerProofs` | proofs about the modules before `Proofs` | each extends its module |
| `MC*` | instances for TLC | each extends the module after its prefix |

State variables bear the names of the C++ members they stand for (`busnames_`,
`current_request_`, `signal_matches_`); variables whose comment says *history* are
not in the program and only record what properties speak of. An action is one
handler, one call of the user, or one step of the bus. Definitions named in a
comment `[mutant of D]` are plausible bugs of `D`; nothing uses them, they are there
to show that each property notices one.

**ServerRequest.** `content` is what a message asks for; `inbox` the queue libdbus
has read; `serving` the message in `handle_request()`; `held` the descriptors the
server keeps. `HandleDirectly` is a message answered in one go (introspection,
properties, errors); `BeginMethod`, what a method does (`RespondWith`, `Defer`,
`RespondOn`, `Discard`), and `MethodReturns` or `MethodThrows` are the steps of
`handle_interface_request()`. `refs` counts references to a message, so that a
leak and a double release are visible. The asserts of the code are guards: they
are duties of the caller. `Liberties` names legal C++ that costs a guarantee
(throwing after the answer, overwriting a descriptor, throwing in GetAll), so
that runs can say what holds with and without it.

**MethodCall.** `Read` is libdbus reading a reply from the socket, `TimerFires` the
timer of a call: it puts an error in the queue as if it had been received,
`Dispatch` takes the oldest message. `BlockingReturns` finds its reply anywhere in
the queue. `Ask` is `operator[]`, whose timeout waits in a variable of the thread
for the next request that is sent.

**Connection.** `owner` is the bus, `wire` what it has sent to this connection in
the order of the bus; `out` are the signals the dispatcher sent to itself.
`phase` follows `Dispatcher::init()`: the match first, then `ListNames`.
`try_handle_signal` has one action for each branch of the function. Where the
servers are is `address`, chosen in the initial state among `Addresses`.

**SignalMatch.** `signal_matches_` counts registrations per rule, `rules` is what the
bus has. `AddMatchFails` and `RemoveMatchFails` are the exceptions thrown by
`register_signal_match()` and `unregister_signal_match()`, and `failed` records them, each
with its rule. `Users` of a rule are the registrations that need it, as the stubs see them:
the properties speak of these and not of what the dispatcher counts, since after a failure
the two differ. `RulesExact` makes one exception, the properties whose rule an `attach()`
failed to add, and none for signals.

**PropertyUpdates.** Server and client are two processes; `requests` carries calls one
way, `outbox` and `inbox` carry answers and signals back, in one order. Each value
has a version, which is what "older" means. `attach_property` and `get_attached` are
the two halves of `attach()`; `Assign`, `Notify` and `Invalidate` are code of the
server, `SetTakes` and `SetRefuses` the two ways a Set may go. `overtaken` counts the
messages a blocking GetAll left behind in the queue.

**EventLoop.** `fds_`, `tm_handlers_` and `running_` are the members of
`Dispatcher::Private`; `status` and `data` are what libdbus keeps of a timeout, `timer` is the
timerfd in the kernel. `pc` is the place of the thread in `run()`: `AddWatch`,
`AddListed` and `run` are `init()` and the store to `running_`, then `TestRunning`, `poll`,
`Handle` or `NothingReady`, and `Dispatch` until `Complete`. `Call` and `Cancel` are code of the
user before `run()` or in a callback. A call that is made before `run()` has no timer yet;
it is `listed` until the functions are set. `revents` of a new entry is chosen
freely, since the code does not initialize it, and `PollInterrupted` leaves it as it is.
`BlockingCallReads` takes messages from the socket that `poll()` will not see.

A loop that was stopped may be run again (`AddWatchAgain`): libdbus adds its watch a second
time and has the first one removed, and `remove_watch()` may miss the entry, so that
`fds_` has the socket twice. A second `run()` with pending calls is a precondition of the
model, not of the code: libdbus would then add each timeout anew and remove the old one
by the data that was just overwritten, which leaves a timer and its entry behind.

**Codecs** has no state: types, values and items of a message are records of one
shape, an iterator is the sequence of items still to be read, and each decoder
returns what it leaves of it. Its recursive operators follow the recursion of the
templates. **Ownership** is one process: the kernel's open descriptors, objects of
`FileDescriptor` and `Any`, and messages with their references.

**Names** takes text as a sequence of pieces, an identifier or one character each:
`cxa_demangle` and `interface_list` give the text the demangler returns for a class and
for the list of instances of interface templates; the operators of `util.cpp` take it
apart as the code does, bracket by bracket. **Declarations** computes on types what the
templates compute: type lists with `NilType`, `filter` for `in<>`, `out<>` and `_throw<>`,
`canonify`, then the types that are encoded and decoded on either side. `reply` and `init`
are the two halves of `ErrorFactory`.

**MessageData** exchanges one message at a time: `Call`, `Answers`, `Notifies`,
`HasProperty` and `Refuses` put what one side encodes into `content`, by its
declaration, and the types the other side decodes, by the same declaration, into
`types`; `ArrivesForeign` brings anything to anybody. `DecodeNext` decodes one argument.
`Fails_with` is `respond_with()` or `respond_on()` with an exception object, `Throws` a
method that is left by an exception, which `handle_interface_request()` answers with an
error of its own. A property is decoded as `PropertyCodec` does it (`Property(T)`), without a
look at the signature in the variant. `declared`, `server`, `sent` and `thrown` remember what
was meant; `thrown` is the exception of the user, also where another one is sent. It interleaves neither
with `Ownership`, whose state the exchanges do not touch.

**ObjectManager.** `objects_` is the member of the mixin, `outgoing` what the server has
sent and the bus has not, `queue` what the bus has sent to the client. `Crash` loses the
first and not the second. `Ask` is the call of `GetManagedObjects`, blocking or not, made
by the callback for `Connected` and repeated when it fails while connected;
`BlockingReturns` takes its answer out of the middle of the queue. A property callback
that throws while `add_managed_object()` serializes is its second disjunct, one that
throws while `GetManagedObjects` is answered is a `Crash`. What is known of an object is a
set of property names for each interface name, as in the message. Objects are removed before they are
destroyed: `objects_` holds raw pointers and the mixin is not told.

## Runs

| run | asks | instance |
|---|---|---|
| `server_request` | no double answer, exact references, one owner, the right method, nothing lost, `RequestContract` implemented, every request settles | 3 requests of each kind, 2 descriptors, 2 interfaces; methods may overwrite a descriptor and throw in GetAll |
| `server_throws_late` | *violated*: a method that throws after it answered | 2 requests |
| `method_call` | one result, a timeout used by one request and by the right one, unless a call among the arguments took it, an end for each call | 2 calls, nested or abandoned |
| `connection` | list, stubs and callbacks agree with the bus; events arrive | 2 stubs, one or two names, 2 owners, 2 changes |
| `connected_elsewhere` | *violated*: two servers with the same object path | 2 names, 1 path |
| `signal_match` | registrations counted exactly, a registration has its rule whatever others do, also when the bus refuses | 3 stubs (2 of one interface), 1 signal, 2 properties, 1 stale rule |
| `wrong_interface` | *violated*: signals of another interface of the object | the same |
| `property_updates` | the client converges, in order, and hears of its own Set | 1 client, 2 properties, 2 changes, 2 calls |
| `event_loop` | tables agree, no foreign timeout, all is served, the loop ends | 2 timeouts, 2 descriptors, 1 signal, 2 runs |
| `message_data` | what was sent is what comes out; signatures and names are those that introspection tells; exceptions that answer a request keep name, text and members, thrown ones are replaced by what any client can decode; messages and descriptors are released once | 390 methods of 19 types with markers in every place, 21 signals, 26 samples, 5 exceptions, 3 skeletons, 30 items of other peers; 2 messages, 2 Anys, 2 objects, 4 descriptors |
| `object_manager` | the client's view ends up as the server's set; known in the end | 2 objects (1 and 2 interfaces), 4 signals on their way, 1 death, 1 timeout |
| `interfaces_swapped` | *violated*: an object of two interfaces is announced with the properties of each under the name of the other | the same objects, no deaths |

Why these sizes: the hazards are orders of events around one object, so what
counts is that each *pair* of events can meet. Two descriptors let a deferred
request be answered while another is current, and the third request arrives
behind both. Two calls can nest, overtake and time out behind each other. Two
changes of ownership make a name go and come back, or pass on, around each step of
the set-up. Three stubs make a rule shared and another one not. Two changes of a
property and two calls are what it takes for an older value to come after a newer.
Two timers share one place in the table and one number, one after the other, and
compete with the socket. The samples have each container in each other and empty
ones, the items what other peers may send: a map with equal keys in any order, a
struct or a buffer that is too short, a variant nobody declared. The methods have every
pair of types as arguments, since the second is decoded where the first ended, and the
markers in every place: first, last, between, alone. Four descriptors
run out with two objects and two messages. An object manager needs two objects so that one is
added while the other is removed, and an object of two interfaces; one death and one
timeout, each between any two of four signals and an answer.
`MaxChanges`, `MaxCalls`, `MaxStale`, `MaxSignals`, `MaxRuns`, `MaxFd`, `MaxInFlight`, `MaxCrashes`
and `MaxTimeouts` are the only bounds; they stand in guards.
Where every request, stub and call is used once, the system comes to a natural
end: `CHECK_DEADLOCK FALSE` is there for that reason. Symmetry is used in the
run without temporal properties only (`message_data`).

### Disagreements between code and documentation

Four runs end in a violation on purpose; the trace is the finding (see `findings`).
Reading the code for the models brought up others that have no run:

- `README.md:407` says the first callback after attaching "is due to the attach"; a
  change of the server between the match rule and its Get is told before.
- `tests/properties.cpp:139` expects "no more signals" after `detach()`; the answer to
  the Get of `attach()` is still handed to the callback (`clientside.h:278`).
- `serverside.h:397` does not want to "notify on initialization", but the test it
  makes (`index() == variant_npos`) never holds: `t_` is born with a value.
- `notify_client()` forces the callback (`dispatcher.cpp:522`), so a stub may be told
  `Connected` twice in a row.
- "request specific timeout -> overrides default" (`tests/timeout.cpp:263`): the timeout of
  `stub.m[timeout = t](...)` waits in a variable of the thread for the next request that is
  sent (`stubbase.cpp:20-37`). A call among the arguments of `m` is sent with `t` and `m`
  with the default; arguments that throw leave `t` to whatever is called next.
  `OwnTimeout` is the claim, `TimeoutKept` what is left of it. As an invariant of
  `method_call.cfg` TLC finds `OwnTimeout` violated after two steps, `Ask` and a nested call, and
  with `Liberties = {"throw"}` after three.
- If `AddMatch` fails in `attach_property()` (`stubbase.cpp:383`), flag and counter stay
  set, and a later detach takes the registration of another stub away. `RulesExact` and
  `MatchesCounted` except exactly the rules for which this happened.
- The example of `README.md:506-520` lacks a `return` and answers its request twice.
- `stop()` before `run()` has stored `true` (`dispatcher.cpp:793`) is lost, though `dispatcher.h`
  has `run()` loop "until stop() is called".
- A `FileDescriptor` made from a reference and then decoded into keeps `noop()` as its
  destructor (`filedescriptor.cpp:103`): the new descriptor is never closed.
- `FixedSizeBuffer` gives `a` as its signature, copies its full length out of a shorter
  array, and takes arrays of any type (`buffer.h:104-123`). A property of this type cannot
  be sent: libdbus does not open a variant with that signature.
- An enum is written and read as four bytes whatever its size (`pod.h:38`).
- A result that is a single `std::tuple` is read as a list of results; the comment at
  `deserialize_and_return.h:53` says so.
- A variant that has no alternative for what a peer sent fails an assert
  (`variant.h:117`); without asserts it keeps its value.
- `throw Error("name")` in a method always reaches the client as
  `simppl.dbus.UnhandledException` (`skeletonbase.cpp:462`), though `README.md:506` has "You may
  now throw the error in a server's method callback" and `tests/errors.cpp:39` calls an
  instance the one "that can be thrown in user code". Only `respond_with()` and
  `respond_on()` keep the name (the example after `README.md:506` and the tests of methods use
  these; `hello3` throws, but nothing that is an `Error`). Property callbacks keep it
  (`skeletonbase.cpp:407`). `ErrorsTold` claims that exception objects that answer a request
  arrive as they were made, and of those thrown only that the client can decode what
  replaces them.
- `PropertyCodec::decode()` (`property.h:73-81`) and the loop over the answer to GetAll
  (`stubbase.cpp:209-215`) do not compare the signature in the variant with the type of the
  property, as the decoder of a variant does. What is in it is still decoded with
  the test each basic type makes.
- An exception without a name in a method that declares none is replied without a name
  (`detail/error.h:86`), which libdbus refuses.
- An error reply without any argument, as other peers send them, makes the client throw
  `DecoderError` instead of the error (`detail/error.h:66`; `tests/errors.cpp:27` knows it).
- The numbers in the names `argN` of introspection count the markers that are not shown
  (`detail/parameter_deduction.h:353`).
- The reply of `handle_introspect_request()` is never released (`skeletonbase.cpp:296`).
- An `Error` that is moved from keeps serial 0 (`error.cpp:44`), which is not the invalid
  serial; its own comment says so.

## Fairness

Safety properties need none. `ObjectManager` assumes that both event loops run and that the
bus forwards (`WF` of the answer, of `Forward` and of the handlers of the client); neither that
the server stays alive nor that a call is answered in time. The liveness properties assume of the code what
`Dispatcher::run()` does until it is stopped: it dispatches what is queued (`WF` of
`Dispatch`, `try_handle_signal`, `Handle`) and handles a timer that expired. `poll()`
serves one descriptor per round, so in `MethodCall` each timer has a `WF` of its own;
`TimersServed` of `EventLoop` justifies it as long as the messages are finite in number (a
peer that has the socket ready in every round does starve the timers).
`EventLoop` itself assumes that the thread runs (`WF` of `Loop`), that not every `poll()` is
interrupted (`SF` of `poll`), and that time passes (`WF` of `Expire`). A method of the user returns or throws, and the evaluation of arguments
ends. The bus delivers what it is given. Nothing is assumed of the other side of
a call (a reply may never come), of the user (a deferred request may be held for
ever) or of the owners of names.

## Proofs

The proofs hold for every value of the constants that the named assumptions of the
modules allow (`RoutingAssumption` and `ObjectManagerAssumption`: interfaces are distinct and
there is at least one; the others say that bounds are natural numbers and the like): any number of
requests, calls, names, stubs, clients, properties, timers, messages, descriptors and
managed objects. Each module
with proofs states an inductive invariant `IInv`, proves that it holds initially and that
every action keeps it, and derives the theorems from it. Some theorems need a premise
that is not an assumption of the module. The run named with it ends in a violation and
shows that it cannot be dropped; for `OwnTimeout` this is described under the disagreements.

| module | theorem | property | premise |
|---|---|---|---|
| `ServerRequestProofs` | `TypeCorrect`, `RequestsMoved`, `RequestorRemembered` | `TypeOK`, `SoleOwner`, `RequestorMatches` | |
| | `MessagesAlive` | `DescriptorsAlive`: no descriptor of a freed message | |
| | `NoRequestLost` | `NoneLost` | |
| | `RespondOnlyOnce`, `NoLeak` | `AnsweredOnce`, `ReferencesExact` | no method throws after it answered (`server_throws_late`) |
| | `ImplementsContract` | `KeepsContract`: the refinement of `RequestContract` | the same |
| `MethodCallProofs` | `TypeCorrect`, `TimeoutServesOnce`, `CallsEndOnce` | `TypeOK`, `TimeoutUsedOnce`, `OneResult` | |
| | `TimeoutFindsCall` | `TimeoutKept` | |
| | `OwnTimeoutUndisturbed` | `OwnTimeout` | arguments neither throw nor make calls |
| `ConnectionProofs` | `TypeCorrect`, `NamesKnown` | `TypeOK`, `BusnamesFollow` | |
| | `StubsFollowNames`, `CallbacksInformed` | `StubsFollow`, `CallbackInformed` | no two servers have the same path (`connected_elsewhere`) |
| `SignalMatchProofs` | `TypeCorrect`, `RegistrationsCounted`, `NobodySilenced` | `TypeOK`, `MatchesCounted`, `RulesExact` | |
| `PropertyUpdatesProofs` | `TypeCorrect`, `ClientsConverge`, `ToldForward`, `ToldBeforehand` | `TypeOK`, `Converges`, `ToldInOrder`, `ToldBeforeSetCallback` | |
| `EventLoopProofs` | `TypeCorrect`, `TablesStayRight`, `NoCallTimedOutEarly` | `TypeOK`, `TablesAgree`, `OnlyExpired` | |
| `OwnershipProofs` | `TypeCorrect`, `MessagesOutliveReaders`, `DescriptorsClosedOnce` | `TypeOK`, `MessagesHeld`, `ClosedOnce` | |
| `ObjectManagerProofs` | `ViewFollowsServer` | `ViewConverges` | |
| | `SingleInterfaceRight` | `AsIntrospected`: clients know of an object what introspection tells of it | each object has one interface (`interfaces_swapped`) |

None of the properties is inductive alone. What they have to be strengthened by:

**ServerRequest.** Types; every message is in the queue at most once and not also being
served (`QueuedOnce`, `QueuedFresh`); a request not sent yet occurs nowhere
(`UnsentFresh`); a descriptor is either empty in both members or in none
(`AllWhole`); the current request is the one being served (`CurrentServed`); each
request has one owner (`OwnedOnce`); and a count is at least the number of those
who refer to the message (`Referenced`). Without the last the type of `refs` does not
carry over a release, without `OwnedOnce` the last does not. `AnsweredOnce` needs that what
is held is unanswered (`HeldUnanswered`); `NoneLost` that the request being dispatched is
somebody's or settled (`Settled`); the exact count and the contract that what was let go
of has no owner (`LetGoUnowned`). For the contract the step of each action is first
described by the fate of every request (`Fates`): it stays, moves to its next status, or
is lost in one of the ways the contract allows.

**MethodCall.** A call that has not ended has no result (`NothingYet`), only calls that
expect a reply are pending, the thread waits for a pending call, and a timeout that is in
the thread's variable or was sent is spent: `operator[]` was evaluated for its call and
will not be again, and it is not in both places (`TimeoutsSpent`). Whatever ends
a call tests that it is pending, or waits for it, which is what these conjuncts speak of.
For `TimeoutKept` one has to know where the timeout of the call is whose arguments are being
evaluated: in the variable, or sent with a call that has none of its own (`AskedHeld`).

**Connection.** `busnames_` lags behind the bus by what is in the queue, so the invariant
is about the queue: its last signal about a name that makes the name come or go tells
whether it has an owner now (`LastTurnRight`), and if there is none `busnames_` does
(`NamesRight`). The last such signal is enough since `busnames_` is a set: this is why
`ListNames` may tell again what a signal says, too. `Follows` relates a stub to `busnames_` and
its callback to the stub, "or a `notify_client` for it is on its way"; this is where two
stubs with the same path and different names disturb each other.

**SignalMatch.** The counter of a stub is the number of its flags (`FlagsCounted`). The count
of a rule never exceeds the number of its users and equals it unless one of its calls
failed in a way that loses count (`UsersCounted`); and the bus has one copy of what is
counted, more exactly where it refused to remove one (`RulesCounted`): a rule that stays
for good silences nobody. That a count has users is why no other rule stays behind.

**PropertyUpdates.** What is under way to a client is one sequence, `inbox[c] \o outbox`, and
the invariants speak of its order. `Bookkeeping`: requests and answers belong to calls that
still wait, and come in the order of the calls. `PipesOrdered`: no message for a property has
an older value than one before it or than the last one told. `Follows`: the last message for
a callback, or what the callback was told if there is none, is the value the property has,
unless the Get of `attach()` is still to be sent or answered (`Settles`); a Set sent after `attach()` is
behind its Get (`SetsBehind`); and before the answer to a Set something as new as its value is
told (`SetsAnswered`). Each step of the system appends to such a sequence, takes its head or, in a
blocking call, an answer from its middle, and the lemmas are about these three.

**EventLoop.** An added timeout has a timer of its own (`OwnTimers`), and while the entries are
looked at, what `poll()` said of a timer still holds (`ScanFresh`).

**Ownership.** A reference count is the number of `Any`s plus the handler; what is not yet
received is referenced by nobody (`UnseenFree`); a message that is freed has given up its
descriptor (`CarriedAlive`); each open descriptor has one owner among objects, messages and the
user (`Exclusive`, `NothingLost`).

**ObjectManager.** What is under way is one sequence, `queue \o outgoing`. Its last message
about an object is right if no death follows it (`StreamRight`), where an answer to
`GetManagedObjects` is about all objects and gives way to a later signal of one; a death
that is told is true unless a return follows (`Alternation`); a server that is dead has
no objects and nothing to send (`DeadIsEmpty`); and what the client knows of an object is
right if nothing under way is about it, no return is to be told and no answer is
awaited (`Known`). That a client which is told of a
return asks, or waits for an answer already, and asks again when that fails, is what makes
the last conjunct hold with answers lost. An answer taken from the middle of the queue is
the case that needs most: the signals before it are handled later, and those
after it must be right for the objects they name. `AsIntrospected` needs no order, only
that every view is the `serialize_object` of its object (in `Types`). Its list of names runs one
way while that of the ids runs the other (`Lists`, `Serialized`): with n interfaces the k-th
is given the properties of the (n + 1 - k)-th, which is right for n = 1 (`SingleReported`).

The leaves are small on purpose: a step that needs a sequence and an order, or two requests and
a primed table, is split by the case or by the element it is about, and facts on sequences are
lemmas that speak of positions. All leaves are still proved when each gets a fifth of the usual
time (`tlapm --stretch 0.2`), so that the proofs do not depend on a fast or idle machine.

### What is only model-checked

- Liveness is out of the prover's reach: `EveryRequestSettles`, `EveryCallEnds`,
  `ConnectionSettles`, `TimersServed`, `EverythingDispatched`, `StopEnds`, `EventuallyUpToDate`,
  `KnownInTheEnd`.
- `MessageData` with `Codecs`, `Names` and `Declarations`: their operators are recursive, like the
  templates, and the provers have no induction over data. So `RoundTrip`, `NothingInvented`,
  `Described` and `ErrorsTold` hold for the samples of the run.

## Not modelled

- Messages without an interface, for which `handle_request()` calls `strcmp()` with a null
  pointer (`skeletonbase.cpp:194-197`), and a Set of a property that is not writable
  (`serverside.h:391`): no stub sends either.
- Members of `org.freedesktop.DBus.ObjectManager` other than `GetManagedObjects`:
  `handle_objectmanager_request()` does not look at the member and answers all alike.
- Timeouts of 0 ms, which mean "none given", and of `INT_MAX`, which libdbus takes for none
  at all; a call with a timeout of its own among the arguments of another one.
- The layout of what is formatted: the XML of introspection beyond names, signatures and
  directions, the texts of errors, the bytes of strings and integers. Encoding a
  `FileDescriptor`: libdbus duplicates it, the object is as before.
- Interfaces and exceptions that are not at the scope of a namespace: the names of
  templates and of classes in anonymous namespaces do not demangle to valid bus names.
- Of the event loop a second `run()` with pending calls, write watches, watches that are
  toggled, and the variant without `poll()`.
- The deletion of a stub from its own callback, which invalidates an iterator of the
  dispatcher: undefined behaviour that a model of sets cannot show. A stub that is destroyed
  with pending calls: whose callbacks dangle depends on what the user's functions captured.
- Threads: the library supports one thread per dispatcher, and `running_` is the only atomic.
- The INI reader, which no file of the library includes and which includes a header that is
  not there, and the examples.

## Plan

1. Done: server requests (first, since every server runs it and it holds the
   riskiest state), calls, connection state, registrations, properties.
2. Done: the event loop, serialisation and ownership of what messages bring.
3. Done: declarations, names, errors and introspection; the object manager with a server
   that dies and comes back; a loop that is run again.
4. Done: proofs of the safety properties of requests, calls, connection state, registrations,
   properties, event loop, ownership and managed objects, and of the refinement of
   `RequestContract`. These modules use no recursive operator for this reason; `Names`,
   `Codecs`, `Declarations` and with them `MessageData` do and stay with TLC.
5. Left: a second `run()` of the event loop with pending calls.
