---------------------------- MODULE SignalMatch ----------------------------
(***************************************************************************)
(* Which signals the bus sends to a client.  A stub lists the signals the  *)
(* user attached and flags its attached properties; all of its properties  *)
(* share one registration.  The dispatcher counts registrations per match  *)
(* rule, because several stubs may need the same one, and adds the rule to *)
(* the bus with the first and removes it with the last of them.            *)
(*                                                                         *)
(* External: AddMatch and RemoveMatch are blocking calls of the bus, which *)
(* may refuse them (limits, connection lost); the bus counts equal rules.  *)
(***************************************************************************)
EXTENDS Naturals, FiniteSets

CONSTANTS Stubs,      \* the stubs a client may create
          Signals,    \* member names of signals
          Properties, \* names of properties
          PropertiesChanged,
          busname, iface, objectpath, \* of each stub
          Failures,   \* the calls of the bus that may fail
          MaxStale    \* bound: rules the bus keeps though RemoveMatch was called

Failure == {"AddMatch", "RemoveMatch"}

ASSUME MatchAssumption ==
    /\ IsFiniteSet(Stubs) /\ IsFiniteSet(Signals)
    /\ PropertiesChanged \notin Signals
    /\ Failures \subseteq Failure
    /\ MaxStale \in Nat

\* What a stub can register for, and the rule it needs for it: the rule of a
\* signal does not name the object path, the one for the properties does.
Members == Signals \cup {PropertiesChanged}

generate_matchstring(s, m) ==
    IF m = PropertiesChanged THEN <<busname[s], m, objectpath[s]>>
                             ELSE <<busname[s], m, iface[s]>>

Rules == {generate_matchstring(s, m) : s \in Stubs, m \in Members}

VARIABLES
    life,            \* of the stubs: "new", "added" to the dispatcher, or "gone"
    signals_,        \* StubBase::signals_, the attached signals
    properties_,     \* the properties flagged as attached
    attached_properties_, \* StubBase::attached_properties_, their counter
    signal_matches_, \* Dispatcher::Private::signal_matches_, 0 for no entry
    rules,           \* the bus: how often each rule was added
    failed           \* history: the calls of the bus that failed, each with its rule

vars == <<life, signals_, properties_, attached_properties_, signal_matches_, rules, failed>>

Registered(s) ==
    signals_[s] \cup (IF attached_properties_[s] > 0 THEN {PropertiesChanged} ELSE {})

Init ==
    /\ life = [s \in Stubs |-> "new"]
    /\ signals_ = [s \in Stubs |-> {}]
    /\ properties_ = [s \in Stubs |-> {}]
    /\ attached_properties_ = [s \in Stubs |-> 0]
    /\ signal_matches_ = [k \in Rules |-> 0]
    /\ rules = [k \in Rules |-> 0]
    /\ failed = {}
-----------------------------------------------------------------------------
\* [mutant of register_signal_match] a rule that is there is not counted again
register_signal_match_uncounted(k) ==
    /\ signal_matches_' = [signal_matches_ EXCEPT ![k] = 1]
    /\ rules' = [rules EXCEPT ![k] = IF signal_matches_[k] = 0 THEN @ + 1 ELSE @]
    /\ UNCHANGED failed

register_signal_match(k) ==
    /\ signal_matches_' = [signal_matches_ EXCEPT ![k] = @ + 1]
    /\ rules' = [rules EXCEPT ![k] = IF signal_matches_[k] = 0 THEN @ + 1 ELSE @]
    /\ UNCHANGED failed

\* dbus_bus_add_match() fails, RuntimeError is thrown.
AddMatchFails(k) ==
    /\ "AddMatch" \in Failures /\ signal_matches_[k] = 0
    /\ failed' = failed \cup {<<"AddMatch", k>>}
    /\ UNCHANGED <<signal_matches_, rules>>

\* [mutant of unregister_signal_matches] any detach removes the rule
unregister_signal_matches_at_once(K) ==
    /\ signal_matches_' =
          [k \in Rules |-> IF k \in K /\ signal_matches_[k] > 0
                           THEN signal_matches_[k] - 1 ELSE signal_matches_[k]]
    /\ rules' = [k \in Rules |-> IF k \in K /\ signal_matches_[k] > 0 /\ rules[k] > 0
                                 THEN rules[k] - 1 ELSE rules[k]]
    /\ UNCHANGED failed

\* unregister_signal_match() of each rule in K: a rule without an entry is ignored.
unregister_signal_matches(K) ==
    /\ signal_matches_' =
          [k \in Rules |-> IF k \in K /\ signal_matches_[k] > 0
                           THEN signal_matches_[k] - 1 ELSE signal_matches_[k]]
    /\ rules' = [k \in Rules |-> IF k \in K /\ signal_matches_[k] = 1
                                 THEN rules[k] - 1 ELSE rules[k]]
    /\ UNCHANGED failed

\* dbus_bus_remove_match() fails: the entry is erased before RuntimeError is thrown.
RemoveMatchFails(k) ==
    /\ "RemoveMatch" \in Failures /\ signal_matches_[k] = 1
    /\ rules[k] <= MaxStale
    /\ signal_matches_' = [signal_matches_ EXCEPT ![k] = 0]
    /\ failed' = failed \cup {<<"RemoveMatch", k>>}
    /\ UNCHANGED rules
-----------------------------------------------------------------------------
add_client(s) ==
    /\ life[s] = "new"
    /\ life' = [life EXCEPT ![s] = "added"]
    /\ UNCHANGED <<signals_, properties_, attached_properties_, signal_matches_, rules, failed>>

\* attach() of a signal; one that is attached returns at once.
register_signal(s, g) ==
    /\ life[s] = "added" /\ g \notin signals_[s]
    /\ \/ /\ register_signal_match(generate_matchstring(s, g))
          /\ signals_' = [signals_ EXCEPT ![s] = @ \cup {g}]
       \/ AddMatchFails(generate_matchstring(s, g)) /\ UNCHANGED signals_
    /\ UNCHANGED <<life, properties_, attached_properties_>>

\* detach() of a signal; an exception leaves it in the list.
unregister_signal(s, g) ==
    /\ life[s] = "added" /\ g \in signals_[s]
    /\ \/ /\ unregister_signal_matches({generate_matchstring(s, g)})
          /\ signals_' = [signals_ EXCEPT ![s] = @ \ {g}]
       \/ RemoveMatchFails(generate_matchstring(s, g)) /\ UNCHANGED signals_
    /\ UNCHANGED <<life, properties_, attached_properties_>>

\* attach() of a property: flag and counter are set, then the first property of
\* the stub registers, which may throw.
attach_property(s, p) ==
    /\ life[s] = "added" /\ p \notin properties_[s]
    /\ properties_' = [properties_ EXCEPT ![s] = @ \cup {p}]
    /\ attached_properties_' = [attached_properties_ EXCEPT ![s] = @ + 1]
    /\ LET k == generate_matchstring(s, PropertiesChanged)
       IN IF attached_properties_[s] = 0
          THEN register_signal_match(k) \/ AddMatchFails(k)
          ELSE UNCHANGED <<signal_matches_, rules, failed>>
    /\ UNCHANGED <<life, signals_>>

\* [mutant of detach_property] the flag is not looked at
detach_property_unflagged(s, p) ==
    /\ life[s] = "added"
    /\ properties_' = [properties_ EXCEPT ![s] = @ \ {p}]
    /\ attached_properties_' = [attached_properties_ EXCEPT ![s] = @ - 1]
    /\ LET k == generate_matchstring(s, PropertiesChanged)
       IN IF attached_properties_[s] = 1
          THEN unregister_signal_matches({k}) \/ RemoveMatchFails(k)
          ELSE UNCHANGED <<signal_matches_, rules, failed>>
    /\ UNCHANGED <<life, signals_>>

detach_property(s, p) ==
    /\ life[s] = "added" /\ p \in properties_[s]
    /\ properties_' = [properties_ EXCEPT ![s] = @ \ {p}]
    /\ attached_properties_' = [attached_properties_ EXCEPT ![s] = @ - 1]
    /\ LET k == generate_matchstring(s, PropertiesChanged)
       IN IF attached_properties_[s] = 1
          THEN unregister_signal_matches({k}) \/ RemoveMatchFails(k)
          ELSE UNCHANGED <<signal_matches_, rules, failed>>
    /\ UNCHANGED <<life, signals_>>

\* The destructor of the stub: remove_client() and cleanup().  An exception here
\* would end the process.
remove_client(s) ==
    /\ life[s] = "added"
    /\ life' = [life EXCEPT ![s] = "gone"]
    /\ unregister_signal_matches({generate_matchstring(s, m) : m \in Registered(s)})
    /\ signals_' = [signals_ EXCEPT ![s] = {}]
    /\ properties_' = [properties_ EXCEPT ![s] = {}]
    /\ attached_properties_' = [attached_properties_ EXCEPT ![s] = 0]

Next == \E s \in Stubs :
    \/ add_client(s) \/ remove_client(s)
    \/ \E g \in Signals : register_signal(s, g) \/ unregister_signal(s, g)
    \/ \E p \in Properties : attach_property(s, p) \/ detach_property(s, p)

Spec == Init /\ [][Next]_vars
-----------------------------------------------------------------------------
(***************************************************************************)
(* Properties                                                              *)
(***************************************************************************)

\* The variables have their types.
TypeOK ==
    /\ life \in [Stubs -> {"new", "added", "gone"}]
    /\ signals_ \in [Stubs -> SUBSET Signals]
    /\ properties_ \in [Stubs -> SUBSET Properties]
    /\ attached_properties_ \in [Stubs -> Nat]
    /\ signal_matches_ \in [Rules -> Nat]
    /\ rules \in [Rules -> Nat]
    /\ failed \subseteq Failures \X Rules

\* Who needs a rule: the stubs, each with the member it registered for.
Users(k) == {u \in Stubs \X Members :
                u[2] \in Registered(u[1]) /\ generate_matchstring(u[1], u[2]) = k}

\* An attach() of a property threw: the stub goes on as if it were registered.
Phantom(k) == k[2] = PropertiesChanged /\ <<"AddMatch", k>> \in failed

\* A detach() threw: the bus keeps a rule that nobody counts.
Stale(k) == <<"RemoveMatch", k>> \in failed

\* The count of a rule is the number of registrations that need it, over all
\* stubs: no attach is counted twice, no detach or destruction forgotten.  A rule
\* that the bus refused to remove, or to add for a property, is excepted: the code
\* loses count of it, but of no other.
MatchesCounted ==
    \A k \in Rules : ~Phantom(k) /\ ~Stale(k) => signal_matches_[k] = Cardinality(Users(k))

\* As long as one stub is registered for a rule, the bus has it: no stub silences
\* another one by detaching, by being destroyed, or by a RemoveMatch that fails; and
\* an AddMatch that fails harms no signal.  Excepted are the properties that share
\* a rule with an attach() that threw (stubbase.cpp:383): the stub that was told of
\* the exception takes the rule from the others when it detaches.  And nothing is
\* left behind: without users there is no rule, and never two of them, unless a
\* RemoveMatch of this rule failed.
RulesExact ==
    \A k \in Rules :
        /\ Users(k) # {} /\ ~Phantom(k) => rules[k] > 0
        /\ ~Stale(k) => rules[k] <= 1 /\ (rules[k] = 1 => Users(k) # {})

\* The stubs that evaluate a signal, found by object path and member name, and
\* those whose server sent it.
Receivers(sender, interface, path, g) ==
    IF \E s \in Stubs : /\ busname[s] = sender /\ iface[s] = interface
                        /\ rules[generate_matchstring(s, g)] > 0
    THEN {s \in Stubs : life[s] = "added" /\ objectpath[s] = path /\ g \in signals_[s]}
    ELSE {}

\* "you can simply create multiple stubs with different interfaces": a stub
\* evaluates only the signals of its own interface.
OnlyOwnSignals == \A s \in Stubs, g \in Signals :
    \A r \in Receivers(busname[s], iface[s], objectpath[s], g) :
        iface[r] = iface[s] /\ busname[r] = busname[s]
=============================================================================
