-------------------------- MODULE SignalMatchProofs --------------------------
(***************************************************************************)
(* Proofs about SignalMatch for every set of stubs, signals and properties *)
(* and every way their rules coincide: the dispatcher counts exactly the   *)
(* registrations, and the bus has exactly the rules that are needed, but   *)
(* for those of a call of the bus that failed.                             *)
(***************************************************************************)
EXTENDS SignalMatch, FiniteSetTheorems, TLAPS

-----------------------------------------------------------------------------
(***************************************************************************)
(* The users of a rule                                                     *)
(***************************************************************************)

\* One stub needs different rules for different members.
LEMMA RulesDiffer ==
    ASSUME NEW s, NEW m, NEW n, generate_matchstring(s, m) = generate_matchstring(s, n)
    PROVE  m = n
BY DEF generate_matchstring

\* The registrations that need a rule can be counted.
LEMMA UsersFinite ==
    ASSUME NEW k
    PROVE  /\ IsFiniteSet(Users(k)) /\ Cardinality(Users(k)) \in Nat
           /\ Users(k) \subseteq Stubs \X Members
<1>1. IsFiniteSet(Members)
  BY FS_AddElement, MatchAssumption DEF Members
<1>2. IsFiniteSet(Stubs \X Members)
  BY <1>1, FS_Product, MatchAssumption
<1>3. Users(k) \subseteq Stubs \X Members
  BY DEF Users
<1>. QED
  BY <1>2, <1>3, FS_Subset, FS_CardinalityType

\* A stub that registers for one more member is one more user of one rule.
LEMMA OneMoreUser ==
    ASSUME NEW s \in Stubs, NEW m \in Members, m \notin Registered(s),
           Registered(s)' = Registered(s) \cup {m},
           \A t \in Stubs \ {s} : Registered(t)' = Registered(t)
    PROVE  \A k : Cardinality(Users(k))' =
                     IF k = generate_matchstring(s, m) THEN Cardinality(Users(k)) + 1
                                                       ELSE Cardinality(Users(k))
<1>. SUFFICES ASSUME NEW k
              PROVE  Cardinality(Users(k))' =
                        IF k = generate_matchstring(s, m) THEN Cardinality(Users(k)) + 1
                                                          ELSE Cardinality(Users(k))
  OBVIOUS
<1>1. CASE k = generate_matchstring(s, m)
  <2>1. Users(k)' = Users(k) \cup {<<s, m>>}
    BY <1>1 DEF Users
  <2>2. <<s, m>> \notin Users(k)
    BY DEF Users
  <2>. QED
    BY <1>1, <2>1, <2>2, UsersFinite, FS_AddElement
<1>2. CASE k # generate_matchstring(s, m)
  <2>1. Users(k)' = Users(k)
    BY <1>2 DEF Users
  <2>. QED
    BY <1>2, <2>1
<1>. QED
  BY <1>1, <1>2

\* A stub that gives up members is one user less of the rule of each of them.
LEMMA OneUserLess ==
    ASSUME NEW s \in Stubs, NEW M \in SUBSET Members, M \subseteq Registered(s),
           Registered(s)' = Registered(s) \ M,
           \A t \in Stubs \ {s} : Registered(t)' = Registered(t)
    PROVE  \A k : IF k \in {generate_matchstring(s, m) : m \in M}
                  THEN /\ Cardinality(Users(k)) > 0
                       /\ Cardinality(Users(k))' = Cardinality(Users(k)) - 1
                  ELSE Cardinality(Users(k))' = Cardinality(Users(k))
<1>. SUFFICES ASSUME NEW k
              PROVE  IF k \in {generate_matchstring(s, m) : m \in M}
                     THEN /\ Cardinality(Users(k)) > 0
                          /\ Cardinality(Users(k))' = Cardinality(Users(k)) - 1
                     ELSE Cardinality(Users(k))' = Cardinality(Users(k))
  OBVIOUS
<1>1. CASE k \in {generate_matchstring(s, m) : m \in M}
  <2>1. PICK m \in M : generate_matchstring(s, m) = k
    BY <1>1
  <2>2. \A n \in M : generate_matchstring(s, n) = k => n = m
    BY <2>1, RulesDiffer
  <2>3. Users(k)' = Users(k) \ {<<s, m>>}
    BY <2>1, <2>2 DEF Users
  <2>4. <<s, m>> \in Users(k)
    BY <2>1 DEF Users
  <2>5. Cardinality(Users(k)) # 0
    BY <2>4, UsersFinite, FS_EmptySet
  <2>6. Cardinality(Users(k)) > 0
    BY <2>5, UsersFinite
  <2>7. Cardinality(Users(k) \ {<<s, m>>}) = Cardinality(Users(k)) - 1
    <3>1. PICK U, e : U = Users(k) /\ e = <<s, m>>
      OBVIOUS
    <3>2. IsFiniteSet(U) /\ e \in U
      BY <2>4, <3>1, UsersFinite
    <3>3. Cardinality(U \ {e}) = Cardinality(U) - 1
      BY <3>2, FS_RemoveElement
    <3>. QED
      BY <3>1, <3>3
  <2>. QED
    BY <1>1, <2>3, <2>6, <2>7
<1>2. CASE k \notin {generate_matchstring(s, m) : m \in M}
  <2>1. Users(k)' = Users(k)
    BY <1>2 DEF Users
  <2>. QED
    BY <1>2, <2>1
<1>. QED
  BY <1>1, <1>2
-----------------------------------------------------------------------------
(***************************************************************************)
(* The inductive invariant                                                 *)
(***************************************************************************)

\* The counter of a stub is the number of its flags.
FlagsCounted == \A s \in Stubs :
    /\ IsFiniteSet(properties_[s])
    /\ attached_properties_[s] = Cardinality(properties_[s])

\* No rule is counted more often than it is needed, and none less often but those
\* that a failure made the code lose count of.
UsersCounted == \A k \in Rules :
    /\ signal_matches_[k] <= Cardinality(Users(k))
    /\ ~Phantom(k) /\ ~Stale(k) => signal_matches_[k] = Cardinality(Users(k))

\* The bus has one copy of a counted rule, none of one that is not, and more than
\* that exactly of those that it refused to remove.
RulesCounted == \A k \in Rules :
    LET once == IF signal_matches_[k] > 0 THEN 1 ELSE 0
    IN IF Stale(k) THEN rules[k] > once ELSE rules[k] = once

IInv == TypeOK /\ FlagsCounted /\ UsersCounted /\ RulesCounted

LEMMA RuleOf ==
    ASSUME NEW s \in Stubs, NEW m \in Members
    PROVE  /\ generate_matchstring(s, m) \in Rules
           /\ generate_matchstring(s, m)[2] = m
BY DEF Rules, generate_matchstring

\* The invariant is what the two properties need.
LEMMA Counted == IInv => MatchesCounted /\ RulesExact
<1>. SUFFICES ASSUME IInv PROVE MatchesCounted /\ RulesExact
  OBVIOUS
<1>1. MatchesCounted
  BY DEF IInv, UsersCounted, MatchesCounted
<1>2. ASSUME NEW k \in Rules
      PROVE  /\ Users(k) # {} /\ ~Phantom(k) => rules[k] > 0
             /\ ~Stale(k) => rules[k] <= 1 /\ (rules[k] = 1 => Users(k) # {})
  <2>1. PICK users \in Nat : users = Cardinality(Users(k)) /\ (users = 0 <=> Users(k) = {})
    BY UsersFinite, FS_EmptySet
  <2>2. signal_matches_[k] \in Nat /\ rules[k] \in Nat
    BY DEF IInv, TypeOK
  <2>3. /\ signal_matches_[k] <= users
        /\ ~Phantom(k) /\ ~Stale(k) => signal_matches_[k] = users
    BY <2>1 DEF IInv, UsersCounted
  <2>4. /\ Stale(k) => rules[k] > 0
        /\ ~Stale(k) => rules[k] = IF signal_matches_[k] > 0 THEN 1 ELSE 0
    BY <2>2 DEF IInv, RulesCounted
  <2>. QED
    BY <2>1, <2>2, <2>3, <2>4
<1>. QED
  BY <1>1, <1>2 DEF RulesExact

-----------------------------------------------------------------------------
(***************************************************************************)
(* What the steps of the dispatcher do to the count of each rule           *)
(***************************************************************************)

\* One more registration: the rule is added with the first.
LEMMA Counts ==
    ASSUME TypeOK, RulesCounted, NEW k \in Rules, register_signal_match(k)
    PROVE  /\ signal_matches_' \in [Rules -> Nat] /\ rules' \in [Rules -> Nat]
           /\ failed' = failed /\ RulesCounted'
           /\ \A j \in Rules : signal_matches_'[j] = IF j = k THEN signal_matches_[j] + 1
                                                              ELSE signal_matches_[j]
<1>1. /\ failed' = failed
      /\ signal_matches_' = [signal_matches_ EXCEPT ![k] = @ + 1]
      /\ rules' = [rules EXCEPT ![k] = IF signal_matches_[k] = 0 THEN @ + 1 ELSE @]
  BY DEF register_signal_match
<1>2. signal_matches_' \in [Rules -> Nat] /\ rules' \in [Rules -> Nat]
  BY <1>1 DEF TypeOK
<1>3. \A j \in Rules :
        /\ signal_matches_'[j] = IF j = k THEN signal_matches_[j] + 1 ELSE signal_matches_[j]
        /\ rules'[j] = IF j = k /\ signal_matches_[j] = 0 THEN rules[j] + 1 ELSE rules[j]
  BY <1>1 DEF TypeOK
<1>4. \A j \in Rules : signal_matches_[j] \in Nat /\ rules[j] \in Nat
  BY DEF TypeOK
<1>5. \A j \in Rules : Stale(j)' <=> Stale(j)
  BY <1>1 DEF Stale
<1>6. RulesCounted'
  BY <1>3, <1>4, <1>5 DEF RulesCounted
<1>. QED
  BY <1>1, <1>2, <1>3, <1>6

\* One registration less for some rules: each is removed with its last.
LEMMA Uncounts ==
    ASSUME TypeOK, RulesCounted, NEW K, unregister_signal_matches(K)
    PROVE  /\ signal_matches_' \in [Rules -> Nat] /\ rules' \in [Rules -> Nat]
           /\ failed' = failed /\ RulesCounted'
           /\ \A j \in Rules : signal_matches_'[j] =
                 IF j \in K /\ signal_matches_[j] > 0 THEN signal_matches_[j] - 1
                                                      ELSE signal_matches_[j]
<1>1. /\ failed' = failed
      /\ DOMAIN signal_matches_' = Rules /\ DOMAIN rules' = Rules
      /\ signal_matches_' = [j \in Rules |-> signal_matches_'[j]]
      /\ rules' = [j \in Rules |-> rules'[j]]
  BY DEF unregister_signal_matches
<1>2. \A j \in Rules :
        /\ signal_matches_'[j] = IF j \in K /\ signal_matches_[j] > 0 THEN signal_matches_[j] - 1
                                                                      ELSE signal_matches_[j]
        /\ rules'[j] = IF j \in K /\ signal_matches_[j] = 1 THEN rules[j] - 1 ELSE rules[j]
  BY DEF unregister_signal_matches
<1>3. \A j \in Rules : signal_matches_[j] \in Nat /\ rules[j] \in Nat
  BY DEF TypeOK
<1>4. \A j \in Rules : signal_matches_[j] = 1 => rules[j] > 0
  BY <1>3 DEF RulesCounted
<1>5. \A j \in Rules : signal_matches_'[j] \in Nat /\ rules'[j] \in Nat
  BY <1>2, <1>3, <1>4
<1>6. \A j \in Rules : Stale(j)' <=> Stale(j)
  BY <1>1 DEF Stale
<1>7. RulesCounted'
  BY <1>2, <1>3, <1>6 DEF RulesCounted
<1>. QED
  BY <1>1, <1>2, <1>5, <1>7

\* An AddMatch that fails changes no count; what it makes of the properties is
\* remembered.
LEMMA AddFails ==
    ASSUME TypeOK, RulesCounted, NEW k \in Rules, AddMatchFails(k)
    PROVE  /\ UNCHANGED <<signal_matches_, rules>> /\ failed' \subseteq Failures \X Rules
           /\ RulesCounted'
           /\ \A j \in Rules : /\ Stale(j)' <=> Stale(j)
                               /\ Phantom(j)' <=> \/ Phantom(j)
                                                  \/ j = k /\ k[2] = PropertiesChanged
<1>1. /\ UNCHANGED <<signal_matches_, rules>> /\ "AddMatch" \in Failures
      /\ failed' = failed \cup {<<"AddMatch", k>>}
  BY DEF AddMatchFails
<1>2. failed' \subseteq Failures \X Rules
  BY <1>1 DEF TypeOK
<1>3. \A j \in Rules : Stale(j)' <=> Stale(j)
  BY <1>1 DEF Stale
<1>4. \A j \in Rules : Phantom(j)' <=> Phantom(j) \/ (j = k /\ k[2] = PropertiesChanged)
  BY <1>1 DEF Phantom
<1>5. RulesCounted'
  BY <1>1, <1>3 DEF RulesCounted
<1>. QED
  BY <1>1, <1>2, <1>3, <1>4, <1>5

\* After a RemoveMatch that fails the rule is no longer counted.
LEMMA RemoveFails ==
    ASSUME TypeOK, RulesCounted, NEW k \in Rules, RemoveMatchFails(k)
    PROVE  /\ signal_matches_' \in [Rules -> Nat] /\ rules' = rules
           /\ failed' \subseteq Failures \X Rules /\ RulesCounted'
           /\ \A j \in Rules : /\ signal_matches_'[j] = IF j = k THEN 0 ELSE signal_matches_[j]
                               /\ Stale(j)' <=> Stale(j) \/ j = k
                               /\ Phantom(j)' <=> Phantom(j)
<1>1. /\ rules' = rules /\ "RemoveMatch" \in Failures /\ signal_matches_[k] = 1
      /\ signal_matches_' = [signal_matches_ EXCEPT ![k] = 0]
      /\ failed' = failed \cup {<<"RemoveMatch", k>>}
  BY DEF RemoveMatchFails
<1>2. failed' \subseteq Failures \X Rules
  BY <1>1 DEF TypeOK
<1>3. signal_matches_' \in [Rules -> Nat]
  BY <1>1 DEF TypeOK
<1>4. \A j \in Rules : signal_matches_'[j] = IF j = k THEN 0 ELSE signal_matches_[j]
  BY <1>1 DEF TypeOK
<1>5. \A j \in Rules : Stale(j)' <=> Stale(j) \/ j = k
  BY <1>1 DEF Stale
<1>6. \A j \in Rules : Phantom(j)' <=> Phantom(j)
  BY <1>1 DEF Phantom
<1>7. rules[k] > 0
  BY <1>1 DEF RulesCounted, TypeOK
<1>8. RulesCounted'
  BY <1>1, <1>4, <1>5, <1>7 DEF RulesCounted
<1>. QED
  BY <1>1, <1>2, <1>3, <1>4, <1>5, <1>6, <1>8

\* A registration that the dispatcher counts.
LEMMA Registers ==
    ASSUME TypeOK, RulesCounted, UsersCounted, NEW s \in Stubs, NEW m \in Members,
           m \notin Registered(s), Registered(s)' = Registered(s) \cup {m},
           \A t \in Stubs \ {s} : Registered(t)' = Registered(t),
           register_signal_match(generate_matchstring(s, m))
    PROVE  UsersCounted'
<1>0. PICK r \in Rules : r = generate_matchstring(s, m)
  BY RuleOf
<1>1. /\ failed' = failed
      /\ \A j \in Rules : signal_matches_'[j] = IF j = r THEN signal_matches_[j] + 1
                                                         ELSE signal_matches_[j]
  BY <1>0, Counts
<1>2. \A k : Cardinality(Users(k))' = IF k = r THEN Cardinality(Users(k)) + 1
                                               ELSE Cardinality(Users(k))
  BY <1>0, OneMoreUser
<1>3. \A k \in Rules : (Stale(k)' <=> Stale(k)) /\ (Phantom(k)' <=> Phantom(k))
  BY <1>1 DEF Stale, Phantom
<1>4. \A k \in Rules : signal_matches_[k] \in Nat /\ Cardinality(Users(k)) \in Nat
  BY UsersFinite DEF TypeOK
<1>. QED
  BY <1>1, <1>2, <1>3, <1>4 DEF UsersCounted

\* Registrations that are given up together: their rules differ.
LEMMA Unregisters ==
    ASSUME TypeOK, RulesCounted, UsersCounted, NEW s \in Stubs, NEW M \in SUBSET Members,
           M \subseteq Registered(s), Registered(s)' = Registered(s) \ M,
           \A t \in Stubs \ {s} : Registered(t)' = Registered(t),
           unregister_signal_matches({generate_matchstring(s, m) : m \in M})
    PROVE  UsersCounted'
<1>0. PICK K : K = {generate_matchstring(s, m) : m \in M}
  OBVIOUS
<1>1. /\ failed' = failed
      /\ \A j \in Rules : signal_matches_'[j] =
            IF j \in K /\ signal_matches_[j] > 0 THEN signal_matches_[j] - 1
                                                 ELSE signal_matches_[j]
  BY <1>0, Uncounts
<1>2. \A k : IF k \in K
             THEN /\ Cardinality(Users(k)) > 0
                  /\ Cardinality(Users(k))' = Cardinality(Users(k)) - 1
             ELSE Cardinality(Users(k))' = Cardinality(Users(k))
  BY <1>0, OneUserLess
<1>3. \A k \in Rules : (Stale(k)' <=> Stale(k)) /\ (Phantom(k)' <=> Phantom(k))
  BY <1>1 DEF Stale, Phantom
<1>4. \A k \in Rules : signal_matches_[k] \in Nat /\ Cardinality(Users(k)) \in Nat
  BY UsersFinite DEF TypeOK
<1>. QED
  BY <1>1, <1>2, <1>3, <1>4 DEF UsersCounted

\* Registrations that stay as they are need no other count.
LEMMA SameUsers ==
    ASSUME \A t \in Stubs : Registered(t)' = Registered(t)
    PROVE  \A k : Cardinality(Users(k))' = Cardinality(Users(k))
<1>1. \A k : Users(k)' = Users(k)
  BY DEF Users
<1>. QED
  BY <1>1

\* Nothing that is counted changes.
LEMMA NothingRegistered ==
    ASSUME UsersCounted, RulesCounted, UNCHANGED <<signal_matches_, rules, failed>>,
           \A t \in Stubs : Registered(t)' = Registered(t)
    PROVE  UsersCounted' /\ RulesCounted'
<1>1. \A k : Cardinality(Users(k))' = Cardinality(Users(k))
  BY SameUsers
<1>2. \A k \in Rules : (Stale(k)' <=> Stale(k)) /\ (Phantom(k)' <=> Phantom(k))
  BY DEF Stale, Phantom
<1>. QED
  BY <1>1, <1>2 DEF UsersCounted, RulesCounted

\* A rule whose count is lost by a RemoveMatch that fails: whether the registration
\* remains or not, it is not counted too often.
LEMMA LosesCount ==
    ASSUME TypeOK, RulesCounted, UsersCounted, NEW k \in Rules, RemoveMatchFails(k),
           \A j \in Rules : j # k => Cardinality(Users(j))' = Cardinality(Users(j)),
           Cardinality(Users(k))' \in Nat
    PROVE  UsersCounted'
<1>1. \A j \in Rules : /\ signal_matches_'[j] = IF j = k THEN 0 ELSE signal_matches_[j]
                       /\ Stale(j)' <=> Stale(j) \/ j = k
                       /\ Phantom(j)' <=> Phantom(j)
  BY RemoveFails
<1>. QED
  BY <1>1 DEF UsersCounted
-----------------------------------------------------------------------------
(***************************************************************************)
(* What the operations preserve                                            *)
(***************************************************************************)

\* In the beginning nothing is registered.
LEMMA InitIInv == Init => IInv
<1>. SUFFICES ASSUME Init PROVE IInv
  OBVIOUS
<1>1. TypeOK /\ RulesCounted
  BY DEF Init, TypeOK, RulesCounted, Stale
<1>2. FlagsCounted
  BY FS_EmptySet DEF Init, FlagsCounted
<1>3. \A k \in Rules : Users(k) = {}
  BY DEF Init, Users, Registered
<1>4. UsersCounted
  BY <1>3, FS_EmptySet DEF Init, UsersCounted
<1>. QED
  BY <1>1, <1>2, <1>4 DEF IInv

\* No signal of an interface is PropertiesChanged.
LEMMA SignalMembers ==
    /\ PropertiesChanged \in Members
    /\ \A g \in Signals : g \in Members /\ g # PropertiesChanged
BY MatchAssumption DEF Members

\* A signal that is attached counts its rule once.
LEMMA RegisterSignalStep ==
    ASSUME IInv, NEW s \in Stubs, NEW g \in Signals, register_signal(s, g)
    PROVE  IInv'
<1>. USE DEF IInv
<1>0. PICK k \in Rules : k = generate_matchstring(s, g)
  BY SignalMembers, RuleOf
<1>1. g \notin signals_[s] /\ UNCHANGED <<life, properties_, attached_properties_>>
  BY DEF register_signal
<1>2. FlagsCounted'
  BY <1>1 DEF FlagsCounted
<1>3. CASE /\ register_signal_match(k)
           /\ signals_' = [signals_ EXCEPT ![s] = @ \cup {g}]
  <2>1. TypeOK' /\ RulesCounted'
    BY <1>1, <1>3, Counts DEF TypeOK
  <2>2. signals_'[s] = signals_[s] \cup {g} /\ \A t \in Stubs \ {s} : signals_'[t] = signals_[t]
    BY <1>3 DEF TypeOK
  <2>3. /\ g \notin Registered(s) /\ Registered(s)' = Registered(s) \cup {g}
        /\ \A t \in Stubs \ {s} : Registered(t)' = Registered(t)
    BY <1>1, <2>2, SignalMembers DEF Registered
  <2>4. UsersCounted'
    BY <1>0, <1>3, <2>3, SignalMembers, Registers
  <2>. QED
    BY <1>2, <2>1, <2>4
<1>4. CASE AddMatchFails(k) /\ UNCHANGED signals_
  <2>1. \A t \in Stubs : Registered(t)' = Registered(t)
    BY <1>1, <1>4 DEF Registered
  <2>2. \A j : Cardinality(Users(j))' = Cardinality(Users(j))
    BY <2>1, SameUsers
  <2>3. k[2] # PropertiesChanged
    BY <1>0, RuleOf, SignalMembers
  <2>4. \A j \in Rules : (Stale(j)' <=> Stale(j)) /\ (Phantom(j)' <=> Phantom(j))
    BY <1>4, <2>3, AddFails
  <2>5. UNCHANGED <<signal_matches_, rules>> /\ RulesCounted' /\ failed' \subseteq Failures \X Rules
    BY <1>4, AddFails
  <2>6. UsersCounted'
    BY <2>2, <2>4, <2>5 DEF UsersCounted
  <2>7. TypeOK'
    BY <1>1, <1>4, <2>5 DEF TypeOK
  <2>. QED
    BY <1>2, <2>5, <2>6, <2>7
<1>. QED
  BY <1>0, <1>3, <1>4 DEF register_signal

\* A signal that is detached gives back the one count it had.
LEMMA UnregisterSignalStep ==
    ASSUME IInv, NEW s \in Stubs, NEW g \in Signals, unregister_signal(s, g)
    PROVE  IInv'
<1>. USE DEF IInv
<1>0. PICK k \in Rules : k = generate_matchstring(s, g)
  BY SignalMembers, RuleOf
<1>1. g \in signals_[s] /\ UNCHANGED <<life, properties_, attached_properties_>>
  BY DEF unregister_signal
<1>2. FlagsCounted'
  BY <1>1 DEF FlagsCounted
<1>3. CASE /\ unregister_signal_matches({k})
           /\ signals_' = [signals_ EXCEPT ![s] = @ \ {g}]
  <2>1. TypeOK' /\ RulesCounted'
    BY <1>1, <1>3, Uncounts DEF TypeOK
  <2>2. signals_'[s] = signals_[s] \ {g} /\ \A t \in Stubs \ {s} : signals_'[t] = signals_[t]
    BY <1>3 DEF TypeOK
  <2>3. /\ {g} \subseteq Registered(s) /\ Registered(s)' = Registered(s) \ {g}
        /\ \A t \in Stubs \ {s} : Registered(t)' = Registered(t)
    BY <1>1, <2>2, SignalMembers DEF Registered
  <2>4. {k} = {generate_matchstring(s, m) : m \in {g}} /\ {g} \in SUBSET Members
    BY <1>0, SignalMembers
  <2>5. UsersCounted'
    BY <1>3, <2>3, <2>4, Unregisters
  <2>. QED
    BY <1>2, <2>1, <2>5
<1>4. CASE RemoveMatchFails(k) /\ UNCHANGED signals_
  <2>1. \A t \in Stubs : Registered(t)' = Registered(t)
    BY <1>1, <1>4 DEF Registered
  <2>2. \A j : Cardinality(Users(j))' = Cardinality(Users(j)) /\ Cardinality(Users(j)) \in Nat
    BY <2>1, SameUsers, UsersFinite
  <2>3. UsersCounted'
    BY <1>4, <2>2, LosesCount
  <2>4. /\ signal_matches_' \in [Rules -> Nat] /\ rules' = rules
        /\ failed' \subseteq Failures \X Rules /\ RulesCounted'
    BY <1>4, RemoveFails
  <2>5. TypeOK'
    BY <1>1, <1>4, <2>4 DEF TypeOK
  <2>. QED
    BY <1>2, <2>3, <2>4, <2>5
<1>. QED
  BY <1>0, <1>3, <1>4 DEF unregister_signal

\* The first property of a stub registers for all of them.
LEMMA AttachPropertyStep ==
    ASSUME IInv, NEW s \in Stubs, NEW p \in Properties, attach_property(s, p)
    PROVE  IInv'
<1>. USE DEF IInv
<1>0. PICK k \in Rules : k = generate_matchstring(s, PropertiesChanged)
  BY SignalMembers, RuleOf
<1>1. /\ p \notin properties_[s] /\ UNCHANGED <<life, signals_>>
      /\ properties_' = [properties_ EXCEPT ![s] = @ \cup {p}]
      /\ attached_properties_' = [attached_properties_ EXCEPT ![s] = @ + 1]
  BY DEF attach_property
<1>2. /\ properties_'[s] = properties_[s] \cup {p}
      /\ attached_properties_'[s] = attached_properties_[s] + 1
      /\ attached_properties_[s] \in Nat
      /\ \A t \in Stubs \ {s} : /\ properties_'[t] = properties_[t]
                                /\ attached_properties_'[t] = attached_properties_[t]
  BY <1>1 DEF TypeOK
<1>3. FlagsCounted'
  <2>1. /\ IsFiniteSet(properties_[s] \cup {p})
        /\ Cardinality(properties_[s] \cup {p}) = attached_properties_[s] + 1
    <3>1. PICK P : P = properties_[s]
      OBVIOUS
    <3>2. IsFiniteSet(P) /\ attached_properties_[s] = Cardinality(P) /\ p \notin P
      BY <1>1, <3>1 DEF FlagsCounted
    <3>3. IsFiniteSet(P \cup {p}) /\ Cardinality(P \cup {p}) = Cardinality(P) + 1
      BY <3>2, FS_AddElement
    <3>. QED
      BY <3>1, <3>2, <3>3
  <2>. QED
    BY <1>2, <2>1 DEF FlagsCounted
<1>4. /\ properties_' \in [Stubs -> SUBSET Properties]
      /\ attached_properties_' \in [Stubs -> Nat]
  BY <1>1 DEF TypeOK
<1>5. CASE attached_properties_[s] = 0 /\ register_signal_match(k)
  <2>1. TypeOK' /\ RulesCounted'
    BY <1>1, <1>4, <1>5, Counts DEF TypeOK
  <2>2. /\ PropertiesChanged \notin Registered(s)
        /\ Registered(s)' = Registered(s) \cup {PropertiesChanged}
        /\ \A t \in Stubs \ {s} : Registered(t)' = Registered(t)
    BY <1>1, <1>2, <1>5, MatchAssumption DEF Registered, TypeOK
  <2>3. UsersCounted'
    BY <1>0, <1>5, <2>2, SignalMembers, Registers
  <2>. QED
    BY <1>3, <2>1, <2>3
<1>6. CASE attached_properties_[s] = 0 /\ AddMatchFails(k)
  <2>1. /\ PropertiesChanged \notin Registered(s)
        /\ Registered(s)' = Registered(s) \cup {PropertiesChanged}
        /\ \A t \in Stubs \ {s} : Registered(t)' = Registered(t)
    BY <1>1, <1>2, <1>6, MatchAssumption DEF Registered, TypeOK
  <2>2. \A j : Cardinality(Users(j))' = IF j = k THEN Cardinality(Users(j)) + 1
                                                 ELSE Cardinality(Users(j))
    BY <1>0, <2>1, OneMoreUser, SignalMembers
  <2>3. k[2] = PropertiesChanged
    BY <1>0, RuleOf, SignalMembers
  <2>4. \A j \in Rules : (Stale(j)' <=> Stale(j)) /\ (Phantom(j)' <=> Phantom(j) \/ j = k)
    BY <1>6, <2>3, AddFails
  <2>5. UNCHANGED <<signal_matches_, rules>> /\ RulesCounted' /\ failed' \subseteq Failures \X Rules
    BY <1>6, AddFails
  <2>6. \A j \in Rules : signal_matches_[j] \in Nat /\ Cardinality(Users(j)) \in Nat
    BY UsersFinite DEF TypeOK
  <2>7. UsersCounted'
    BY <2>2, <2>4, <2>5, <2>6 DEF UsersCounted
  <2>8. TypeOK'
    BY <1>1, <1>4, <2>5 DEF TypeOK
  <2>. QED
    BY <1>3, <2>5, <2>7, <2>8
<1>7. CASE attached_properties_[s] # 0 /\ UNCHANGED <<signal_matches_, rules, failed>>
  <2>1. \A t \in Stubs : Registered(t)' = Registered(t)
    BY <1>1, <1>2, <1>7 DEF Registered
  <2>2. UsersCounted' /\ RulesCounted'
    BY <1>7, <2>1, NothingRegistered
  <2>. QED
    BY <1>1, <1>3, <1>4, <1>7, <2>2 DEF TypeOK
<1>. QED
  BY <1>0, <1>5, <1>6, <1>7 DEF attach_property

\* The last property of a stub unregisters.
LEMMA DetachPropertyStep ==
    ASSUME IInv, NEW s \in Stubs, NEW p \in Properties, detach_property(s, p)
    PROVE  IInv'
<1>. USE DEF IInv
<1>0. PICK k \in Rules : k = generate_matchstring(s, PropertiesChanged)
  BY SignalMembers, RuleOf
<1>1. /\ p \in properties_[s] /\ UNCHANGED <<life, signals_>>
      /\ properties_' = [properties_ EXCEPT ![s] = @ \ {p}]
      /\ attached_properties_' = [attached_properties_ EXCEPT ![s] = @ - 1]
  BY DEF detach_property
<1>2. /\ properties_'[s] = properties_[s] \ {p}
      /\ attached_properties_'[s] = attached_properties_[s] - 1
      /\ \A t \in Stubs \ {s} : /\ properties_'[t] = properties_[t]
                                /\ attached_properties_'[t] = attached_properties_[t]
  BY <1>1 DEF TypeOK
<1>3. /\ IsFiniteSet(properties_[s] \ {p})
      /\ Cardinality(properties_[s] \ {p}) = attached_properties_[s] - 1
      /\ attached_properties_[s] - 1 \in Nat
  <2>1. IsFiniteSet(properties_[s]) /\ attached_properties_[s] = Cardinality(properties_[s])
    BY DEF FlagsCounted
  <2>2. /\ IsFiniteSet(properties_[s] \ {p})
        /\ Cardinality(properties_[s] \ {p}) = Cardinality(properties_[s]) - 1
    BY <1>1, <2>1, FS_RemoveElement
  <2>3. Cardinality(properties_[s] \ {p}) \in Nat
    BY <2>2, FS_CardinalityType
  <2>. QED
    BY <2>1, <2>2, <2>3
<1>4. FlagsCounted'
  BY <1>2, <1>3 DEF FlagsCounted
<1>5. /\ properties_' \in [Stubs -> SUBSET Properties]
      /\ attached_properties_' \in [Stubs -> Nat]
  BY <1>1, <1>3 DEF TypeOK
<1>6. CASE attached_properties_[s] = 1 /\ unregister_signal_matches({k})
  <2>1. TypeOK' /\ RulesCounted'
    BY <1>1, <1>5, <1>6, Uncounts DEF TypeOK
  <2>2. /\ {PropertiesChanged} \subseteq Registered(s)
        /\ Registered(s)' = Registered(s) \ {PropertiesChanged}
        /\ \A t \in Stubs \ {s} : Registered(t)' = Registered(t)
    BY <1>1, <1>2, <1>6, MatchAssumption DEF Registered, TypeOK
  <2>3. /\ {k} = {generate_matchstring(s, m) : m \in {PropertiesChanged}}
        /\ {PropertiesChanged} \in SUBSET Members
    BY <1>0, SignalMembers
  <2>4. UsersCounted'
    BY <1>6, <2>2, <2>3, Unregisters
  <2>. QED
    BY <1>4, <2>1, <2>4
<1>7. CASE attached_properties_[s] = 1 /\ RemoveMatchFails(k)
  <2>1. /\ PropertiesChanged \in Registered(s)
        /\ Registered(s)' = Registered(s) \ {PropertiesChanged}
        /\ \A t \in Stubs \ {s} : Registered(t)' = Registered(t)
    BY <1>1, <1>2, <1>7, MatchAssumption DEF Registered, TypeOK
  <2>2. PICK M \in SUBSET Members : M = {PropertiesChanged}
    BY SignalMembers
  <2>3. {generate_matchstring(s, m) : m \in M} = {k}
    BY <1>0, <2>2
  <2>4. \A j : IF j \in {k} THEN /\ Cardinality(Users(j)) > 0
                                 /\ Cardinality(Users(j))' = Cardinality(Users(j)) - 1
                            ELSE Cardinality(Users(j))' = Cardinality(Users(j))
    <3>1. M \subseteq Registered(s) /\ Registered(s)' = Registered(s) \ M
      BY <2>1, <2>2
    <3>2. \A j : IF j \in {generate_matchstring(s, m) : m \in M}
                 THEN /\ Cardinality(Users(j)) > 0
                      /\ Cardinality(Users(j))' = Cardinality(Users(j)) - 1
                 ELSE Cardinality(Users(j))' = Cardinality(Users(j))
      BY <2>1, <3>1, OneUserLess
    <3>. QED
      BY <2>3, <3>2
  <2>5. Cardinality(Users(k)) \in Nat
    BY UsersFinite
  <2>6. UsersCounted'
    <3>1. Cardinality(Users(k))' \in Nat
      BY <2>4, <2>5
    <3>2. \A j \in Rules : j # k => Cardinality(Users(j))' = Cardinality(Users(j))
      BY <2>4
    <3>. QED
      BY <1>7, <3>1, <3>2, LosesCount
  <2>7. /\ signal_matches_' \in [Rules -> Nat] /\ rules' = rules
        /\ failed' \subseteq Failures \X Rules /\ RulesCounted'
    BY <1>7, RemoveFails
  <2>8. TypeOK'
    BY <1>1, <1>5, <2>7 DEF TypeOK
  <2>. QED
    BY <1>4, <2>6, <2>7, <2>8
<1>8. CASE attached_properties_[s] # 1 /\ UNCHANGED <<signal_matches_, rules, failed>>
  <2>1. attached_properties_[s] > 0 /\ attached_properties_'[s] > 0
    BY <1>2, <1>3, <1>8 DEF TypeOK
  <2>2. \A t \in Stubs : Registered(t)' = Registered(t)
    BY <1>1, <1>2, <2>1 DEF Registered
  <2>3. UsersCounted' /\ RulesCounted'
    BY <1>8, <2>2, NothingRegistered
  <2>. QED
    BY <1>1, <1>4, <1>5, <1>8, <2>3 DEF TypeOK
<1>. QED
  BY <1>0, <1>6, <1>7, <1>8 DEF detach_property

\* A stub that is destroyed gives up all its registrations at once.
LEMMA RemoveClientStep ==
    ASSUME IInv, NEW s \in Stubs, remove_client(s)
    PROVE  IInv'
<1>. USE DEF IInv
<1>0. PICK M : M = Registered(s)
  OBVIOUS
<1>1. /\ life' = [life EXCEPT ![s] = "gone"]
      /\ unregister_signal_matches({generate_matchstring(s, m) : m \in M})
      /\ signals_' = [signals_ EXCEPT ![s] = {}]
      /\ properties_' = [properties_ EXCEPT ![s] = {}]
      /\ attached_properties_' = [attached_properties_ EXCEPT ![s] = 0]
  BY <1>0 DEF remove_client
<1>2. TypeOK' /\ RulesCounted'
  BY <1>1, Uncounts DEF TypeOK
<1>3. /\ signals_'[s] = {} /\ properties_'[s] = {} /\ attached_properties_'[s] = 0
      /\ \A t \in Stubs \ {s} : /\ signals_'[t] = signals_[t]
                                /\ properties_'[t] = properties_[t]
                                /\ attached_properties_'[t] = attached_properties_[t]
  BY <1>1 DEF TypeOK
<1>4. FlagsCounted'
  BY <1>3, FS_EmptySet DEF FlagsCounted
<1>5. /\ M \subseteq Registered(s) /\ Registered(s)' = Registered(s) \ M
      /\ \A t \in Stubs \ {s} : Registered(t)' = Registered(t)
  BY <1>0, <1>3 DEF Registered
<1>6. M \in SUBSET Members
  BY <1>0 DEF Registered, TypeOK, Members
<1>7. UsersCounted'
  BY <1>1, <1>5, <1>6, Unregisters
<1>. QED
  BY <1>2, <1>4, <1>7

\* Every step keeps the invariant.
LEMMA NextIInv == IInv /\ [Next]_vars => IInv'
<1>. SUFFICES ASSUME IInv, [Next]_vars PROVE IInv'
  OBVIOUS
<1>1. ASSUME UNCHANGED <<signals_, properties_, attached_properties_, signal_matches_, rules, failed>>,
             life' \in [Stubs -> {"new", "added", "gone"}]
      PROVE  IInv'
  <2>1. \A t \in Stubs : Registered(t)' = Registered(t)
    BY <1>1 DEF Registered
  <2>2. UsersCounted' /\ RulesCounted'
    BY <1>1, <2>1, NothingRegistered DEF IInv
  <2>. QED
    BY <1>1, <2>2 DEF IInv, TypeOK, FlagsCounted
<1>2. ASSUME NEW s \in Stubs, add_client(s)
      PROVE  IInv'
  BY <1>1, <1>2 DEF add_client, IInv, TypeOK
<1>3. CASE UNCHANGED vars
  BY <1>1, <1>3 DEF vars, IInv, TypeOK
<1>. QED
  BY <1>2, <1>3, RemoveClientStep, RegisterSignalStep, UnregisterSignalStep,
     AttachPropertyStep, DetachPropertyStep DEF Next
-----------------------------------------------------------------------------
(***************************************************************************)
(* The theorems                                                            *)
(***************************************************************************)

\* The variables keep their types; no count of rules or of attached properties
\* falls below zero.
THEOREM TypeCorrect == Spec => []TypeOK
<1>1. IInv => TypeOK
  BY DEF IInv
<1>. QED
  BY <1>1, InitIInv, NextIInv, PTL DEF Spec

\* For every set of stubs, however their rules coincide: the count of a rule is the
\* number of registrations that need it, for every rule of which no call failed that
\* makes the code lose count.
THEOREM RegistrationsCounted == Spec => []MatchesCounted
<1>. QED
  BY Counted, InitIInv, NextIInv, PTL DEF Spec

\* Whichever calls of the bus fail: the rule of a registration is on the bus as long
\* as there is one, whatever the other stubs do, unless it is a property that shares
\* the rule with an attach() that threw; and no rule remains without a user, or
\* twice, unless its RemoveMatch failed.
THEOREM NobodySilenced == Spec => []RulesExact
<1>. QED
  BY Counted, InitIInv, NextIInv, PTL DEF Spec
=============================================================================
