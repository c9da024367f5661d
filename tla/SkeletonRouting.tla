--------------------------- MODULE SkeletonRouting ---------------------------
(***************************************************************************)
(* How a skeleton finds the method or the property a message names.        *)
(*                                                                         *)
(* Skeleton<I0, ..., In> numbers its interfaces backwards: the Interposer  *)
(* gives the first interface of the list the id n and the last one the id  *)
(* 0, while ifaces_ keeps the names in the order of the list.  Every look- *)
(* up therefore has to reverse the index, in iface() one way and in        *)
(* find_interface() the other.  The lists of methods and of properties are *)
(* sets here: the order of the linked lists decides nothing.               *)
(***************************************************************************)
EXTENDS Integers, Sequences

CONSTANTS InterfaceList, \* the interfaces of Skeleton<Is...>, in that order
          Methods,       \* Methods[i]: names of the methods interface i declares
          Properties     \* Properties[i]: names of its properties

\* The interfaces every object answers for besides its own.
Introspectable == "org.freedesktop.DBus.Introspectable"
ObjectManager  == "org.freedesktop.DBus.ObjectManager"
DBusProperties == "org.freedesktop.DBus.Properties"

OwnInterfaces == {InterfaceList[k] : k \in 1..Len(InterfaceList)}

\* C++ forbids one base class twice, so the names of a list are distinct, and
\* a skeleton that serves requests at all has at least one interface.
ASSUME RoutingAssumption ==
    /\ InterfaceList \in Seq(STRING)
    /\ Len(InterfaceList) > 0
    /\ \A j, k \in 1..Len(InterfaceList) :
          InterfaceList[j] = InterfaceList[k] => j = k
    /\ OwnInterfaces \cap {Introspectable, ObjectManager, DBusProperties} = {}
    /\ OwnInterfaces \subseteq DOMAIN Methods
    /\ OwnInterfaces \subseteq DOMAIN Properties
-----------------------------------------------------------------------------
Count == Len(InterfaceList)

\* Indices of the C++ vectors: 0 .. Count - 1.
Indices == 0 .. Count - 1

ifaces_ == [i \in Indices |-> InterfaceList[i + 1]]

\* Interposer<Id, ...> hands Id to the head of the pack and Id-1 to the rest.
InterfaceId(k) == Count - k

\* What the constructors of the interfaces link into the lists of their id.
method_heads_ ==
    [id \in Indices |-> Methods[InterfaceList[CHOOSE k \in 1..Count : InterfaceId(k) = id]]]
property_heads_ ==
    [id \in Indices |-> Properties[InterfaceList[CHOOSE k \in 1..Count : InterfaceId(k) = id]]]

invalid_iface_id == -1

iface(id) == ifaces_[Count - id - 1]

\* [mutant of find_interface] the index of the list taken for the id
find_interface_forward(name) ==
    IF \E i \in Indices : ifaces_[i] = name
    THEN CHOOSE i \in Indices : ifaces_[i] = name
    ELSE invalid_iface_id

find_interface(name) ==
    IF \E i \in Indices : ifaces_[i] = name
    THEN Count - (CHOOSE i \in Indices : ifaces_[i] = name) - 1
    ELSE invalid_iface_id

has_any_properties == \E id \in Indices : property_heads_[id] # {}

-----------------------------------------------------------------------------
(***************************************************************************)
(* The outcome of handle_request() up to the point where code of the user  *)
(* runs.  A message names an interface and a member; "about" holds the     *)
(* interface a Properties call asks about (or Garbled, if it cannot be     *)
(* decoded) and "property" the property.                                   *)
(***************************************************************************)
Garbled == "garbled"

PropertyRoute(m) ==
    LET id == find_interface(m.about)
    IN IF m.about = Garbled THEN "InvalidArgs"
       ELSE IF id = invalid_iface_id THEN "UnknownInterface"
       ELSE IF m.member = "GetAll" THEN "getall"
       ELSE IF m.property = Garbled THEN "InvalidArgs"
       ELSE IF m.property \notin property_heads_[id] THEN "UnknownProperty"
       ELSE IF m.member = "Get" THEN "get"
       ELSE IF m.member = "Set" THEN "set"
       ELSE "UnknownMethod"

InterfaceRoute(m) ==
    LET id == find_interface(m.interface)
    IN IF id = invalid_iface_id THEN "UnknownInterface"
       ELSE IF m.member \notin method_heads_[id] THEN "UnknownMethod"
       ELSE "method"

Route(m) ==
    CASE m.interface = Introspectable ->
           IF m.member = "Introspect" THEN "introspect" ELSE "not_yet_handled"
      [] m.interface = ObjectManager  -> "UnknownInterface"
      [] m.interface = DBusProperties ->
           IF has_any_properties THEN PropertyRoute(m) ELSE "UnknownInterface"
      [] OTHER -> InterfaceRoute(m)

\* The ServerMethodBase handle_request() evaluates for a message.
FindMethod(m) == <<find_interface(m.interface), m.member>>
=============================================================================
