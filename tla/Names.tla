------------------------------- MODULE Names --------------------------------
(***************************************************************************)
(* The names on the bus, made from C++ names.  Text is a sequence of       *)
(* pieces: an identifier is one piece, every other character is one.       *)
(* Interfaces and exceptions are declared at the scope of a namespace; a   *)
(* path is the sequence of their enclosing namespaces and their name.      *)
(***************************************************************************)
EXTENDS Naturals, Sequences, FiniteSets, FiniteSetsExt, SequencesExt

RECURSIVE make_error_name(_), interfaces_from(_)

Joined(texts, separator) ==
    FlattenSeq([i \in DOMAIN texts |-> IF i = 1 THEN texts[i] ELSE separator \o texts[i]])

Pieces(path) == [i \in DOMAIN path |-> <<path[i]>>]

\* The text from its n-th piece on
From(text, n) == SubSeq(text, n, Len(text))

\* The first place from n on whose piece is not skipped
Where(text, n, Skipped(_)) == Min({i \in n..Len(text) : ~Skipped(text[i])})
-----------------------------------------------------------------------------
\* abi::__cxa_demangle() of a name, and of a list of instances of interface templates,
\* whose arguments are templates and types of the library, on either side.
cxa_demangle(path) == Joined(Pieces(path), <<":", ":">>)

interface_list(paths) ==
    LET instance(path) ==
            cxa_demangle(path) \o <<"<", "0", ",", " ">> \o cxa_demangle(<<"simppl", "dbus", "Method">>)
                \o <<",", " ">> \o cxa_demangle(<<"simppl", "dbus", "Base">>) \o <<"<", ">", " ", ">">>
    IN cxa_demangle(<<"simppl", "make_typelist">>) \o <<"<">>
           \o Joined([i \in DOMAIN paths |-> instance(paths[i])], <<",", " ">>) \o <<" ", ">">>

\* A colon becomes a dot, whatever follows it is skipped.
make_error_name(str) ==
    IF str = <<>> THEN <<>>
    ELSE IF Head(str) = ":" THEN <<".">> \o make_error_name(From(str, 3))
    ELSE <<Head(str)>> \o make_error_name(Tail(str))

make_interface_name(src) == make_error_name(src)

\* s starts with the bracket that opens the arguments of an interface; the text from
\* the next interface on, or nothing behind the last one.
find_next_interface(s) ==
    LET level(n) == Cardinality({i \in 1..n : s[i] = "<"}) - Cardinality({i \in 1..n : s[i] = ">"})
        end      == Min({n \in DOMAIN s : level(n) = 0})
        isspace(c) == c = " "
        next     == Where(s, end + 1, isspace)
    IN IF s[next] = "," THEN From(s, Where(s, next + 1, isspace)) ELSE <<>>

interfaces_from(begin) ==
    LET end  == Min({i \in DOMAIN begin : begin[i] = "<"})
        next == find_next_interface(From(begin, end))
    IN <<make_interface_name(SubSeq(begin, 1, end - 1))>>
           \o (IF next = <<>> THEN <<>> ELSE interfaces_from(next))

\* The interfaces behind "simppl::make_typelist<"
extract_interfaces(list) ==
    interfaces_from(From(list, Len(cxa_demangle(<<"simppl", "make_typelist">>)) + 2))

create_objectpath(iface, role) ==
    LET path == <<"/">> \o iface \o <<"/">> \o role
    IN [i \in DOMAIN path |-> IF path[i] = "." THEN "/" ELSE path[i]]

create_busname(iface, role) == iface \o <<".">> \o role
-----------------------------------------------------------------------------
\* What a stub puts into the header of its messages
StubNames(path, role) ==
    LET iface == extract_interfaces(interface_list(<<path>>))[1]
    IN [iface      |-> iface,
        objectpath |-> create_objectpath(iface, role),
        busname    |-> iface \o <<".">> \o role]

\* The stub of an object that is not named after its interface
StubNamesGiven(path, busname, objectpath) ==
    [iface |-> extract_interfaces(interface_list(<<path>>))[1],
     objectpath |-> objectpath, busname |-> busname]

\* A skeleton with one interface is named after it.
SkeletonNames(path, role) ==
    LET ifaces == extract_interfaces(interface_list(<<path>>))
    IN [ifaces     |-> ifaces,
        objectpath |-> create_objectpath(ifaces[1], role),
        busname    |-> create_busname(ifaces[1], role)]

SkeletonNamesGiven(paths, busname, objectpath) ==
    [ifaces |-> extract_interfaces(interface_list(paths)),
     objectpath |-> objectpath, busname |-> busname]
=============================================================================
