---------------------------- MODULE Declarations ----------------------------
(***************************************************************************)
(* What is made of the declaration of a method: both sides derive from its *)
(* list of parameters which of them travel in a call, in its answer and in *)
(* an error, and the server tells others about them in its introspection.  *)
(* The computation is done on types, by templates.                         *)
(***************************************************************************)
EXTENDS Codecs, Names, Integers

CONSTANT Path \* Path[n]: the path of the exception class n

RECURSIVE Size(_), Find(_, _, _), PushBack(_, _), make_typelist(_), filter(_, _),
          make_tuple_from_list(_, _)
-----------------------------------------------------------------------------
\* Type lists
NilType        == Type("nil", "", "", <<>>)
TypeList(H, L) == [head |-> H, tail |-> L]
EmptyList      == TypeList(NilType, NilType)

Size(L) == IF L = EmptyList THEN 0 ELSE IF L.tail = NilType THEN 1 ELSE 1 + Size(L.tail)

Find(T, L, n) == IF L = NilType THEN -1 ELSE IF L.head = T THEN n ELSE Find(T, L.tail, n + 1)

\* [mutant of PushFront] the type is put behind the others
PushBack(L, T) ==
    IF T = NilType THEN L
    ELSE IF L \in {NilType, EmptyList} THEN TypeList(T, NilType)
    ELSE TypeList(L.head, PushBack(L.tail, T))

\* A type that was filtered out is not put in front.
PushFront(L, T) == IF T = NilType THEN L ELSE TypeList(T, L)

make_typelist(Ts) ==
    IF Ts = <<>> THEN EmptyList
    ELSE TypeList(Head(Ts), IF Len(Ts) = 1 THEN NilType ELSE make_typelist(Tail(Ts)))
-----------------------------------------------------------------------------
\* Parameters: in<T>, out<T>, _throw<E>, oneway, and those of a signal or a property
Param(how, T) == [as |-> how, type |-> T]
In(T)     == Param("in", T)
Out(T)    == Param("out", T)
Throw(E)  == Param("throw", E)
Oneway    == Param("oneway", NilType)
Plain(T)  == Param("plain", T)

Void == Type("void", "", "", <<>>)

\* The base class of all exceptions has no members.
Exception(n, Ts) == Type("exception", n, "", Ts)
Error == Exception("Error", <<>>)

\* The list ends with a pair of NilTypes if the last parameter is filtered out.
filter(marker, Ps) ==
    IF Ps = <<>> THEN EmptyList
    ELSE LET first_type == IF Head(Ps).as = marker THEN Head(Ps).type ELSE NilType
         IN IF Len(Ps) = 1 THEN make_typelist(<<first_type>>)
            ELSE PushFront(filter(marker, Tail(Ps)), first_type)

make_tuple_from_list(L, Ts) ==
    IF L = EmptyList THEN Tuple(Ts)
    ELSE IF L.tail = NilType THEN Tuple(Append(Ts, L.head))
    ELSE make_tuple_from_list(L.tail, Append(Ts, L.head))

canonify(T) == CASE Len(T.of) = 0 -> Void
                 [] Len(T.of) = 1 -> T.of[1]
                 [] OTHER         -> T

args_type(Ps)   == canonify(make_tuple_from_list(filter("in", Ps), <<>>))
return_type(Ps) == canonify(make_tuple_from_list(filter("out", Ps), <<>>))

\* The types serializer_type::eval() takes, in their order
serializer_type(L) == make_tuple_from_list(L, <<>>).of

is_oneway_request(Ps) == Find(Oneway, make_typelist(Ps), 0) # -1

get_exception_type(Ps) ==
    LET list_type == filter("throw", Ps) IN IF Size(list_type) = 0 THEN Error ELSE list_type.head

\* What is checked at compile time
Valid(Ps) ==
    /\ \A i \in DOMAIN Ps : Ps[i].as \in {"in", "out", "throw", "oneway"}
    /\ is_oneway_request(Ps) => return_type(Ps) = Void /\ get_exception_type(Ps) = Error
    /\ Size(filter("throw", Ps)) <= 1

\* DeserializeAndCall and deserialize_and_return: what is decoded one after the other to
\* call a function or to return.  A std::tuple is taken for a list.
Decoded(T) == CASE T = Void         -> <<>>
                [] T.is = "tuple"   -> T.of
                [] OTHER            -> <<T>>

\* ClientSignal::args_type
signal_args_type(Ps) ==
    IF Ps = <<>> THEN Void ELSE Tuple([i \in DOMAIN Ps |-> Ps[i].type])

\* The arguments as others are told about them; the number in the name of each counts
\* those that are not shown.
introspect_args(Ps) ==
    LET shown == SetToSortSeq({i \in DOMAIN Ps : Ps[i].as \notin {"oneway", "throw"}}, <)
    IN [k \in DOMAIN shown |->
          [name      |-> shown[k] - 1,
           type      |-> make_type_signature(Ps[shown[k]].type),
           direction |-> IF Ps[shown[k]].as = "in" THEN "in" ELSE "out"]]
-----------------------------------------------------------------------------
\* Errors: an exception object has a dynamic type, a name unless it was made with the
\* default constructor, a text, which may be empty, and the members of its type.
NoName == <<>>
Thrown(E, name, text, members) == [type |-> E, name |-> name, text |-> text, of |-> members]

\* [mutant of error_name] the name of the exception is not looked at
error_name_of_type(E, e) == IF E = Error THEN e.name ELSE make_error_name(cxa_demangle(Path[E.name]))

\* ErrorFactory<E>::reply(): a nameless exception is named after the type E that is declared.
error_name(E, e) ==
    IF E # Error /\ e.name = NoName THEN make_error_name(cxa_demangle(Path[E.name])) ELSE e.name

\* The members follow if the dynamic type is E.
reply(E, e) ==
    <<encode(Basic(String, e.text))>>
        \o (IF E # Error /\ e.type = E THEN <<encode(Value(Struct(E.of), 0, e.of))>> ELSE <<>>)

\* ErrorFactory<E>::init(): the members are decoded if anything is left behind the text.
init(E, iter) ==
    <<String>> \o (IF E # Error /\ Len(iter) > 1 THEN <<Struct(E.of)>> ELSE <<>>)
=============================================================================
