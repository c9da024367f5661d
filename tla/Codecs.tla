------------------------------- MODULE Codecs -------------------------------
(***************************************************************************)
(* How values of C++ types become the content of a message and values      *)
(* again.  A value carries its type; what is in a message carries its      *)
(* signature, as libdbus keeps it.  An iterator is the sequence of items   *)
(* that are still to be read.  Signatures are sequences of type codes; the *)
(* payload of a basic type is a number.                                    *)
(*                                                                         *)
(* A FileDescriptor is a basic type here: Ownership has what becomes of    *)
(* it.  The reference definitions at the end say what decoding is for.     *)
(***************************************************************************)
EXTENDS Naturals, Sequences, FiniteSets, SequencesExt

RECURSIVE make_type_signature(_), encode(_), decode(_, _), decode_args(_, _)
-----------------------------------------------------------------------------
\* C++ types.  A pod has a name besides its code: int8_t and uint8_t are both "y".
Type(is, name, code, of) == [is |-> is, name |-> name, code |-> code, of |-> of]
Pod(name, code) == Type("pod", name, code, <<>>)
Vector(T)       == Type("vector", "", "", <<T>>)
Pair(K, V)      == Type("pair", "", "", <<K, V>>)
Map(K, V)       == Type("map", "", "", <<Pair(K, V)>>)
Tuple(Ts)       == Type("tuple", "", "", Ts)
Struct(Ts)      == Type("struct", "", "", Ts)
Variant(Ts)     == Type("variant", "", "", Ts)
Property(T)     == Type("property", "", "", <<T>>)   \* what PropertyCodec sends and takes
AnyType         == Type("any", "", "", <<>>)
String          == Pod("std::string", "s")
Bool            == Pod("bool", "b")
ObjectPath      == Pod("ObjectPath", "o")
WString         == Vector(Pod("uint32_t", "u"))
Buffer(len)     == Type("buffer", "", "", [i \in 1..len |-> Pod("uint8_t", "y")])

\* A value: an Any holds what was put into it, or what it was received as.
Value(T, data, of) == [type |-> T, data |-> data, of |-> of]
Basic(T, data)     == Value(T, data, <<>>)
Held     == 0
Received == 1
Garbage  == 999   \* bytes that were never sent

\* What a message is made of
Item(sig, data, of) == [sig |-> sig, data |-> data, of |-> of]
Container(sig, of)  == Item(sig, 0, of)
ArgType(iter)       == IF iter = <<>> THEN "" ELSE Head(Head(iter).sig)
-----------------------------------------------------------------------------
\* A FixedSizeBuffer says "a" only.
make_type_signature(T) ==
    LET inner == FlattenSeq([i \in DOMAIN T.of |-> make_type_signature(T.of[i])])
    IN CASE T.is = "pod"                  -> <<T.code>>
         [] T.is = "buffer"               -> <<"a">>
         [] T.is \in {"vector", "map"}    -> <<"a">> \o inner
         [] T.is = "pair"                 -> <<"{">> \o inner \o <<"}">>
         [] T.is \in {"tuple", "struct"}  -> <<"(">> \o inner \o <<")">>
         [] T.is \in {"variant", "property", "any"} -> <<"v">>

Signatures(items) == FlattenSeq([i \in DOMAIN items |-> items[i].sig])

encode_pod(v) == Item(<<v.type.code>>, v.data, <<>>)

encode_buffer(v, inner) == Container(<<"a", "y">>, inner)

\* The container is opened with the signature of the element type.
encode_array(v, inner) == Container(<<"a">> \o make_type_signature(v.type.of[1]), inner)

encode_pair(v, inner) == Container(<<"{">> \o Signatures(inner) \o <<"}">>, inner)

encode_struct(v, inner) == Container(<<"(">> \o Signatures(inner) \o <<")">>, inner)

encode_variant(v, inner) ==
    Container(<<"v">>, <<[inner[1] EXCEPT !.sig = make_type_signature(v.of[1].type)]>>)

\* An Any with a value of its own; one that was received cannot be sent.
encode_any(v, inner) == encode_variant(v, inner)

encode(v) ==
    LET inner == [i \in DOMAIN v.of |-> encode(v.of[i])]
    IN CASE v.type.is = "pod"                 -> encode_pod(v)
         [] v.type.is = "buffer"              -> encode_buffer(v, inner)
         [] v.type.is \in {"vector", "map"}   -> encode_array(v, inner)
         [] v.type.is = "pair"                -> encode_pair(v, inner)
         [] v.type.is \in {"tuple", "struct"} -> encode_struct(v, inner)
         [] v.type.is \in {"variant", "property"} -> encode_variant(v, inner)
         [] v.type.is = "any"                 -> encode_any(v, inner)

encode_args(vs) == [i \in DOMAIN vs |-> encode(vs[i])]
-----------------------------------------------------------------------------
\* Decoding succeeds and leaves the rest, throws, or fails an assert.
Ok(value, rest) == [outcome |-> "ok", value |-> value, rest |-> rest]
Fails(how)      == [outcome |-> how, value |-> <<>>, rest |-> <<>>]

\* The elements of an array, until one cannot be decoded
decode_elements(T, items) ==
    LET results == [i \in DOMAIN items |-> decode(T, <<items[i]>>)]
        bad     == {i \in DOMAIN items : results[i].outcome # "ok"}
    IN IF bad = {} THEN Ok([i \in DOMAIN items |-> results[i].value], <<>>)
       ELSE results[CHOOSE i \in bad : \A j \in bad : i <= j]

\* [mutant of decode_pod] the type is not compared
decode_pod_unchecked(T, iter) ==
    IF iter = <<>> THEN Fails("throws")
    ELSE Ok(Basic(T, Head(iter).data), Tail(iter))

decode_pod(T, iter) ==
    IF ArgType(iter) # T.code THEN Fails("throws")
    ELSE Ok(Basic(T, Head(iter).data), Tail(iter))

\* Neither the type of the elements nor their number is looked at.
decode_buffer(T, iter) ==
    LET item == Head(iter)
    IN IF item.sig = <<"a", "y">> /\ Len(item.of) >= Len(T.of)
       THEN Ok(Value(T, 0, [i \in DOMAIN T.of |-> Basic(T.of[i], item.of[i].data)]), Tail(iter))
       ELSE Ok(Basic(T, Garbage), Tail(iter))

decode_vector(T, iter) ==
    LET elements == decode_elements(T.of[1], Head(iter).of)
    IN IF elements.outcome # "ok" THEN elements
       ELSE Ok(Value(T, 0, elements.value), Tail(iter))

\* std::map::insert() keeps the first of equal keys.
decode_map(T, iter) ==
    LET pairs == decode_elements(T.of[1], Head(iter).of)
        first == {i \in DOMAIN pairs.value :
                    \A j \in 1..(i - 1) : pairs.value[j].of[1] # pairs.value[i].of[1]}
    IN IF pairs.outcome # "ok" THEN pairs
       ELSE Ok(Value(T, 0, SetToSortSeq({pairs.value[i] : i \in first},
                                        LAMBDA p, q : p.of[1].data < q.of[1].data)),
               Tail(iter))

\* [mutant of decode_members] the iterator of the outer container stays
decode_members_stays(T, iter) ==
    LET members == decode_args(T.of, Head(iter).of)
    IN IF members.outcome # "ok" THEN members
       ELSE Ok(Value(T, 0, members.value), iter)

\* Struct, tuple and pair.  Members that are left over are skipped.
decode_members(T, iter) ==
    LET members == decode_args(T.of, Head(iter).of)
    IN IF members.outcome # "ok" THEN members
       ELSE Ok(Value(T, 0, members.value), Tail(iter))

\* The first alternative with the signature of the content
decode_variant(T, iter) ==
    LET content == Head(iter).of[1]
        fit     == {i \in DOMAIN T.of : make_type_signature(T.of[i]) = content.sig}
    IN IF fit = {} THEN Fails("aborts")
       ELSE LET i == CHOOSE i \in fit : \A j \in fit : i <= j
                r == decode(T.of[i], <<content>>)
            IN IF r.outcome # "ok" THEN r ELSE Ok(Value(T, 0, <<r.value>>), Tail(iter))

\* PropertyCodec does not compare the signature of the content with that of its type.
decode_property(T, iter) ==
    LET r == decode(T.of[1], Head(iter).of)
    IN IF r.outcome # "ok" THEN r ELSE Ok(Value(T, 0, <<r.value>>), Tail(iter))

\* An Any keeps the iterator; nothing is decoded yet.
decode_any(T, iter) == Ok(Value(T, Received, Head(iter).of), Tail(iter))

Recursed(T) == CASE T.is \in {"vector", "map", "buffer"} -> "a"
                 [] T.is = "pair"                        -> "{"
                 [] T.is \in {"tuple", "struct"}         -> "("
                 [] T.is \in {"variant", "property", "any"} -> "v"
                 [] T.is = "pod"                         -> T.code

decode(T, iter) ==
    IF ArgType(iter) # Recursed(T) /\ T.is # "pod" THEN Fails("throws")
    ELSE CASE T.is = "pod"                         -> decode_pod(T, iter)
           [] T.is = "buffer"                      -> decode_buffer(T, iter)
           [] T.is = "vector"                      -> decode_vector(T, iter)
           [] T.is = "map"                         -> decode_map(T, iter)
           [] T.is \in {"tuple", "struct", "pair"} -> decode_members(T, iter)
           [] T.is = "variant"                     -> decode_variant(T, iter)
           [] T.is = "property"                    -> decode_property(T, iter)
           [] T.is = "any"                         -> decode_any(T, iter)

\* decode(iter, t1, t2...): one after the other; what is left over is ignored.
decode_args(Ts, iter) ==
    IF Ts = <<>> THEN Ok(<<>>, iter)
    ELSE LET r == decode(Head(Ts), iter)
             s == decode_args(Tail(Ts), r.rest)
         IN IF r.outcome # "ok" THEN r
            ELSE IF s.outcome # "ok" THEN s
            ELSE Ok(<<r.value>> \o s.value, s.rest)
-----------------------------------------------------------------------------
\* Any::is<T>() and Any::as<T>()
is(a, T) ==
    IF a.of = <<>> THEN FALSE
    ELSE IF a.data = Received THEN make_type_signature(T) = a.of[1].sig
    ELSE a.of[1].type = T

as(a, T) ==
    IF ~is(a, T) THEN Fails("throws")
    ELSE IF a.data = Received THEN decode(T, <<a.of[1]>>)
    ELSE Ok(a.of[1], <<>>)
-----------------------------------------------------------------------------
(***************************************************************************)
(* Reference definitions                                                   *)
(***************************************************************************)
RECURSIVE Same(_, _), Part(_, _), Honest(_), Distinct(_), Trusting(_), Shown(_)

\* A value that was received is the one that was sent; an Any gives it back.
Same(received, sent) ==
    IF sent.type = AnyType
    THEN LET T == sent.of[1].type
         IN as(received, T).outcome = "ok" /\ Same(as(received, T).value, sent.of[1])
    ELSE /\ received.type = sent.type /\ received.data = sent.data
         /\ Len(received.of) = Len(sent.of)
         /\ \A i \in DOMAIN sent.of : Same(received.of[i], sent.of[i])

\* What was decoded, written down again
Shown(v) ==
    IF v.type = AnyType THEN Container(<<"v">>, v.of)
    ELSE Item(<<Recursed(v.type)>>, v.data, [i \in DOMAIN v.of |-> Shown(v.of[i])])

\* x is in the message y: the same payloads in the same kinds of containers.  All
\* elements of an array and all keys of a map are there, and no member is made up.
Part(x, y) ==
    /\ Head(x.sig) = Head(y.sig)
    /\ x.data = y.data
    /\ IF Head(x.sig) = "a" /\ \E i \in DOMAIN x.of : Head(x.of[i].sig) = "{"
       THEN /\ \A i \in DOMAIN x.of : \E j \in DOMAIN y.of : Part(x.of[i], y.of[j])
            /\ \A j \in DOMAIN y.of : \E i \in DOMAIN x.of : Part(x.of[i].of[1], y.of[j].of[1])
       ELSE /\ \A i \in DOMAIN x.of : i \in DOMAIN y.of /\ Part(x.of[i], y.of[i])
            /\ Head(x.sig) = "a" => Len(x.of) = Len(y.of)

\* Each container contains what its signature says; libdbus refuses anything else.
Honest(item) ==
    /\ \A i \in DOMAIN item.of : Honest(item.of[i])
    /\ CASE Head(item.sig) = "a" -> \A i \in DOMAIN item.of : item.of[i].sig = Tail(item.sig)
         [] Head(item.sig) = "(" -> item.sig = <<"(">> \o Signatures(item.of) \o <<")">>
         [] Head(item.sig) = "{" -> item.sig = <<"{">> \o Signatures(item.of) \o <<"}">>
         [] OTHER                -> TRUE

\* A variant is not a set of types: two alternatives may have one signature.
Distinct(T) ==
    /\ \A i \in DOMAIN T.of : Distinct(T.of[i])
    /\ T.is = "variant" => \A i, j \in DOMAIN T.of :
          make_type_signature(T.of[i]) = make_type_signature(T.of[j]) => i = j

\* A buffer believes that the other side sends as many bytes as it declares.
Trusting(T) == T.is = "buffer" \/ \E i \in DOMAIN T.of : Trusting(T.of[i])
=============================================================================
