---------------------------- MODULE MCMessageData ----------------------------
EXTENDS MessageData

Int32 == Pod("int32_t", "i")
Enum  == Pod("enum", "i")
UInt8 == Pod("uint8_t", "y")
Int8  == Pod("int8_t", "y")

Ints    == Vector(Int32)
Lists   == Vector(Ints)
Point   == Struct(<<Int32, String>>)
Single  == Struct(<<Int32>>)
Tuple2  == Tuple(<<Int32, Ints>>)
Dict    == Map(Int32, String)
Choice  == Variant(<<Int32, String, Ints>>)
Unclear == Variant(<<Int8, UInt8, Enum, Int32>>)
Bag     == Map(Int32, AnyType)

MCExpected == {Int32, Bool, ObjectPath, WString, Enum, UInt8, String, Ints, Lists, Point, Single, Tuple2, Dict, Choice,
            Unclear, AnyType, Vector(AnyType), Bag, Buffer(2), Property(Bool), Property(Lists),
            Property(Point), Property(Choice)}

I(n) == Basic(Int32, n)
S(n) == Basic(String, n)
List(T, vs) == Value(Vector(T), 0, vs)
Entry(T, v, w) == Value(T.of[1], 0, <<v, w>>)
Choose(T, v) == Value(T, 0, <<v>>)
Hold(v) == Value(AnyType, Held, <<v>>)
P(n) == Value(Point, 0, <<I(n), S(n)>>)

MCSamples ==
    {I(1), Basic(Bool, 1), Basic(ObjectPath, 1), Value(WString, 0, <<Basic(WString.of[1], 1)>>),
     Basic(Enum, 1), Basic(UInt8, 1), S(1), List(Int32, <<>>), List(Int32, <<I(1), I(2)>>),
     List(Ints, <<List(Int32, <<>>), List(Int32, <<I(2)>>)>>), P(1), Value(Single, 0, <<I(1)>>),
     Value(Tuple2, 0, <<I(2), List(Int32, <<I(1)>>)>>), Value(Dict, 0, <<>>),
     Value(Dict, 0, <<Entry(Dict, I(1), S(1)), Entry(Dict, I(2), S(1))>>),
     Choose(Choice, S(2)), Choose(Choice, List(Int32, <<I(1)>>)),
     Choose(Unclear, Basic(UInt8, 2)), Choose(Unclear, I(2)),
     Hold(I(1)), Hold(P(2)), Hold(List(Int32, <<>>)), Hold(Choose(Choice, I(1))),
     List(AnyType, <<Hold(I(1)), Hold(S(1))>>),
     Value(Bag, 0, <<Entry(Bag, I(1), Hold(P(1)))>>),
     Value(Buffer(2), 0, <<Basic(UInt8, 1), Basic(UInt8, 2)>>)}

MyError == Exception("MyError", <<Int32>>)
Deep    == Exception("Deep", <<Ints, String>>)

MCPath == [n \in {"Error", "MyError", "Deep"} |->
    CASE n = "Error"   -> <<"simppl", "dbus", "Error">>
      [] n = "MyError" -> <<"test", "MyError">>
      [] n = "Deep"    -> <<"ns", "inner", "DeepError">>]

\* Every two arguments, every result, and markers in every place
Sent == {v.type : v \in MCSamples}
MCMethods ==
    {<<In(T), In(U)>> : T \in Sent, U \in Sent} \cup {<<Out(T)>> : T \in Sent}
    \cup {<<>>, <<Oneway>>, <<Oneway, In(Int32)>>, <<In(Ints), Oneway, In(String)>>,
          <<Throw(MyError)>>, <<In(Int32), Throw(MyError)>>, <<Throw(Deep), Out(String), In(Ints)>>,
          <<In(Point), Out(Ints), In(String), Out(Int32)>>,
          <<Out(Int32), In(Lists), Throw(MyError), Out(Choice), In(Tuple2)>>,
          <<Out(Tuple2), Throw(Deep), Out(AnyType)>>}

MCSignals == {<<>>} \cup {<<Plain(T)>> : T \in Sent}
    \cup {<<Plain(Int32), Plain(Choice), Plain(Lists)>>}

MCSkeletons == {<<<<"Echo">>>>, <<<<"ns", "Echo">>>>,
            <<<<"ns", "Echo">>, <<"ns", "inner", "Other">>, <<"Echo">>>>}

MCExceptions ==
    {Thrown(Error, <<"org", ".", "Refused">>, 0, <<>>),
     Thrown(MyError, NoName, 0, <<I(0)>>), Thrown(MyError, <<"My", ".", "Error">>, 1, <<I(42)>>),
     Thrown(Deep, NoName, 0, <<List(Int32, <<>>), S(0)>>),
     Thrown(Deep, <<"My", ".", "Deep">>, 2, <<List(Int32, <<I(1)>>), S(1)>>)}

\* Other peers need not sort the keys of a map or have them once, and declare
\* other types.
MCItems ==
    {encode(v) : v \in MCSamples} \cup
    {Container(<<"a", "{", "i", "s", "}">>,
               [i \in 1..3 |-> Container(<<"{", "i", "s", "}">>,
                    <<Item(<<"i">>, 3 - (i % 2), <<>>), Item(<<"s">>, i, <<>>)>>)]),
     Container(<<"(", "b", ")">>, <<Item(<<"b">>, 1, <<>>)>>),
     Container(<<"a", "y">>, <<Item(<<"y">>, 1, <<>>)>>),
     Container(<<"v">>, <<Container(<<"v">>, <<Item(<<"b">>, 1, <<>>)>>)>>)}

Symmetry == Permutations(Messages) \cup Permutations(Anys) \cup Permutations(Objects)
=============================================================================
