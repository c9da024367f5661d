--------------------------- MODULE MCObjectManager ---------------------------
(* The objects of src/tests/objectmanager.cpp: one interface, and two. *)
EXTENDS ObjectManager

McInterfaces == [o |-> <<"One">>, t |-> <<"Two", "Three">>]

\* Interfaces may use the same name for a property.
McProperties ==
    [One   |-> {"Str", "Int"},
     Two   |-> {"Double", "Int"},
     Three |-> {"Obj"}]
=============================================================================
