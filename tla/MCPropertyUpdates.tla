-------------------------- MODULE MCPropertyUpdates --------------------------
(* Instances of PropertyUpdates for TLC: p is stored, q is computed. *)
EXTENDS PropertyUpdates

CONSTANTS p, q

McNotifying == {p, q}
McReadWrite == {p}
McOnRead    == {q}
=============================================================================
