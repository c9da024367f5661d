----------------------------- MODULE MCMethodCall -----------------------------
(* Instances of MethodCall for TLC. *)
EXTENDS MethodCall
=============================================================================
