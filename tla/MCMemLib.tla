------------------------------ MODULE MCMemLib ------------------------------
(* Values of the constants of MemLib for TLC. *)
EXTENDS MemLib

SomeIncrements == {-2, 4, 7}
=============================================================================
