----------------------------- MODULE MCRunTests -----------------------------
(* Model values for checking RunTests: the traces' weights. *)
EXTENDS RunTests

MCWeights == <<WALL, WUTIL, WPERF>>
=============================================================================
