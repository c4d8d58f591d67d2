-------------------------------- MODULE Sums --------------------------------
(***************************************************************************)
(* Adding up, as the loops of mdriver.c do that accumulate a total.        *)
(***************************************************************************)
EXTENDS Integers

\* w[1] + ... + w[n]
Total(w, n) ==
  LET upto[k \in 0 .. n] == IF k = 0 THEN 0 ELSE upto[k - 1] + w[k]
  IN  upto[n]
=============================================================================
