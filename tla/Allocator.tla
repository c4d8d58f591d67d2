------------------------------ MODULE Allocator ------------------------------
(***************************************************************************)
(* What the malloc package promises its client: every pointer it gives out *)
(* is aligned, names bytes of the heap that no other live pointer names,   *)
(* and stays so until it is freed (mm.c:145-306; the driver's add_range    *)
(* checks exactly this, mdriver.c:678-703).                                *)
(***************************************************************************)
EXTENDS Integers

CONSTANTS
  Lo, Hi,      \* the payloads lie in [Lo, Hi)
  ALIGNMENT    \* of config.h: 4, 8 or 16

VARIABLE live       \* for each live pointer, the bytes asked for

Apart(p, m, q, n) == p + m <= q \/ q + n <= p

\* [p, p + n) may be given to the client while it holds the pointers of f
Fresh(f, p, n) ==
  /\ p \in Nat /\ n \in Nat \ {0}
  /\ p % ALIGNMENT = 0 /\ Lo <= p /\ p + n <= Hi
  /\ \A q \in DOMAIN f : Apart(p, n, q, f[q])

Without(f, p) == [q \in DOMAIN f \ {p} |-> f[q]]
With(f, p, n) == [q \in DOMAIN f \cup {p} |-> IF q = p THEN n ELSE f[q]]

Init == live = [p \in {} |-> 0]

Malloc ==
  \E p \in DOMAIN live' : /\ Fresh(live, p, live'[p])
                          /\ live' = With(live, p, live'[p])

Free == \E p \in DOMAIN live : live' = Without(live, p)

Realloc ==
  \E p \in DOMAIN live, q \in DOMAIN live' :
    /\ Fresh(Without(live, p), q, live'[q])
    /\ live' = With(Without(live, p), q, live'[q])

Reset == live' = [p \in {} |-> 0]

Next == Malloc \/ Free \/ Realloc \/ Reset

Spec == Init /\ [][Next]_live
=============================================================================
