------------------------------- MODULE Payload -------------------------------
(***************************************************************************)
(* Which bytes of a payload randomize_block writes, with which of its      *)
(* random values, and which of them check_index compares (mdriver.c). At   *)
(* most maxfill values go to the start of a payload and as many to its     *)
(* end; an end part counts its values from the start again.                *)
(***************************************************************************)
EXTENDS Integers

CONSTANT maxfill     \* MAXFILL of config.h

ASSUME FillAssumption == maxfill \in Nat \ {0}

fsize(size) == IF size > maxfill THEN maxfill ELSE size

\* block_end - block, where the end part begins
block_end(size) == IF size > 2 * maxfill THEN size - maxfill ELSE fsize(size)

\* Variant: the start only.
Written_start(size) == 0 .. fsize(size) - 1

Written(size) == 0 .. fsize(size) - 1 \cup block_end(size) .. size - 1

\* The value at offset x is random_data[base + Index(size, x)].
Index(size, x) == IF x < fsize(size) THEN x ELSE x - block_end(size)

\* Variant: the end part is compared after a realloc too.
Compared_whole(size, moved) == Written(size)

Compared(size, moved) == IF moved THEN 0 .. fsize(size) - 1 ELSE Written(size)

\* Variant: the end part is never compared.
check_index_start(size, was, changed, moved) ==
  \A x \in 0 .. fsize(size) - 1 :
    x \in Written(was) \ changed /\ Index(size, x) = Index(was, x)

\* What check_index says of size bytes that were filled as the start of was, when
\* the bytes in changed have other values by now.
check_index(size, was, changed, moved) ==
  \A x \in Compared(size, moved) :
    x \in Written(was) \ changed /\ Index(size, x) = Index(was, x)
=============================================================================
