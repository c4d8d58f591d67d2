------------------------------- MODULE MemLib -------------------------------
(***************************************************************************)
(* The memory of memlib.c: the break, and the emulated accesses through    *)
(* which the allocator copies (mem_memcpy) and clears (mem_memset) and the *)
(* driver writes payloads.  A 64-bit value is the function from the        *)
(* positions of its bytes, the lowest first, to the bytes; each iteration  *)
(* of the loops of mem_memcpy and mem_memset is a step.                    *)
(***************************************************************************)
EXTENDS Integers

CONSTANTS
  W,           \* sizeof(uint64_t)
  Size,        \* MAX_HEAP_SIZE
  Byte,        \* the values of a byte
  Zero,        \* the byte 0
  Increments   \* what the callers of mem_sbrk ask for

ASSUME WordAssumption  == W \in Nat \ {0} /\ Size \in Nat
ASSUME ByteAssumption  == Zero \in Byte
ASSUME SbrkAssumption  == Increments \subseteq Int

VARIABLES
  mem,         \* the bytes of the mapping
  mem_brk,     \* the bytes between heap and the break
  pc,          \* "idle", in a loop ("memcpy", "memset") or at its return
  call,        \* the call under way: its arguments and the memory it found
  dst, src, n  \* the loop's variables

loop == <<dst, src, n>>
vars == <<mem, mem_brk, pc, call, loop>>

Area(a, k) == a .. a + k - 1
Apart(a, b, k) == Area(a, k) \cap Area(b, k) = {}

(***************************************************************************)
(* The accesses.  mem_read loads W bytes whatever its length, and masks    *)
(* those it was not asked for; mem_write stores the low len bytes.         *)
(***************************************************************************)
mem_read(m, a, len) == [j \in 0 .. W - 1 |-> IF j < len THEN m[a + j] ELSE Zero]

mem_write(m, a, val, len) ==
  [x \in DOMAIN m |-> IF x \in Area(a, len) THEN val[x - a] ELSE m[x]]

\* Variant: the byte is not shifted into every position.
Pattern_low(c) == [j \in 0 .. W - 1 |-> IF j = 0 THEN c ELSE Zero]

Pattern(c) == [j \in 0 .. W - 1 |-> c]

(***************************************************************************)
(* mem_memcpy and mem_memset.                                              *)
(***************************************************************************)
NoCall == [op |-> "none", dst |-> 0, src |-> 0, c |-> Zero, n |-> 0, before |-> <<>>]

Enter(op, d, s, c, k) ==
  /\ pc = "idle"
  /\ pc' = op
  /\ dst' = d /\ src' = s /\ n' = k
  /\ call' = [op |-> op, dst |-> d, src |-> s, c |-> c, n |-> k, before |-> mem]
  /\ UNCHANGED <<mem, mem_brk>>

\* As for memcpy, the areas are in the heap and do not overlap.
Memcpy == \E d, s \in 0 .. Size - 1, k \in 0 .. Size :
            /\ d + k <= mem_brk /\ s + k <= mem_brk /\ Apart(d, s, k)
            /\ Enter("memcpy", d, s, Zero, k)

Memset == \E d \in 0 .. Size - 1, c \in Byte, k \in 0 .. Size :
            /\ d + k <= mem_brk
            /\ Enter("memset", d, d, c, k)

CopyWord ==
  /\ pc = "memcpy" /\ n >= W
  /\ mem' = mem_write(mem, dst, mem_read(mem, src, W), W)
  /\ n' = n - W /\ src' = src + W /\ dst' = dst + W
  /\ UNCHANGED <<mem_brk, pc, call>>

\* Variant: the bytes after the last whole word are forgotten.
CopyTail_none ==
  /\ pc = "memcpy" /\ n < W
  /\ pc' = "return"
  /\ UNCHANGED <<mem, mem_brk, call, loop>>

CopyTail ==
  /\ pc = "memcpy" /\ n < W
  /\ mem' = IF n > 0 THEN mem_write(mem, dst, mem_read(mem, src, n), n) ELSE mem
  /\ pc' = "return"
  /\ UNCHANGED <<mem_brk, call, loop>>

SetWord ==
  /\ pc = "memset" /\ n >= W
  /\ mem' = mem_write(mem, dst, Pattern(call.c), W)
  /\ n' = n - W /\ dst' = dst + W
  /\ UNCHANGED <<mem_brk, pc, call, src>>

SetTail ==
  /\ pc = "memset" /\ n < W
  /\ mem' = IF n > 0 THEN mem_write(mem, dst, Pattern(call.c), n) ELSE mem
  /\ pc' = "return"
  /\ UNCHANGED <<mem_brk, call, loop>>

\* The variables of the call are gone when it has returned.
Return ==
  /\ pc = "return" /\ pc' = "idle"
  /\ call' = NoCall
  /\ dst' = 0 /\ src' = 0 /\ n' = 0
  /\ UNCHANGED <<mem, mem_brk>>

(***************************************************************************)
(* The driver writes a byte of a payload, the allocator moves the break.   *)
(***************************************************************************)
Write == \E a \in 0 .. Size - 1, b \in Byte :
           /\ pc = "idle" /\ a < mem_brk
           /\ mem' = mem_write(mem, a, [Pattern(Zero) EXCEPT ![0] = b], 1)
           /\ UNCHANGED <<mem_brk, pc, call, loop>>

\* Variant: the limit is not checked.
Sbrk_unlimited(incr) ==
  /\ pc = "idle"
  /\ mem_brk' = IF incr < 0 THEN mem_brk ELSE mem_brk + incr
  /\ UNCHANGED <<mem, pc, call, loop>>

Sbrk(incr) ==
  /\ pc = "idle"
  /\ mem_brk' = IF incr < 0 \/ mem_brk + incr > Size THEN mem_brk ELSE mem_brk + incr
  /\ UNCHANGED <<mem, pc, call, loop>>

mem_reset_brk ==
  /\ pc = "idle"
  /\ mem_brk' = 0
  /\ UNCHANGED <<mem, pc, call, loop>>

Init ==
  /\ mem = [a \in 0 .. Size - 1 |-> Zero]
  /\ mem_brk = 0
  /\ pc = "idle"
  /\ call = NoCall
  /\ dst = 0 /\ src = 0 /\ n = 0

Next ==
  \/ Memcpy \/ CopyWord \/ CopyTail
  \/ Memset \/ SetWord \/ SetTail
  \/ Return \/ Write \/ mem_reset_brk
  \/ \E incr \in Increments : Sbrk(incr)

Spec == Init /\ [][Next]_vars

(***************************************************************************)
(* Properties.                                                             *)
(***************************************************************************)
\* The break stays inside the mapping and the memory keeps its bytes
\* (mem_sbrk, memlib.c:71-77).
TypeOK ==
  /\ mem \in [0 .. Size - 1 -> Byte]
  /\ mem_brk \in 0 .. Size
  /\ pc \in {"idle", "memcpy", "memset", "return"}

\* What memcpy and memset promise of the memory a call found.
Copied(c, k) ==
  [x \in 0 .. Size - 1 |-> IF x \in Area(c.dst, k) THEN c.before[x - c.dst + c.src]
                           ELSE c.before[x]]
Filled(c, k) ==
  [x \in 0 .. Size - 1 |-> IF x \in Area(c.dst, k) THEN c.c ELSE c.before[x]]

\* mem_memcpy, word by word and then the rest, copies every byte of its source
\* and changes no byte outside its destination (memlib.c:140-155).
MemcpyExact == pc = "return" /\ call.op = "memcpy" => mem = Copied(call, call.n)

\* mem_memset stores its byte everywhere in its area and nowhere else
\* (memlib.c:158-176).
MemsetExact == pc = "return" /\ call.op = "memset" => mem = Filled(call, call.n)

=============================================================================
