---------------------------- MODULE MemLibProofs ----------------------------
(***************************************************************************)
(* Proofs about MemLib: for every word size, mapping and byte values, the  *)
(* loops of mem_memcpy and mem_memset do to the memory what memcpy and     *)
(* memset promise.  The invariant says how far the loop has come: the      *)
(* memory is the one the call found with a prefix copied, or filled.       *)
(***************************************************************************)
EXTENDS MemLib, TLAPS

Memory == [0 .. Size - 1 -> Byte]

\* The arguments of the call under way, as its guards left them.
Arguments ==
  /\ call.before \in Memory
  /\ call.c \in Byte
  /\ call.dst \in Nat /\ call.src \in Nat /\ call.n \in Nat
  /\ call.dst + call.n <= Size /\ call.src + call.n <= Size

\* The n bytes left follow the ones done.
Remaining ==
  /\ n \in 0 .. call.n
  /\ dst = call.dst + (call.n - n)

Copying ==
  /\ call.op = "memcpy" /\ Arguments /\ Remaining
  /\ Apart(call.dst, call.src, call.n)
  /\ src = call.src + (call.n - n)
  /\ mem = Copied(call, call.n - n)

Filling ==
  /\ call.op = "memset" /\ Arguments /\ Remaining
  /\ mem = Filled(call, call.n - n)

IInv ==
  /\ TypeOK
  /\ pc = "memcpy" => Copying
  /\ pc = "memset" => Filling
  /\ MemcpyExact
  /\ MemsetExact

(***************************************************************************)
(* One iteration: a word, or the rest, more of the prefix.  What holds     *)
(* before the iteration that does len bytes, k of them done.               *)
(***************************************************************************)
FillReady(m, c, k, len) ==
  /\ k \in Nat /\ len \in 0 .. W /\ k + len <= c.n
  /\ c.before \in Memory /\ c.dst \in Nat /\ c.n \in Nat
  /\ c.dst + c.n <= Size
  /\ m = Filled(c, k)

CopyReady(m, c, k, len) ==
  /\ k \in Nat /\ len \in 0 .. W /\ k + len <= c.n
  /\ c.before \in Memory /\ c.dst \in Nat /\ c.src \in Nat /\ c.n \in Nat
  /\ c.dst + c.n <= Size /\ c.src + c.n <= Size
  /\ Apart(c.dst, c.src, c.n)
  /\ m = Copied(c, k)

\* A word, or the rest, copied after a prefix of k bytes: a prefix of k + len bytes.
LEMMA CopyStep ==
  ASSUME NEW m, NEW c, NEW k, NEW len, CopyReady(m, c, k, len)
  PROVE  mem_write(m, c.dst + k, mem_read(m, c.src + k, len), len)
           = Copied(c, k + len)
<1>0. /\ k \in Nat /\ len \in 0 .. W /\ k + len <= c.n
      /\ c.before \in Memory /\ c.dst \in Nat /\ c.src \in Nat /\ c.n \in Nat
      /\ c.dst + c.n <= Size /\ c.src + c.n <= Size
      /\ Apart(c.dst, c.src, c.n)
      /\ m = Copied(c, k)
  BY DEF CopyReady
<1> USE <1>0
<1> DEFINE r == mem_read(m, c.src + k, len)
<1>1. W \in Nat /\ Size \in Nat
  BY WordAssumption
<1>2. \A x \in Area(c.dst + k, len) :
         r[x - (c.dst + k)] = c.before[x - c.dst + c.src]
  <2> SUFFICES ASSUME NEW x \in Area(c.dst + k, len)
               PROVE  r[x - (c.dst + k)] = c.before[x - c.dst + c.src]
    OBVIOUS
  <2> DEFINE j == x - (c.dst + k)
             y == c.src + k + j
  <2>1. j \in 0 .. W - 1 /\ j < len
    BY <1>1 DEF Area
  <2>2. r[j] = m[y]
    BY <2>1 DEF mem_read
  <2>3. y \in Area(c.src, c.n) /\ y \in 0 .. Size - 1
    BY <1>1, <2>1 DEF Area
  <2>4. y \notin Area(c.dst, k)
    <3>1. y \notin Area(c.dst, c.n)
      BY <2>3 DEF Apart
    <3>2. Area(c.dst, k) \subseteq Area(c.dst, c.n)
      BY <1>1 DEF Area
    <3> QED
      BY <3>1, <3>2
  <2>5. m[y] = c.before[y]
    BY <2>3, <2>4 DEF Copied
  <2>6. y = x - c.dst + c.src
    BY DEF Area
  <2> QED
    BY <2>2, <2>5, <2>6
<1>3. DOMAIN m = 0 .. Size - 1
  BY DEF Copied
<1>4. \A x \in 0 .. Size - 1 :
         (IF x \in Area(c.dst + k, len) THEN r[x - (c.dst + k)] ELSE m[x])
           = (IF x \in Area(c.dst, k + len) THEN c.before[x - c.dst + c.src]
              ELSE c.before[x])
  <2> SUFFICES ASSUME NEW x \in 0 .. Size - 1
               PROVE  (IF x \in Area(c.dst + k, len) THEN r[x - (c.dst + k)] ELSE m[x])
                        = (IF x \in Area(c.dst, k + len)
                           THEN c.before[x - c.dst + c.src] ELSE c.before[x])
    OBVIOUS
  <2>1. m[x] = IF x \in Area(c.dst, k) THEN c.before[x - c.dst + c.src] ELSE c.before[x]
    BY DEF Copied
  <2>2. x \in Area(c.dst, k + len) <=> x \in Area(c.dst, k) \/ x \in Area(c.dst + k, len)
    BY <1>1 DEF Area
  <2> QED
    BY <1>2, <2>1, <2>2
<1> QED
  BY <1>3, <1>4 DEF mem_write, Copied

\* A word, or the rest, filled after a prefix of k bytes: a prefix of k + len bytes.
LEMMA FillStep ==
  ASSUME NEW m, NEW c, NEW k, NEW len, FillReady(m, c, k, len)
  PROVE  mem_write(m, c.dst + k, Pattern(c.c), len) = Filled(c, k + len)
<1>0. /\ k \in Nat /\ len \in 0 .. W /\ k + len <= c.n
      /\ c.before \in Memory /\ c.dst \in Nat /\ c.n \in Nat
      /\ c.dst + c.n <= Size
      /\ m = Filled(c, k)
  BY DEF FillReady
<1> USE <1>0
<1>1. W \in Nat /\ Size \in Nat
  BY WordAssumption
<1>2. \A x \in Area(c.dst + k, len) : Pattern(c.c)[x - (c.dst + k)] = c.c
  BY <1>1 DEF Pattern, Area
<1>3. \A x : x \in Area(c.dst, k + len) <=> x \in Area(c.dst, k) \/ x \in Area(c.dst + k, len)
  BY <1>1 DEF Area
<1> QED
  BY <1>2, <1>3 DEF mem_write, Filled

\* A memory with a prefix copied or filled is a memory.
LEMMA PrefixTyped ==
  ASSUME NEW c, NEW k \in Nat,
         c.before \in Memory, c.c \in Byte, c.dst \in Nat, c.src \in Nat, c.n \in Nat,
         c.dst + c.n <= Size, c.src + c.n <= Size, k <= c.n
  PROVE  Copied(c, k) \in Memory /\ Filled(c, k) \in Memory
<1>1. \A x \in Area(c.dst, k) : x - c.dst + c.src \in 0 .. Size - 1
  BY WordAssumption DEF Area
<1> QED
  BY <1>1 DEF Copied, Filled, Memory

\* Nothing is done when a call starts.
LEMMA NothingDone ==
  ASSUME NEW c, c.before \in Memory, c.dst \in Nat
  PROVE  Copied(c, 0) = c.before /\ Filled(c, 0) = c.before
<1>1. Area(c.dst, 0) = {}
  BY DEF Area
<1> QED
  BY <1>1 DEF Copied, Filled, Memory

(***************************************************************************)
(* The invariant.                                                          *)
(***************************************************************************)
\* Before any access nothing is under way.
LEMMA InitIInv == Init => IInv
<1> SUFFICES ASSUME Init PROVE IInv
  OBVIOUS
<1> QED
  BY WordAssumption, ByteAssumption
  DEF Init, IInv, TypeOK, MemcpyExact, MemsetExact, NoCall

\* Every iteration, and every call, preserves the invariant.
LEMMA NextIInv == IInv /\ [Next]_vars => IInv'
<1> SUFFICES ASSUME IInv, [Next]_vars PROVE IInv'
  OBVIOUS
<1>0. /\ W \in Nat \ {0} /\ Size \in Nat /\ Zero \in Byte
      /\ mem \in Memory /\ mem_brk \in 0 .. Size
  BY WordAssumption, ByteAssumption DEF IInv, TypeOK, Memory
<1>1. CASE Memcpy
  <2>1. PICK d, s \in 0 .. Size - 1, k \in 0 .. Size :
           /\ d + k <= mem_brk /\ s + k <= mem_brk /\ Apart(d, s, k)
           /\ Enter("memcpy", d, s, Zero, k)
    BY <1>1 DEF Memcpy
  <2>2. /\ pc' = "memcpy" /\ dst' = d /\ src' = s /\ n' = k
        /\ mem' = mem /\ mem_brk' = mem_brk
        /\ call' = [op |-> "memcpy", dst |-> d, src |-> s, c |-> Zero, n |-> k,
                    before |-> mem]
    BY <2>1 DEF Enter
  <2>3. Copied(call', 0) = mem
    BY <1>0, <2>2, NothingDone
  <2>4. Copying'
    BY <1>0, <2>1, <2>2, <2>3 DEF Copying, Arguments, Remaining, Memory
  <2> QED
    BY <1>0, <2>2, <2>4 DEF IInv, TypeOK, MemcpyExact, MemsetExact, Memory
<1>2. CASE CopyWord
  <2>1. Copying /\ n >= W
    BY <1>2 DEF CopyWord, IInv
  <2> DEFINE k == call.n - n
  <2>2. /\ k \in Nat /\ n \in Nat /\ k + W <= call.n /\ W \in 0 .. W
        /\ dst = call.dst + k /\ src = call.src + k /\ mem = Copied(call, k)
    BY <1>0, <2>1 DEF Copying, Arguments, Remaining
  <2>3. /\ call.before \in Memory /\ call.c \in Byte
        /\ call.dst \in Nat /\ call.src \in Nat /\ call.n \in Nat
        /\ call.dst + call.n <= Size /\ call.src + call.n <= Size
        /\ Apart(call.dst, call.src, call.n)
    BY <2>1 DEF Copying, Arguments
  <2>4. mem' = Copied(call, k + W)
    <3> HIDE DEF k
    <3>1. mem' = mem_write(mem, call.dst + k, mem_read(mem, call.src + k, W), W)
      BY <1>2, <2>2 DEF CopyWord
    <3>2. mem_write(mem, call.dst + k, mem_read(mem, call.src + k, W), W) = Copied(call, k + W)
      <4>1. CopyReady(mem, call, k, W)
        BY <2>2, <2>3 DEF CopyReady
      <4> QED
        BY ONLY <4>1, CopyStep
    <3> QED
      BY <3>1, <3>2
  <2>5. Copied(call, k + W) \in Memory
    BY <1>0, <2>1, <2>2, PrefixTyped DEF Copying, Arguments
  <2>6. Copying'
    <3>1. call.n - n' = k + W /\ n' \in 0 .. call.n
      BY <1>0, <1>2, <2>1, <2>2 DEF CopyWord, Copying, Arguments
    <3>2. /\ call' = call /\ dst' = dst + W /\ src' = src + W
      BY <1>2 DEF CopyWord
    <3>3. dst' = call.dst + (k + W) /\ src' = call.src + (k + W)
      BY <1>0, <2>1, <2>2, <3>2 DEF Copying, Arguments, Remaining
    <3> QED
      BY <2>1, <2>4, <3>1, <3>2, <3>3 DEF Copying, Arguments, Remaining
  <2> QED
    BY <1>0, <1>2, <2>4, <2>5, <2>6
    DEF CopyWord, IInv, TypeOK, MemcpyExact, MemsetExact, Memory
<1>3. CASE CopyTail
  <2>1. Copying /\ n < W
    BY <1>3 DEF CopyTail, IInv
  <2> DEFINE k == call.n - n
  <2>2. /\ k \in Nat /\ n \in Nat /\ k + n = call.n /\ n \in 0 .. W
        /\ dst = call.dst + k /\ src = call.src + k /\ mem = Copied(call, k)
    BY <1>0, <2>1 DEF Copying, Arguments, Remaining
  <2>3. /\ call.before \in Memory /\ call.c \in Byte
        /\ call.dst \in Nat /\ call.src \in Nat /\ call.n \in Nat
        /\ call.dst + call.n <= Size /\ call.src + call.n <= Size
        /\ Apart(call.dst, call.src, call.n)
    BY <2>1 DEF Copying, Arguments
  <2>4. mem' = Copied(call, call.n)
    <3> HIDE DEF k
    <3>1. CASE n > 0
      <4>1. mem' = mem_write(mem, call.dst + k, mem_read(mem, call.src + k, n), n)
        BY <1>3, <2>2, <3>1 DEF CopyTail
      <4>2. mem_write(mem, call.dst + k, mem_read(mem, call.src + k, n), n) = Copied(call, k + n)
        <5>1. CopyReady(mem, call, k, n)
          BY <2>2, <2>3 DEF CopyReady
        <5> QED
          BY ONLY <5>1, CopyStep
      <4> QED
        BY <2>2, <4>1, <4>2
    <3>2. CASE n = 0
      <4>1. k = call.n /\ mem' = mem
        BY <1>3, <2>2, <3>2 DEF CopyTail
      <4> QED
        BY <2>2, <4>1
    <3> QED
      BY <2>2, <3>1, <3>2
  <2>5. Copied(call, call.n) \in Memory
    BY <1>0, <2>1, PrefixTyped DEF Copying, Arguments
  <2> QED
    BY <1>0, <1>3, <2>1, <2>4, <2>5
    DEF CopyTail, Copying, IInv, TypeOK, MemcpyExact, MemsetExact, Memory
<1>4. CASE Memset
  <2>1. PICK d \in 0 .. Size - 1, c \in Byte, k \in 0 .. Size :
           d + k <= mem_brk /\ Enter("memset", d, d, c, k)
    BY <1>4 DEF Memset
  <2>2. /\ pc' = "memset" /\ dst' = d /\ n' = k
        /\ mem' = mem /\ mem_brk' = mem_brk
        /\ call' = [op |-> "memset", dst |-> d, src |-> d, c |-> c, n |-> k,
                    before |-> mem]
    BY <2>1 DEF Enter
  <2>3. Filled(call', 0) = mem
    BY <1>0, <2>2, NothingDone
  <2>4. Filling'
    BY <1>0, <2>1, <2>2, <2>3 DEF Filling, Arguments, Remaining, Memory
  <2> QED
    BY <1>0, <2>2, <2>4 DEF IInv, TypeOK, MemcpyExact, MemsetExact, Memory
<1>5. CASE SetWord
  <2>1. Filling /\ n >= W
    BY <1>5 DEF SetWord, IInv
  <2> DEFINE k == call.n - n
  <2>2. /\ k \in Nat /\ n \in Nat /\ k + W <= call.n /\ W \in 0 .. W
        /\ dst = call.dst + k /\ mem = Filled(call, k)
    BY <1>0, <2>1 DEF Filling, Arguments, Remaining
  <2>3. /\ call.before \in Memory /\ call.c \in Byte
        /\ call.dst \in Nat /\ call.src \in Nat /\ call.n \in Nat
        /\ call.dst + call.n <= Size /\ call.src + call.n <= Size
    BY <2>1 DEF Filling, Arguments
  <2>4. mem' = Filled(call, k + W)
    <3> HIDE DEF k
    <3>1. mem' = mem_write(mem, call.dst + k, Pattern(call.c), W)
      BY <1>5, <2>2 DEF SetWord
    <3>2. mem_write(mem, call.dst + k, Pattern(call.c), W) = Filled(call, k + W)
      <4>1. FillReady(mem, call, k, W)
        BY <2>2, <2>3 DEF FillReady
      <4> QED
        BY ONLY <4>1, FillStep
    <3> QED
      BY <3>1, <3>2
  <2>5. Filled(call, k + W) \in Memory
    BY <1>0, <2>1, <2>2, PrefixTyped DEF Filling, Arguments
  <2>6. Filling'
    <3>1. call.n - n' = k + W /\ n' \in 0 .. call.n
      BY <1>0, <1>5, <2>1, <2>2 DEF SetWord, Filling, Arguments
    <3>2. call' = call /\ dst' = dst + W
      BY <1>5 DEF SetWord
    <3>3. dst' = call.dst + (k + W)
      BY <1>0, <2>1, <2>2, <3>2 DEF Filling, Arguments, Remaining
    <3> QED
      BY <2>1, <2>4, <3>1, <3>2, <3>3 DEF Filling, Arguments, Remaining
  <2> QED
    BY <1>0, <1>5, <2>4, <2>5, <2>6
    DEF SetWord, IInv, TypeOK, MemcpyExact, MemsetExact, Memory
<1>6. CASE SetTail
  <2>1. Filling /\ n < W
    BY <1>6 DEF SetTail, IInv
  <2> DEFINE k == call.n - n
  <2>2. /\ k \in Nat /\ n \in Nat /\ k + n = call.n /\ n \in 0 .. W
        /\ dst = call.dst + k /\ mem = Filled(call, k)
    BY <1>0, <2>1 DEF Filling, Arguments, Remaining
  <2>3. /\ call.before \in Memory /\ call.c \in Byte
        /\ call.dst \in Nat /\ call.src \in Nat /\ call.n \in Nat
        /\ call.dst + call.n <= Size /\ call.src + call.n <= Size
    BY <2>1 DEF Filling, Arguments
  <2>4. mem' = Filled(call, call.n)
    <3> HIDE DEF k
    <3>1. CASE n > 0
      <4>1. mem' = mem_write(mem, call.dst + k, Pattern(call.c), n)
        BY <1>6, <2>2, <3>1 DEF SetTail
      <4>2. mem_write(mem, call.dst + k, Pattern(call.c), n) = Filled(call, k + n)
        <5>1. FillReady(mem, call, k, n)
          BY <2>2, <2>3 DEF FillReady
        <5> QED
          BY ONLY <5>1, FillStep
      <4> QED
        BY <2>2, <4>1, <4>2
    <3>2. CASE n = 0
      <4>1. k = call.n /\ mem' = mem
        BY <1>6, <2>2, <3>2 DEF SetTail
      <4> QED
        BY <2>2, <4>1
    <3> QED
      BY <2>2, <3>1, <3>2
  <2>5. Filled(call, call.n) \in Memory
    BY <1>0, <2>1, PrefixTyped DEF Filling, Arguments
  <2> QED
    BY <1>0, <1>6, <2>1, <2>4, <2>5
    DEF SetTail, Filling, IInv, TypeOK, MemcpyExact, MemsetExact, Memory
<1>7. CASE Return
  BY <1>0, <1>7 DEF Return, IInv, TypeOK, MemcpyExact, MemsetExact, Memory
<1>8. CASE Write
  <2>1. PICK a \in 0 .. Size - 1, b \in Byte :
           /\ pc = "idle" /\ UNCHANGED <<mem_brk, pc>>
           /\ mem' = mem_write(mem, a, [Pattern(Zero) EXCEPT ![0] = b], 1)
    BY <1>8 DEF Write
  <2>2. [Pattern(Zero) EXCEPT ![0] = b] \in [0 .. W - 1 -> Byte]
    BY <1>0 DEF Pattern
  <2>3. mem' \in Memory
    BY <1>0, <2>1, <2>2 DEF mem_write, Area, Memory
  <2> QED
    BY <1>0, <2>1, <2>3 DEF IInv, TypeOK, MemcpyExact, MemsetExact, Memory
<1>9. CASE mem_reset_brk
  BY <1>0, <1>9 DEF mem_reset_brk, IInv, TypeOK, MemcpyExact, MemsetExact
<1>10. ASSUME NEW incr \in Increments, Sbrk(incr) PROVE IInv'
  BY <1>0, <1>10, SbrkAssumption DEF Sbrk, IInv, TypeOK, MemcpyExact, MemsetExact
<1>11. CASE UNCHANGED vars
  BY <1>11 DEF vars, loop, IInv, TypeOK, MemcpyExact, MemsetExact, Copying, Filling,
     Arguments, Remaining
<1> QED
  BY <1>1, <1>2, <1>3, <1>4, <1>5, <1>6, <1>7, <1>8, <1>9, <1>10, <1>11 DEF Next

\* The invariant of the loops holds throughout every sequence of accesses.
THEOREM Invariance == Spec => []IInv
<1> QED
  BY InitIInv, NextIInv, PTL DEF Spec

\* The break stays inside the mapping and the memory keeps its bytes.
THEOREM TypeCorrect == Spec => []TypeOK
<1>1. IInv => TypeOK
  BY DEF IInv
<1> QED
  BY <1>1, Invariance, PTL

\* mem_memcpy copies its source, whatever the length and the word, and
\* nothing else changes.
THEOREM MemcpyCorrect == Spec => []MemcpyExact
<1>1. IInv => MemcpyExact
  BY DEF IInv
<1> QED
  BY <1>1, Invariance, PTL

\* mem_memset fills its area, whatever the length and the word, and nothing
\* else changes.
THEOREM MemsetCorrect == Spec => []MemsetExact
<1>1. IInv => MemsetExact
  BY DEF IInv
<1> QED
  BY <1>1, Invariance, PTL

=============================================================================
