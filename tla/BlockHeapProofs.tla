--------------------------- MODULE BlockHeapProofs ---------------------------
(***************************************************************************)
(* The blocks of BlockHeap always tile the heap, are fully coalesced, and  *)
(* are held by the client exactly when they are allocated; hence BlockHeap *)
(* keeps the contract of Allocator.  For every size of page, of heap and   *)
(* of request.                                                             *)
(***************************************************************************)
EXTENDS BlockHeap, TLAPS

Typed(h) ==
  /\ \A p \in Blocks(h) : /\ p \in Nat /\ p % 16 = 0
                          /\ h.size[p] \in Nat /\ h.size[p] % 16 = 0
                          /\ h.size[p] >= 32
  /\ h.used \subseteq Blocks(h)
  /\ h.brk \in Nat /\ h.brk % 16 = 0
  /\ h.TOH \in Nat

WF(h) == Typed(h) /\ Gapless(h) /\ Disjoint(h)

Unmerged(h) == \A p \in FreeBlocks(h) : End(h, p) \notin FreeBlocks(h)

\* Only p may have a free neighbour.
UnmergedBut(h, p) ==
  \A q \in FreeBlocks(h) : q # p /\ End(h, q) # p => End(h, q) \notin FreeBlocks(h)

\* What does not reach the width of a size_t does not wrap around.
LEMMA NoWrap ==
  ASSUME NEW m \in Nat, NEW x \in Nat, x < m
  PROVE  x % m = x
OBVIOUS

\* align(size + 16) for a request that leaves room for it: granular, at least 32,
\* and with room for the payload and its tags.
LEMMA BlockSizeBound ==
  ASSUME NEW n \in Requests
  PROVE  /\ n \in Nat \ {0}
         /\ BlockSize(n) \in Nat /\ BlockSize(n) % 16 = 0
         /\ BlockSize(n) >= n + 16 /\ BlockSize(n) >= 32
<1>1. SizeMod \in Nat /\ n \in Nat \ {0} /\ n + 31 < SizeMod
  BY RequestAssumption
<1>2. (n + 16) % SizeMod = n + 16
  <2>1. n + 16 \in Nat /\ n + 16 < SizeMod
    BY <1>1
  <2> QED BY <1>1, <2>1, NoWrap
<1>3. (n + 16 + 15) % SizeMod = n + 16 + 15
  <2>1. n + 16 + 15 \in Nat /\ n + 16 + 15 < SizeMod
    BY <1>1
  <2> QED BY <1>1, <2>1, NoWrap
<1>4. BlockSize(n) = 16 * ((n + 16 + 15) \div 16)
  BY <1>2, <1>3 DEF BlockSize, align
<1> QED BY <1>1, <1>4

\* Disjoint blocks that end at the same address are the same block.
LEMMA EndInjective ==
  ASSUME NEW h, WF(h), NEW p \in Blocks(h), NEW q \in Blocks(h),
         End(h, p) = End(h, q)
  PROVE  p = q
BY DEF WF, Typed, Disjoint, Blocks, End

\* Cutting a block in two granular parts of at least 32 bytes keeps the tiling.
LEMMA SplitWF ==
  ASSUME NEW h, WF(h), NEW p \in Blocks(h), NEW n \in Nat,
         n >= 32, n % 16 = 0, h.size[p] - n >= 32
  PROVE  WF(Split(h, p, n))
<1> DEFINE g == Split(h, p, n)
<1>1. /\ Blocks(g) = Blocks(h) \cup {p + n}
      /\ g.size[p] = n
      /\ g.size[p + n] = h.size[p] - n
      /\ \A q \in Blocks(h) \ {p} : q # p + n /\ g.size[q] = h.size[q]
      /\ g.used = h.used /\ g.brk = h.brk /\ g.TOH = h.TOH
  BY DEF Split, Heap, WF, Typed, Disjoint, Blocks, End
<1>2. Typed(g)
  BY <1>1 DEF WF, Typed, Blocks
<1>3. Gapless(g)
  BY <1>1 DEF WF, Typed, Gapless, Blocks, End
<1>4. Disjoint(g)
  BY <1>1 DEF WF, Typed, Disjoint, Blocks, End
<1> QED BY <1>2, <1>3, <1>4 DEF WF

\* What a merge of two adjacent blocks leaves of the heap.
LEMMA JoinFacts ==
  ASSUME NEW h, WF(h), NEW p \in FreeBlocks(h), End(h, p) \in FreeBlocks(h),
         NEW g, g = Join(h, p), NEW n, n = End(h, p)
  PROVE  /\ n # p
         /\ Blocks(g) = Blocks(h) \ {n}
         /\ FreeBlocks(g) = FreeBlocks(h) \ {n}
         /\ g.size[p] = h.size[p] + h.size[n] /\ End(g, p) = End(h, n)
         /\ \A q \in Blocks(g) \ {p} : /\ g.size[q] = h.size[q]
                                      /\ End(g, q) = End(h, q)
                                      /\ End(h, q) # n
         /\ g.used = h.used /\ g.brk = h.brk /\ g.TOH = h.TOH
<1>1. /\ n # p
      /\ Blocks(g) = Blocks(h) \ {n}
      /\ g.size[p] = h.size[p] + h.size[n]
      /\ \A q \in Blocks(g) \ {p} : g.size[q] = h.size[q]
      /\ g.used = h.used /\ g.brk = h.brk /\ g.TOH = h.TOH
  BY DEF Join, Heap, WF, Typed, Blocks, End, FreeBlocks
<1>2. \A q \in Blocks(g) \ {p} : End(h, q) # n
  BY <1>1, EndInjective DEF FreeBlocks, Blocks
<1>3. End(g, p) = End(h, n)
  BY <1>1 DEF WF, Typed, End, FreeBlocks, Blocks
<1> QED BY <1>1, <1>2, <1>3 DEF FreeBlocks, Blocks, End

\* A merge of two adjacent blocks keeps the tiling.
LEMMA JoinWF ==
  ASSUME NEW h, WF(h), NEW p \in FreeBlocks(h), End(h, p) \in FreeBlocks(h),
         NEW g, g = Join(h, p)
  PROVE  WF(g)
<1> DEFINE n == End(h, p)
<1>1. /\ n # p
      /\ Blocks(g) = Blocks(h) \ {n}
      /\ g.size[p] = h.size[p] + h.size[n] /\ End(g, p) = End(h, n)
      /\ \A q \in Blocks(g) \ {p} : /\ g.size[q] = h.size[q]
                                   /\ End(g, q) = End(h, q)
                                   /\ End(h, q) # n
      /\ g.used = h.used /\ g.brk = h.brk /\ g.TOH = h.TOH
  BY JoinFacts
<1>2. Typed(g)
  BY <1>1 DEF WF, Typed, Blocks, FreeBlocks
<1>3. Gapless(g)
  <2>1. First \in Blocks(g)
    BY <1>1, PlaceAssumption DEF WF, Typed, Gapless, Blocks, FreeBlocks, End
  <2>2. End(h, n) # n
    BY DEF WF, Typed, Blocks, FreeBlocks, End
  <2>3. ASSUME NEW q \in Blocks(g)
        PROVE  /\ First <= q /\ End(g, q) <= h.brk
               /\ End(g, q) = h.brk \/ End(g, q) \in Blocks(g)
    <3>1. CASE q = p
      BY <1>1, <2>2, <3>1 DEF WF, Gapless, FreeBlocks, Blocks
    <3>2. CASE q # p
      BY <1>1, <3>2 DEF WF, Gapless, FreeBlocks, Blocks
    <3> QED BY <3>1, <3>2
  <2> QED BY <1>1, <2>1, <2>3 DEF Gapless
<1>4. Disjoint(g)
  BY <1>1 DEF WF, Typed, Disjoint, Blocks, End, FreeBlocks
<1> QED BY <1>2, <1>3, <1>4 DEF WF

\* A new block from the old break to the new one keeps the tiling.
LEMMA AddBlockWF ==
  ASSUME NEW h, WF(h), NEW bytes \in Nat, bytes >= 32, bytes % 16 = 0
  PROVE  WF(AddBlock(h, bytes))
<1> DEFINE g == AddBlock(h, bytes)
<1>1. /\ h.brk \notin Blocks(h)
      /\ Blocks(g) = Blocks(h) \cup {h.brk}
      /\ g.size[h.brk] = bytes
      /\ \A q \in Blocks(h) : g.size[q] = h.size[q]
      /\ g.used = h.used /\ g.brk = h.brk + bytes /\ g.TOH = h.TOH
  BY DEF AddBlock, Heap, WF, Typed, Gapless, Blocks, End
<1>2. Typed(g)
  BY <1>1 DEF WF, Typed, Blocks
<1>3. Gapless(g)
  BY <1>1 DEF WF, Typed, Gapless, Blocks, End
<1>4. Disjoint(g)
  BY <1>1 DEF WF, Typed, Gapless, Disjoint, Blocks, End
<1> QED BY <1>2, <1>3, <1>4 DEF WF

\* The first merge of coalesce: with the next block, when it is free.
LEMMA JoinNextFacts ==
  ASSUME NEW h, WF(h), NEW p \in FreeBlocks(h), UnmergedBut(h, p),
         NEW g, g = JoinNext(h, p), NEW n, n = End(h, p)
  PROVE  /\ WF(g)
         /\ FreeBlocks(g) = FreeBlocks(h) \ {n} /\ Blocks(g) \subseteq Blocks(h)
         /\ p \in FreeBlocks(g) /\ End(g, p) \notin FreeBlocks(h)
         /\ h.brk = n => h.brk = End(g, p)
         /\ n \in FreeBlocks(h) => End(g, p) = End(h, n)
         /\ End(g, p) >= n /\ End(g, p) > p
         /\ \A q \in Blocks(g) \ {p} : /\ g.size[q] = h.size[q]
                                      /\ End(g, q) = End(h, q)
         /\ g.used = h.used /\ g.brk = h.brk /\ g.TOH = h.TOH
<1>1. CASE n \in FreeBlocks(h)
  <2>1. g = Join(h, p)
    BY <1>1 DEF JoinNext
  <2>2. n \in Nat /\ n > p /\ End(h, n) > n /\ n # h.brk /\ p \in Nat /\ End(h, n) \in Nat
    BY <1>1 DEF WF, Typed, Gapless, Blocks, FreeBlocks, End
  <2>3. End(h, n) \notin FreeBlocks(h)
    BY <1>1, <2>2 DEF UnmergedBut, WF, Typed, FreeBlocks, Blocks, End
  <2>4. /\ n # p
        /\ Blocks(g) = Blocks(h) \ {n}
        /\ FreeBlocks(g) = FreeBlocks(h) \ {n}
        /\ End(g, p) = End(h, n)
        /\ \A q \in Blocks(g) \ {p} : /\ g.size[q] = h.size[q]
                                     /\ End(g, q) = End(h, q)
        /\ g.used = h.used /\ g.brk = h.brk /\ g.TOH = h.TOH
    BY <1>1, <2>1, JoinFacts
  <2>5. WF(g)
    BY <1>1, <2>1, JoinWF
  <2> QED BY <2>2, <2>3, <2>4, <2>5
<1>2. CASE n \notin FreeBlocks(h)
  <2>1. g = h
    BY <1>2 DEF JoinNext
  <2> QED BY <1>2, <2>1 DEF FreeBlocks, Blocks, WF, Typed, End
<1> QED BY <1>1, <1>2

\* The state after coalesce(h, p), m being the block it returns.
Coalesces(h, p, g, m) ==
  /\ WF(g) /\ Unmerged(g)
  /\ m \in FreeBlocks(g) /\ m <= p
  /\ m = p \/ (m \in FreeBlocks(h) /\ End(h, m) = p)
  /\ h.brk = End(h, p) => End(g, m) = h.brk
  /\ End(h, p) \in FreeBlocks(h) => End(g, m) = End(h, End(h, p))
  /\ h.used = g.used /\ g.brk = h.brk /\ g.TOH = h.TOH
  /\ \A q \in h.used : q \in Blocks(g) /\ g.size[q] = h.size[q]
  /\ \A q \in FreeBlocks(h) :
       q # p /\ q # End(h, p) /\ End(h, q) # p =>
         q \in FreeBlocks(g) /\ g.size[q] = h.size[q]

\* When only p may have free neighbours, coalesce leaves no two free neighbours,
\* and the used blocks as they were.
LEMMA CoalesceFacts ==
  ASSUME NEW h, WF(h), NEW p \in FreeBlocks(h), UnmergedBut(h, p),
         NEW g, g = coalesce(h, p), NEW m, m = Merged(h, p)
  PROVE  Coalesces(h, p, g, m)
<1> DEFINE n == End(h, p)
           f == JoinNext(h, p)
<1>1. /\ WF(f)
      /\ FreeBlocks(f) = FreeBlocks(h) \ {n} /\ Blocks(f) \subseteq Blocks(h)
      /\ p \in FreeBlocks(f) /\ End(f, p) \notin FreeBlocks(h)
      /\ h.brk = n => h.brk = End(f, p)
      /\ n \in FreeBlocks(h) => End(f, p) = End(h, n)
      /\ End(f, p) >= n /\ End(f, p) > p
      /\ \A q \in Blocks(f) \ {p} : f.size[q] = h.size[q] /\ End(f, q) = End(h, q)
      /\ f.used = h.used /\ f.brk = h.brk /\ f.TOH = h.TOH
  BY JoinNextFacts
<1>2. p \in Nat /\ n \in Nat /\ n > p /\ \A q \in Blocks(h) : q \in Nat /\ End(h, q) > q
  BY DEF WF, Typed, FreeBlocks, Blocks, End
<1>3. CASE FreeBefore(h, p) = {}
  <2>1. g = f /\ m = p
    BY <1>3 DEF coalesce, Merged
  <2>2. Unmerged(f)
    BY <1>1, <1>2, <1>3 DEF Unmerged, UnmergedBut, FreeBefore, FreeBlocks, Blocks
  <2>3. \A q \in h.used : q \in Blocks(f) /\ f.size[q] = h.size[q]
    BY <1>1 DEF FreeBlocks, Blocks, WF, Typed
  <2>4. \A q \in FreeBlocks(h) : q # p /\ q # n =>
          q \in FreeBlocks(f) /\ f.size[q] = h.size[q]
    BY <1>1 DEF FreeBlocks, Blocks
  <2> QED BY <1>1, <1>2, <2>1, <2>2, <2>3, <2>4 DEF Coalesces
<1>4. CASE FreeBefore(h, p) # {}
  <2>1. g = Join(f, m) /\ m \in FreeBlocks(h) /\ End(h, m) = p
    BY <1>4 DEF coalesce, Merged, FreeBefore
  <2>2. /\ m \in FreeBlocks(f) /\ End(f, m) = p /\ m # p /\ m < p
        /\ p \in FreeBlocks(f)
    BY <1>1, <1>2, <2>1 DEF FreeBlocks, Blocks
  <2> HIDE DEF f, n
  <2>3. /\ Blocks(g) = Blocks(f) \ {p}
        /\ FreeBlocks(g) = FreeBlocks(f) \ {p}
        /\ End(g, m) = End(f, p)
        /\ \A q \in Blocks(g) \ {m} : /\ g.size[q] = f.size[q]
                                     /\ End(g, q) = End(f, q)
                                     /\ End(f, q) # p
        /\ g.used = f.used /\ g.brk = f.brk /\ g.TOH = f.TOH
    BY <1>1, <2>1, <2>2, JoinFacts
  <2>4. WF(g)
    BY <1>1, <2>1, <2>2, JoinWF
  <2>5. Unmerged(g)
    <3> SUFFICES ASSUME NEW q \in FreeBlocks(g)
                 PROVE  End(g, q) \notin FreeBlocks(g)
      BY DEF Unmerged
    <3>1. CASE q = m
      BY <1>1, <2>3, <3>1
    <3>2. CASE q # m
      <4>1. q \in FreeBlocks(h) /\ q # p /\ End(g, q) = End(h, q) /\ End(h, q) # p
        BY <1>1, <2>3, <3>2 DEF FreeBlocks, Blocks
      <4> QED BY <1>1, <2>3, <4>1 DEF UnmergedBut
    <3> QED BY <3>1, <3>2
  <2>6. \A q \in h.used : q \in Blocks(g) /\ g.size[q] = h.size[q]
    BY <1>1, <2>2, <2>3 DEF FreeBlocks, Blocks, WF, Typed
  <2>7. \A q \in FreeBlocks(h) : q # p /\ q # n /\ End(h, q) # p =>
          q \in FreeBlocks(g) /\ g.size[q] = h.size[q]
    BY <1>1, <2>1, <2>2, <2>3 DEF FreeBlocks, Blocks
  <2>8. m \in FreeBlocks(g) /\ m <= p
    BY <1>2, <2>1, <2>2, <2>3 DEF FreeBlocks, Blocks
  <2>9. /\ h.brk = n => End(g, m) = h.brk
        /\ n \in FreeBlocks(h) => End(g, m) = End(h, n)
    BY <1>1, <2>3
  <2> QED BY <1>1, <2>1, <2>3, <2>4, <2>5, <2>6, <2>7, <2>8, <2>9 DEF Coalesces, n
<1> QED BY <1>3, <1>4

Good(h) == WF(h) /\ Unmerged(h) /\ TopOK(h) /\ h.brk <= Limit

\* h and g agree on the allocated blocks in U.
Keeps(h, g, U) == \A q \in U : q \in Blocks(g) /\ g.size[q] = h.size[q]

\* free of a used block keeps the heap good and the other used blocks as they were.
LEMMA FreeGood ==
  ASSUME NEW h, Good(h), NEW p \in h.used, NEW g, g = free(h, p)
  PROVE  Good(g) /\ g.used = h.used \ {p} /\ Keeps(h, g, g.used)
<1> DEFINE r == Release(h, p)
           c == coalesce(r, p)
           m == Merged(r, p)
<1>1. /\ Blocks(r) = Blocks(h) /\ r.size = h.size /\ r.used = h.used \ {p}
      /\ r.brk = h.brk /\ r.TOH = h.TOH
      /\ \A q : End(r, q) = End(h, q)
      /\ p \in Blocks(h) /\ p \notin FreeBlocks(h)
      /\ FreeBlocks(r) = FreeBlocks(h) \cup {p}
  BY DEF Good, WF, Typed, Release, Heap, Blocks, FreeBlocks, End
<1>2. WF(r)
  BY <1>1 DEF Good, WF, Typed, Gapless, Disjoint
<1>3. UnmergedBut(r, p)
  BY <1>1 DEF UnmergedBut, Good, Unmerged
<1>4. Coalesces(r, p, c, m)
  BY <1>1, <1>2, <1>3, CoalesceFacts
<1> HIDE DEF c, m, r
<1>5. CASE End(h, p) = h.TOH /\ h.TOH # h.brk
  <2>1. g = SetTOH(c, m)
    BY <1>5 DEF free, c, m, r
  <2>2. /\ Blocks(g) = Blocks(c) /\ g.size = c.size /\ g.used = c.used
        /\ g.brk = c.brk /\ g.TOH = m
        /\ \A q : End(g, q) = End(c, q)
        /\ FreeBlocks(g) = FreeBlocks(c)
    BY <2>1 DEF SetTOH, Heap, Blocks, FreeBlocks, End
  <2>3. m \in FreeBlocks(c) /\ m \in Nat /\ WF(c) /\ Unmerged(c)
    BY <1>4 DEF Coalesces, WF, Typed, FreeBlocks, Blocks
  <2>4. WF(g)
    BY <2>2, <2>3 DEF WF, Typed, Gapless, Disjoint
  <2>5. Unmerged(g)
    BY <2>2, <2>3 DEF Unmerged
  <2>6. End(c, m) = h.brk
    BY <1>1, <1>4, <1>5 DEF Coalesces, Good, TopOK
  <2> QED BY <1>1, <1>4, <2>2, <2>3, <2>4, <2>5, <2>6
          DEF Good, TopOK, Coalesces, Keeps
<1>6. CASE ~(End(h, p) = h.TOH /\ h.TOH # h.brk)
  <2>1. g = c
    BY <1>6 DEF free, c, r
  <2>2. TopOK(c)
    <3>1. CASE h.TOH = h.brk
      BY <1>1, <1>4, <3>1 DEF Coalesces, TopOK
    <3>2. CASE h.TOH # h.brk
      <4>1. /\ h.TOH \in FreeBlocks(r) /\ h.TOH # p /\ h.TOH # End(r, p)
            /\ End(r, h.TOH) = h.brk /\ h.brk # p
        BY <1>1, <1>6, <3>2 DEF Good, TopOK, WF, Typed, Gapless, Blocks, End
      <4> QED BY <1>1, <1>4, <4>1 DEF Coalesces, TopOK, End
    <3> QED BY <3>1, <3>2
  <2> QED BY <1>1, <1>4, <2>1, <2>2 DEF Good, Coalesces, Keeps
<1> QED BY <1>5, <1>6

\* place in a free block that is large enough keeps the heap good.
LEMMA MallocAtGood ==
  ASSUME NEW h, Good(h), NEW p \in FreeBlocks(h),
         NEW n \in Nat, n >= 32, n % 16 = 0, h.size[p] > n,
         NEW g, g = MallocAt(h, p, n)
  PROVE  /\ Good(g) /\ g.used = h.used \cup {p} /\ g.brk = h.brk
         /\ Keeps(h, g, h.used) /\ p \in Blocks(g) /\ g.size[p] >= n
<1> DEFINE f == place(h, p, n)
<1>1. /\ p \in Nat /\ p \in Blocks(h) /\ h.size[p] \in Nat /\ p \notin h.used
      /\ h.used \subseteq Blocks(h)
      /\ WF(h) /\ Unmerged(h) /\ TopOK(h) /\ h.brk <= Limit
  BY DEF Good, WF, Typed, FreeBlocks, Blocks
<1>2. CASE Whole(h, p, n)
  <2>1. /\ Blocks(g) = Blocks(h) /\ g.size = h.size /\ g.used = h.used \cup {p}
        /\ g.brk = h.brk /\ g.TOH = IF p = h.TOH THEN p + h.size[p] ELSE h.TOH
        /\ FreeBlocks(g) = FreeBlocks(h) \ {p}
        /\ \A q : End(g, q) = End(h, q)
    BY <1>2 DEF MallocAt, place, Allocated, SetTOH, Use, Heap, Blocks, FreeBlocks, End
  <2>2. WF(g)
    BY <1>1, <2>1 DEF WF, Typed, Gapless, Disjoint
  <2>3. Unmerged(g)
    BY <1>1, <2>1 DEF Unmerged
  <2>4. TopOK(g)
    BY <1>1, <2>1 DEF TopOK, End, FreeBlocks, WF, Typed, Gapless
  <2> QED BY <1>1, <2>1, <2>2, <2>3, <2>4 DEF Good, Keeps
<1>3. CASE ~Whole(h, p, n)
  <2> DEFINE s == Split(h, p, n)
  <2>1. h.size[p] - n >= 32
    BY <1>1, <1>3 DEF Whole
  <2>2. WF(s)
    BY <1>1, <2>1, SplitWF
  <2>3. /\ Blocks(s) = Blocks(h) \cup {p + n} /\ p + n \notin Blocks(h)
        /\ s.size[p] = n /\ s.size[p + n] = h.size[p] - n
        /\ \A q \in Blocks(h) \ {p} : s.size[q] = h.size[q]
        /\ s.used = h.used /\ s.brk = h.brk /\ s.TOH = h.TOH
    BY <1>1, <2>1 DEF Split, Heap, WF, Typed, Disjoint, Blocks, End
  <2> HIDE DEF s
  <2>4. /\ Blocks(g) = Blocks(s) /\ g.size = s.size /\ g.used = h.used \cup {p}
        /\ g.brk = h.brk /\ g.TOH = IF p = h.TOH THEN p + n ELSE h.TOH
        /\ \A q : End(g, q) = End(s, q)
    BY <1>3, <2>3
    DEF MallocAt, place, Allocated, SetTOH, Use, Heap, Blocks, End, s
  <2>5. FreeBlocks(g) = (FreeBlocks(h) \ {p}) \cup {p + n}
    BY <1>1, <2>3, <2>4 DEF FreeBlocks, Blocks
  <2>6. End(g, p + n) = End(h, p) /\ \A q \in Blocks(h) \ {p} : End(g, q) = End(h, q)
    BY <1>1, <2>3, <2>4 DEF End
  <2>7. WF(g)
    BY <1>1, <2>2, <2>3, <2>4 DEF WF, Typed, Gapless, Disjoint
  <2>8. Unmerged(g)
    <3> SUFFICES ASSUME NEW q \in FreeBlocks(g)
                 PROVE  End(g, q) \notin FreeBlocks(g)
      BY DEF Unmerged
    <3>1. CASE q = p + n
      <4>1. End(h, p) \notin FreeBlocks(h) /\ End(h, p) # p + n
        BY <1>1, <2>1 DEF Unmerged, End
      <4> QED BY <2>5, <2>6, <3>1, <4>1
    <3>2. CASE q # p + n
      <4>1. q \in FreeBlocks(h) /\ q \in Blocks(h) \ {p} /\ End(g, q) = End(h, q)
        BY <2>5, <2>6, <3>2 DEF FreeBlocks, Blocks
      <4>2. End(h, q) # p + n
        BY <1>1, <2>1, <4>1 DEF WF, Typed, Disjoint, Gapless, End, Blocks
      <4> QED BY <1>1, <2>5, <4>1, <4>2 DEF Unmerged
    <3> QED BY <3>1, <3>2
  <2>9. TopOK(g)
    <3>1. h.brk \notin Blocks(h)
      BY <1>1 DEF WF, Typed, Gapless, Blocks, End
    <3>2. CASE p = h.TOH
      <4>1. End(h, p) = h.brk
        BY <1>1, <3>1, <3>2 DEF TopOK
      <4> QED BY <2>4, <2>3, <2>5, <2>6, <3>2, <4>1 DEF TopOK
    <3>3. CASE p # h.TOH
      BY <1>1, <2>3, <2>4, <2>5, <2>6, <3>3 DEF TopOK, FreeBlocks, Blocks
    <3> QED BY <3>2, <3>3
  <2>10. Keeps(h, g, h.used)
    BY <1>1, <2>3, <2>4 DEF Keeps
  <2>11. p \in Blocks(g) /\ g.size[p] >= n /\ g.brk = h.brk
    BY <1>1, <2>3, <2>4
  <2> QED BY <1>1, <2>4, <2>7, <2>8, <2>9, <2>10, <2>11 DEF Good
<1> QED BY <1>2, <1>3

\* What the allocator asks of mem_sbrk is granular and holds a block.
LEMMA GrowthsBound ==
  ASSUME NEW more \in Growths
  PROVE  more \in Nat /\ more % 16 = 0 /\ (more # 0 => more >= 32)
<1>1. PICK k \in 0 .. Limit \div Page : more = k * Page
  BY DEF Growths
<1>2. k \in Nat
  OBVIOUS
<1>3. PICK m \in Nat : Page = 16 * m
  <2>1. Page = 16 * (Page \div 16) /\ Page \div 16 \in Nat
    BY PageAssumption
  <2> QED BY <2>1
<1>4. k * Page = 16 * (k * m) /\ k * m \in Nat
  BY <1>2, <1>3
<1>5. more \in Nat /\ more % 16 = 0
  BY <1>1, <1>4
<1>6. k # 0 => k * Page >= Page
  BY <1>2, PageAssumption
<1> QED BY <1>1, <1>5, <1>6, PageAssumption

\* New pages, merged with a free last block, keep the heap good.
LEMMA ExtendGood ==
  ASSUME NEW h, Good(h), ~Stranded(h), NEW more \in Nat, more % 16 = 0, more >= 32,
         h.brk + more <= Limit, NEW g, g = Extend(h, more)
  PROVE  /\ Good(g) /\ g.used = h.used /\ g.brk = h.brk + more /\ g.TOH = h.TOH
         /\ Keeps(h, g, h.used)
         /\ g.TOH \in FreeBlocks(g) /\ End(g, g.TOH) = g.brk
<1> DEFINE f == AddBlock(h, more)
           p == h.brk
           c == coalesce(f, p)
           m == Merged(f, p)
<1>1. /\ p \notin Blocks(h) /\ p \in Nat /\ p + more # p
      /\ Blocks(f) = Blocks(h) \cup {p}
      /\ f.size[p] = more
      /\ \A q \in Blocks(h) : f.size[q] = h.size[q]
      /\ f.used = h.used /\ f.brk = p + more /\ f.TOH = h.TOH
  BY DEF AddBlock, Heap, Good, WF, Typed, Gapless, Blocks, End
<1>2. WF(f)
  BY AddBlockWF DEF Good
<1>3. /\ FreeBlocks(f) = FreeBlocks(h) \cup {p} /\ End(f, p) = f.brk
      /\ \A q \in Blocks(h) : End(f, q) = End(h, q)
  BY <1>1 DEF FreeBlocks, Blocks, End, Good, WF, Typed
<1>4. f.brk \notin Blocks(f)
  BY <1>2 DEF WF, Typed, Gapless, End, Blocks
<1>5. UnmergedBut(f, p)
  BY <1>1, <1>3, <1>4 DEF UnmergedBut, Good, Unmerged, FreeBlocks, Blocks
<1>6. Coalesces(f, p, c, m)
  BY <1>2, <1>3, <1>5, CoalesceFacts
<1>7. m = h.TOH
  <2>1. CASE h.TOH = h.brk
    <3>1. FreeBefore(f, p) = {}
      BY <1>1, <1>3, <2>1 DEF FreeBefore, Stranded, FreeBlocks, Blocks
    <3> QED BY <2>1, <3>1 DEF Merged
  <2>2. CASE h.TOH # h.brk
    <3>1. h.TOH \in FreeBlocks(f) /\ End(f, h.TOH) = p
      BY <1>1, <1>3, <2>2 DEF Good, TopOK, FreeBlocks, Blocks
    <3>2. m \in FreeBlocks(f) /\ End(f, m) = p
      BY <3>1 DEF Merged, FreeBefore
    <3> QED BY <1>2, <3>1, <3>2, EndInjective DEF FreeBlocks, Blocks
  <2> QED BY <2>1, <2>2
<1> HIDE DEF c, m, f
<1>8. /\ Blocks(g) = Blocks(c) /\ g.size = c.size /\ g.used = c.used
      /\ g.brk = c.brk /\ g.TOH = m
      /\ \A q : End(g, q) = End(c, q)
      /\ FreeBlocks(g) = FreeBlocks(c)
  BY DEF Extend, SetTOH, Heap, Blocks, FreeBlocks, End, c, m, f
<1>9. m \in FreeBlocks(c) /\ m \in Nat /\ WF(c) /\ Unmerged(c) /\ End(c, m) = c.brk
  BY <1>3, <1>6 DEF Coalesces, WF, Typed, FreeBlocks, Blocks
<1>10. WF(g)
  BY <1>8, <1>9 DEF WF, Typed, Gapless, Disjoint
<1>11. Unmerged(g)
  BY <1>8, <1>9 DEF Unmerged
<1>12. /\ g.used = h.used /\ g.brk = h.brk + more /\ Keeps(f, g, h.used)
  BY <1>1, <1>6, <1>8 DEF Coalesces, Keeps
<1>13. Keeps(h, g, h.used)
  BY <1>1, <1>12 DEF Keeps, Good, WF, Typed
<1> QED BY <1>7, <1>8, <1>9, <1>10, <1>11, <1>12, <1>13 DEF Good, TopOK

\* malloc uses one new block, of at least the size asked for, and keeps the others.
LEMMA MallocGood ==
  ASSUME NEW h, Good(h), NEW n \in Nat, n >= 32, n % 16 = 0, NEW r \in Mallocs(h, n)
  PROVE  /\ Good(r.h) /\ r.h.used = h.used \cup {r.p} /\ r.p \notin h.used
         /\ Keeps(h, r.h, h.used) /\ r.p \in Blocks(r.h) /\ r.h.size[r.p] >= n
<1>1. CASE \E p \in FreeBlocks(h) : h.size[p] > n /\ r = [h |-> MallocAt(h, p, n), p |-> p]
  <2>1. PICK p \in FreeBlocks(h) : /\ h.size[p] > n
                                   /\ r.h = MallocAt(h, p, n) /\ r.p = p
    BY <1>1
  <2> QED BY <2>1, MallocAtGood DEF FreeBlocks
<1>2. CASE \E more \in Growths :
             /\ ~Stranded(h) /\ h.brk + more <= Limit /\ h.TOH + n < h.brk + more
             /\ h.TOH + n >= h.brk + more - Page
             /\ NoFit(h, n)
             /\ r = [h |-> MallocAt(Extend(h, more), h.TOH, n), p |-> h.TOH]
  <2>1. PICK more \in Growths :
          /\ ~Stranded(h) /\ h.brk + more <= Limit /\ h.TOH + n < h.brk + more
          /\ NoFit(h, n)
          /\ r.h = MallocAt(Extend(h, more), h.TOH, n) /\ r.p = h.TOH
    BY <1>2
  <2>2. h.TOH + n >= h.brk
    <3>1. CASE h.TOH = h.brk
      BY <3>1 DEF Good, WF, Typed
    <3>2. CASE h.TOH # h.brk
      BY <2>1, <3>2 DEF Good, TopOK, NoFit, WF, Typed, End, FreeBlocks, Blocks
    <3> QED BY <3>1, <3>2
  <2>3. more \in Nat /\ more % 16 = 0 /\ more >= 32
    BY <2>1, <2>2, GrowthsBound DEF Good, WF, Typed
  <2> DEFINE g == Extend(h, more)
  <2>4. /\ Good(g) /\ g.used = h.used /\ g.brk = h.brk + more /\ g.TOH = h.TOH
        /\ Keeps(h, g, h.used)
        /\ g.TOH \in FreeBlocks(g) /\ End(g, g.TOH) = g.brk
    BY <2>1, <2>3, ExtendGood
  <2> HIDE DEF g
  <2>5. g.size[h.TOH] > n /\ h.TOH \in FreeBlocks(g)
    BY <2>1, <2>3, <2>4 DEF End, Good, WF, Typed, FreeBlocks, Blocks
  <2>6. r.h = MallocAt(g, h.TOH, n)
    BY <2>1 DEF g
  <2>7. /\ Good(r.h) /\ r.h.used = g.used \cup {h.TOH}
        /\ Keeps(g, r.h, g.used) /\ h.TOH \in Blocks(r.h) /\ r.h.size[h.TOH] >= n
    BY <2>4, <2>5, <2>6, MallocAtGood
  <2> QED BY <2>1, <2>4, <2>5, <2>7 DEF Keeps, FreeBlocks
<1> QED BY <1>1, <1>2 DEF Mallocs

\* realloc to less, the rest freed, keeps the heap good and the other used blocks.
LEMMA ShrinkGood ==
  ASSUME NEW h, Good(h), NEW p \in h.used, NEW n \in Nat, n >= 32, n % 16 = 0,
         h.size[p] - n > 32, NEW g, g = Shrink(h, p, n)
  PROVE  /\ Good(g) /\ g.used = h.used /\ Keeps(h, g, h.used \ {p})
         /\ p \in Blocks(g) /\ g.size[p] = n
<1> DEFINE s == Split(h, p, n)
           u == Use(s, p + n)
<1>1. /\ p \in Nat /\ p \in Blocks(h) /\ h.size[p] \in Nat
      /\ h.used \subseteq Blocks(h)
      /\ WF(h) /\ Unmerged(h) /\ TopOK(h) /\ h.brk <= Limit
  BY DEF Good, WF, Typed
<1>2. WF(s)
  BY <1>1, SplitWF
<1>3. /\ Blocks(s) = Blocks(h) \cup {p + n} /\ p + n \notin Blocks(h)
      /\ s.size[p] = n /\ s.size[p + n] = h.size[p] - n
      /\ \A q \in Blocks(h) \ {p} : s.size[q] = h.size[q]
      /\ s.used = h.used /\ s.brk = h.brk /\ s.TOH = h.TOH
  BY <1>1 DEF Split, Heap, WF, Typed, Disjoint, Blocks, End
<1> HIDE DEF s
<1>4. /\ Blocks(u) = Blocks(s) /\ u.size = s.size /\ u.used = h.used \cup {p + n}
      /\ u.brk = h.brk /\ u.TOH = h.TOH
      /\ \A q : End(u, q) = End(s, q)
  BY <1>3 DEF Use, Heap, Blocks, End
<1> HIDE DEF u
<1>5. FreeBlocks(u) = FreeBlocks(h)
  BY <1>1, <1>3, <1>4 DEF FreeBlocks, Blocks
<1>6. \A q \in FreeBlocks(h) : End(u, q) = End(h, q)
  BY <1>3, <1>4 DEF End, FreeBlocks, Blocks
<1>7. WF(u)
  BY <1>2, <1>3, <1>4 DEF WF, Typed, Gapless, Disjoint
<1>8. Unmerged(u) /\ TopOK(u)
  BY <1>1, <1>4, <1>5, <1>6 DEF Unmerged, TopOK
<1>9. Good(u)
  BY <1>1, <1>4, <1>7, <1>8 DEF Good
<1>10. g = free(u, p + n)
  BY DEF Shrink, u, s
<1>11. Good(g) /\ g.used = u.used \ {p + n} /\ Keeps(u, g, g.used)
  BY <1>4, <1>9, <1>10, FreeGood
<1>12. g.used = h.used
  BY <1>1, <1>3, <1>4, <1>11
<1> QED BY <1>1, <1>3, <1>4, <1>11, <1>12 DEF Keeps

(***************************************************************************)
(* The inductive invariant.                                                *)
(***************************************************************************)
IInv == Good(heap) /\ Exact

\* The first heap satisfies the invariant.
LEMMA InitIInv == Init => IInv
<1> SUFFICES ASSUME Init PROVE IInv
  OBVIOUS
<1>1. /\ Blocks(heap) = {First} /\ heap.size[First] = InitPage /\ heap.used = {}
      /\ heap.brk = First + InitPage /\ heap.TOH = First /\ DOMAIN req = {}
  BY DEF Init, InitHeap, Heap, NoReqs, Blocks
<1>2. WF(heap)
  BY <1>1, PlaceAssumption, PageAssumption
  DEF WF, Typed, Gapless, Disjoint, Blocks, End
<1>3. Unmerged(heap) /\ TopOK(heap) /\ heap.brk <= Limit
  BY <1>1, PlaceAssumption, PageAssumption
  DEF Unmerged, TopOK, FreeBlocks, Blocks, End
<1> QED BY <1>1, <1>2, <1>3 DEF IInv, Good, Exact

\* A step that gives p, of at least BlockSize(n) bytes, to a client that held g.
LEMMA HoldExact ==
  ASSUME NEW f, NEW p, NEW n \in Requests, NEW h,
         h.used = DOMAIN f \cup {p}, h.size[p] >= BlockSize(n),
         h.size[p] \in Nat,
         \A q \in DOMAIN f : q # p => f[q] \in Nat \ {0} /\ f[q] + 16 <= h.size[q],
         NEW g, g = Hold(f, p, n)
  PROVE  /\ DOMAIN g = h.used
         /\ \A q \in DOMAIN g : g[q] \in Nat \ {0} /\ g[q] + 16 <= h.size[q]
BY BlockSizeBound DEF Hold

\* Every call preserves the invariant: one step for each call.
LEMMA NextIInv == IInv /\ [Next]_vars => IInv'
<1> SUFFICES ASSUME IInv, [Next]_vars PROVE IInv'
  OBVIOUS
<1> USE DEF IInv
<1>0. \A p \in heap.used : heap.size[p] \in Nat
  BY DEF Good, WF, Typed
<1>1. ASSUME NEW n \in Requests, Malloc(n) PROVE IInv'
  <2>1. n \in Nat \ {0}
    BY BlockSizeBound
  <2>2. PICK r \in Mallocs(heap, BlockSize(n)) : heap' = r.h /\ req' = Hold(req, r.p, n)
    BY <1>1 DEF Malloc
  <2>3. /\ Good(r.h) /\ r.h.used = heap.used \cup {r.p} /\ r.p \notin heap.used
        /\ Keeps(heap, r.h, heap.used) /\ r.p \in Blocks(r.h)
        /\ r.h.size[r.p] >= BlockSize(n)
    BY <2>1, BlockSizeBound, MallocGood
  <2>4. r.h.size[r.p] \in Nat
    BY <2>3 DEF Good, WF, Typed
  <2>5. Exact'
    <3>1. /\ r.h.used = DOMAIN req \cup {r.p}
          /\ \A q \in DOMAIN req : req[q] \in Nat \ {0} /\ req[q] + 16 <= r.h.size[q]
      BY <2>3 DEF Exact, Keeps
    <3>2. /\ DOMAIN req' = r.h.used
          /\ \A q \in DOMAIN req' : req'[q] \in Nat \ {0} /\ req'[q] + 16 <= r.h.size[q]
      <4> DEFINE h == r.h
      <4>1. h.used = DOMAIN req \cup {r.p} /\ h.size[r.p] >= BlockSize(n) /\ h.size[r.p] \in Nat
        BY <2>3, <2>4, <3>1
      <4> HIDE DEF h
      <4>2. /\ DOMAIN req' = h.used
            /\ \A q \in DOMAIN req' : req'[q] \in Nat \ {0} /\ req'[q] + 16 <= h.size[q]
        BY <2>1, <2>2, <3>1, <4>1, BlockSizeBound DEF h, Hold
      <4> QED BY <4>2 DEF h
    <3> QED BY <2>2, <3>2 DEF Exact
  <2> QED BY <2>2, <2>3, <2>5
<1>2. ASSUME NEW n \in Requests, NEW more \in Growths, Exhaust(n, more) PROVE IInv'
  <2>1. CASE more = 0
    BY <1>2, <2>1 DEF Exhaust, Exact
  <2>2. CASE more # 0
    <3>1. more \in Nat /\ more % 16 = 0 /\ more >= 32
      BY <2>2, GrowthsBound
    <3>2. /\ ~Stranded(heap) /\ heap.brk + more <= Limit /\ heap' = Extend(heap, more)
          /\ req' = req
      BY <1>2, <2>2, <3>1 DEF Exhaust
    <3>3. Good(heap') /\ heap'.used = heap.used /\ Keeps(heap, heap', heap.used)
      BY <3>1, <3>2, ExtendGood
    <3> QED BY <3>2, <3>3 DEF Exact, Keeps
  <2> QED BY <2>1, <2>2
<1>3. ASSUME NEW p \in DOMAIN req, Free(p) PROVE IInv'
  <2>1. /\ Good(heap') /\ heap'.used = heap.used \ {p} /\ Keeps(heap, heap', heap'.used)
    BY <1>3, FreeGood DEF Free, Exact
  <2>2. req' = Drop(req, p)
    BY <1>3 DEF Free
  <2> QED BY <2>1, <2>2 DEF Exact, Drop, Keeps
<1>4. ASSUME NEW p \in DOMAIN req, NEW n \in Requests, ReallocInPlace(p, n) PROVE IInv'
  <2>1. n \in Nat \ {0} /\ p \in heap.used
    BY BlockSizeBound DEF Exact
  <2>2. heap' = heap /\ req' = Hold(req, p, n) /\ heap.size[p] - BlockSize(n) \in 0 .. 32
    BY <1>4 DEF ReallocInPlace
  <2>3. heap.size[p] >= BlockSize(n)
    <3>1. BlockSize(n) \in Nat
      BY <2>1, BlockSizeBound
    <3>2. heap.size[p] \in Nat
      BY <1>0, <2>1
    <3> QED BY ONLY <2>2, <3>1, <3>2
  <2>4. Exact'
    BY <1>0, <2>1, <2>2, <2>3, HoldExact DEF Exact
  <2> QED BY <2>2, <2>4
<1>5. ASSUME NEW p \in DOMAIN req, NEW n \in Requests, ReallocShrink(p, n) PROVE IInv'
  <2>1. n \in Nat \ {0} /\ p \in heap.used
    BY BlockSizeBound DEF Exact
  <2>2. /\ heap.size[p] - BlockSize(n) > 32 /\ req' = Hold(req, p, n)
        /\ heap' = Shrink(heap, p, BlockSize(n))
    BY <1>5 DEF ReallocShrink
  <2>3. /\ Good(heap') /\ heap'.used = heap.used /\ Keeps(heap, heap', heap.used \ {p})
        /\ heap'.size[p] = BlockSize(n)
    <3>1. BlockSize(n) \in Nat /\ BlockSize(n) >= 32 /\ BlockSize(n) % 16 = 0
      BY <2>1, BlockSizeBound
    <3> QED BY <2>1, <2>2, <3>1, ShrinkGood
  <2>4. heap'.size[p] \in Nat /\ heap'.size[p] >= BlockSize(n)
    BY <2>1, <2>3, BlockSizeBound
  <2>5. Exact'
    BY <2>1, <2>2, <2>3, <2>4, HoldExact DEF Exact, Keeps
  <2> QED BY <2>3, <2>5
<1>6. ASSUME NEW p \in DOMAIN req, NEW n \in Requests, ReallocMove(p, n) PROVE IInv'
  <2>1. n \in Nat \ {0} /\ p \in heap.used
    BY BlockSizeBound DEF Exact
  <2>2. PICK r \in Mallocs(heap, BlockSize(n)) :
          heap' = free(r.h, p) /\ req' = Hold(Drop(req, p), r.p, n)
    BY <1>6 DEF ReallocMove
  <2>3. /\ Good(r.h) /\ r.h.used = heap.used \cup {r.p} /\ r.p \notin heap.used
        /\ Keeps(heap, r.h, heap.used) /\ r.p \in Blocks(r.h)
        /\ r.h.size[r.p] >= BlockSize(n)
    BY <2>1, BlockSizeBound, MallocGood
  <2>4. Good(heap') /\ heap'.used = r.h.used \ {p} /\ Keeps(r.h, heap', heap'.used)
    BY <2>1, <2>2, <2>3, FreeGood
  <2>5. heap'.used = DOMAIN Drop(req, p) \cup {r.p}
    BY <2>1, <2>3, <2>4 DEF Exact, Drop
  <2>6. heap'.size[r.p] >= BlockSize(n) /\ heap'.size[r.p] \in Nat
    BY <2>3, <2>4, <2>5 DEF Keeps, Good, WF, Typed
  <2>7. Exact'
    <3>1. \A q \in DOMAIN Drop(req, p) :
            /\ Drop(req, p)[q] \in Nat \ {0}
            /\ Drop(req, p)[q] + 16 <= heap'.size[q]
      BY <2>1, <2>3, <2>4 DEF Exact, Keeps, Drop
    <3>2. /\ DOMAIN req' = heap'.used
          /\ \A q \in DOMAIN req' : req'[q] \in Nat \ {0} /\ req'[q] + 16 <= heap'.size[q]
      <4> DEFINE f == Drop(req, p)
      <4> HIDE DEF f
      <4>1. /\ req' = Hold(f, r.p, n) /\ heap'.used = DOMAIN f \cup {r.p}
            /\ \A q \in DOMAIN f : f[q] \in Nat \ {0} /\ f[q] + 16 <= heap'.size[q]
        BY <2>2, <2>5, <3>1 DEF f
      <4> QED BY <2>1, <2>6, <4>1, BlockSizeBound DEF Hold
    <3> QED BY <3>2 DEF Exact
  <2> QED BY <2>4, <2>7
<1>7. CASE Reset
  <2>1. Init'
    BY <1>7 DEF Reset, Init
  <2> QED BY <2>1, InitIInv, PTL
<1>8. CASE UNCHANGED vars
  BY <1>8 DEF vars, Exact
<1> QED BY <1>1, <1>2, <1>3, <1>4, <1>5, <1>6, <1>7, <1>8 DEF Next

\* The invariant holds throughout every sequence of calls.
LEMMA InvarianceIInv == Spec => []IInv
BY InitIInv, NextIInv, PTL DEF Spec

\* Blocks keep their types, whatever the sequence of calls.
THEOREM TypeCorrect == Spec => []TypeOK
<1>1. IInv => TypeOK
  BY DEF IInv, Good, WF, Typed, TypeOK
<1> QED BY <1>1, InvarianceIInv, PTL

\* The blocks tile the heap: the boundary tags of mm.c never lead the walks by
\* next_blk and prev_blk astray.
THEOREM AlwaysTiled == Spec => []Tiled
<1>1. IInv => Tiled
  BY DEF IInv, Good, WF, Tiled
<1> QED BY <1>1, InvarianceIInv, PTL

\* Coalescing on free and on new pages leaves no two free neighbours.
THEOREM AlwaysCoalesced == Spec => []Coalesced
<1>1. IInv => Coalesced
  BY DEF IInv, Good, Unmerged, Coalesced
<1> QED BY <1>1, InvarianceIInv, PTL

\* The client holds exactly the allocated blocks, with room for its requests.
THEOREM AlwaysExact == Spec => []Exact
<1>1. IInv => Exact
  BY DEF IInv
<1> QED BY <1>1, InvarianceIInv, PTL

\* TOH is the break or the last block, when that one is free.
THEOREM AlwaysTop == Spec => []Top
<1>1. IInv => Top
  BY DEF IInv, Good, Top
<1> QED BY <1>1, InvarianceIInv, PTL

(***************************************************************************)
(* The contract.                                                           *)
(***************************************************************************)
\* Every held payload is aligned, inside the heap and apart from the others.
LEMMA PayloadsApart ==
  ASSUME IInv, NEW p \in DOMAIN req
  PROVE  /\ p \in Nat /\ p % 16 = 0 /\ req[p] \in Nat \ {0}
         /\ First <= p /\ p + req[p] <= Limit
         /\ \A q \in DOMAIN req : q # p => Contract!Apart(p, req[p], q, req[q])
<1>1. p \in Blocks(heap) /\ DOMAIN req \subseteq Blocks(heap)
  BY DEF IInv, Exact, Good, WF, Typed
<1>2. /\ p \in Nat /\ p % 16 = 0 /\ req[p] \in Nat \ {0} /\ First <= p
      /\ p + req[p] <= End(heap, p) /\ End(heap, p) <= Limit
  BY <1>1, PlaceAssumption DEF IInv, Exact, Good, WF, Typed, Gapless, Blocks, End
<1>3. ASSUME NEW q \in DOMAIN req, q # p
      PROVE  Contract!Apart(p, req[p], q, req[q])
  <2>1. q \in Nat /\ (p < q \/ q < p)
    BY <1>1, <1>2, <1>3 DEF IInv, Good, WF, Typed
  <2> QED BY <1>1, <1>2, <1>3, <2>1
          DEF IInv, Exact, Good, WF, Typed, Disjoint, End, Contract!Apart
<1>4. p + req[p] <= Limit
  BY <1>1, <1>2, PlaceAssumption DEF IInv, Good, WF, Typed, End
<1> QED BY <1>2, <1>3, <1>4

AllApart ==
  \A p \in DOMAIN req :
    /\ p \in Nat /\ p % 16 = 0 /\ req[p] \in Nat \ {0}
    /\ First <= p /\ p + req[p] <= Limit
    /\ \A q \in DOMAIN req : q # p => Contract!Apart(p, req[p], q, req[q])

\* The invariant keeps the payloads of the client apart.
LEMMA IInvApart == IInv => AllApart
BY PayloadsApart DEF AllApart

\* Every call of the block level is a call of the contract, or changes nothing it sees.
LEMMA ContractStep == IInv /\ IInv' /\ [Next]_vars => [Contract!Next]_req
<1> SUFFICES ASSUME IInv, IInv', [Next]_vars PROVE [Contract!Next]_req
  OBVIOUS
<1>0. AllApart'
  BY IInvApart, PTL
<1>1. ASSUME NEW n \in Requests, Malloc(n) PROVE Contract!Next
  <2>1. n \in Nat \ {0}
    BY BlockSizeBound
  <2>2. PICK r \in Mallocs(heap, BlockSize(n)) : heap' = r.h /\ req' = Hold(req, r.p, n)
    BY <1>1 DEF Malloc
  <2>3. r.p \notin DOMAIN req
    BY <2>1, BlockSizeBound, MallocGood DEF IInv, Exact
  <2>4. /\ r.p \in DOMAIN req' /\ req'[r.p] = n
        /\ \A q \in DOMAIN req : q \in DOMAIN req' /\ req'[q] = req[q]
    BY <2>2, <2>3 DEF Hold
  <2>5. Contract!Fresh(req, r.p, req'[r.p])
    BY <1>0, <2>3, <2>4 DEF AllApart, Contract!Fresh
  <2>6. req' = Contract!With(req, r.p, req'[r.p])
    BY <2>2, <2>4 DEF Hold, Contract!With
  <2> QED BY <2>4, <2>5, <2>6 DEF Contract!Next, Contract!Malloc
<1>2. ASSUME NEW n \in Requests, NEW more \in Growths, Exhaust(n, more)
      PROVE UNCHANGED req
  BY <1>2 DEF Exhaust
<1>3. ASSUME NEW p \in DOMAIN req, Free(p) PROVE Contract!Next
  BY <1>3 DEF Free, Drop, Contract!Next, Contract!Free, Contract!Without
<1>4. ASSUME NEW p \in DOMAIN req, NEW n, NEW q,
             q \notin DOMAIN req \ {p}, req' = Hold(Drop(req, p), q, n)
      PROVE  Contract!Next
  <2> DEFINE f == Contract!Without(req, p)
  <2>1. /\ f = Drop(req, p) /\ q \notin DOMAIN f
        /\ req' = Hold(f, q, n) /\ q \in DOMAIN req' /\ req'[q] = n
    BY <1>4 DEF Hold, Drop, Contract!Without
  <2> HIDE DEF f
  <2>2. \A x \in DOMAIN f : x # q /\ x \in DOMAIN req' /\ req'[x] = f[x]
    BY <2>1 DEF Hold
  <2>3. Contract!Fresh(f, q, req'[q])
    BY <1>0, <2>1, <2>2 DEF AllApart, Contract!Fresh
  <2>4. req' = Contract!With(f, q, req'[q])
    BY <2>1 DEF Hold, Contract!With
  <2> QED BY <2>1, <2>3, <2>4 DEF Contract!Next, Contract!Realloc, f
<1>5. ASSUME NEW p \in DOMAIN req, NEW n \in Requests,
             ReallocInPlace(p, n) \/ ReallocShrink(p, n)
      PROVE  Contract!Next
  <2>1. req' = Hold(req, p, n)
    BY <1>5 DEF ReallocInPlace, ReallocShrink
  <2>2. req' = Hold(Drop(req, p), p, n)
    BY <2>1 DEF Hold, Drop
  <2> QED BY <1>4, <2>2
<1>6. ASSUME NEW p \in DOMAIN req, NEW n \in Requests, ReallocMove(p, n)
      PROVE  Contract!Next
  <2>1. n \in Nat \ {0}
    BY BlockSizeBound
  <2>2. PICK r \in Mallocs(heap, BlockSize(n)) : req' = Hold(Drop(req, p), r.p, n)
    BY <1>6 DEF ReallocMove
  <2>3. r.p \notin DOMAIN req
    BY <2>1, BlockSizeBound, MallocGood DEF IInv, Exact
  <2> QED BY <1>4, <2>2, <2>3
<1>7. CASE Reset
  BY <1>7 DEF Reset, NoReqs, Contract!Next, Contract!Reset
<1>8. CASE UNCHANGED vars
  BY <1>8 DEF vars
<1> QED BY <1>1, <1>2, <1>3, <1>5, <1>6, <1>7, <1>8 DEF Next

\* Every pointer that malloc and realloc give out is aligned, in the heap, and
\* apart from every other live one until it is freed: the block level keeps the
\* contract, for a client that makes no stranded heap grow.
THEOREM Implementation == Spec => ImplementsAllocator
<1>1. Init => Contract!Init
  BY DEF Init, NoReqs, Contract!Init
<1> QED BY <1>1, ContractStep, InvarianceIInv, PTL
        DEF Spec, ImplementsAllocator, Contract!Spec
=============================================================================
