------------------------------ MODULE BlockHeap ------------------------------
(***************************************************************************)
(* The allocator of mm.c at the level of its blocks: which blocks tile the *)
(* heap, which of them are allocated, where the break and TOH are, and     *)
(* what the client holds.  Boundary tags and the links of the free list    *)
(* are abstracted: where mm.c takes the first block of the list that fits, *)
(* this specification takes any free block that fits.                      *)
(*                                                                         *)
(* A heap is a record h.  DOMAIN h.size is the set of payload addresses of *)
(* the blocks, h.size[p] the bytes from the header of p to the next one.   *)
(***************************************************************************)
EXTENDS Integers

CONSTANTS
  First,       \* the payload address of the first block
  InitPage,    \* bytes of the page mm_init asks for
  Page,        \* bytes of each page malloc asks for
  Limit,       \* the break cannot pass this address
  SizeMod,     \* a size_t counts modulo this (2^64)
  Requests     \* the sizes the client asks for

ASSUME PlaceAssumption == /\ First \in Nat \ {0} /\ First % 16 = 0
                          /\ Limit \in Nat /\ First + InitPage <= Limit
ASSUME PageAssumption  == /\ InitPage \in Nat /\ InitPage >= 32 /\ InitPage % 16 = 0
                          /\ Page \in Nat /\ Page >= 32 /\ Page % 16 = 0
\* Beyond that realloc takes the size of the block for a negative number (mm.c:269);
\* for the last sizes of all it wraps around (see Mm!RoomForRequest).
ASSUME RequestAssumption == /\ SizeMod \in Nat
                            /\ Requests \subseteq {n \in 1 .. SizeMod : 2 * (n + 32) <= SizeMod}

VARIABLES
  heap,        \* [size, used, brk, TOH]
  req          \* for each pointer the client holds, the size it asked for

vars == <<heap, req>>

Heap(size, used, brk, TOH) ==
  [size |-> size, used |-> used, brk |-> brk, TOH |-> TOH]

Blocks(h)     == DOMAIN h.size
FreeBlocks(h) == DOMAIN h.size \ h.used
End(h, p)     == p + h.size[p]

\* Variants: the alignment of a word; a block without room for its tags.
align_word(x)    == 8 * ((x + 7) \div 8)
BlockSize_bare(n) == 16 * ((n + 15) \div 16)

align(x)     == 16 * (((x + 15) % SizeMod) \div 16)
BlockSize(n) == align((n + 16) % SizeMod)

(***************************************************************************)
(* Cutting a block in two, merging a block with its successor, and what    *)
(* coalesce does to the block p: its successor is merged if it is free,    *)
(* then its predecessor.                                                   *)
(***************************************************************************)
Split(h, p, n) ==
  Heap([b \in Blocks(h) \cup {p + n} |->
          IF b = p THEN n ELSE IF b = p + n THEN h.size[p] - n ELSE h.size[b]],
       h.used, h.brk, h.TOH)

\* Variant: the size of the block merged is lost.
Join_lossy(h, p) ==
  Heap([b \in Blocks(h) \ {End(h, p)} |-> h.size[b]], h.used, h.brk, h.TOH)

Join(h, p) ==
  Heap([b \in Blocks(h) \ {End(h, p)} |->
          IF b = p THEN h.size[p] + h.size[End(h, p)] ELSE h.size[b]],
       h.used, h.brk, h.TOH)

\* Variant: the block after is never merged.
JoinNext_never(h, p) == h

JoinNext(h, p) == IF End(h, p) \in FreeBlocks(h) THEN Join(h, p) ELSE h

FreeBefore(h, p) == {q \in FreeBlocks(h) : End(h, q) = p}

Merged(h, p) == IF FreeBefore(h, p) = {} THEN p
                ELSE CHOOSE q \in FreeBefore(h, p) : TRUE

coalesce(h, p) == IF FreeBefore(h, p) = {} THEN JoinNext(h, p)
                  ELSE Join(JoinNext(h, p), Merged(h, p))

Use(h, p)     == Heap(h.size, h.used \cup {p}, h.brk, h.TOH)
Release(h, p) == Heap(h.size, h.used \ {p}, h.brk, h.TOH)
SetTOH(h, t)  == Heap(h.size, h.used, h.brk, t)

(***************************************************************************)
(* The pages malloc adds at once; the second and later ones only lengthen  *)
(* the free block that the first one left at the top.                      *)
(***************************************************************************)
AddBlock(h, bytes) ==
  Heap([b \in Blocks(h) \cup {h.brk} |-> IF b = h.brk THEN bytes ELSE h.size[b]],
       h.used, h.brk + bytes, h.TOH)

Extend(h, bytes) ==
  LET g == AddBlock(h, bytes)
  IN  SetTOH(coalesce(g, h.brk), Merged(g, h.brk))

Growths == {k * Page : k \in 0 .. Limit \div Page}

(***************************************************************************)
(* place, malloc, free, realloc.                                           *)
(***************************************************************************)
Whole(h, p, n) == h.size[p] - n < 32

\* Variant: the block placed is not marked as allocated.
place_unmarked(h, p, n) == IF Whole(h, p, n) THEN h ELSE Split(h, p, n)

place(h, p, n) == IF Whole(h, p, n) THEN Use(h, p) ELSE Use(Split(h, p, n), p)

Allocated(h, p, n) == IF Whole(h, p, n) THEN h.size[p] ELSE n

MallocAt(h, p, n) ==
  IF p = h.TOH THEN SetTOH(place(h, p, n), p + Allocated(h, p, n))
  ELSE place(h, p, n)

\* Variant: TOH does not follow a merge.
free_keeps_TOH(h, p) == coalesce(Release(h, p), p)

free(h, p) ==
  LET g == Release(h, p)
  IN  IF End(h, p) = h.TOH /\ h.TOH # h.brk
      THEN SetTOH(coalesce(g, p), Merged(g, p))
      ELSE coalesce(g, p)

Shrink(h, p, n) == free(Use(Split(h, p, n), p + n), p + n)

NoFit(h, n) == \A p \in FreeBlocks(h) : h.size[p] <= n

\* The last block is free, but TOH does not name it.
Stranded(h) == h.TOH = h.brk /\ \E p \in FreeBlocks(h) : End(h, p) = h.brk

\* The heaps and addresses that malloc(n) may give, for a client that makes no
\* stranded heap grow.
Mallocs(h, n) ==
  {[h |-> MallocAt(h, p, n), p |-> p] : p \in {q \in FreeBlocks(h) : h.size[q] > n}}
  \cup
  {[h |-> MallocAt(Extend(h, more), h.TOH, n), p |-> h.TOH] :
     more \in {m \in Growths : /\ NoFit(h, n) /\ ~Stranded(h)
                               /\ h.brk + m <= Limit
                               /\ h.TOH + n < h.brk + m
                               /\ h.TOH + n >= h.brk + m - Page}}

Hold(f, p, n) == [q \in DOMAIN f \cup {p} |-> IF q = p THEN n ELSE f[q]]
Drop(f, p)    == [q \in DOMAIN f \ {p} |-> f[q]]

Malloc(n) ==
  \E r \in Mallocs(heap, BlockSize(n)) :
    req' = Hold(req, r.p, n) /\ heap' = r.h

\* No page is left for the request.  The pages that were are kept.
Exhaust(n, more) ==
  /\ UNCHANGED req
  /\ NoFit(heap, BlockSize(n))
  /\ heap.brk + more + Page > Limit
  /\ heap.brk + more <= Limit
  /\ heap.TOH + BlockSize(n) >= heap.brk + more
  /\ more > 0 => ~Stranded(heap)
  /\ heap' = IF more = 0 THEN heap ELSE Extend(heap, more)

Free(p) ==
  /\ req' = Drop(req, p)
  /\ heap' = free(heap, p)

ReallocInPlace(p, n) ==
  /\ heap.size[p] - BlockSize(n) \in 0 .. 32
  /\ req' = Hold(req, p, n)
  /\ UNCHANGED heap

ReallocShrink(p, n) ==
  /\ heap.size[p] - BlockSize(n) > 32
  /\ req' = Hold(req, p, n)
  /\ heap' = Shrink(heap, p, BlockSize(n))

ReallocMove(p, n) ==
  /\ heap.size[p] < BlockSize(n)
  /\ \E r \in Mallocs(heap, BlockSize(n)) :
       req' = Hold(Drop(req, p), r.p, n) /\ heap' = free(r.h, p)

InitHeap == Heap([b \in {First} |-> InitPage], {}, First + InitPage, First)
NoReqs   == [p \in {} |-> 0]

Reset == req' = NoReqs /\ heap' = InitHeap

Init == heap = InitHeap /\ req = NoReqs

Next ==
  \/ \E n \in Requests : Malloc(n)
  \/ \E n \in Requests, more \in Growths : Exhaust(n, more)
  \/ \E p \in DOMAIN req : Free(p)
  \/ \E p \in DOMAIN req, n \in Requests :
       ReallocInPlace(p, n) \/ ReallocShrink(p, n) \/ ReallocMove(p, n)
  \/ Reset

Spec == Init /\ [][Next]_vars

(***************************************************************************)
(* Properties.                                                             *)
(***************************************************************************)
\* The heap's parts have their types: aligned blocks of at least the minimum
\* size, the used ones among them, an aligned break.
TypeOK ==
  /\ \A p \in Blocks(heap) : /\ p \in Nat /\ p % 16 = 0
                             /\ heap.size[p] \in Nat /\ heap.size[p] % 16 = 0
                             /\ heap.size[p] >= 32
  /\ heap.used \subseteq Blocks(heap)
  /\ heap.brk \in Nat /\ heap.brk % 16 = 0
  /\ heap.TOH \in Nat

Gapless(h) ==
  /\ First \in Blocks(h)
  /\ \A p \in Blocks(h) : /\ First <= p /\ End(h, p) <= h.brk
                          /\ End(h, p) = h.brk \/ End(h, p) \in Blocks(h)

Disjoint(h) ==
  \A p, q \in Blocks(h) : p < q => End(h, p) <= q

\* The blocks tile the heap from the first one to the break without gap or
\* overlap, after any splits, merges and pages.
Tiled == Gapless(heap) /\ Disjoint(heap)

\* No free block is followed by a free block (mm.c:17-18).
Coalesced ==
  \A p \in FreeBlocks(heap) : End(heap, p) \notin FreeBlocks(heap)

\* What the client holds is what is allocated, each pointer with room for its
\* request beside the two tags.
Exact ==
  /\ DOMAIN req = heap.used
  /\ \A p \in DOMAIN req : req[p] \in Nat \ {0} /\ req[p] + 16 <= heap.size[p]

TopOK(h) ==
  h.TOH = h.brk \/ (h.TOH \in FreeBlocks(h) /\ End(h, h.TOH) = h.brk)

\* TOH is the break or the last block, which is then free.
Top == TopOK(heap)

Contract == INSTANCE Allocator
  WITH Lo <- First, Hi <- Limit, ALIGNMENT <- 16, live <- req

\* Whatever the sequence of calls, every pointer given out is aligned, in the
\* heap, and apart from every other live one until it is freed.
ImplementsAllocator == Contract!Spec

=============================================================================
