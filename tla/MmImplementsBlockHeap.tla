----------------------- MODULE MmImplementsBlockHeap -----------------------
(* The words of Mm, read as the blocks of BlockHeap.  The reading of each  *)
(* state is kept in two history variables.                                 *)
EXTENDS MCMm

\* No request comes near the largest size_t, nor three times a request; and the
\* client's word is not the one a failed mem_sbrk is told by.  Without the one see
\* RoomForRequest, without the other InitFailsOnlyOnError.
ASSUME RoomAssumption == \A n \in Sizes : 6 * n + 64 <= SizeMod
ASSUME FillAssumption == Fill # -1

VARIABLES
  tiling,      \* the heap of BlockHeap that the boundary tags describe
  asked        \* the requests behind the pointers the client holds

ReadHeap(h) ==
  [size |-> [p \in Blks(h) |-> get_size(h, GHA(p))],
   used |-> Blks(h) \ FreeBlks(h),
   brk  |-> h.brk,
   TOH  |-> h.TOH]

ReadRequests(held) ==
  LET holders == {x \in Ids : held[x] # Nothing}
  IN  [p \in {held[x].p : x \in holders} |->
         held[CHOOSE x \in holders : held[x].p = p].size]

ReadInit == Init /\ tiling = ReadHeap(heap) /\ asked = ReadRequests(blocks)
ReadNext == SafeNext /\ tiling' = ReadHeap(heap') /\ asked' = ReadRequests(blocks')
ReadSpec == ReadInit /\ [][ReadNext]_<<vars, tiling, asked>>

Abstract == INSTANCE BlockHeap
  WITH First <- FirstBlk, Limit <- HeapLo + MaxHeap, SizeMod <- SizeMod,
       Requests <- (Sizes \cup {3 * n : n \in Sizes}) \ {0},
       heap <- tiling, req <- asked

\* Every call of mm.c does to the tags and the list what BlockHeap does to the
\* blocks: first fit is one of the fits, the four cases of coalesce are the two
\* merges, and adding pages one by one is adding them at once.
ImplementsBlockHeap == Abstract!Spec
=============================================================================
