--------------------------------- MODULE Mm ---------------------------------
(***************************************************************************)
(* The allocator of mm.c at the level of the words it reads and writes:    *)
(* boundary tags, the LIFO explicit free list kept in the free blocks, the *)
(* break of memlib.c and the two globals free_root and TOH.                *)
(*                                                                         *)
(* Addresses and sizes are in bytes, as in the source; memory is a         *)
(* function on the addresses of its 8-byte words.  A heap is one record h, *)
(* so that each C function is an operator from a heap to a heap, and each  *)
(* call of the library is one atomic action (the library has one thread).  *)
(***************************************************************************)
EXTENDS Integers, FiniteSets

CONSTANTS
  InitPage,    \* bytes of the page mm_init asks for      (2048 in mm.c)
  Page,        \* bytes of each page malloc asks for      (32768 in mm.c)
  MaxHeap,     \* MAX_HEAP_SIZE, the length of the mapping (2^40 in config.h)
  SizeMod,     \* a size_t, or a pointer, counts modulo this (2^64)
  Ids,         \* the client's allocation ids, as in a trace file
  Sizes,       \* the request sizes the client uses
  Fill,        \* the word the client writes over its payload
  MaxInits     \* bound on the number of times the package is initialised

ASSUME PagesAssumption ==
  /\ InitPage \in Nat /\ InitPage % 16 = 0 /\ InitPage >= 32
  /\ Page \in Nat /\ Page % 16 = 0 /\ Page >= 32
ASSUME HeapAssumption ==
  /\ MaxHeap \in Nat /\ MaxHeap % 16 = 0 /\ MaxHeap >= 32 + InitPage
  /\ SizeMod \in Nat /\ SizeMod % 16 = 0 /\ SizeMod > 2 * (MaxHeap + Page + 16)
ASSUME ClientAssumption ==
  /\ Sizes \subseteq {n \in 0 .. SizeMod - 1 : n % 8 = 0}
  /\ Fill \in Int
  /\ MaxInits \in Nat \ {0}

VARIABLES
  heap,        \* [mem, brk, free_root, TOH, fault]
  blocks,      \* per id, the pointer and the size the client holds
  inits        \* number of initialisations so far

vars == <<heap, blocks, inits>>

NULL  == 0
HeapLo == 16                 \* where mmap put the heap: aligned, not NULL
Words == {a \in HeapLo .. HeapLo + MaxHeap - 8 : a % 8 = 0}

(***************************************************************************)
(* Words, tags and block addresses.                                        *)
(***************************************************************************)
get(h, a) == LET at == a % SizeMod IN IF at \in Words THEN h.mem[at] ELSE 0

\* A store outside the heap proper is a fault: it dies, or destroys memory
\* that is not the allocator's.
put(h, a, v) == LET at == a % SizeMod
                IN  IF at \in Words /\ at < h.brk THEN [h EXCEPT !.mem[at] = v]
                    ELSE [h EXCEPT !.fault = "stray"]

\* The words of w are stored from p on.
store(h, p, w) ==
  LET at(i)    == (p + 8 * i) % SizeMod
      index(a) == ((a - p) % SizeMod) \div 8
      inside   == \A i \in DOMAIN w : at(i) \in Words /\ at(i) < h.brk
  IN  [h EXCEPT !.mem = [a \in Words |-> IF a < h.brk /\ index(a) \in DOMAIN w
                                        THEN w[index(a)] ELSE h.mem[a]],
                !.fault = IF inside THEN h.fault ELSE "stray"]

\* Variant: the alignment of a word.
align_word(x) == 8 * (((x + 7) % SizeMod) \div 8)

align(x) == 16 * (((x + 15) % SizeMod) \div 16)

\* size + header + footer, aligned
BlockSize(size) == align((size + 16) % SizeMod)

\* size | alloc, where the four low bits of size are clear
pack(size, alloc) == size + alloc
get_size(h, a)    == 16 * (get(h, a) \div 16)
get_alloc(h, a)   == get(h, a) % 2

GHA(p)         == p - 8
GFA(h, p)      == p + get_size(h, GHA(p)) - 16
prev_blk(h, p) == p - get_size(h, p - 16)
next_blk(h, p) == p + get_size(h, p - 8)

\* Variant: the header only.
tag_header(h, p, size, alloc) == put(h, GHA(p), pack(size, alloc))

\* put(GHA(p), ...); put(GFA(p), ...): the footer's place follows the header
tag(h, p, size, alloc) ==
  LET g == put(h, GHA(p), pack(size, alloc))
  IN  put(g, GFA(g, p), pack(size, alloc))

\* put(GHA(next_blk(p)), ...); put(GFA(next_blk(p)), ...): what follows p is asked anew
\* of its header, which the first store overwrites when that header's size is 0.
tag_next(h, p, size, alloc) ==
  LET g == put(h, GHA(next_blk(h, p)), pack(size, alloc))
  IN  put(g, GFA(g, next_blk(g, p)), pack(size, alloc))

\* p is cut to block_size bytes, allocated; alloc is the bit of the rest.
Cut(h, p, block_size, alloc) ==
  tag_next(tag(h, p, block_size, 1), p, (get_size(h, GHA(p)) - block_size) % SizeMod, alloc)

(***************************************************************************)
(* Writes to the links of the free list: pred at p, succ at p + 8.         *)
(***************************************************************************)
SetPred(h, p, q) == IF p = NULL THEN h ELSE put(h, p, q)

\* Variant: pred is not updated.
Link_forward(h, p, q) == put(h, p + 8, q)

Link(h, p, q) == SetPred(put(h, p + 8, q), q, p)

\* p begins a list that goes on with q
Begin(h, p, q) == put(put(h, p, NULL), p + 8, q)

Lead(h, p, q) == SetPred(Begin(h, p, q), q, p)

PushFront(h, p) == put(Begin(h, p, h.free_root), h.free_root, p)

pred(h, p) == get(h, p)
succ(h, p) == get(h, p + 8)

(***************************************************************************)
(* coalesce: merge the free block p with its free neighbours, make the     *)
(* result the root of the free list, and return it.                        *)
(***************************************************************************)
CoalesceNone(h, p) ==
  LET g == IF h.free_root # NULL THEN PushFront(h, p) ELSE Begin(h, p, NULL)
  IN  [g EXCEPT !.free_root = p]

CoalesceNext(h, p) ==
  LET n == next_blk(h, p)
      t == tag(h, p, get_size(h, GHA(p)) + get_size(h, GHA(n)), 0)
      g == IF n # h.free_root THEN Link(PushFront(t, p), pred(h, n), succ(h, n))
           ELSE Lead(t, p, succ(h, n))
  IN  [g EXCEPT !.free_root = p]

CoalescePrev(h, p) ==
  LET q    == prev_blk(h, p)
      size == get_size(h, GHA(p)) + get_size(h, GHA(q))
      t    == put(put(h, GFA(h, p), pack(size, 0)), GHA(q), pack(size, 0))
      g    == IF q # h.free_root THEN Link(PushFront(t, q), pred(t, q), succ(t, q)) ELSE t
  IN  [g EXCEPT !.free_root = q]

\* The links when q and n, the free blocks around p, make one block at q; h is
\* the heap found and t has the merged block's tags.
SpliceBoth(h, t, q, n) ==
  CASE q # h.free_root /\ n # h.free_root ->
         LET g == PushFront(t, q)
         IN  CASE succ(t, q) = n -> Link(g, pred(t, q), succ(h, n))
               [] succ(t, q) # n /\ succ(h, n) = q -> Link(g, pred(h, n), succ(t, q))
               [] OTHER -> Link(Link(g, pred(t, q), succ(t, q)), pred(h, n), succ(h, n))
    [] n = h.free_root ->
         IF succ(h, n) = q THEN put(t, q, NULL)
         ELSE Link(Lead(t, q, succ(h, n)), pred(t, q), succ(t, q))
    [] OTHER ->
         IF succ(t, q) = n THEN Lead(t, q, succ(h, n))
         ELSE Link(Lead(t, q, succ(t, q)), pred(h, n), succ(h, n))

CoalesceBoth(h, p) ==
  LET q    == prev_blk(h, p)
      n    == next_blk(h, p)
      size == get_size(h, GHA(p)) + get_size(h, GHA(q)) + get_size(h, GFA(h, n))
      t    == put(put(h, GHA(q), pack(size, 0)), GFA(h, n), pack(size, 0))
  IN  [SpliceBoth(h, t, q, n) EXCEPT !.free_root = q]

\* Variant: the block before is never merged.
coalesce_forward(h, p) ==
  IF get_alloc(h, GHA(next_blk(h, p))) = 1
  THEN [h |-> CoalesceNone(h, p), p |-> p] ELSE [h |-> CoalesceNext(h, p), p |-> p]

coalesce(h, p) ==
  LET prevUsed == get_alloc(h, GFA(h, prev_blk(h, p))) = 1
      nextUsed == get_alloc(h, GHA(next_blk(h, p))) = 1
  IN  CASE prevUsed /\ nextUsed   -> [h |-> CoalesceNone(h, p), p |-> p]
        [] prevUsed /\ ~nextUsed  -> [h |-> CoalesceNext(h, p), p |-> p]
        [] ~prevUsed /\ nextUsed  -> [h |-> CoalescePrev(h, p), p |-> prev_blk(h, p)]
        [] OTHER                  -> [h |-> CoalesceBoth(h, p), p |-> prev_blk(h, p)]

(***************************************************************************)
(* allocate_page.  A failed mem_sbrk returns (void* )-1, which the test    *)
(* *(int* )p == -1 dereferences: the process dies.  The same test reads    *)
(* the first word of the new page when mem_sbrk succeeds; if that word is  *)
(* stale and all ones the call reports failure, the break already moved.   *)
(***************************************************************************)
TopAt(c) == [c.h EXCEPT !.TOH = c.p]

allocate_page(h, page_size) ==
  LET p  == h.brk
      g  == [h EXCEPT !.brk = p + page_size]
      g1 == tag(g, p, page_size, 0)
  IN  IF p + page_size > HeapLo + MaxHeap
      THEN [ok |-> FALSE, h |-> [h EXCEPT !.fault = "oom"]]
      ELSE IF get(g, p) = -1
           THEN [ok |-> FALSE, h |-> g]
           ELSE [ok |-> TRUE,
                 h  |-> TopAt(coalesce(put(g1, GHA(next_blk(g1, p)), pack(0, 1)), p))]

\* mem_reset_brk keeps the bytes of the heap.
mem_reset_brk(h) == [h EXCEPT !.brk = HeapLo]

\* The unused word, the prologue and the epilogue
Prologue == [i \in 0 .. 3 |-> CASE i = 0 -> 0 [] i \in {1, 2} -> pack(16, 1) [] i = 3 -> pack(0, 1)]

mm_init(h) ==
  LET lo == h.brk
      g  == [h EXCEPT !.free_root = NULL, !.TOH = NULL, !.brk = lo + 32]
  IN  IF get(g, lo) = -1 THEN [ok |-> FALSE, h |-> g]
      ELSE allocate_page(store(g, lo, Prologue), InitPage)

(***************************************************************************)
(* place and find_fit.                                                     *)
(***************************************************************************)
PlaceWhole(h, p) ==
  LET g == tag(h, p, get_size(h, GHA(p)), 1)
  IN  IF p # h.free_root THEN Link(g, pred(h, p), succ(h, p))
      ELSE [SetPred(g, succ(h, p), NULL) EXCEPT !.free_root = succ(h, p)]

PlaceSplit(h, p, block_size) ==
  LET t    == Cut(h, p, block_size, 0)
      rest == next_blk(t, p)
      g    == CASE h.free_root = NULL -> Begin(t, rest, NULL)
                [] h.free_root # NULL /\ p # h.free_root ->
                     Link(PushFront(t, rest), pred(h, p), succ(h, p))
                [] OTHER -> Lead(t, rest, succ(h, p))
  IN  [g EXCEPT !.free_root = rest]

\* Variant: a remainder of exactly the minimum block is not split off.
place_greedy(h, p, block_size) ==
  LET old_size == get_size(h, GHA(p))
  IN  IF old_size - block_size \in 0 .. 32
      THEN [h |-> PlaceWhole(h, p), size |-> old_size]
      ELSE [h |-> PlaceSplit(h, p, block_size), size |-> block_size]

place(h, p, block_size) ==
  LET old_size == get_size(h, GHA(p))
  IN  IF (old_size - block_size) % SizeMod < 32
      THEN [h |-> PlaceWhole(h, p), size |-> old_size]
      ELSE [h |-> PlaceSplit(h, p, block_size), size |-> block_size]

\* The free list in the order of its succ links; MaxBlocks bounds the walk.
MaxBlocks == MaxHeap \div 32 + 1

FreeChain(h) ==
  LET chain[n \in 1 .. MaxBlocks] ==
        IF n = 1 THEN h.free_root
        ELSE LET q == chain[n - 1] IN IF q = NULL THEN NULL ELSE succ(h, q)
  IN  [n \in 1 .. MaxBlocks |-> chain[n]]

\* Variant: only the root of the list is looked at.
find_fit_root(h, block_size) ==
  IF h.free_root # NULL /\ get_size(h, GHA(h.free_root)) > block_size
  THEN h.free_root ELSE NULL

find_fit(h, block_size) ==
  LET chain == FreeChain(h)
      fits  == {n \in 1 .. MaxBlocks :
                  chain[n] # NULL /\ get_size(h, GHA(chain[n])) > block_size}
  IN  IF fits = {} THEN NULL
      ELSE chain[CHOOSE n \in fits : \A m \in fits : n <= m]

(***************************************************************************)
(* malloc, free, realloc, calloc.                                          *)
(***************************************************************************)
\* while (tmp_pos > mem_heap_hi() - 8) allocate_page(Page), until it fails
GrowTo(h, tmp_pos) ==
  LET pages == MaxHeap \div Page + 1
      grown[i \in 0 .. pages] ==
        IF i = 0 THEN [ok |-> TRUE, h |-> h]
        ELSE LET r == grown[i - 1]
             IN  IF r.ok /\ tmp_pos > r.h.brk - 1 - 8 THEN allocate_page(r.h, Page) ELSE r
  IN  grown[pages]

\* Variant: the new TOH is returned for the block below it.
AboveTop_itself(r, toh) == [p |-> toh + r.size, h |-> [r.h EXCEPT !.TOH = toh + r.size]]

\* The new block is placed at the TOH the pages left; the new TOH and the
\* pointer returned are computed from toh, the TOH before the pages.
AboveTop(r, toh) == [p |-> toh, h |-> [r.h EXCEPT !.TOH = (toh + r.size) % SizeMod]]

PlaceTop(grown, toh, block_size) ==
  IF grown.ok THEN AboveTop(place(grown.h, grown.h.TOH, block_size), toh)
  ELSE [p |-> NULL, h |-> grown.h]

MallocTop(h, block_size) ==
  PlaceTop(GrowTo(h, (h.TOH + block_size) % SizeMod), h.TOH, block_size)

MallocFit(h, p, block_size) ==
  IF p = h.TOH THEN AboveTop(place(h, p, block_size), p)
  ELSE [p |-> p, h |-> place(h, p, block_size).h]

malloc(h, size) ==
  LET block_size == BlockSize(size)
      fit        == find_fit(h, block_size)
  IN  IF size = 0 THEN [p |-> NULL, h |-> h]
      ELSE IF fit # NULL THEN MallocFit(h, fit, block_size)
           ELSE MallocTop(h, block_size)

\* Variant: TOH does not follow a merge.
free_keeps_TOH(h, p) ==
  IF p = NULL \/ get_alloc(h, GHA(p)) = 0 THEN h
  ELSE coalesce(tag(h, p, get_size(h, GHA(p)), 0), p).h

free(h, p) ==
  IF p = NULL \/ get_alloc(h, GHA(p)) = 0 THEN h
  ELSE LET size == get_size(h, GHA(p))
           g    == tag(h, p, size, 0)
       IN  IF p + size = g.TOH /\ get_alloc(g, GHA(g.TOH)) = 0
           THEN TopAt(coalesce(g, p)) ELSE coalesce(g, p).h

\* Variant: the first word is skipped.
Copy_late(h, dst, src, n) ==
  store(h, dst + 8, [i \in 0 .. n \div 8 - 2 |-> get(h, src + 8 + 8 * i)])

\* The mem_memcpy of n bytes, n a multiple of 8, between disjoint blocks
Copy(h, dst, src, n) ==
  store(h, dst, [i \in 0 .. n \div 8 - 1 |-> get(h, src + 8 * i)])

ReallocShrink(h, p, block_size) ==
  LET g == Cut(h, p, block_size, 1) IN free(g, next_blk(g, p))

Moved(r, p, old_size) ==
  IF r.h.fault # "none" THEN r
  ELSE [p |-> r.p, h |-> free(Copy(r.h, r.p, p, old_size), p)]

ReallocMove(h, p, size) == Moved(malloc(h, size), p, get_size(h, GHA(p)))

\* A size_t read as a signed number
int64_t(x) == IF 2 * x >= SizeMod THEN x - SizeMod ELSE x

realloc(h, p, size) ==
  LET block_size == BlockSize(size)
      remainder  == get_size(h, GHA(p)) - int64_t(block_size)
  IN  CASE p = NULL                               -> malloc(h, size)
        [] p # NULL /\ size = 0                   -> [p |-> NULL, h |-> free(h, p)]
        [] p # NULL /\ size # 0 /\ get_alloc(h, GHA(p)) = 0 -> [p |-> NULL, h |-> h]
        [] OTHER ->
             IF remainder > 32
             THEN [p |-> p, h |-> ReallocShrink(h, p, block_size)]
             ELSE IF remainder >= 0
                  THEN [p |-> p, h |-> tag(h, p, get_size(h, GHA(p)), 1)]
                  ELSE ReallocMove(h, p, size)

Clear(r, bytes) ==
  IF r.p = NULL THEN r
  ELSE [r EXCEPT !.h = store(r.h, r.p, [i \in 0 .. bytes \div 8 - 1 |-> 0])]

\* Variant: one element is cleared.
calloc_first(h, nmemb, size) == Clear(malloc(h, (nmemb * size) % SizeMod), size)

calloc(h, nmemb, size) ==
  LET bytes == (nmemb * size) % SizeMod IN Clear(malloc(h, bytes), bytes)

(***************************************************************************)
(* The client.  It writes Fill over the bytes it was given, as the driver  *)
(* does with random bytes; after realloc, over the bytes it did not have.  *)
(***************************************************************************)
Scribble(h, p, from, to) ==
  store(h, p + from, [i \in 0 .. (to - from) \div 8 - 1 |-> Fill])

Nothing == [p |-> NULL, size |-> 0]

Die(h) == heap' = h /\ UNCHANGED <<blocks, inits>>

Give(id, r, from, size) ==
  IF r.p = NULL \/ r.h.fault # "none" THEN Die(r.h)
  ELSE /\ heap' = Scribble(r.h, r.p, from, size)
       /\ blocks' = [blocks EXCEPT ![id] = [p |-> r.p, size |-> size]]
       /\ UNCHANGED inits

Least(m, n) == IF m < n THEN m ELSE n

Malloc(id, size) ==
  /\ blocks[id] = Nothing
  /\ Give(id, malloc(heap, size), 0, size)

Calloc(id, nmemb, size) ==
  /\ blocks[id] = Nothing
  /\ Give(id, calloc(heap, nmemb, size), 0, nmemb * size)

Free(id) ==
  /\ blocks[id] # Nothing
  /\ heap' = free(heap, blocks[id].p)
  /\ blocks' = [blocks EXCEPT ![id] = Nothing]
  /\ UNCHANGED inits

Realloc(id, size) ==
  IF size = 0
  THEN /\ heap' = realloc(heap, blocks[id].p, 0).h
       /\ blocks' = [blocks EXCEPT ![id] = Nothing]
       /\ UNCHANGED inits
  ELSE Give(id, realloc(heap, blocks[id].p, size), Least(blocks[id].size, size), size)

\* The driver starts a pass by mem_reset_brk, then mm_init, on memory that
\* holds what the previous pass left there.  A false result ends the pass.
Booted(r) ==
  IF r.ok \/ r.h.fault # "none" THEN r.h ELSE [r.h EXCEPT !.fault = "init"]

Boot(h) == Booted(mm_init(mem_reset_brk(h)))

Reset ==
  /\ inits < MaxInits
  /\ heap' = Boot(heap)
  /\ blocks' = [id \in Ids |-> Nothing]
  /\ inits' = inits + 1

Init ==
  /\ heap = Boot([mem |-> [a \in Words |-> 0], brk |-> HeapLo,
                  free_root |-> NULL, TOH |-> NULL, fault |-> "none"])
  /\ blocks = [id \in Ids |-> Nothing]
  /\ inits = 1

Next ==
  /\ heap.fault = "none"
  /\ \/ \E id \in Ids, size \in Sizes : Malloc(id, size)
     \/ \E id \in Ids, size \in Sizes : Realloc(id, size)
     \/ \E id \in Ids, size \in Sizes : Calloc(id, 3, size)
     \/ \E id \in Ids : Free(id)
     \/ Reset

Spec == Init /\ [][Next]_vars

(***************************************************************************)
(* A heap is stranded when its last block is free but TOH, which should    *)
(* name that block, is the break.  free leaves it so, because its test for *)
(* the block before the TOH sees the epilogue there, which is allocated.   *)
(* malloc then returns a pointer that is not the block it placed as soon   *)
(* as it has to ask for a page, so a client is careful when no call of its *)
(* makes a stranded heap grow.                                             *)
(***************************************************************************)
Stranded(h) == h.TOH = h.brk /\ get_alloc(h, h.brk - 16) = 0

Careful == Stranded(heap) => heap'.brk = heap.brk \/ inits' # inits

SafeNext == Next /\ Careful

SafeSpec == Init /\ [][SafeNext]_vars

(***************************************************************************)
(* Properties.                                                             *)
(***************************************************************************)
\* The variables have their types; the globals are NULL or aligned addresses
\* within the heap, the break included.
TypeOK ==
  LET Addrs == {a \in HeapLo .. heap.brk : a % 16 = 0}
  IN  /\ heap.brk \in {a \in HeapLo + 32 .. HeapLo + MaxHeap : a % 16 = 0}
      /\ heap.free_root \in Addrs \cup {NULL}
      /\ heap.TOH \in Addrs \cup {NULL}
      /\ heap.fault \in {"none", "oom", "init", "stray"}
      /\ heap.mem \in [Words -> Int]
      /\ \A id \in Ids : blocks[id].p \in Addrs \cup {NULL}
      /\ inits \in 1 .. MaxInits

\* The payload addresses met by following the headers from the first block
\* up to the break, as next_blk does.
FirstBlk == HeapLo + 32

BlkSet(h) ==
  LET at[n \in 1 .. MaxBlocks] ==
        IF n = 1 THEN FirstBlk
        ELSE LET q == at[n - 1] IN IF q < h.brk THEN next_blk(h, q) ELSE q
  IN  {at[n] : n \in 1 .. MaxBlocks}

Blks(h) == {p \in BlkSet(h) : p < h.brk}

FreeBlks(h) == {p \in Blks(h) : get_alloc(h, GHA(p)) = 0}

Initialised == heap.fault # "init" /\ heap.TOH # NULL

\* The boundary tags tile the heap: from the prologue, block after block of at
\* least 32 bytes in multiples of 16, with equal header and footer, exactly up
\* to the epilogue (mm.c:129-134, 423-428).  It takes one wrong size in any of
\* the coalescing, splitting or page cases to break it.
HeapWellFormed ==
  Initialised =>
    /\ heap.brk \in BlkSet(heap)
    /\ get(heap, HeapLo + 8) = pack(16, 1) /\ get(heap, HeapLo + 16) = pack(16, 1)
    /\ get(heap, heap.brk - 8) = pack(0, 1)
    /\ \A p \in Blks(heap) : /\ get_size(heap, GHA(p)) >= 32
                             /\ get(heap, GHA(p)) = get(heap, GFA(heap, p))

\* No two neighbouring blocks are both free after any call: freed blocks are
\* merged with their neighbours, whichever call freed them (mm.c:17-18).
FullyCoalesced ==
  \A p \in FreeBlks(heap) : next_blk(heap, p) \notin FreeBlks(heap)

\* The list from free_root is doubly linked, visits every free block exactly
\* once and nothing else, and the root's pred is NULL (mm.c:98), whatever the
\* order in which neighbours were freed, merged and split; and no link was
\* stored through a NULL pointer on the way.
FreeListExact ==
  LET chain == FreeChain(heap)
      on    == {n \in 1 .. MaxBlocks : chain[n] # NULL}
  IN  Initialised =>
        /\ heap.fault # "stray"
        /\ {chain[n] : n \in on} = FreeBlks(heap)
        /\ Cardinality(on) = Cardinality(FreeBlks(heap))
        /\ \A n \in on : pred(heap, chain[n]) = IF n = 1 THEN NULL ELSE chain[n - 1]

\* What the client holds is exactly what the heap says is allocated: every
\* live pointer is the payload of an allocated block big enough for it, no two
\* clients share one, and no allocated block is lost (mdriver.c:1082-1083).
LiveAreAllocated ==
  LET live == {id \in Ids : blocks[id] # Nothing}
  IN  Initialised =>
        /\ {blocks[id].p : id \in live} = Blks(heap) \ FreeBlks(heap)
        /\ \A a, b \in live : a # b => blocks[a].p # blocks[b].p
        /\ \A id \in live :
              blocks[id].size + 16 <= get_size(heap, GHA(blocks[id].p))

\* Every payload the client holds still has the words it wrote: no call ever
\* writes a tag or a link into live data, and realloc carries the old bytes to
\* the new place ("Check up to min(size, oldsize) for correct copying",
\* mdriver.c:1124-1134).
ContentIntact ==
  \A id \in Ids : \A i \in 0 .. blocks[id].size \div 8 - 1 :
    get(heap, blocks[id].p + 8 * i) = Fill

\* calloc returns zeroed bytes even when the block held old data: in every
\* reachable heap, every calloc the client could make next (mm.c:312-321).
CallocZeroes ==
  \A size \in Sizes :
    LET r == calloc(heap, 3, size)
    IN  heap.fault = "none" /\ r.h.fault = "none" /\ r.p # NULL =>
          \A i \in 0 .. (3 * size) \div 8 - 1 : get(r.h, r.p + 8 * i) = 0

\* No free block is larger than a block for size.
NoFit(size) == \A p \in FreeBlks(heap) : get_size(heap, GHA(p)) <= BlockSize(size)

\* A page is added for a pointer that is given out, and it was the last needed.
GrewFor(size) ==
  NoFit(size) /\ heap.TOH + BlockSize(size) >= heap'.brk - Page

\* Every page the mapping can hold was added, and one more was needed for size.
ExhaustedBy(size) ==
  /\ NoFit(size)
  /\ heap.TOH + BlockSize(size) >= heap'.brk - 8
  /\ heap'.brk + Page > HeapLo + MaxHeap

\* The break grows only for a request that no free block exceeds, and by no more
\* pages than it takes the block above TOH (mm.c:14-15, 178-197); and a call dies of
\* a failed mem_sbrk (mm.c:418) only when the bytes it asks for need a page that the
\* mapping cannot hold, never while the pages still fit or a free block does.
GrowsOnlyAsNeeded ==
  [][/\ heap'.brk > heap.brk /\ inits' = inits /\ blocks' # blocks =>
          \E id \in Ids : blocks'[id] # blocks[id] /\ GrewFor(blocks'[id].size)
     /\ heap'.fault = "oom" =>
          /\ \E id \in Ids, size \in Sizes :
                Malloc(id, size) \/ Realloc(id, size) \/ Calloc(id, 3, size)
          /\ \A id \in Ids, size \in Sizes :
                /\ Malloc(id, size) \/ Realloc(id, size) => ExhaustedBy(size)
                /\ Calloc(id, 3, size) => ExhaustedBy(3 * size)]_vars

\* When every block size is a multiple of 32 no free block is ever taken
\* whole, so TOH is never the break and no heap is stranded, whatever the
\* client does (mm.c:205-208, 236-238, 753).
NeverStranded == Initialised => heap.TOH # heap.brk

\* "The block ... must not overlap any currently allocated block"
\* (mdriver.c:1081-1083).
PayloadsDisjoint ==
  \A x, y \in Ids :
    x # y /\ blocks[x] # Nothing /\ blocks[y] # Nothing =>
      \/ blocks[x].p + blocks[x].size <= blocks[y].p
      \/ blocks[y].p + blocks[y].size <= blocks[x].p

\* "size + header + footer: alligned (in bytes)" (mm.c:158-159): the block of a
\* live pointer holds the bytes asked for beside its two tags.
RoomForRequest ==
  \A id \in Ids :
    blocks[id] # Nothing => blocks[id].size + 16 <= get_size(heap, GHA(blocks[id].p))

\* "Initialize: returns false on error, true on success." (mm.c:109): a false
\* result means that the heap could not be extended.
InitFailsOnlyOnError ==
  heap.fault = "init" => HeapLo + 32 + InitPage > HeapLo + MaxHeap

=============================================================================
