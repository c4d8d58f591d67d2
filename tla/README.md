# Models of the malloc package and its driver

This directory holds TLA+ specifications of the program in `src/`, the TLC
configurations that check them, and TLAPS proofs. `src/` is a malloc lab: an
allocator (`mm.c`), the simulated memory it runs on (`memlib.c`), and a driver
(`mdriver.c`) that runs trace files on the allocator, checks what it returns
with the help of a splay tree (`stree.c`), times it (`fcyc.c`, `clock.c`) and
scores it.

To check one run: `tlc -config utilization.cfg Utilization.tla`. To check the proofs:
`tlapm` on each module whose name ends in `Proofs`. `PROJECT.json` lists
the runs, the lines every definition models, the hazards and the findings.

## 1. Inventory

| component | state | operations | what is hard | what makes it correct |
|---|---|---|---|---|
| allocator, `mm.c` | the bytes of the heap: boundary tags, the links of an explicit LIFO free list kept inside the free blocks; the globals `free_root` and `TOH` (the block, or the address, at the top of the heap) | `mm_init`, `malloc`, `free`, `realloc`, `calloc` over `find_fit`, `place`, `coalesce`, `allocate_page` | long call sequences: four merges and nine list shapes, splits at the 32-byte boundary, `TOH` following all of them, a heap that is never cleared between passes, exhaustion | payloads are aligned, inside, disjoint and keep their bytes; tags tile the heap; the list holds exactly the free blocks; no two free neighbours |
| simulated memory, `memlib.c` | one mapping, the break | `mem_sbrk`, `mem_reset_brk`, word accesses, `mem_memcpy`, `mem_memset` | the last, partial word; the limit | copies and fills are exact; the break stays in the mapping |
| splay tree, `stree.c` | nodes with child and parent pointers | insert, find, find_nearest, remove, free | rotations, removal of an inner node | an ordered map; parent pointers exact |
| range set, `mdriver.c:60-79, 661-771` | a doubly linked list of live payloads and the tree keyed by their low address | `add_range`, `remove_range` | a payload with no predecessor; records that outlive a pass | reports every overlap and nothing else |
| trace driver, `mdriver.c:773-873, 1026-1160` | the trace's `blocks` and `block_sizes`, the random bytes in every payload | `eval_mm_valid`, twice per trace, with `randomize_block` and `check_index` | the order of remove, check, add and fill around `realloc`; long payloads, filled at both ends only; the second pass | a right allocator passes; a wrong one is reported, or costs data that is |
| main loop, `mdriver.c:233-305, 430-434` | the trace, range set and mapping of the iteration, `errors`, the jump buffer, the alarm | `run_tests`, `timeout_handler` | SIGALRM at any statement; indeterminate locals after `longjmp` | everything is released once; a hang is given up; no run is scored that failed |
| utilization, `mdriver.c:1162-1263` | three `size_t` counters | `eval_mm_util` | unsigned differences | exact sums; a ratio of at most 1 |
| timing, `fcyc.c` | the array of the best samples | `fsec`, `fcyc` | readings of 0; being left by `longjmp` | reports the fastest sample; ends |
| score, `mdriver.c:307-316, 543-604, 1427-1586` | the results of the traces | `printresults`, the averages of `main`, `score_component` | traces that timed out or were not measured; weights; 0 / 0 | only a run that was found valid and measured has a score |
| clock, libc baseline, trace files, reports' text, scripts | - | - | I/O and floating point | not modelled, see section 8 |

The driver calls the allocator; the allocator calls `mem_sbrk` and the emulated
accesses; the driver resets the break behind the allocator's back before each
pass and calls `mm_init`; it records what `malloc` returned in the range set,
which asks the tree for the nearest lower payload. There is one thread. The
only asynchrony is SIGALRM, whose handler leaves whatever runs by `longjmp`.

## 2. Modules

```
Allocator          what malloc promises                        <- contract
  ^ implemented by
BlockHeap          the heap as blocks            BlockHeapProofs (TLAPS)
  ^ implemented by            ^ extended by
Mm (MCMm)          the heap as words             Utilization   eval_mm_util
   via MmImplementsBlockHeap                                   UtilizationProofs (TLAPS)
   MmProofs (TLAPS)
MemLib (MCMemLib)  the words as bytes            MemLibProofs (TLAPS)

OrderedMap         what the tree promises                      <- contract
  ^ implemented by            ^ used by
Stree              the tree as nodes         Ranges, Payload
   StreeProofs (TLAPS)                       |  the records; the bytes that are filled
                                             v
                                             EvalMmValid       eval_mm_valid, over Allocator's contract
                                                               EvalMmValidProofs (TLAPS)

RunTests (MCRunTests)  the main loop, SIGALRM, the end of main    RunTestsProofs (TLAPS)
   with Fcyc (the K-best timer, its steps are RunTests') and Score

Sums               totals, for Utilization and Score
Iteration (TLAPS)  induction, least elements and loops, for all the proofs
```

**Mm** is `mm.c` at the level of its 8-byte words. A heap is a record (memory,
break, `free_root`, `TOH`, `fault`); every C function is an operator from a heap
to a heap with the source's name (`place`, `coalesce` with its four cases,
`find_fit`, `allocate_page`, `realloc`...), and every library call is one action,
because the library is single-threaded and nothing else looks at the heap in the
middle of a call. Reads and writes of tags and links are the source's reads and
writes, so a link that is stale, or a NULL that is dereferenced, happens in the
model too: a store outside the heap proper is the fault `"stray"`, the
dereference of a failed `mem_sbrk` is `"oom"`, a false `mm_init` is `"init"`.
The client is the trace driver: it holds pointers under ids, fills every payload
(`Scribble`, the model of `randomize_block`), and starts new passes (`Reset`) on
memory that keeps its bytes. Sizes are multiples of 8 here, because memory is
words; `BlockHeap` and its proofs have any size.

**BlockHeap** is the same allocator as a set of blocks: their sizes, which are
used, the break and `TOH`. The four cases of `coalesce` become two merges, first
fit becomes any fit, pages added one at a time become one extension. It is the
level at which the allocator's policy is proved. `MmImplementsBlockHeap`
reads the words of `Mm` as blocks, by following the tags; that every step of
`Mm` is a step of `BlockHeap` is checked, and proved in `MmProofs`. The reading
of each state is kept in two history variables, and the two assumptions the
proofs need on the client are stated there.

**Allocator** is the contract: a live pointer is aligned, in the heap and apart
from the other live payloads. `BlockHeap` implements it (checked and proved);
`Ranges` uses it for allocators that are right.

**MemLib** is `memlib.c` at the level of bytes. A 64-bit value is a function
from the positions of its bytes, so `mem_read`'s mask and `mem_memset`'s shifts
are what they do to bytes; each iteration of the loops is a step.

**Stree** is `stree.c` node by node; `left_rotate` and `right_rotate` are one
operator with a side. A node is named by its key (keys are unique, by
`tree_insert`). The loops that go down or up are a step done `MaxKey` times
(`Times`), which stands still where the loop ends. **OrderedMap** is its contract; the last call and its result are
part of the state, so that a wrong answer is a wrong step.

**Ranges** has `add_range` and `remove_range` as operators on a set of records;
the tree is its contract, as `Stree` implements it. **Payload** has the bytes of
a payload as offsets: which ones `randomize_block` writes, with which of its
random values, and which ones `check_index` compares, before and after a move.
**EvalMmValid** drives both with an allocator that returns anything at all and
may write anywhere. Each operation of a trace is one action, up to the next call
of the allocator: its checks in the order of the source, the records, the data.
A payload is known by the offsets that no longer hold what was written
(`bad`); filling one payload spoils the bytes it shares with another, which is
how a missed overlap shows. Two history variables say for which behaviours a
property is meant: `honest`, the allocator kept its contract and the earlier
passes freed what they allocated; `rising`, every payload was recorded above
another one, or alone. Since the allocator is arbitrary, the real one of `Mm` is
among those covered; what `mm_overlap` shows of it is an overlap that
`OverlapDoomed` speaks about.

**RunTests** is the loop of `run_tests` statement by statement and SIGALRM
between any two of them, from the measurement of the reference throughput to
what `main` prints. What a trace allocates is named by the trace. After a
`longjmp` the locals `trace` and `ranges`, which are not `volatile`, are
indeterminate if they changed since `setjmp`: `TimedOut` takes either value.
While a trace is timed the steps are those of **Fcyc**: `fsec`, rounds that
double until they are long enough, then samples until the best `kbest` agree;
the insertion sort is stated by the place at which the new sample settles.
Times are integers; a reading may be 0. The alarm leaves it in the timed
function, with its array allocated, and the next measurement finds it so.
**Score** has the averages, twice as in the source (the table's, over the valid
traces; `main`'s, over all), and the indices, in hundredths rounded down.

**Utilization** extends `BlockHeap` with the three counters of `eval_mm_util`,
modulo the width of `size_t`, for one trace after another; an allocation that
fails ends the driver. Its steps are those of `BlockHeap` with the counters
beside them, so its run checks the block level too.

## 3. Runs and what they show

Passing runs:

| run | bounds | shows |
|---|---|---|
| `mm_calls` | `size_t` modulo 4096, 3 pointers, sizes 0/16/56 (and 48/168 for `calloc`), pages of 80, heap of 288 bytes, 2 passes, a careful client | tags tile the heap; live pointers are exactly the allocated blocks and keep their words; `calloc` clears; the heap grows only when it must and as little as it must; every call is the call of `BlockHeap`; nothing of a pass survives a reset |
| `mm_lists` | up to 8 blocks of 32 or 64 bytes, any client | every order of frees: the free list is exact and no link is stored outside, no two free neighbours; with block sizes that are multiples of 32 the heap is never stranded (see below) |
| `utilization` | four sizes, up to 13 granules of 16 bytes | the invariants of the block level; `BlockHeap` implements `Allocator`; `total_size` is exact through every realloc; the ratio is at most 1 |
| `memlib` | words of 2 bytes, a mapping of 8 | copies and fills of every length are exact |
| `stree` | 5 keys, 2 records | search order, parents, ordered map |
| `eval_mm_valid` | any allocator, unaligned and outside addresses too, payloads below `maxfill`, up to twice it and beyond, both debug levels, two passes | links stay mutual: no freed record is ever followed; an honest allocator is never reported and its payloads are exactly the records; while rising, the list is complete and every overlap is reported; an overlap that is missed has cost one of the payloads data; lost data is reported before its payload goes |
| `run_tests_timely` | 3 traces of three weights, up to 2 that hang, the alarm during an evaluation; 3 of at most 5 samples must agree; readings of 0 | each trace starts clean, nothing is freed twice, the timer keeps the best samples and stops when it should, also after it was left; a score is given only to a run in which each trace was found valid and measured; the run ends |

Runs that find a violation, each a finding in `PROJECT.json`:

| run | what happens |
|---|---|
| `mm_overlap` | `malloc` on a stranded heap returns a pointer inside a live block |
| `mm_stale_init` | a payload of all ones makes the next `mm_init` fail |
| `mm_wrap` | `malloc(504)` with a `size_t` of 9 bits: 504 + 16 wraps around, the block found is cut to 16 bytes and returned |
| `ranges_missed` | an overlap with the block above is not seen when there is no block below |
| `run_tests_late` | an alarm after the trace was freed frees it again |

Met while modelling, and in the models, without a run of their own: a request
the mapping cannot hold kills the process instead of returning NULL (mm.c:418;
`Mm` ends with the fault `"oom"`); a free block of exactly the size asked for is
passed over (mm.c:837); a payload below all the others empties the list of
records (mdriver.c:734), which is why `ListComplete` asks for `rising`, and why "check
every block every operation" (mdriver.c:141-142) holds while rising only; the
second pass starts with the records the first one left, although it means to
"free any records in the range list" (mdriver.c:1037), which
is why `honest` asks for balanced passes; the middle of a payload longer than
twice `MAXFILL` is never written, and its end is not compared after a realloc
(mdriver.c:1124-1125), which is why `OverlapDoomed` is about shorter ones; with
`DBG_NONE` neither overlaps are looked for nor random bytes written, so that the
comment at mdriver.c:704-705 is true of no mode that skips the list; the alarm is
armed once for all traces
(mdriver.c:433), which is why `Finishes` asks that only one trace hangs from the
alarm on (`Rescuable`); the
handler of the alarm overwrites the count of errors (mdriver.c:238); the rest of
a copy is read as a whole word, past its source (memlib.c:122).

### The stranded heap, and careful clients

A heap is *stranded* when its last block is free and `TOH` is the break. It
happens when `malloc` takes the last block whole and the client frees it:
`free` moves `TOH` down only if the block at `TOH` is free, and what is there is
the epilogue. As long as the free list satisfies the client nothing is wrong,
and a later merge does not repair it. The next `malloc` that adds a page places
its block where `coalesce` put `TOH`, and returns an address computed from the
`TOH` before. `mm_overlap` shows the overlap. The other properties of `Mm` would
all fail behind this one, so `mm_calls` uses a *careful* client (`SafeSpec`),
which makes no call that grows a stranded heap; everything else a client can do,
it does. There is a class of traces for which any client is careful: when the
first page, the later pages and the block size of every request are multiples of
32, the heap is never stranded. `mm_lists` checks it, `CoarseNeverStranded` proves
it, and with it everything that is proved of careful clients holds of those
traces. In `BlockHeap` the condition is a guard of `Mallocs`.

In the same spirit `RisingDetected` leaves out exactly the steps that
`ranges_missed` exhibits, and `run_tests_timely` those of `run_tests_late`.

## 4. Bounds

- *Allocator.* Pages shrink from 2048 and 32768 bytes to 32 ... 256. The code
  compares sizes with each other and with 32 only, so what matters is how many
  blocks there are and which remainders occur. The lists of `coalesce` look at
  two merged blocks and their four list neighbours: eight blocks, four of them
  kept apart, give each of the nine shapes, at the head, inside and at the tail.
  The sizes of `mm_calls` give remainders of 0, 16, 32 and more in `place` and
  `realloc`. `MaxHeap` makes exhaustion happen. Two passes are what
  `eval_mm_valid` makes; a third would start from words of the same kinds.
- *The view `Readable`* (in `MCMm`) makes states equal when they agree on what
  the code can read again: tags, links of free blocks, held payloads, and above
  the break whether a word is -1, the only thing `allocate_page` asks of it. All
  other words are overwritten before they are read (by `put`, `Scribble` or
  `mem_memset`). Ids are interchangeable, so the view counts holders. All the
  properties checked under it depend on those parts only.
- *BlockHeap, Utilization.* 13 granules hold up to six blocks; the theorems have
  no bound.
- *MemLib.* Words of two bytes and a mapping of eight give copies of zero, one
  and two words with and without a rest; the theorems have no bound.
- *Stree.* Five keys give every tree on which a rotation has all three subtrees
  non-empty or empty, and a removal whose successor is deep.
- *EvalMmValid.* Six addresses, one unaligned and one outside, and sizes that
  reach over none, one or two of the next ones, so that every order and every
  overlap of neighbours occurs. With `maxfill` 4 the sizes 2, 7 and 9 are written
  at the start, whole in two parts, and with a byte left out. One byte at a time
  is damaged, in the start and in the end part.
- *RunTests.* Three traces: one before, one at and one after the alarm; one of
  each weight. Three samples must agree out of five, so that a better sample
  arrives after the array is full, and the readings are inside epsilon, outside
  of it and 0.
- *Sizes.* `SizeMod` stands for 2^64: larger than every sum of a size and an
  address except in `mm_wrap`, where one request is 8 below it. A block size that
  wraps to 0 makes `next_blk` the block itself; `place` and `realloc` ask for what
  follows again after each store, and so do `tag_next` and `Cut`.

## 5. Fairness

- *RunTests*: weak fairness of the program's steps (`Proceed`: the process runs,
  a call of the timed function returns, and the clock is seen to advance in the
  end) and of the alarm (the kernel delivers SIGALRM; the timer expires whatever
  the program does). Neither a failure that ends the driver nor a reading of 0
  is among the fair steps: the loop of `fsec` need not end if the clock stands
  still, because such a reading is not counted against `maxsamples`. The thread
  clock of the default build advances, and this is assumed, not checked: `Finishes`
  says nothing of a clock that stands still. A hanging trace has no step, so only the
  alarm leaves it.
- The other specifications have safety properties only, and no fairness. Their
  configurations turn deadlock checking off where the program ends: a fault, an
  error verdict, a finished run, a client with nothing left to call.

## 6. Proofs

**BlockHeapProofs** proves, for every page size, limit and set of requests that
the `ASSUME`s of `BlockHeap` allow: `TypeOK`, `Tiled`, `Coalesced`, `Exact`,
`Top`, and that `BlockHeap` implements `Allocator`. The requests are those of which
the block is at most half of `SizeMod`, so that the casts to `int64_t` of mm.c:269
lose nothing. The inductive invariant is

    IInv == Good(heap) /\ Exact

where `Good` is: blocks typed and aligned, of at least 32 bytes; tiling without
gap and without overlap; no two free neighbours; `TOH` the break or the last
block. `Tiled` alone is not inductive: a merge keeps the tiling only if the
neighbours' sizes are right; `Coalesced` needs to know that *before* the call no
neighbour of a neighbour was free; and a block placed at `TOH` is the last one
only by `Top`. The lemmas follow the code: `SplitWF`, `JoinWF`, `AddBlockWF` for
the primitives, `CoalesceFacts` from a heap in which only the block just freed
may have free neighbours to one where none has, then `FreeGood`, `MallocAtGood`,
`ExtendGood`, `ShrinkGood`, each also saying that the other used blocks keep
their sizes (`Keeps`), which is what `Exact` and the contract need.

**MmProofs** proves the words of `Mm` right: for every size of heap, of page and
of request, and for a careful client (`SafeSpec`), `TypeOK`, `HeapWellFormed`,
`FullyCoalesced`, `FreeListExact`, `LiveAreAllocated`, `ContentIntact`,
`CallocZeroes` and `GrowsOnlyAsNeeded`, that `Mm` implements `BlockHeap`
(`WordsImplementBlocks`), and the three properties that other clients break
(`CarefulClientServed`): payloads are disjoint, blocks have room for what was
asked, and `mm_init`, whose page fits by `HeapAssumption`, does not fail.
`GrowsOnlyAsNeeded` is about the call that is made: whichever `malloc`, `realloc`
or `calloc` the step is, if the process dies of it, the bytes *it* asked for need a
page more than the mapping holds (`DiedOfRequest`).
`CoarseNeverStranded` is about any client, for sizes in multiples of 32.

The assumptions, each with the run that shows what happens without it:

- the client makes no call that grows a stranded heap (`mm_overlap`);
- `RoomAssumption`: `6 * n + 64 <= SizeMod`, no request, nor three times one for
  `calloc`, comes near the largest `size_t` (`mm_wrap`);
- `FillAssumption`: the words a client writes are not -1, the value by which
  `allocate_page` takes the memory above the break for a failed `mem_sbrk`
  (`mm_stale_init`).

The invariant is

    Consistent == /\ heap.fault \in {"none", "oom"}
                  /\ Rep(heap, ReadHeap(heap))
                  /\ Holds(heap, ReadHeap(heap), blocks)

(with the types of the other variables). `Rep(h, b)` says that the words of h
represent the blocks b. It has four parts:

- `Marked`: the blocks tile the heap between prologue and epilogue (`Tiles`), and
  the words at both ends of each block, of the prologue and of the epilogue, are
  its tags (`Tagged`);
- `Listed`: the two words behind the header of each free block are its links, and
  the links are one list from `free_root` (`Chained`): neighbours name each other,
  NULL stands at both ends only, and a rank grows along the list, which is what
  excludes a cycle beside the list without any recursion;
- `Unmerged`: no free block follows a free one;
- `TopFits`: `TOH` is the break or the free block that ends there.

`Holds` says that each allocated block is held by exactly one id, with room for
the payload, whose words are the client's. None of the properties is inductive
alone: a store of a tag is harmless to the list only because tags and links lie
in different blocks or at different places of one; the list survives `coalesce`
only if the neighbours found by tags are the ones the list has; contents survive
both only if every word of a held payload is in no tag and no free block.

The proof has the layers of the code. *Words*: what a load and a store of the heap
do. *Lists*: taking off a block, putting one in front, giving a node a new address,
as operations on `Chained`, and for each sequence of stores in the code the
operation it is (`SetPredEffect` ... `ListLinks`). *Tags*: the stores of header and
footer split a block, merge two, mark one (`TagStores`, `MergeTiles`,
`SplitTiles`). *Functions*: `CoalesceSound` goes through the four cases of
`coalesce` and, in each, the shapes of the list around the blocks that merge;
`FreeSound`, `MallocSound` (first fit, the pages added in a loop, `place`),
`ShrinkSound` and `MoveSound` (`realloc`), `BootSound` (`mm_init`);
each says that the result represents the blocks `BlockHeap`'s operator yields and
that no other allocated block's words changed (`Kept`). `BootSound` is about
memory that holds anything, -1 included: `mm_init` fails exactly when the word at
the start of the heap or the first word of the first page is -1, which it takes for
the result of `mem_sbrk`, and otherwise its tags and links describe one free block
(`Represents`, which asks nothing of the other words). *Calls*: every action is a
`Turn`, which keeps the heap, frees, is given a pointer, or ends the process when
the memory is out; so the invariant holds, and the same `Turn` is the step of
`BlockHeap`. The loops that search the list and add pages are iterations of one
function, about which `Iteration` allows induction.

For `CoarseNeverStranded` the invariant adds `Fine`: all block sizes are multiples
of 32 and `TOH` is below the break. The block that `malloc` finds or makes at the
top is larger than the request, so at least 32 bytes are left and `place` never
takes a block whole.

`Consistent` quantifies over the numbers of the whole memory and over ranks, too
many for TLC; what it implies is what `mm_calls` and `mm_lists` check.

**MemLibProofs** proves `MemcpyExact`, `MemsetExact` and `TypeOK` for every word size, mapping and set of bytes. The invariant is
the one of the loops: the memory is the one the call found with a prefix copied
(`Copied(call, k)`) or filled, and `dst`, `src`, `n` are `k` further. One lemma
per loop body (`CopyStep`, `FillStep`) shows that a word, or the rest, extends
the prefix; it uses that source and destination are apart.

**EvalMmValidProofs** proves, for every heap, alignment, `maxfill`, set of
addresses and of sizes, number of passes and behaviour of the allocator:
`TypeOK`, `LinksMutual`, `NoFalseAlarm`, `RecordsExact`, `RisingDetected`,
`OverlapDoomed`, `ListComplete` and `DamageReported`. They have one inductive
invariant,

    IInv == /\ Consistent(ranges, live, bad)
            /\ honest => verdict = "ok" /\ Spotless(ranges, live, bad)
            /\ rising => Ordered(ranges)  /\ types of verdict and passes

`Consistent` says that records are linked both ways and in order (`Sound`), that
each live payload has its record with its exact extent (`Recorded`), and that
overlapping payloads have lost data (`Doomed`). `Recorded` is what the
properties lack to be inductive: `add_range` reads records, and only through
it does an address that passes the checks name no live payload. `Spotless` adds
that there are no other records and no two payloads overlap, which
makes every check succeed. The lemmas follow the code: what `tree_find_nearest`
returns (`NearestIsGreatest`, from the well-foundedness of the numbers), what
the checks let through (`CheckFacts`), what `add_range` and `remove_range` write
(`RecordEffect`, `RemoveEffect`) and keep (`RecordKeeps`, `RemoveKeeps`), which
bytes are written and compared (`WrittenWhole`, `ComparableAfterRealloc`), and
what filling a payload does to the others (`FillKeeps`).

The scan of the list follows `next` from record to record; that it meets every
record while rising (`ListAlwaysComplete`) is an induction on the number of
records below the one reached.

**UtilizationProofs** proves `TotalExact` and `AtMostOne` for every size of page,
heap and request. The counter is a sum over the addresses of the live pointers,
modulo `SizeMod`. One lemma says that the sum changes by what one pointer's
request changes (`OneChange`), another that it is at most what lies between the
first block and the break, because the blocks tile the heap and each has room for
its request (`SumFits`, by `Exact` of the block level). So the sum never reaches
`SizeMod`, and an unsigned difference that wraps is added to the right total.

**StreeProofs** proves `TypeOK`, `ParentsExact`, `SearchOrder` and that `Stree`
implements `OrderedMap`, for every finite set of keys. The invariant says that
the nodes carry a search tree, `Ordered(tree)`: there are `A` and `B` which give
every node the open interval of keys that may hang below it. The root has all of
them; a child takes the part of its parent's interval on its side; where there is
no child that part holds no key. All of it is local to a node and its parent, so
that a rotation, an insertion or a removal is checked at the few nodes it
touches, and none of it is a statement about whole subtrees, which would need
induction over trees. That the searches answer correctly and that every node
hangs below the root follow from the intervals: the one of a child is smaller.
`Shape` is written from a side, `Mirror` exchanges the sides, and each lemma
serves both. Splaying x ends at the root because each rotation widens the
interval of x, and an interval has at most `MaxKey` keys. The quantifier over
`A` and `B` keeps TLC from evaluating the invariant; the run `stree` checks all
that it implies.

**RunTestsProofs** proves, under `TimelySpec` and for every number of traces,
whichever hang: `TypeOK`, `CleanStart`, `FreedOnce`, `ScoreHonest`, and of the
timer `BestKept` and `ResultJustified`, for every `kbest`, `maxsamples`, epsilon
and sequence of readings. The invariant `Owned` says what is allocated at each
statement and that the locals name it; in an evaluation they are what `setjmp`
saved (`Saved`), so either outcome of the jump is right. `TimerInv` says that the
array holds the best of the samples taken, in order (`Best`, as a bijection of
places to samples), also after the alarm left a measurement; `Scored` says what
has been found of each trace when no error was counted, and that nothing was when
only one trace is run; `ScoreHonest` follows from bounds on the weighted sums.

Where a proof needs induction, on the steps of a loop or on the summands of a
total, it shows that a *set* of numbers holds 0 and every successor (`Induction`
of `Iteration`): the provers cannot instantiate the library's induction theorems,
whose parameter is an operator.

Model-checked only: `Finishes`, which is liveness and needs fairness, out of the
prover's reach, and the five counterexamples.

## 7. Correspondence

`PROJECT.json` maps each definition to its lines. Where names differ:

| model | source |
|---|---|
| `Mm!heap.fault` | a process that dies or runs on with destroyed memory |
| `Mm!Give`, `Boot`, `Scribble` | the steps of `eval_mm_valid` around a call |
| `BlockHeap!Release/Use/Split/Join` | the writes of header and footer |
| `Ranges!node[lo]` | a `range_t`, named by its `lo` |
| `Payload!Index(size, x)` | `k` of `random_data[base + k]`, for the byte at offset x |
| `EvalMmValid!live`, `bad` | `trace->blocks` and `block_sizes`; the bytes that differ from `random_data` |
| `EvalMmValid!Accept` | the end of the cases ALLOC and REALLOC |
| `RunTests!trace = t`, `traces` | the `trace_t` read in iteration t; what is allocated |
| `Fcyc!sampler.values[k]` | `values[k-1]` |
| `RunTests!Proceed`, `AppError` | a statement that goes on; `app_error`, which ends the driver |
| `SizeMod` | 2^64, the values of a `size_t` |

Definitions commented *Variant* are the same step with a plausible mistake, kept
beside the original: with the variant in its place the named property fails.

## 8. Not modelled

- `clock.c`: one reading of a clock; the readings are `Readings`, any of them.
- `read_trace` and the trace files: a text is parsed and its fields are trusted.
  The traces are any sequence of operations here; what `reinit_trace` and
  `free_trace` do is part of the passes and of `RunTests`.
- `eval_libc_valid`, `eval_libc_speed`: the trace on the C library's malloc, which
  is not part of this repository, before any jump buffer is set.
- `eval_mm_speed`: the calls of `eval_mm_valid` without its checks. What they do
  to the heap is `Mm`; that they are timed, fail or are left is `RunTests`.
- How the reference throughput is measured or looked up, `driver.pl`,
  `callibrate.pl`: other programs and text. `RunTests` has any result.
- The debug level `DBG_NONE`: the range set stays empty and nothing is filled or
  compared, so there is nothing to say of it.
- Rounding: scores and averages are floating point in the source, hundredths here.
- `calloc`'s product at the width of `size_t`: `mm_wrap` has the sum in `malloc`;
  the product that wraps (mm.c:315) ends in the same call with a smaller size.
- What SIGALRM interrupts inside the C library.
- How deep splaying leaves the tree: that is about cost, not about answers.
- `mm_checkheap` and the debugging output: empty in the default build. The text
  of the reports.

## 9. Plan

Done: `Allocator`, `BlockHeap`, `Mm`, the refinements between them, with proofs
at both levels; `OrderedMap`, `Stree` with proofs; `Ranges`, `Payload`,
`EvalMmValid` with proofs; `RunTests` with `Fcyc` and `Score`, with proofs;
`MemLib` with proofs; `Utilization` with proofs.

Left:

1. `Mm`'s driver with `EvalMmValid`'s records in one specification, to see at
   which call the overlap of the stranded heap is reported. That it is reported
   or costs data follows from `EvalMmValid`, which has any allocator.
2. `read_trace`: which traces it accepts, and that the indices it checks stay in
   its arrays.
