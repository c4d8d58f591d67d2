---------------------------- MODULE Utilization ----------------------------
(***************************************************************************)
(* eval_mm_util (mdriver.c): passes over traces, with the allocator of     *)
(* BlockHeap, that compare the most bytes the client ever held with the    *)
(* most bytes the heap ever had.  The counters are unsigned.               *)
(***************************************************************************)
EXTENDS BlockHeap, Sums

\* The counters are as wide as an address.
ASSUME CounterAssumption == Limit < SizeMod

VARIABLES
  total_size,        \* the bytes the client holds
  max_total_size,    \* its high-water mark
  max_heap_size,     \* the high-water mark of mem_heapsize
  running            \* FALSE once an allocation has failed

counters == <<total_size, max_total_size, max_heap_size, running>>

Larger(a, b) == IF a > b THEN a ELSE b

\* mm_init asks for 32 bytes before the first page.
mem_heapsize(h) == h.brk - First + 32

\* The counters after an operation that changes the client's bytes by delta.
Account(delta) ==
  /\ total_size' = (total_size + delta) % SizeMod
  /\ max_total_size' = Larger(max_total_size, total_size')
  /\ max_heap_size' = Larger(max_heap_size, mem_heapsize(heap'))
  /\ UNCHANGED running

Alloc(n) == Malloc(n) /\ Account(n)

\* Variant: the old size is not taken off.
Resize_adds(p, n) ==
  /\ ReallocInPlace(p, n) \/ ReallocShrink(p, n) \/ ReallocMove(p, n)
  /\ Account(n)

Resize(p, n) ==
  /\ ReallocInPlace(p, n) \/ ReallocShrink(p, n) \/ ReallocMove(p, n)
  /\ Account(n - req[p])

\* Variant: what is freed is still counted.
Dispose_uncounted(p) == Free(p) /\ Account(0)

\* A free, or a realloc to no bytes.
Dispose(p) == Free(p) /\ Account(-req[p])

\* A free with index -1, or of an index whose block is gone.
DisposeNull == UNCHANGED vars /\ Account(0)

\* A malloc or realloc that fails ends the driver (app_error).
Abandon(n, more) ==
  /\ Exhaust(n, more)
  /\ running' = FALSE
  /\ UNCHANGED <<total_size, max_total_size, max_heap_size>>

\* The next trace: the heap is reset and the counters are new.
NextTrace ==
  /\ Reset
  /\ total_size' = 0 /\ max_total_size' = 0 /\ max_heap_size' = 0
  /\ UNCHANGED running

UtilInit ==
  /\ Init
  /\ total_size = 0 /\ max_total_size = 0 /\ max_heap_size = 0
  /\ running = TRUE

UtilNext ==
  /\ running
  /\ \/ \E n \in Requests : Alloc(n)
     \/ \E p \in DOMAIN req, n \in Requests : Resize(p, n)
     \/ \E p \in DOMAIN req : Dispose(p)
     \/ DisposeNull
     \/ \E n \in Requests, more \in Growths : Abandon(n, more)
     \/ NextTrace

UtilSpec == UtilInit /\ [][UtilNext]_<<vars, counters>>

(***************************************************************************)
(* Properties.                                                             *)
(***************************************************************************)
\* The requests in f, from one possible payload address to the next.
Places == Limit \div 16

Request(f, a) == IF a \in DOMAIN f THEN f[a] ELSE 0

Asked(f) == [k \in 1 .. Places |-> Request(f, 16 * (k - 1))]

Held == Total(Asked(req), Places)

\* The unsigned counter is the sum of the live requests, although realloc to a
\* smaller size adds a difference that has wrapped around (mdriver.c:1209-1242).
TotalExact == total_size = Held

\* "1 is optimal": the ratio never exceeds 1, and every operation leaves it
\* defined (mdriver.c:1163-1173, 1262).  Each payload has at least its own
\* bytes and two tags in the heap, at every moment up to the peak.
AtMostOne ==
  /\ max_total_size <= max_heap_size
  /\ req # NoReqs => max_heap_size > 0
=============================================================================
