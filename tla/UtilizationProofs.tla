-------------------------- MODULE UtilizationProofs --------------------------
(***************************************************************************)
(* The counters of eval_mm_util are exact and its ratio never exceeds 1,   *)
(* for every size of page, of heap and of request.                         *)
(***************************************************************************)
EXTENDS Utilization, BlockHeapProofs, Iteration

(***************************************************************************)
(* The sum of the requests.                                                *)
(***************************************************************************)
\* The sum of the requests in f below the address 16 * m.
Requested(f) == [m \in 0 .. Places |-> Total(Asked(f), m)]

\* The sum is a number below every place, and grows by the request at the place.
LEMMA RequestedFacts ==
  ASSUME NEW f, \A p \in DOMAIN f : f[p] \in Nat
  PROVE  /\ Requested(f) \in [0 .. Places -> Nat] /\ Requested(f)[0] = 0
         /\ \A k \in 1 .. Places :
              Requested(f)[k] = Requested(f)[k - 1] + Request(f, 16 * (k - 1))
<1> DEFINE w == Asked(f)
<1>1. Places \in Nat
  BY PlaceAssumption DEF Places
<1>2. \A k \in 1 .. Places : w[k] \in Nat /\ w[k] = Request(f, 16 * (k - 1))
  BY DEF Asked, Request
<1> HIDE DEF w
<1>3. /\ Total(w, 0) = 0
      /\ \A m \in 0 .. Places : Total(w, m) \in Nat
      /\ \A m \in 1 .. Places : Total(w, m) = Total(w, m - 1) + w[m]
  BY <1>1, <1>2, TotalSteps
<1>4. \A m \in 0 .. Places : Requested(f)[m] = Total(w, m)
  BY DEF Requested, w
<1>5. Requested(f) \in [0 .. Places -> Nat]
  BY <1>3 DEF Requested, w
<1>6. 0 \in 0 .. Places /\ \A k \in 1 .. Places : k \in 0 .. Places /\ k - 1 \in 0 .. Places
  BY <1>1
<1> QED BY <1>2, <1>3, <1>4, <1>5, <1>6

\* What the client holds is the sum over the whole heap.
LEMMA HeldSum == Held = Requested(req)[Places]
<1>1. Places \in 0 .. Places
  BY PlaceAssumption DEF Places
<1> QED BY <1>1 DEF Held, Requested

\* When two clients differ at one place only, so do their sums, and by that request.
LEMMA OneChange ==
  ASSUME NEW f, \A p \in DOMAIN f : f[p] \in Nat,
         NEW g, \A p \in DOMAIN g : g[p] \in Nat,
         NEW j \in 0 .. Places - 1,
         \A a : a # 16 * j => Request(g, a) = Request(f, a)
  PROVE  Requested(g)[Places] + Request(f, 16 * j) = Requested(f)[Places] + Request(g, 16 * j)
<1> DEFINE w == Asked(f)
           v == Asked(g)
           k == j + 1
<1>1. Places \in Nat
  BY PlaceAssumption DEF Places
<1>2. \A m \in 1 .. Places : w[m] \in Nat /\ w[m] = Request(f, 16 * (m - 1))
  BY DEF Asked, Request
<1>3. \A m \in 1 .. Places : v[m] \in Nat /\ v[m] = Request(g, 16 * (m - 1))
  BY DEF Asked, Request
<1>4. k \in 1 .. Places /\ 16 * (k - 1) = 16 * j
  BY <1>1
<1>5. \A m \in 1 .. Places : m # k => v[m] = w[m]
  <2> HIDE DEF w, v
  <2> SUFFICES ASSUME NEW m \in 1 .. Places, m # k PROVE v[m] = w[m]
    OBVIOUS
  <2>1. 16 * (m - 1) # 16 * j
    OBVIOUS
  <2> QED BY <1>2, <1>3, <2>1
<1> HIDE DEF w, v, k
<1>6. Total(v, Places) + w[k] = Total(w, Places) + v[k]
  BY <1>1, <1>2, <1>3, <1>4, <1>5, TotalOneChange
<1>7. Requested(g)[Places] = Total(v, Places) /\ Requested(f)[Places] = Total(w, Places)
  BY <1>1 DEF Requested, v, w
<1>8. w[k] = Request(f, 16 * j) /\ v[k] = Request(g, 16 * j)
  BY <1>2, <1>3, <1>4
<1> QED BY <1>6, <1>7, <1>8

(***************************************************************************)
(* The sum and the heap.                                                   *)
(***************************************************************************)
\* f is what a client holds whose requests fit the blocks they were given.
Fits(f, h) == /\ DOMAIN f = h.used
              /\ \A p \in DOMAIN f : f[p] \in Nat \ {0} /\ f[p] + 16 <= h.size[p]

\* All the requests together fit between the first block and the break.  Walking up
\* the heap, the requests below an address fit below the end of the block that the
\* address is in.
LEMMA SumFits ==
  ASSUME NEW h, Good(h), NEW f, Fits(f, h)
  PROVE  Requested(f)[Places] \in Nat /\ Requested(f)[Places] <= h.brk - First
<1> DEFINE R == Requested(f)
           Inside(m) == \E b \in Blocks(h) : b < 16 * m /\ 16 * m <= End(h, b)
                                             /\ R[m] <= End(h, b) - First
           S == {m \in Nat : m <= Places =>
                   /\ 16 * m <= First => R[m] = 0
                   /\ First < 16 * m /\ 16 * m <= h.brk => Inside(m)
                   /\ h.brk <= 16 * m => R[m] <= h.brk - First}
<1>1. Places \in Nat /\ First \in Nat /\ First % 16 = 0 /\ Limit \in Nat
  BY PlaceAssumption DEF Places
<1>2. /\ R \in [0 .. Places -> Nat] /\ R[0] = 0
      /\ \A k \in 1 .. Places : R[k] = R[k - 1] + Request(f, 16 * (k - 1))
  <2>1. \A p \in DOMAIN f : f[p] \in Nat
    BY DEF Fits
  <2> QED BY <2>1, RequestedFacts
<1> DEFINE Granular(x) == x \in Nat /\ x % 16 = 0
<1>3. /\ \A b \in Blocks(h) : /\ Granular(b) /\ Granular(End(h, b))
                              /\ First <= b /\ End(h, b) >= b + 32 /\ End(h, b) <= h.brk
                              /\ End(h, b) = h.brk \/ End(h, b) \in Blocks(h)
      /\ First \in Blocks(h) /\ Granular(h.brk) /\ h.brk <= Limit
  BY DEF Good, WF, Typed, Gapless, End
<1>32. /\ \A x : Granular(x) => x \in Nat
       /\ \A x, y : Granular(x) /\ Granular(y) /\ x < y => x + 16 <= y
       /\ \A m \in Nat : Granular(16 * m) /\ 16 * (m + 1) = 16 * m + 16
  OBVIOUS
<1> HIDE DEF Granular
<1>4. \A a : /\ Request(f, a) \in Nat
             /\ a \notin Blocks(h) => Request(f, a) = 0
             /\ a \in Blocks(h) => Request(f, a) <= End(h, a) - a
  <2> TAKE a
  <2>1. CASE a \in DOMAIN f
    <3>1. a \in Blocks(h) /\ f[a] \in Nat /\ f[a] + 16 <= h.size[a] /\ h.size[a] \in Nat /\ a \in Nat
      BY <2>1 DEF Fits, Good, WF, Typed
    <3> QED BY <2>1, <3>1 DEF Request, End
  <2>2. CASE a \notin DOMAIN f
    <3>1. a \in Blocks(h) => End(h, a) \in Nat /\ a \in Nat /\ End(h, a) >= a
      BY <1>3, <1>32
    <3> QED BY <2>2, <3>1 DEF Request
  <2> QED BY <2>1, <2>2
<1>5. \A a, b \in Blocks(h) : a < b => End(h, a) <= b
  BY DEF Good, WF, Disjoint
<1> HIDE DEF R
<1>31. h.brk \in Nat /\ First < h.brk
  <2>1. End(h, First) >= First + 32 /\ End(h, First) <= h.brk /\ End(h, First) \in Nat
    BY ONLY <1>3, <1>32
  <2> QED BY <1>1, <1>3, <1>32, <2>1
<1>6. 0 \in S
  BY <1>1, <1>2, <1>31
<1>7. ASSUME NEW m \in Nat, m \in S PROVE m + 1 \in S
  <2> SUFFICES ASSUME m + 1 <= Places
               PROVE  /\ 16 * (m + 1) <= First => R[m + 1] = 0
                      /\ First < 16 * (m + 1) /\ 16 * (m + 1) <= h.brk => Inside(m + 1)
                      /\ h.brk <= 16 * (m + 1) => R[m + 1] <= h.brk - First
    OBVIOUS
  <2>1. /\ m + 1 \in 1 .. Places /\ (m + 1) - 1 = m /\ m \in 0 .. Places /\ m + 1 \in 0 .. Places
        /\ R[m] \in Nat /\ R[m + 1] \in Nat
    BY <1>1, <1>2
  <2>2. R[m + 1] = R[m] + Request(f, 16 * m)
    BY <1>2, <2>1
  <2>3. /\ 16 * m <= First => R[m] = 0
        /\ First < 16 * m /\ 16 * m <= h.brk => Inside(m)
        /\ h.brk <= 16 * m => R[m] <= h.brk - First
    BY <1>1, <1>7
  <2>4. Request(f, 16 * m) \in Nat
    BY <1>4
  <2>5. CASE 16 * m < First
    <3>1. 16 * m \notin Blocks(h) /\ 16 * (m + 1) <= First /\ First < h.brk
      BY <1>1, <1>3, <1>32, <2>5
    <3>2. R[m + 1] = 0
      BY <1>1, <1>4, <2>2, <2>3, <2>5, <3>1
    <3> QED BY <1>1, <1>3, <1>32, <3>1, <3>2
  <2>6. CASE First <= 16 * m /\ 16 * m < h.brk
    <3>1. PICK b \in Blocks(h) : /\ b <= 16 * m /\ 16 * m < End(h, b)
                                 /\ R[m + 1] <= End(h, b) - First
      <4>1. CASE First = 16 * m
        BY <1>1, <1>3, <1>32, <1>4, <2>2, <2>3, <4>1
      <4>2. CASE First < 16 * m
        <5>1. PICK b \in Blocks(h) : b < 16 * m /\ 16 * m <= End(h, b) /\ R[m] <= End(h, b) - First
          BY <1>1, <1>31, <2>3, <2>6, <4>2
        <5>2. CASE 16 * m = End(h, b)
          <6>1. 16 * m \in Blocks(h) /\ End(h, 16 * m) > 16 * m
            BY <1>3, <1>32, <2>6, <5>2
          <6>2. Request(f, 16 * m) <= End(h, 16 * m) - 16 * m
            BY <1>4, <6>1
          <6>3. R[m + 1] <= End(h, 16 * m) - First
            BY <1>1, <1>3, <1>32, <2>1, <2>2, <2>4, <5>1, <5>2, <6>1, <6>2
          <6> QED BY <6>1, <6>3
        <5>3. CASE 16 * m < End(h, b)
          <6>1. 16 * m \notin Blocks(h)
            BY <1>3, <1>32, <1>5, <5>1, <5>3
          <6> QED BY <1>3, <1>32, <1>4, <2>1, <2>2, <5>1, <5>3, <6>1
        <5> QED BY <1>3, <1>32, <5>1, <5>2, <5>3
      <4> QED BY <1>1, <2>6, <4>1, <4>2
    <3>2. b < 16 * (m + 1) /\ 16 * (m + 1) <= End(h, b)
      BY <1>3, <1>32, <3>1
    <3>3. h.brk <= 16 * (m + 1) => R[m + 1] <= h.brk - First
      BY <1>1, <1>3, <1>32, <2>1, <3>1
    <3> QED BY <1>1, <2>6, <3>1, <3>2, <3>3
  <2>7. CASE h.brk <= 16 * m
    <3>1. 16 * m \notin Blocks(h)
      <4> SUFFICES ASSUME 16 * m \in Blocks(h) PROVE FALSE
        OBVIOUS
      <4>1. /\ End(h, 16 * m) \in Nat /\ End(h, 16 * m) >= 16 * m + 32
            /\ End(h, 16 * m) <= h.brk
        BY <1>3, <1>32
      <4> QED BY <1>31, <2>7, <4>1
    <3>2. R[m + 1] = R[m]
      BY <1>4, <2>1, <2>2, <3>1
    <3> QED BY <1>1, <1>3, <1>32, <2>3, <2>7, <3>2
  <2> QED BY <1>1, <1>3, <1>32, <2>5, <2>6, <2>7
<1>8. \A m \in Nat : m \in S
  <2> HIDE DEF S
  <2> QED BY <1>6, <1>7, Induction
<1>9. h.brk <= 16 * Places
  <2>1. 16 * Places + 16 > Limit
    BY <1>1 DEF Places
  <2>2. Granular(16 * Places) /\ 16 * Places \in Nat
    BY <1>1, <1>32
  <2>3. 16 * Places < h.brk => 16 * Places + 16 <= h.brk
    BY <1>3, <1>32, <2>2
  <2> QED BY <1>1, <1>3, <1>31, <2>1, <2>2, <2>3
<1>10. R[Places] \in Nat /\ R[Places] <= h.brk - First
  BY <1>1, <1>2, <1>8, <1>9
<1> QED BY <1>10 DEF R

(***************************************************************************)
(* The counters.                                                           *)
(***************************************************************************)
\* What is held changes by what a call gives, or takes back.
LEMMA HoldSum ==
  ASSUME NEW f, \A q \in DOMAIN f : f[q] \in Nat, NEW p \in Nat, p % 16 = 0, p < 16 * Places,
         NEW n \in Nat
  PROVE  Requested(Hold(f, p, n))[Places] = Requested(f)[Places] + n - Request(f, p)
<1> DEFINE g == Hold(f, p, n)
           j == p \div 16
<1>1. Places \in Nat
  BY PlaceAssumption DEF Places
<1>2. p = 16 * j /\ j \in 0 .. Places - 1
  BY <1>1
<1>3. \A q \in DOMAIN g : g[q] \in Nat
  BY DEF Hold
<1>4. \A a : Request(g, a) = IF a = p THEN n ELSE Request(f, a)
  BY DEF Request, Hold
<1> HIDE DEF g, j
<1>5. Requested(g)[Places] + Request(f, p) = Requested(f)[Places] + Request(g, p)
  BY <1>2, <1>3, <1>4, OneChange
<1>6. Requested(g)[Places] \in Nat /\ Requested(f)[Places] \in Nat
  <2>1. Requested(g) \in [0 .. Places -> Nat]
    BY <1>3, RequestedFacts
  <2>2. Requested(f) \in [0 .. Places -> Nat]
    BY RequestedFacts
  <2> QED BY <1>1, <2>1, <2>2
<1>7. Request(f, p) \in Nat
  BY DEF Request
<1> QED BY <1>4, <1>5, <1>6, <1>7 DEF g

\* The same for a block given back.
LEMMA DropSum ==
  ASSUME NEW f, \A q \in DOMAIN f : f[q] \in Nat, NEW p \in DOMAIN f, p \in Nat, p % 16 = 0,
         p < 16 * Places
  PROVE  Requested(Drop(f, p))[Places] = Requested(f)[Places] - f[p]
<1> DEFINE g == Drop(f, p)
           j == p \div 16
<1>1. Places \in Nat
  BY PlaceAssumption DEF Places
<1>2. p = 16 * j /\ j \in 0 .. Places - 1
  BY <1>1
<1>3. \A q \in DOMAIN g : g[q] \in Nat
  BY DEF Drop
<1>4. \A a : Request(g, a) = IF a = p THEN 0 ELSE Request(f, a)
  BY DEF Request, Drop
<1> HIDE DEF g, j
<1>5. Requested(g)[Places] + Request(f, p) = Requested(f)[Places] + Request(g, p)
  BY <1>2, <1>3, <1>4, OneChange
<1>6. Requested(g)[Places] \in Nat /\ Requested(f)[Places] \in Nat /\ Request(f, p) \in Nat
  BY <1>1, <1>3, RequestedFacts DEF Request
<1>7. Request(f, p) = f[p]
  BY DEF Request
<1> QED BY <1>4, <1>5, <1>6, <1>7 DEF g

\* The allocator of BlockHeap is all that changes the heap and the client.
LEMMA StepsOfHeap == [UtilNext]_<<vars, counters>> => [Next]_vars
BY DEF UtilNext, Alloc, Resize, Dispose, DisposeNull, Abandon, NextTrace, Next

\* The counters count what is held, and the peak of the heap is at least its size at
\* the peak of what was held.
Counted ==
  /\ total_size = Held
  /\ max_total_size \in Nat /\ max_heap_size \in Nat
  /\ AtMostOne

UtilIInv == IInv /\ Counted

Bounded == /\ Held \in Nat /\ Held <= heap.brk - First /\ Held < SizeMod
           /\ heap.brk \in Nat /\ heap.brk - First >= 0

\* The invariant of the heap bounds what is held by the size of the heap.
LEMMA HeldFits == IInv => Bounded
<1> SUFFICES ASSUME IInv PROVE Bounded
  OBVIOUS
<1>1. Good(heap) /\ Fits(req, heap)
  BY DEF IInv, Exact, Fits
<1>2. Held \in Nat /\ Held <= heap.brk - First
  BY <1>1, SumFits, HeldSum
<1>3. heap.brk \in Nat /\ heap.brk <= Limit
  BY <1>1 DEF Good, WF, Typed
<1> QED BY <1>2, <1>3, PlaceAssumption, CounterAssumption, RequestAssumption DEF Bounded

\* Nothing is held of no requests.
LEMMA NothingHeld == req = NoReqs => Held = 0
<1> SUFFICES ASSUME req = NoReqs PROVE Held = 0
  OBVIOUS
<1> DEFINE w == Asked(NoReqs)
<1>1. Places \in Nat
  BY PlaceAssumption DEF Places
<1>2. \A k \in 1 .. Places : w[k] = 0
  BY DEF Asked, Request, NoReqs
<1>3. Held = Total(w, Places)
  BY DEF Held
<1> HIDE DEF w
<1> QED BY <1>1, <1>2, <1>3, TotalZero

\* Nothing is held in the first state.
LEMMA UtilInitIInv == UtilInit => UtilIInv
BY InitIInv, NothingHeld DEF UtilInit, UtilIInv, Counted, AtMostOne, Init

\* The counters follow a call that changes what is held by delta, for the unsigned
\* sum wraps back, and the total stays under the size of the heap.
LEMMA AccountKeeps ==
  ASSUME UtilIInv, IInv', NEW delta \in Int, Account(delta), Held' = Held + delta
  PROVE  Counted'
<1>1. Held \in Nat
  BY HeldFits DEF UtilIInv, Bounded
<1>2. Held' \in Nat /\ Held' <= heap'.brk - First /\ Held' < SizeMod
  <2>1. Bounded'
    BY HeldFits, PTL
  <2> QED BY <2>1 DEF Bounded
<1>3. heap'.brk \in Nat /\ heap'.brk - First >= 0
  <2>1. Bounded'
    BY HeldFits, PTL
  <2> QED BY <2>1 DEF Bounded
<1>4. total_size' = Held'
  <2>1. total_size' = (Held + delta) % SizeMod
    BY DEF Account, UtilIInv, Counted
  <2> QED BY <1>2, <2>1, RequestAssumption, NoWrap
<1>5. mem_heapsize(heap') \in Nat /\ total_size' <= mem_heapsize(heap') /\ mem_heapsize(heap') > 0
  BY <1>2, <1>3, <1>4, PlaceAssumption DEF mem_heapsize
<1>6. /\ max_total_size \in Nat /\ max_heap_size \in Nat /\ max_total_size <= max_heap_size
      /\ max_total_size' = Larger(max_total_size, total_size')
      /\ max_heap_size' = Larger(max_heap_size, mem_heapsize(heap'))
  BY DEF UtilIInv, Counted, AtMostOne, Account
<1>7. /\ max_total_size' \in Nat /\ max_heap_size' \in Nat /\ max_heap_size' > 0
      /\ max_total_size' <= max_heap_size'
  BY <1>2, <1>4, <1>5, <1>6 DEF Larger
<1> QED BY <1>4, <1>7 DEF Counted, AtMostOne

\* A block of the heap is at one of the places.
LEMMA BlockPlace ==
  ASSUME NEW h, Good(h), NEW p \in Blocks(h)
  PROVE  p \in Nat /\ p % 16 = 0 /\ p < 16 * Places
<1>1. /\ p \in Nat /\ p % 16 = 0 /\ h.size[p] \in Nat /\ h.size[p] >= 32
      /\ p + h.size[p] <= h.brk /\ h.brk \in Nat /\ h.brk <= Limit
  BY DEF Good, WF, Typed, Gapless, End
<1>2. 16 * Places + 16 > Limit /\ Places \in Nat /\ Limit \in Nat
  BY PlaceAssumption DEF Places
<1> QED BY <1>1, <1>2

\* Every operation of a trace keeps the counters exact: one step for each.
LEMMA UtilNextIInv == UtilIInv /\ [UtilNext]_<<vars, counters>> => UtilIInv'
<1> SUFFICES ASSUME UtilIInv, [UtilNext]_<<vars, counters>> PROVE UtilIInv'
  OBVIOUS
<1>1. IInv /\ IInv'
  BY StepsOfHeap, NextIInv DEF UtilIInv
<1> SUFFICES Counted'
  BY <1>1 DEF UtilIInv
<1>2. /\ Good(heap) /\ DOMAIN req = heap.used /\ heap.used \subseteq Blocks(heap)
      /\ \A p \in DOMAIN req : req[p] \in Nat
  BY <1>1 DEF IInv, Exact, Good, WF, Typed
<1>3. Requested(req)[Places] \in Nat /\ Held = Requested(req)[Places]
  <2>1. Places \in Nat
    BY PlaceAssumption DEF Places
  <2> QED BY <1>2, <2>1, RequestedFacts, HeldSum
<1>4. Held' = Requested(req')[Places]
  BY PlaceAssumption DEF Held, Requested, Places
<1>5. ASSUME NEW n \in Requests, Alloc(n) PROVE Counted'
  <2>1. n \in Nat /\ BlockSize(n) \in Nat /\ BlockSize(n) % 16 = 0 /\ BlockSize(n) >= 32
    BY BlockSizeBound
  <2>2. PICK r \in Mallocs(heap, BlockSize(n)) : heap' = r.h /\ req' = Hold(req, r.p, n)
    BY <1>5 DEF Alloc, Malloc
  <2>3. Good(r.h) /\ r.p \notin heap.used /\ r.p \in Blocks(r.h)
    BY <1>2, <2>1, MallocGood
  <2>4. Request(req, r.p) = 0
    BY <1>2, <2>3 DEF Request
  <2>5. Held' = Held + n
    <3> DEFINE p == r.p
    <3>1. p \in Nat /\ p % 16 = 0 /\ p < 16 * Places
      BY <2>3, BlockPlace
    <3> HIDE DEF p
    <3>2. Requested(Hold(req, p, n))[Places] = Requested(req)[Places] + n - Request(req, p)
      BY <1>2, <2>1, <3>1, HoldSum
    <3> QED BY <1>3, <1>4, <2>1, <2>2, <2>4, <3>2 DEF p
  <2> QED BY <1>1, <1>5, <2>1, <2>5, AccountKeeps DEF Alloc
<1>6. ASSUME NEW p \in DOMAIN req, NEW n \in Requests, Resize(p, n) PROVE Counted'
  <2>1. n \in Nat /\ BlockSize(n) \in Nat /\ BlockSize(n) % 16 = 0 /\ BlockSize(n) >= 32
    BY BlockSizeBound
  <2>2. /\ p \in heap.used /\ p \in Nat /\ p % 16 = 0 /\ p < 16 * Places
        /\ req[p] \in Nat /\ Request(req, p) = req[p]
    BY <1>2, BlockPlace DEF Request
  <2>3. Held' = Held + (n - req[p])
    <3>1. CASE req' = Hold(req, p, n)
      <4>1. Requested(Hold(req, p, n))[Places] = Requested(req)[Places] + n - Request(req, p)
        BY <1>2, <2>1, <2>2, HoldSum
      <4> QED BY <1>3, <1>4, <2>1, <2>2, <3>1, <4>1
    <3>2. CASE ReallocMove(p, n)
      <4>1. PICK r \in Mallocs(heap, BlockSize(n)) : req' = Hold(Drop(req, p), r.p, n)
        BY <3>2 DEF ReallocMove
      <4>2. Good(r.h) /\ r.p \notin heap.used /\ r.p \in Blocks(r.h)
        BY <1>2, <2>1, MallocGood
      <4> DEFINE f == Drop(req, p)
                 q == r.p
      <4>3. Requested(f)[Places] = Requested(req)[Places] - req[p]
        BY <1>2, <2>2, DropSum
      <4>4. /\ \A a \in DOMAIN f : f[a] \in Nat
            /\ Request(f, q) = 0
        BY <1>2, <4>2 DEF Drop, Request
      <4>5. q \in Nat /\ q % 16 = 0 /\ q < 16 * Places
        BY <4>2, BlockPlace
      <4> HIDE DEF f, q
      <4>6. Requested(Hold(f, q, n))[Places] = Requested(f)[Places] + n - Request(f, q)
        BY <2>1, <4>4, <4>5, HoldSum
      <4>7. req' = Hold(f, q, n)
        BY <4>1 DEF f, q
      <4> QED BY <1>3, <1>4, <2>1, <2>2, <4>3, <4>4, <4>6, <4>7
    <3> QED BY <1>6, <3>1, <3>2 DEF Resize, ReallocInPlace, ReallocShrink
  <2>4. n - req[p] \in Int
    BY <2>1, <2>2
  <2> QED BY <1>1, <1>6, <2>3, <2>4, AccountKeeps DEF Resize
<1>7. ASSUME NEW p \in DOMAIN req, Dispose(p) PROVE Counted'
  <2>1. /\ p \in heap.used /\ p \in Nat /\ p % 16 = 0 /\ p < 16 * Places /\ req[p] \in Nat
    BY <1>2, BlockPlace
  <2>2. req' = Drop(req, p) /\ Account(-req[p])
    BY <1>7 DEF Dispose, Free
  <2>3. Requested(Drop(req, p))[Places] = Requested(req)[Places] - req[p]
    BY <1>2, <2>1, DropSum
  <2>4. -req[p] \in Int /\ Held' = Held + (-req[p])
    BY <1>3, <1>4, <2>1, <2>2, <2>3
  <2> QED BY <1>1, <2>2, <2>4, AccountKeeps
<1>8. CASE DisposeNull
  <2>1. 0 \in Int /\ Held' = Held + 0 /\ Account(0)
    BY <1>3, <1>4, <1>8 DEF DisposeNull, vars
  <2> QED BY <1>1, <2>1, AccountKeeps
<1>9. ASSUME NEW n \in Requests, NEW more \in Growths, Abandon(n, more) PROVE Counted'
  <2>1. UNCHANGED <<req, total_size, max_total_size, max_heap_size>>
    BY <1>9 DEF Abandon, Exhaust
  <2> QED BY <1>3, <1>4, <2>1 DEF UtilIInv, Counted, AtMostOne
<1>10. CASE NextTrace
  <2>1. /\ req' = NoReqs /\ total_size' = 0 /\ max_total_size' = 0 /\ max_heap_size' = 0
    BY <1>10 DEF NextTrace, Reset
  <2>2. (req = NoReqs)'
    BY <2>1
  <2>3. (Held = 0)'
    BY <2>2, NothingHeld, PTL
  <2>4. AtMostOne'
    BY <2>1 DEF AtMostOne
  <2> QED BY <2>1, <2>3, <2>4 DEF Counted
<1>11. CASE UNCHANGED <<vars, counters>>
  <2>1. UNCHANGED <<req, total_size, max_total_size, max_heap_size>>
    BY <1>11 DEF vars, counters
  <2> QED BY <1>3, <1>4, <2>1 DEF UtilIInv, Counted, AtMostOne
<1> QED BY <1>1, <1>5, <1>6, <1>7, <1>8, <1>9, <1>10, <1>11 DEF UtilNext

\* The invariant holds throughout every sequence of traces.
LEMMA UtilInvariance == UtilSpec => []UtilIInv
BY UtilInitIInv, UtilNextIInv, PTL DEF UtilSpec

\* What eval_mm_util counts in an unsigned integer is the sum of the live requests
\* at every moment, also after a realloc to a smaller size adds a difference that
\* has wrapped around (mdriver.c:1209-1242).
THEOREM TotalAlwaysExact == UtilSpec => []TotalExact
<1>1. UtilIInv => TotalExact
  BY DEF UtilIInv, Counted, TotalExact
<1> QED BY <1>1, UtilInvariance, PTL

\* The utilization never exceeds 1, and its denominator is not 0 once a request was
\* met (mdriver.c:1163-1173, 1262): the requests, with their tags, fit between the
\* first block and the break.
THEOREM UtilizationAtMostOne == UtilSpec => []AtMostOne
<1>1. UtilIInv => AtMostOne
  BY DEF UtilIInv, Counted
<1> QED BY <1>1, UtilInvariance, PTL

\* A pass over the traces is a run of the allocator: what is proved of BlockHeap
\* holds of it.
THEOREM UtilRunsHeap == UtilSpec => Spec
<1>1. UtilInit => Init
  BY DEF UtilInit
<1> QED BY <1>1, StepsOfHeap, PTL DEF UtilSpec, Spec
=============================================================================
