------------------------------- MODULE Ranges -------------------------------
(***************************************************************************)
(* The overlap check of the driver (mdriver.c): add_range and remove_range *)
(* keep a record of every live payload, on a doubly linked list and in a   *)
(* splay tree keyed by lo, and add_range looks for overlaps through them.  *)
(* A record is named by its lo, which add_range keeps unique.              *)
(***************************************************************************)
EXTENDS Integers, FiniteSets

CONSTANTS
  HeapLo,      \* mem_heap_lo(), the address of the first byte of the heap
  HeapHi,      \* mem_heap_hi(), the address of the last one
  ALIGNMENT,   \* of config.h: 4, 8 or 16
  Addrs        \* the addresses an allocator may return

ASSUME HeapAssumption ==
  /\ HeapLo \in Nat \ {0} /\ HeapHi \in Nat /\ HeapLo < HeapHi
  /\ ALIGNMENT \in Nat \ {0} /\ Addrs \subseteq Nat \ {0} /\ IsFiniteSet(Addrs)

VARIABLE
  ranges       \* [list, node]; node: lo -> [hi, prev, next], what the tree holds

NULL == 0

new_range_set == [list |-> NULL, node |-> [lo \in {} |-> NULL]]

LoTree == INSTANCE OrderedMap
  WITH Keys <- Addrs, Records <- Addrs, result <- ranges,
       map <- [lo \in DOMAIN ranges.node |-> lo]

tree_find_nearest(r, lo) == LoTree!Nearest([l \in DOMAIN r.node |-> l], lo)

SetNext(r, lo, v) == [r EXCEPT !.node[lo].next = v]
SetPrev(r, lo, v) == IF lo = NULL THEN r ELSE [r EXCEPT !.node[lo].prev = v]

(***************************************************************************)
(* add_range: the checks in their order, then the record is linked behind  *)
(* prev.  Without a prev there is no next either: the list becomes the new *)
(* record alone, whatever it held.                                         *)
(***************************************************************************)
\* Variant: the block after is not looked at.
Check_before(r, lo, hi) ==
  LET prev == tree_find_nearest(r, lo)
  IN  CASE lo % ALIGNMENT # 0 -> "unaligned"
        [] lo % ALIGNMENT = 0 /\ (lo < HeapLo \/ hi > HeapHi) -> "outside"
        [] OTHER -> IF prev # NULL /\ lo <= r.node[prev].hi THEN "overlap" ELSE "ok"

Check(r, lo, hi) ==
  LET prev == tree_find_nearest(r, lo)
      next == IF prev = NULL THEN NULL ELSE r.node[prev].next
  IN  CASE lo % ALIGNMENT # 0 -> "unaligned"
        [] lo % ALIGNMENT = 0 /\ (lo < HeapLo \/ hi > HeapHi) -> "outside"
        [] OTHER -> IF \/ prev # NULL /\ lo <= r.node[prev].hi
                       \/ next # NULL /\ hi >= next
                    THEN "overlap" ELSE "ok"

\* Variants: the block after keeps its old prev; the block before its old next.
Record_stale(r, lo, hi) ==
  LET prev == tree_find_nearest(r, lo)
      next == IF prev = NULL THEN NULL ELSE r.node[prev].next
      p    == [hi |-> hi, prev |-> prev, next |-> next]
      g    == [r EXCEPT !.node = [l \in DOMAIN @ \cup {lo} |-> IF l = lo THEN p ELSE @[l]]]
  IN  IF prev = NULL THEN [g EXCEPT !.list = lo] ELSE SetNext(g, prev, lo)

Record_detached(r, lo, hi) ==
  LET prev == tree_find_nearest(r, lo)
      next == IF prev = NULL THEN NULL ELSE r.node[prev].next
      p    == [hi |-> hi, prev |-> prev, next |-> next]
      g    == [r EXCEPT !.node = [l \in DOMAIN @ \cup {lo} |-> IF l = lo THEN p ELSE @[l]]]
  IN  IF prev = NULL THEN [g EXCEPT !.list = lo] ELSE g

Record(r, lo, hi) ==
  LET prev == tree_find_nearest(r, lo)
      next == IF prev = NULL THEN NULL ELSE r.node[prev].next
      p    == [hi |-> hi, prev |-> prev, next |-> next]
      g    == [r EXCEPT !.node = [l \in DOMAIN @ \cup {lo} |-> IF l = lo THEN p ELSE @[l]]]
  IN  SetPrev(IF prev = NULL THEN [g EXCEPT !.list = lo] ELSE SetNext(g, prev, lo),
              next, lo)

add_range(r, lo, size) ==
  LET hi == lo + size - 1
  IN  IF Check(r, lo, hi) = "ok" THEN Record(r, lo, hi) ELSE r

\* Variants: the list keeps the record; the tree keeps it.
remove_range_listed(r, lo) ==
  IF lo \notin DOMAIN r.node THEN r
  ELSE [r EXCEPT !.node = [l \in DOMAIN @ \ {lo} |-> @[l]]]

remove_range_kept(r, lo) == r

remove_range(r, lo) ==
  IF lo \notin DOMAIN r.node THEN r
  ELSE LET p == r.node[lo]
           g == SetPrev(IF p.prev = NULL THEN [r EXCEPT !.list = p.next]
                        ELSE SetNext(r, p.prev, p.next),
                        p.next, p.prev)
       IN  [g EXCEPT !.node = [l \in DOMAIN @ \ {lo} |-> @[l]]]

\* The addresses met from ranges->list on, as the scan of DBG_EXPENSIVE does
OnList(r) ==
  LET at[n \in 0 .. Cardinality(Addrs)] ==
        IF n = 0 THEN r.list
        ELSE IF at[n - 1] = NULL THEN NULL ELSE r.node[at[n - 1]].next
  IN  {at[n] : n \in 0 .. Cardinality(Addrs)} \ {NULL}

\* Records that were dropped from the list still link to each other both ways
\* and in the order of their addresses, whatever the allocator returned: no
\* later removal follows a pointer to a freed record (mdriver.c:730-737, 753-761).
LinksMutual ==
  \A lo \in DOMAIN ranges.node :
    LET p == ranges.node[lo]
    IN  /\ p.next # NULL => p.next > lo /\ ranges.node[p.next].prev = lo
        /\ p.prev # NULL => p.prev < lo /\ ranges.node[p.prev].next = lo
        /\ ranges.list = lo => p.prev = NULL
=============================================================================
