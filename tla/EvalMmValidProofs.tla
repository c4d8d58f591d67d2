-------------------------- MODULE EvalMmValidProofs --------------------------
(***************************************************************************)
(* What the validity check of a trace can be relied on for, whatever the   *)
(* allocator, the heap, the sizes and maxfill: the records stay linked to  *)
(* live records only; an allocator that keeps its contract is never        *)
(* reported; overlaps are reported, or cost data that is checked.          *)
(***************************************************************************)
EXTENDS EvalMmValid, Iteration, FiniteSetTheorems

(***************************************************************************)
(* The bytes that are filled.                                              *)
(***************************************************************************)
\* randomize_block fills the whole of a payload of at most twice maxfill.
LEMMA WrittenWhole ==
  ASSUME NEW size \in Nat \ {0}, size <= 2 * maxfill
  PROVE  Written(size) = 0 .. size - 1
BY FillAssumption DEF Written, fsize, block_end

\* It fills bytes of the payload only, and always the first one.
LEMMA WrittenBounds ==
  ASSUME NEW size \in Nat \ {0}
  PROVE  0 \in Written(size) /\ Written(size) \subseteq 0 .. size - 1
BY FillAssumption DEF Written, fsize, block_end

\* What a check after a realloc compares was filled with the same values, when the
\* payload had the old size.
LEMMA ComparableAfterRealloc ==
  ASSUME NEW was \in Nat \ {0}, NEW size \in Nat \ {0}, size <= was
  PROVE  check_index(size, was, {}, TRUE)
BY FillAssumption DEF check_index, Compared, Written, Index, fsize, block_end

\* A payload that nobody wrote to passes its check.
LEMMA UntouchedSurvives ==
  ASSUME NEW size
  PROVE  check_index(size, size, {}, FALSE)
BY DEF check_index, Compared

(***************************************************************************)
(* The nearest record at or below an address.                              *)
(***************************************************************************)
\* A set of records: lo is a field of the record only in so far as it is its name.
Recs(D)   == [hi : Int, prev : D \cup {NULL}, next : D \cup {NULL}]
Shapes(D) == [list : D \cup {NULL}, node : [D -> Recs(D)]]

Typed(r) == DOMAIN r.node \subseteq Addrs /\ r \in Shapes(DOMAIN r.node)

\* What tree_find_nearest returns: the greatest record at or below lo, or NULL when
\* there is none.
LEMMA NearestIsGreatest ==
  ASSUME NEW r, Typed(r), NEW lo \in Addrs
  PROVE  LET p == tree_find_nearest(r, lo)
         IN  \/ p = NULL /\ \A l \in DOMAIN r.node : lo < l
             \/ p \in DOMAIN r.node /\ p <= lo /\ \A l \in DOMAIN r.node : l <= lo => l <= p
<1> DEFINE D == DOMAIN r.node
           S == {k \in D : k <= lo}
           f == [l \in D |-> l]
<1>1. D \subseteq Nat \ {0} /\ lo \in Nat
  BY HeapAssumption DEF Typed
<1>2. LoTree!NotAbove(f, lo) = S
  BY DEF LoTree!NotAbove
<1>3. CASE S = {}
  <2>1. tree_find_nearest(r, lo) = NULL
    BY <1>2, <1>3 DEF tree_find_nearest, LoTree!Nearest, LoTree!NULL, NULL
  <2> QED BY <2>1, <1>1, <1>3
<1>4. CASE S # {}
  <2>1. S \subseteq 0 .. lo
    BY <1>1
  <2>2. \E x \in S : \A y \in S : y <= x
    BY <2>1, <1>1, <1>4, GreatestExists
  <2> DEFINE p == LoTree!Greatest(S)
  <2>3. p \in S /\ \A y \in S : y <= p
    BY <2>2 DEF LoTree!Greatest
  <2>4. tree_find_nearest(r, lo) = f[p]
    BY <1>2, <1>4 DEF tree_find_nearest, LoTree!Nearest
  <2>5. tree_find_nearest(r, lo) = p
    BY <2>3, <2>4
  <2> QED BY <2>3, <2>5, <1>1
<1> QED BY <1>3, <1>4

(***************************************************************************)
(* The records and their links.                                            *)
(***************************************************************************)
\* LinksMutual of the set r, whose records are not empty.
Linked(r) ==
  \A l \in DOMAIN r.node :
    LET p == r.node[l]
    IN  /\ p.hi >= l
        /\ p.next # NULL => p.next > l /\ r.node[p.next].prev = l
        /\ p.prev # NULL => p.prev < l /\ r.node[p.prev].next = l
        /\ r.list = l => p.prev = NULL

Sound(r) == Typed(r) /\ Linked(r)

\* In order and apart: the list begins with the least record, and each record is
\* followed by the next one above it.
Ordered(r) ==
  /\ \A l \in DOMAIN r.node : r.list # NULL /\ r.list <= l
  /\ \A l, m \in DOMAIN r.node :
       l < m => /\ r.node[l].next # NULL /\ r.node[l].next <= m
                /\ r.node[l].hi < m

\* What a range that passes the checks of add_range is known to be: there is no
\* record at lo, and the neighbours that were looked at are clear of it.
LEMMA CheckFacts ==
  ASSUME NEW r, Sound(r), NEW lo \in Addrs, NEW hi \in Int, Check(r, lo, hi) = "ok"
  PROVE  LET p == tree_find_nearest(r, lo)
         IN  /\ lo \notin DOMAIN r.node
             /\ p = NULL => \A l \in DOMAIN r.node : lo < l
             /\ p # NULL =>
                  /\ p \in DOMAIN r.node /\ p < lo /\ r.node[p].hi < lo
                  /\ \A l \in DOMAIN r.node : l <= lo => l <= p
                  /\ r.node[p].next # NULL => hi < r.node[p].next /\ lo < r.node[p].next
<1> DEFINE D == DOMAIN r.node
           p == tree_find_nearest(r, lo)
<1>1. /\ D \subseteq Nat \ {0} /\ lo \in Nat \ {0} /\ 0 \notin D
      /\ \A l \in D : r.node[l] \in Recs(D)
  BY HeapAssumption DEF Sound, Typed, Shapes
<1>2. \/ p = NULL /\ \A l \in D : lo < l
      \/ p \in D /\ p <= lo /\ \A l \in D : l <= lo => l <= p
  BY NearestIsGreatest DEF Sound
<1>3. /\ ~ (p # NULL /\ lo <= r.node[p].hi)
      /\ p # NULL => ~ (r.node[p].next # NULL /\ hi >= r.node[p].next)
  BY DEF Check
<1> HIDE DEF p
<1>4. CASE p = NULL
  BY <1>1, <1>2, <1>4 DEF p, NULL
<1>5. CASE p # NULL
  <2>1. p \in D /\ p <= lo /\ \A l \in D : l <= lo => l <= p
    BY <1>2, <1>5
  <2>2. /\ r.node[p].hi \in Int /\ r.node[p].next \in D \cup {NULL}
        /\ r.node[p].hi >= p
        /\ r.node[p].next # NULL => r.node[p].next > p
    BY <2>1, <1>1 DEF Recs, Sound, Linked
  <2>3. r.node[p].hi < lo /\ p < lo
    BY <2>1, <2>2, <1>1, <1>3, <1>5
  <2>4. lo \notin D
    BY <2>1, <2>3, <1>1
  <2>5. r.node[p].next # NULL => hi < r.node[p].next /\ lo < r.node[p].next
    BY <2>1, <2>2, <1>1, <1>3, <1>5
  <2> QED BY <1>5, <2>1, <2>3, <2>4, <2>5 DEF p
<1> QED BY <1>4, <1>5

\* A set with the list a and the records f, after a store to one of its links.
LEMMA StoreEffect ==
  ASSUME NEW E, NEW a, NEW f \in [E -> Recs(E)], NEW e \in E, e # NULL, NEW v \in E \cup {NULL},
         NEW r, r = [list |-> a, node |-> f]
  PROVE  /\ SetNext(r, e, v) =
              [list |-> a,
               node |-> [l \in E |-> IF l = e THEN [hi |-> f[l].hi, prev |-> f[l].prev, next |-> v]
                                     ELSE f[l]]]
         /\ SetPrev(r, e, v) =
              [list |-> a,
               node |-> [l \in E |-> IF l = e THEN [hi |-> f[l].hi, prev |-> v, next |-> f[l].next]
                                     ELSE f[l]]]
<1>1. f[e] = [hi |-> f[e].hi, prev |-> f[e].prev, next |-> f[e].next]
  BY DEF Recs
<1>2. /\ [f[e] EXCEPT !.next = v] = [hi |-> f[e].hi, prev |-> f[e].prev, next |-> v]
      /\ [f[e] EXCEPT !.prev = v] = [hi |-> f[e].hi, prev |-> v, next |-> f[e].next]
  BY DEF Recs
<1>3. /\ SetNext(r, e, v) = [r EXCEPT !.node = [f EXCEPT ![e] = [f[e] EXCEPT !.next = v]]]
      /\ SetPrev(r, e, v) = [r EXCEPT !.node = [f EXCEPT ![e] = [f[e] EXCEPT !.prev = v]]]
  BY DEF SetNext, SetPrev
<1>4. \A y : [r EXCEPT !.node = y] = [list |-> a, node |-> y]
  OBVIOUS
<1>5. \A y : [f EXCEPT ![e] = y] = [l \in E |-> IF l = e THEN y ELSE f[l]]
  OBVIOUS
<1>6. /\ SetNext(r, e, v) =
           [list |-> a, node |-> [l \in E |-> IF l = e THEN [f[e] EXCEPT !.next = v] ELSE f[l]]]
      /\ SetPrev(r, e, v) =
           [list |-> a, node |-> [l \in E |-> IF l = e THEN [f[e] EXCEPT !.prev = v] ELSE f[l]]]
  BY <1>3, <1>4, <1>5
<1> QED BY <1>6, <1>2

\* The records of f beside one at lo, between prev and next.
Between(f, lo, hi, prev, next) ==
  [l \in DOMAIN f \cup {lo} |->
     [hi   |-> IF l = lo THEN hi ELSE f[l].hi,
      prev |-> IF l = lo THEN prev ELSE IF l = next THEN lo ELSE f[l].prev,
      next |-> IF l = lo THEN next ELSE IF l = prev THEN lo ELSE f[l].next]]

\* What add_range changes: the new record, the next of the one before and the prev
\* of the one after, and the list when there is none before.
LEMMA RecordEffect ==
  ASSUME NEW r, Typed(r), NEW lo \in Addrs, lo \notin DOMAIN r.node, NEW hi \in Int,
         NEW prev, NEW next, prev = tree_find_nearest(r, lo),
         prev \in DOMAIN r.node \cup {NULL},
         next = IF prev = NULL THEN NULL ELSE r.node[prev].next,
         next \in DOMAIN r.node \cup {NULL}
  PROVE  Record(r, lo, hi) = [list |-> IF prev = NULL THEN lo ELSE r.list,
                              node |-> Between(r.node, lo, hi, prev, next)]
<1> DEFINE f == r.node
           a == IF prev = NULL THEN lo ELSE r.list
           E == DOMAIN f \cup {lo}
           n == [l \in E |-> IF l = lo THEN [hi |-> hi, prev |-> prev, next |-> next] ELSE f[l]]
           m == [l \in E |-> IF l = prev THEN [hi |-> n[l].hi, prev |-> n[l].prev, next |-> lo]
                             ELSE n[l]]
           q == [l \in E |-> IF l = next THEN [hi |-> m[l].hi, prev |-> lo, next |-> m[l].next]
                             ELSE m[l]]
           g == [r EXCEPT !.node = n]
           k == IF prev = NULL THEN [g EXCEPT !.list = lo] ELSE SetNext(g, prev, lo)
<1>1. /\ NULL \notin E /\ NULL # lo
      /\ r = [list |-> r.list, node |-> f]
      /\ \A l \in DOMAIN f : /\ f[l] \in Recs(DOMAIN f)
                             /\ f[l] = [hi |-> f[l].hi, prev |-> f[l].prev, next |-> f[l].next]
  BY HeapAssumption DEF Typed, Shapes, Recs, NULL
<1>2. n \in [E -> Recs(E)]
  BY <1>1 DEF Recs
<1>3. m \in [E -> Recs(E)]
  BY <1>2 DEF Recs
<1>4. g = [list |-> r.list, node |-> n]
  <2> HIDE DEF n, f
  <2> QED BY <1>1
<1>5. k = [list |-> a, node |-> m]
  <2>1. CASE prev = NULL
    <3>1. m = n
      BY <2>1, <1>1
    <3>2. k = [g EXCEPT !.list = lo]
      BY <2>1
    <3> HIDE DEF n, m, g, k
    <3> QED BY <3>1, <3>2, <1>4, <2>1
  <2>2. CASE prev # NULL
    <3>1. prev \in E /\ lo \in E \cup {NULL}
      BY <2>2
    <3>2. k = SetNext(g, prev, lo) /\ a = r.list
      BY <2>2
    <3>3. SetNext(g, prev, lo) =
            [list |-> r.list,
             node |-> [l \in E |-> IF l = prev THEN [hi |-> n[l].hi, prev |-> n[l].prev, next |-> lo]
                                   ELSE n[l]]]
      <4> DEFINE b == r.list
      <4>1. g = [list |-> b, node |-> n]
        BY <1>4
      <4> HIDE DEF n, g, E, b
      <4>2. SetNext(g, prev, lo) =
              [list |-> b,
               node |-> [l \in E |-> IF l = prev
                                     THEN [hi |-> n[l].hi, prev |-> n[l].prev, next |-> lo]
                                     ELSE n[l]]]
        BY ONLY <3>1, <2>2, <1>2, <4>1, StoreEffect, SMTT(30)
      <4> QED BY <4>2 DEF b
    <3> QED BY ONLY <3>2, <3>3 DEF m
  <2> QED BY <2>1, <2>2
<1>6. Record(r, lo, hi) = SetPrev(k, next, lo)
  BY DEF Record
<1>7. Record(r, lo, hi) = [list |-> a, node |-> q]
  <2>1. CASE next = NULL
    <3>1. q = m
      BY <2>1, <1>1
    <3>2. Record(r, lo, hi) = k
      BY <2>1, <1>6 DEF SetPrev
    <3> HIDE DEF q, m, k
    <3> QED BY <3>1, <3>2, <1>5
  <2>2. CASE next # NULL
    <3>1. next \in E /\ lo \in E \cup {NULL}
      BY <2>2
    <3>2. SetPrev(k, next, lo) =
            [list |-> a,
             node |-> [l \in E |-> IF l = next THEN [hi |-> m[l].hi, prev |-> lo, next |-> m[l].next]
                                   ELSE m[l]]]
      <4> HIDE DEF m, k, E, a
      <4> QED BY ONLY <3>1, <2>2, <1>3, <1>5, StoreEffect
    <3> QED BY ONLY <3>2, <1>6 DEF q
  <2> QED BY <2>1, <2>2
<1>8. q = Between(f, lo, hi, prev, next)
  BY <1>1 DEF Between
<1> QED BY <1>7, <1>8

\* The records of f without the one at lo, whose neighbours are linked to each other.
Without(f, lo) ==
  [l \in DOMAIN f \ {lo} |->
     [hi   |-> f[l].hi,
      prev |-> IF l = f[lo].next THEN f[lo].prev ELSE f[l].prev,
      next |-> IF l = f[lo].prev THEN f[lo].next ELSE f[l].next]]

\* What remove_range changes.
LEMMA RemoveEffect ==
  ASSUME NEW r, Typed(r), NEW lo \in DOMAIN r.node
  PROVE  remove_range(r, lo) =
           [list |-> IF r.node[lo].prev = NULL THEN r.node[lo].next ELSE r.list,
            node |-> Without(r.node, lo)]
<1> DEFINE f == r.node
           E == DOMAIN f
           prev == f[lo].prev
           next == f[lo].next
           a == IF prev = NULL THEN next ELSE r.list
           m == [l \in E |-> IF l = prev THEN [hi |-> f[l].hi, prev |-> f[l].prev, next |-> next]
                             ELSE f[l]]
           q == [l \in E |-> IF l = next THEN [hi |-> m[l].hi, prev |-> prev, next |-> m[l].next]
                             ELSE m[l]]
           k == IF prev = NULL THEN [r EXCEPT !.list = next] ELSE SetNext(r, prev, next)
           g == SetPrev(k, next, prev)
<1>1. /\ NULL \notin E /\ prev \in E \cup {NULL} /\ next \in E \cup {NULL}
      /\ r = [list |-> r.list, node |-> f] /\ f \in [E -> Recs(E)]
      /\ \A l \in E : f[l] = [hi |-> f[l].hi, prev |-> f[l].prev, next |-> f[l].next]
  BY HeapAssumption DEF Typed, Shapes, Recs, NULL
<1>2. m \in [E -> Recs(E)]
  BY <1>1 DEF Recs
<1>3. k = [list |-> a, node |-> m]
  <2>1. CASE prev = NULL
    <3>1. m = f
      BY <2>1, <1>1
    <3>2. k = [r EXCEPT !.list = next]
      BY <2>1
    <3> HIDE DEF f, m, k, next
    <3> QED BY <3>1, <3>2, <1>1, <2>1
  <2>2. CASE prev # NULL
    <3>1. prev \in E
      BY <2>2, <1>1
    <3>2. k = SetNext(r, prev, next) /\ a = r.list
      BY <2>2
    <3>3. SetNext(r, prev, next) =
            [list |-> r.list,
             node |-> [l \in E |-> IF l = prev THEN [hi |-> f[l].hi, prev |-> f[l].prev, next |-> next]
                                   ELSE f[l]]]
      <4> HIDE DEF f, E, prev, next
      <4> QED BY ONLY <3>1, <2>2, <1>1, StoreEffect
    <3> QED BY ONLY <3>2, <3>3 DEF m
  <2> QED BY <2>1, <2>2
<1>4. g = [list |-> a, node |-> q]
  <2>1. CASE next = NULL
    <3>1. q = m
      BY <2>1, <1>1
    <3>2. g = k
      BY <2>1 DEF SetPrev
    <3> HIDE DEF q, m, k, g
    <3> QED BY <3>1, <3>2, <1>3
  <2>2. CASE next # NULL
    <3>1. next \in E /\ prev \in E \cup {NULL}
      BY <2>2, <1>1
    <3>2. SetPrev(k, next, prev) =
            [list |-> a,
             node |-> [l \in E |-> IF l = next THEN [hi |-> m[l].hi, prev |-> prev, next |-> m[l].next]
                                   ELSE m[l]]]
      <4> HIDE DEF m, k, E, a, prev, next
      <4> QED BY ONLY <3>1, <2>2, <1>2, <1>3, StoreEffect
    <3> QED BY ONLY <3>2 DEF q, g
  <2> QED BY <2>1, <2>2
<1>5. remove_range(r, lo) = [g EXCEPT !.node = [l \in DOMAIN g.node \ {lo} |-> g.node[l]]]
  BY DEF remove_range
<1>6. remove_range(r, lo) = [list |-> a, node |-> [l \in E \ {lo} |-> q[l]]]
  <2>1. DOMAIN q = E
    OBVIOUS
  <2> HIDE DEF q, g, E
  <2> QED BY <1>4, <1>5, <2>1
<1>7. [l \in E \ {lo} |-> q[l]] = Without(f, lo)
  BY <1>1 DEF Without
<1> QED BY <1>6, <1>7

\* A range that passes the checks is recorded, the others keep their extents, the
\* links stay mutual, and the list stays in order unless the range went below all.
LEMMA RecordKeeps ==
  ASSUME NEW r, Sound(r), NEW lo \in Addrs, NEW hi \in Int, hi >= lo, Check(r, lo, hi) = "ok",
         NEW s, s = Record(r, lo, hi)
  PROVE  /\ Sound(s)
         /\ lo \notin DOMAIN r.node /\ DOMAIN s.node = DOMAIN r.node \cup {lo}
         /\ s.node[lo].hi = hi /\ \A l \in DOMAIN r.node : s.node[l].hi = r.node[l].hi
         /\ Above(r, lo) /\ Ordered(r) => Ordered(s)
<1> DEFINE D == DOMAIN r.node
           E == D \cup {lo}
           f == r.node
<1>1. PICK p : p = tree_find_nearest(r, lo)
  OBVIOUS
<1>2. PICK x : x = IF p = NULL THEN NULL ELSE f[p].next
  OBVIOUS
<1>3. /\ D \subseteq Nat \ {0} /\ lo \in Nat \ {0} /\ NULL = 0
      /\ r.list \in D \cup {NULL}
      /\ \A l \in D : /\ f[l].hi \in Int /\ f[l].prev \in D \cup {NULL}
                      /\ f[l].next \in D \cup {NULL}
  BY HeapAssumption DEF Sound, Typed, Shapes, Recs, NULL
<1>4. /\ lo \notin D
      /\ p = NULL => \A l \in D : lo < l
      /\ p # NULL => /\ p \in D /\ p < lo /\ f[p].hi < lo
                     /\ \A l \in D : l <= lo => l <= p
                     /\ x # NULL => hi < x /\ lo < x
  BY <1>1, <1>2, CheckFacts
<1>5. p \in D \cup {NULL} /\ x \in D \cup {NULL} /\ (p = NULL => x = NULL)
  BY <1>2, <1>3, <1>4
<1>6. s = [list |-> IF p = NULL THEN lo ELSE r.list, node |-> Between(f, lo, hi, p, x)]
  BY <1>1, <1>2, <1>4, <1>5, RecordEffect DEF Sound
<1>7. /\ DOMAIN s.node = E /\ s.list = (IF p = NULL THEN lo ELSE r.list)
      /\ s.node[lo] = [hi |-> hi, prev |-> p, next |-> x]
      /\ \A l \in D : s.node[l] = [hi |-> f[l].hi,
                                   prev |-> IF l = x THEN lo ELSE f[l].prev,
                                   next |-> IF l = p THEN lo ELSE f[l].next]
  BY <1>4, <1>6 DEF Between
<1>8. /\ s.node[lo].hi = hi /\ s.node[lo].prev = p /\ s.node[lo].next = x
      /\ \A l \in D : /\ s.node[l].hi = f[l].hi
                      /\ s.node[l].prev = (IF l = x THEN lo ELSE f[l].prev)
                      /\ s.node[l].next = (IF l = p THEN lo ELSE f[l].next)
  <2>1. s.node[lo].hi = hi /\ s.node[lo].prev = p /\ s.node[lo].next = x
    BY <1>7
  <2>2. ASSUME NEW l \in D
        PROVE  /\ s.node[l].hi = f[l].hi
               /\ s.node[l].prev = (IF l = x THEN lo ELSE f[l].prev)
               /\ s.node[l].next = (IF l = p THEN lo ELSE f[l].next)
    <3>1. s.node[l] = [hi |-> f[l].hi,
                       prev |-> IF l = x THEN lo ELSE f[l].prev,
                       next |-> IF l = p THEN lo ELSE f[l].next]
      BY <1>7
    <3> QED BY ONLY <3>1
  <2> QED BY <2>1, <2>2
<1>9. Typed(s)
  <2>1. /\ s = [list |-> s.list, node |-> s.node] /\ s.node = [l \in E |-> s.node[l]]
        /\ s.list \in E \cup {NULL}
    BY <1>3, <1>6, <1>7 DEF Between
  <2>2. \A l \in E : s.node[l] \in Recs(E)
    <3>1. s.node[lo] \in Recs(E)
      BY <1>5, <1>7 DEF Recs
    <3>2. ASSUME NEW l \in D PROVE s.node[l] \in Recs(E)
      <4>1. s.node[l] = [hi |-> f[l].hi,
                         prev |-> IF l = x THEN lo ELSE f[l].prev,
                         next |-> IF l = p THEN lo ELSE f[l].next]
        BY <1>7
      <4>2. /\ f[l].hi \in Int
            /\ (IF l = x THEN lo ELSE f[l].prev) \in E \cup {NULL}
            /\ (IF l = p THEN lo ELSE f[l].next) \in E \cup {NULL}
        BY <1>3
      <4> QED BY ONLY <4>1, <4>2 DEF Recs
    <3> QED BY <3>1, <3>2
  <2>3. s.node \in [E -> Recs(E)]
    BY <2>1, <2>2
  <2> QED BY <1>7, <2>1, <2>3 DEF Typed, Shapes, Sound
<1>10. \A l \in D : /\ f[l].hi >= l
                    /\ f[l].next # NULL => f[l].next > l /\ f[f[l].next].prev = l
                    /\ f[l].prev # NULL => f[l].prev < l /\ f[f[l].prev].next = l
                    /\ r.list = l => f[l].prev = NULL
  BY DEF Sound, Linked
<1>11. Linked(s)
  <2>1. ASSUME NEW l \in E
        PROVE  s.node[l].next # NULL => s.node[l].next > l /\ s.node[s.node[l].next].prev = l
    <3>1. CASE l = lo
      BY <3>1, <1>3, <1>4, <1>5, <1>8
    <3>2. CASE l # lo /\ l = p
      BY <3>2, <1>3, <1>4, <1>8
    <3>3. CASE l # lo /\ l # p
      <4>1. l \in D /\ s.node[l].next = f[l].next
        BY <3>3, <1>8
      <4>2. f[l].next # NULL => f[l].next # x
        BY <3>3, <4>1, <1>2, <1>3, <1>4, <1>10
      <4> QED BY <4>1, <4>2, <1>3, <1>8, <1>10
    <3> QED BY <3>1, <3>2, <3>3
  <2>2. ASSUME NEW l \in E
        PROVE  s.node[l].prev # NULL => s.node[l].prev < l /\ s.node[s.node[l].prev].next = l
    <3>1. CASE l = lo
      BY <3>1, <1>3, <1>4, <1>5, <1>8
    <3>2. CASE l # lo /\ l = x
      BY <3>2, <1>3, <1>4, <1>5, <1>8
    <3>3. CASE l # lo /\ l # x
      <4>1. l \in D /\ s.node[l].prev = f[l].prev
        BY <3>3, <1>8
      <4>2. f[l].prev # NULL => f[l].prev # p
        BY <3>3, <4>1, <1>2, <1>3, <1>4, <1>10
      <4> QED BY <4>1, <4>2, <1>3, <1>8, <1>10
    <3> QED BY <3>1, <3>2, <3>3
  <2>3. ASSUME NEW l \in E, s.list = l PROVE s.node[l].prev = NULL
    <3>1. CASE p = NULL
      BY <3>1, <2>3, <1>7, <1>8
    <3>2. CASE p # NULL
      <4>1. r.list = l /\ l \in D
        BY <3>2, <2>3, <1>3, <1>4, <1>7
      <4>2. l # x
        BY <3>2, <4>1, <1>2, <1>3, <1>4, <1>10
      <4> QED BY <4>1, <4>2, <1>8, <1>10
    <3> QED BY <3>1, <3>2
  <2>4. \A l \in E : s.node[l].hi >= l
    BY <1>8, <1>10
  <2> QED BY <2>1, <2>2, <2>3, <2>4, <1>7 DEF Linked
<1>12. ASSUME Above(r, lo), Ordered(r) PROVE Ordered(s)
  <2>1. D = {} \/ p # NULL
    BY <1>1, <1>12 DEF Above
  <2>2. \A l, m \in D : l < m => f[l].next # NULL /\ f[l].next <= m /\ f[l].hi < m
    BY <1>12 DEF Ordered
  <2>3. ASSUME NEW l \in E, NEW m \in E, l < m
        PROVE  s.node[l].next # NULL /\ s.node[l].next <= m /\ s.node[l].hi < m
    <3>1. p # NULL /\ p \in D /\ p < lo
      BY <2>1, <2>3, <1>3, <1>4
    <3>2. CASE l = lo
      <4>1. m \in D /\ p < m
        BY <3>1, <3>2, <2>3, <1>3, <1>4
      <4>2. x # NULL /\ x <= m
        BY <3>1, <4>1, <2>2, <1>2
      <4> QED BY <3>1, <3>2, <4>1, <4>2, <1>3, <1>4, <1>5, <1>8
    <3>3. CASE l # lo /\ m = lo
      <4>1. l \in D /\ l <= p
        BY <3>3, <2>3, <3>1, <1>3, <1>4
      <4>2. CASE l = p
        BY <4>2, <3>1, <3>3, <1>3, <1>4, <1>8
      <4>3. CASE l # p
        <5>1. f[l].next # NULL /\ f[l].next <= p /\ f[l].hi < p
          BY <4>1, <4>3, <3>1, <2>2, <1>3
        <5> QED BY <5>1, <4>1, <4>3, <3>1, <3>3, <1>3, <1>8
      <4> QED BY <4>2, <4>3
    <3>4. CASE l # lo /\ m # lo
      <4>1. l \in D /\ m \in D /\ f[l].next # NULL /\ f[l].next <= m /\ f[l].hi < m
        BY <3>4, <2>2, <2>3
      <4>2. l = p => lo <= m
        BY <4>1, <2>3, <3>1, <1>3, <1>4
      <4> QED BY <4>1, <4>2, <1>3, <1>8
    <3> QED BY <3>2, <3>3, <3>4
  <2>4. ASSUME NEW l \in E PROVE s.list # NULL /\ s.list <= l
    <3>1. CASE p = NULL
      BY <2>1, <3>1, <1>3, <1>7
    <3>2. CASE p # NULL
      <4>1. s.list = r.list /\ p \in D /\ p < lo
        BY <3>2, <1>4, <1>7
      <4>2. \A m \in D : r.list # NULL /\ r.list <= m
        BY <1>12 DEF Ordered
      <4> QED BY <4>1, <4>2, <1>3
    <3> QED BY <3>1, <3>2
  <2> QED BY <2>3, <2>4, <1>7 DEF Ordered
<1> QED BY <1>4, <1>7, <1>8, <1>9, <1>11, <1>12 DEF Sound

\* Taking a record out leaves the others with their extents, mutual links and order.
LEMMA RemoveKeeps ==
  ASSUME NEW r, Sound(r), NEW lo \in DOMAIN r.node, NEW s, s = remove_range(r, lo)
  PROVE  /\ Sound(s)
         /\ DOMAIN s.node = DOMAIN r.node \ {lo}
         /\ \A l \in DOMAIN s.node : s.node[l].hi = r.node[l].hi
         /\ Ordered(r) => Ordered(s)
<1> DEFINE D == DOMAIN r.node
           E == D \ {lo}
           f == r.node
<1>1. PICK p : p = f[lo].prev
  OBVIOUS
<1>2. PICK x : x = f[lo].next
  OBVIOUS
<1>3. /\ D \subseteq Nat \ {0} /\ lo \in Nat \ {0} /\ NULL = 0
      /\ r.list \in D \cup {NULL}
      /\ \A l \in D : /\ f[l].hi \in Int /\ f[l].prev \in D \cup {NULL}
                      /\ f[l].next \in D \cup {NULL}
  BY HeapAssumption DEF Sound, Typed, Shapes, Recs, NULL
<1>4. \A l \in D : /\ f[l].hi >= l
                   /\ f[l].next # NULL => f[l].next > l /\ f[f[l].next].prev = l
                   /\ f[l].prev # NULL => f[l].prev < l /\ f[f[l].prev].next = l
                   /\ r.list = l => f[l].prev = NULL
  BY DEF Sound, Linked
<1>5. s = [list |-> IF p = NULL THEN x ELSE r.list, node |-> Without(f, lo)]
  BY <1>1, <1>2, RemoveEffect DEF Sound
<1>6. /\ DOMAIN s.node = E /\ s.list = (IF p = NULL THEN x ELSE r.list)
      /\ \A l \in E : s.node[l] = [hi |-> f[l].hi,
                                   prev |-> IF l = x THEN p ELSE f[l].prev,
                                   next |-> IF l = p THEN x ELSE f[l].next]
  BY <1>1, <1>2, <1>5 DEF Without
<1>7. \A l \in E : /\ s.node[l].hi = f[l].hi
                   /\ s.node[l].prev = (IF l = x THEN p ELSE f[l].prev)
                   /\ s.node[l].next = (IF l = p THEN x ELSE f[l].next)
  <2>1. TAKE l \in E
  <2>2. s.node[l] = [hi |-> f[l].hi,
                     prev |-> IF l = x THEN p ELSE f[l].prev,
                     next |-> IF l = p THEN x ELSE f[l].next]
    BY <1>6
  <2> QED BY ONLY <2>2
<1>8. /\ p \in E \cup {NULL} /\ (p # NULL => p < lo /\ f[p].next = lo)
      /\ x \in E \cup {NULL} /\ (x # NULL => x > lo /\ f[x].prev = lo)
  BY <1>1, <1>2, <1>3, <1>4
<1>9. \A l \in E : /\ l # p => f[l].next # lo
                   /\ l # x => f[l].prev # lo
  BY <1>1, <1>2, <1>3, <1>4
<1>10. Typed(s)
  <2>1. /\ s = [list |-> s.list, node |-> s.node] /\ s.node = [l \in E |-> s.node[l]]
    BY <1>5, <1>6 DEF Without
  <2>2. s.list \in E \cup {NULL}
    BY <1>1, <1>3, <1>4, <1>6, <1>8
  <2>3. \A l \in E : s.node[l] \in Recs(E)
    <3>1. TAKE l \in E
    <3>2. s.node[l] = [hi |-> f[l].hi,
                       prev |-> IF l = x THEN p ELSE f[l].prev,
                       next |-> IF l = p THEN x ELSE f[l].next]
      BY <1>6
    <3>3. /\ f[l].hi \in Int
          /\ (IF l = x THEN p ELSE f[l].prev) \in E \cup {NULL}
          /\ (IF l = p THEN x ELSE f[l].next) \in E \cup {NULL}
      BY <1>3, <1>8, <1>9
    <3> QED BY ONLY <3>2, <3>3 DEF Recs
  <2>4. s.node \in [E -> Recs(E)]
    BY <2>1, <2>3
  <2> QED BY <1>6, <2>1, <2>2, <2>4 DEF Typed, Shapes, Sound
<1>11. Linked(s)
  <2>1. ASSUME NEW l \in E
        PROVE  s.node[l].next # NULL => s.node[l].next > l /\ s.node[s.node[l].next].prev = l
    <3>1. CASE l = p
      BY <3>1, <1>3, <1>7, <1>8
    <3>2. CASE l # p
      <4>1. s.node[l].next = f[l].next /\ f[l].next # lo
        BY <3>2, <1>7, <1>9
      <4>2. f[l].next # NULL => f[l].next # x
        BY <4>1, <1>2, <1>3, <1>4, <1>8
      <4> QED BY <4>1, <4>2, <1>3, <1>4, <1>7
    <3> QED BY <3>1, <3>2
  <2>2. ASSUME NEW l \in E
        PROVE  s.node[l].prev # NULL => s.node[l].prev < l /\ s.node[s.node[l].prev].next = l
    <3>1. CASE l = x
      BY <3>1, <1>3, <1>7, <1>8
    <3>2. CASE l # x
      <4>1. s.node[l].prev = f[l].prev /\ f[l].prev # lo
        BY <3>2, <1>7, <1>9
      <4>2. f[l].prev # NULL => f[l].prev # p
        BY <4>1, <1>1, <1>3, <1>4, <1>8
      <4> QED BY <4>1, <4>2, <1>3, <1>4, <1>7
    <3> QED BY <3>1, <3>2
  <2>3. ASSUME NEW l \in E, s.list = l PROVE s.node[l].prev = NULL
    <3>1. CASE l = x
      BY <3>1, <2>3, <1>3, <1>4, <1>6, <1>7, <1>8
    <3>2. CASE l # x
      BY <3>2, <2>3, <1>4, <1>6, <1>7
    <3> QED BY <3>1, <3>2
  <2>4. \A l \in E : s.node[l].hi >= l
    BY <1>4, <1>7
  <2> QED BY <2>1, <2>2, <2>3, <2>4, <1>6 DEF Linked
<1>12. ASSUME Ordered(r) PROVE Ordered(s)
  <2>1. \A l, m \in D : l < m => f[l].next # NULL /\ f[l].next <= m /\ f[l].hi < m
    BY <1>12 DEF Ordered
  <2>2. ASSUME NEW l \in E, NEW m \in E, l < m
        PROVE  s.node[l].next # NULL /\ s.node[l].next <= m /\ s.node[l].hi < m
    <3>1. f[l].next # NULL /\ f[l].next <= m /\ f[l].hi < m
      BY <2>1, <2>2
    <3>2. CASE l = p
      <4>1. lo < m
        BY <3>1, <3>2, <1>3, <1>8
      <4>2. x # NULL /\ x <= m
        BY <4>1, <2>1, <1>2
      <4> QED BY <3>1, <3>2, <4>2, <1>7
    <3>3. CASE l # p
      BY <3>1, <3>3, <1>7
    <3> QED BY <3>2, <3>3
  <2>3. p = NULL => \A l \in E : lo < l
    <3> SUFFICES ASSUME p = NULL, NEW l \in E, l < lo PROVE FALSE
      BY <1>3
    <3> DEFINE S == {m \in D : m < lo}
    <3>1. S \subseteq 0 .. lo /\ S # {}
      BY <1>3
    <3>2. PICK g \in S : \A m \in S : m <= g
      <4> HIDE DEF S
      <4> QED BY <3>1, <1>3, GreatestExists
    <3>3. f[g].next # NULL /\ f[g].next <= lo
      BY <2>1, <3>2
    <3>4. f[g].next \in D /\ f[g].next > g /\ f[f[g].next].prev = g
      BY <3>2, <3>3, <1>3, <1>4
    <3>5. f[g].next = lo
      BY <3>2, <3>3, <3>4, <1>3
    <3> QED BY <1>1, <1>3, <3>2, <3>4, <3>5
  <2>4. ASSUME NEW l \in E PROVE s.list # NULL /\ s.list <= l
    <3>1. CASE p = NULL
      <4>1. lo < l
        BY <2>3, <3>1
      <4> QED BY <4>1, <2>1, <3>1, <1>2, <1>6
    <3>2. CASE p # NULL
      BY <3>2, <1>6, <1>12 DEF Ordered
    <3> QED BY <3>1, <3>2
  <2> QED BY <2>2, <2>4, <1>6 DEF Ordered
<1> QED BY <1>6, <1>7, <1>10, <1>11, <1>12 DEF Sound

(***************************************************************************)
(* The list.                                                               *)
(***************************************************************************)
Steps == Cardinality(Addrs)

Scans(g, r) ==
  /\ g[0] = r.list
  /\ \A n \in 1 .. Steps : g[n] = IF g[n - 1] = NULL THEN NULL ELSE r.node[g[n - 1]].next

\* What the scan meets after n steps: the list's head, then each record's next.
LEMMA ScanFacts ==
  ASSUME NEW r, Typed(r)
  PROVE  \E g \in [0 .. Steps -> DOMAIN r.node \cup {NULL}] :
           Scans(g, r) /\ OnList(r) = {g[n] : n \in 0 .. Steps} \ {NULL}
<1> DEFINE P == DOMAIN r.node \cup {NULL}
           Follow(x) == IF x = NULL THEN NULL ELSE r.node[x].next
           F == [n \in 1 .. Steps |-> [x \in P |-> Follow(x)]]
           IsScan(h) == h = [n \in 0 .. Steps |-> IF n = 0 THEN r.list
                                                  ELSE IF h[n - 1] = NULL THEN NULL
                                                       ELSE r.node[h[n - 1]].next]
           scan == CHOOSE h : IsScan(h)
<1>1. Steps \in Nat
  BY HeapAssumption, FS_CardinalityType DEF Steps
<1>2. r.list \in P /\ \A x \in P : Follow(x) \in P
  BY DEF Typed, Shapes, Recs
<1>3. \E g \in [0 .. Steps -> P] : Iterated(g, Steps, r.list, F)
  <2>1. \A n \in 1 .. Steps : \A x \in P : F[n][x] \in P
    BY <1>2
  <2>2. r.list \in P
    BY <1>2
  <2> HIDE DEF F, P
  <2> QED BY ONLY <1>1, <2>1, <2>2, Iterates
<1>4. PICK g \in [0 .. Steps -> P] : Iterated(g, Steps, r.list, F)
  BY <1>3
<1>5. ASSUME NEW n \in 1 .. Steps PROVE g[n - 1] \in P /\ g[n] = Follow(g[n - 1])
  <2>1. n - 1 \in 0 .. Steps /\ g[n - 1] \in P
    BY <1>1, <1>4
  <2>2. \A x \in P : F[n][x] = Follow(x)
    OBVIOUS
  <2>3. g[n] = F[n][g[n - 1]]
    BY <1>4 DEF Iterated
  <2> HIDE DEF F, P, Follow
  <2> QED BY ONLY <2>1, <2>2, <2>3
<1>6. IsScan(g)
  BY <1>1, <1>4, <1>5 DEF Iterated
<1>7. IsScan(scan)
  <2>1. \E h : IsScan(h)
    BY <1>6
  <2> QED BY ONLY <2>1
<1>8. scan = g
  <2> DEFINE S == {n \in Nat : n <= Steps => scan[n] = g[n]}
  <2> HIDE DEF scan
  <2>1. /\ scan[0] = r.list /\ g[0] = r.list
        /\ \A n \in 1 .. Steps : scan[n] = Follow(scan[n - 1]) /\ g[n] = Follow(g[n - 1])
    BY <1>1, <1>6, <1>7
  <2> HIDE DEF Follow, IsScan
  <2>2. 0 \in S
    BY <2>1
  <2>3. ASSUME NEW n \in Nat, n \in S PROVE n + 1 \in S
    <3> SUFFICES ASSUME n + 1 <= Steps PROVE scan[n + 1] = g[n + 1]
      OBVIOUS
    <3>1. n + 1 \in 1 .. Steps /\ (n + 1) - 1 = n /\ scan[n] = g[n]
      BY <1>1, <2>3
    <3> QED BY <2>1, <3>1
  <2>4. \A n \in Nat : n \in S
    <3> HIDE DEF S
    <3> QED BY <2>2, <2>3, Induction
  <2>5. scan = [n \in 0 .. Steps |-> scan[n]] /\ g = [n \in 0 .. Steps |-> g[n]]
    BY <1>4, <1>7 DEF IsScan
  <2>6. \A n \in 0 .. Steps : scan[n] = g[n]
    BY <1>1, <2>4
  <2> QED BY <2>5, <2>6
<1>9. OnList(r) = {scan[n] : n \in 0 .. Steps} \ {NULL}
  BY DEF OnList, Steps
<1>10. OnList(r) = {g[n] : n \in 0 .. Steps} \ {NULL}
  <2> HIDE DEF scan
  <2> QED BY ONLY <1>8, <1>9
<1>11. \A n \in 1 .. Steps :
         g[n] = IF g[n - 1] = NULL THEN NULL ELSE r.node[g[n - 1]].next
  BY <1>5
<1> QED BY <1>4, <1>10, <1>11 DEF Iterated, Scans

\* A record with n records below it is met after n steps, when the records are in order.
LEMMA ScanReaches ==
  ASSUME NEW r, Sound(r), Ordered(r),
         NEW g \in [0 .. Steps -> DOMAIN r.node \cup {NULL}], Scans(g, r),
         NEW l \in DOMAIN r.node
  PROVE  \E n \in 0 .. Steps : g[n] = l
<1> DEFINE D == DOMAIN r.node
           f == r.node
           Lower(k) == {m \in D : m < k}
           S == {n \in Nat : \A k \in D : Cardinality(Lower(k)) = n => g[n] = k}
<1>1. /\ Steps \in Nat /\ IsFiniteSet(Addrs) /\ D \subseteq Addrs
      /\ D \subseteq Nat \ {0} /\ NULL = 0
  BY HeapAssumption, FS_CardinalityType DEF Steps, Sound, Typed, NULL
<1>2. \A k \in D : IsFiniteSet(Lower(k)) /\ Cardinality(Lower(k)) \in 0 .. Steps
  <2> TAKE k \in D
  <2>1. Lower(k) \subseteq Addrs
    BY <1>1
  <2> HIDE DEF Lower
  <2>2. IsFiniteSet(Lower(k)) /\ Cardinality(Lower(k)) <= Cardinality(Addrs)
    BY <1>1, <2>1, FS_Subset
  <2> QED BY <1>1, <2>2, FS_CardinalityType DEF Steps
<1>3. /\ \A k \in D : r.list # NULL /\ r.list <= k
      /\ \A k, m \in D : k < m => f[k].next # NULL /\ f[k].next <= m
  BY DEF Ordered
<1>4. \A k \in D : f[k].next # NULL => f[k].next > k
  BY DEF Sound, Linked
<1>5. /\ r.list \in D \cup {NULL}
      /\ \A k \in D : f[k].next \in D \cup {NULL}
  BY DEF Sound, Typed, Shapes, Recs
<1>6. 0 \in S
  <2> SUFFICES ASSUME NEW k \in D, Cardinality(Lower(k)) = 0 PROVE g[0] = k
    OBVIOUS
  <2>1. Lower(k) = {}
    <3> HIDE DEF Lower
    <3> QED BY <1>2, FS_EmptySet
  <2>2. r.list \in D /\ r.list <= k /\ ~ (r.list < k)
    BY <1>3, <1>5, <2>1
  <2> QED BY <1>1, <2>2 DEF Scans
<1>7. ASSUME NEW n \in Nat, n \in S PROVE n + 1 \in S
  <2> SUFFICES ASSUME NEW k \in D, Cardinality(Lower(k)) = n + 1 PROVE g[n + 1] = k
    OBVIOUS
  <2>1. Lower(k) # {} /\ Lower(k) \subseteq 0 .. k
    <3>1. Cardinality(Lower(k)) # 0
      OBVIOUS
    <3>2. Lower(k) # {}
      <4> HIDE DEF Lower
      <4> QED BY <3>1, FS_EmptySet
    <3> QED BY <1>1, <3>2
  <2>2. PICK b \in Lower(k) : \A m \in Lower(k) : m <= b
    <3> HIDE DEF Lower
    <3> QED BY <1>1, <2>1, GreatestExists
  <2>3. b \in D /\ b < k /\ b \notin Lower(b) /\ Lower(k) = Lower(b) \cup {b}
    BY <1>1, <2>2
  <2>4. Cardinality(Lower(b)) = n
    <3> HIDE DEF Lower
    <3>1. Cardinality(Lower(k)) = Cardinality(Lower(b)) + 1
      BY <1>2, <2>3, FS_AddElement
    <3> QED BY <1>2, <2>3, <3>1
  <2>5. g[n] = b
    BY <1>7, <2>3, <2>4
  <2>6. n + 1 \in 1 .. Steps /\ (n + 1) - 1 = n
    <3> HIDE DEF Lower
    <3>1. Cardinality(Lower(k)) \in 0 .. Steps
      BY <1>2
    <3> QED BY <1>1, <3>1
  <2>7. g[n + 1] = f[b].next
    BY <1>1, <2>3, <2>5, <2>6 DEF Scans
  <2>8. f[b].next \in D /\ f[b].next <= k /\ f[b].next > b
    BY <1>3, <1>4, <1>5, <2>3
  <2>9. ~ (f[b].next < k)
    BY <1>1, <2>2, <2>8
  <2> QED BY <1>1, <2>7, <2>8, <2>9
<1>8. \A n \in Nat : n \in S
  <2> HIDE DEF S
  <2> QED BY <1>6, <1>7, Induction
<1>9. Cardinality(Lower(l)) \in 0 .. Steps
  BY <1>2
<1>10. g[Cardinality(Lower(l))] = l
  <2>1. Cardinality(Lower(l)) \in Nat
    BY <1>1, <1>9
  <2> HIDE DEF Lower
  <2> QED BY <1>8, <2>1
<1> QED BY <1>9, <1>10

\* The list of records in order has them all.
LEMMA OrderedComplete ==
  ASSUME NEW r, Sound(r), Ordered(r)
  PROVE  OnList(r) = DOMAIN r.node
<1>1. Typed(r)
  BY DEF Sound
<1>2. PICK g \in [0 .. Steps -> DOMAIN r.node \cup {NULL}] :
        Scans(g, r) /\ OnList(r) = {g[n] : n \in 0 .. Steps} \ {NULL}
  BY <1>1, ScanFacts
<1>3. \A l \in DOMAIN r.node : \E n \in 0 .. Steps : g[n] = l
  BY <1>2, ScanReaches
<1>4. NULL \notin DOMAIN r.node
  BY <1>1, HeapAssumption DEF Typed, NULL
<1>5. \A n \in 0 .. Steps : g[n] \in DOMAIN r.node \cup {NULL}
  BY <1>2
<1> QED BY ONLY <1>2, <1>3, <1>4, <1>5

(***************************************************************************)
(* The invariant: what the records r, the payloads held and their damaged  *)
(* bytes have to do with each other.  That every payload has its record is *)
(* what makes each property inductive: the checks read records only.       *)
(***************************************************************************)
Held(held, spoiled) ==
  /\ DOMAIN held \subseteq Addrs /\ held \in [DOMAIN held -> Sizes]
  /\ spoiled \in [DOMAIN held -> SUBSET Nat]
  /\ \A lo \in DOMAIN held : spoiled[lo] \subseteq Written(held[lo])

Recorded(r, held) ==
  \A lo \in DOMAIN held : lo \in DOMAIN r.node /\ r.node[lo].hi = lo + held[lo] - 1

Doomed(held, spoiled) ==
  \A a, b \in DOMAIN held :
    /\ a < b /\ b < a + held[a]
    /\ held[a] <= 2 * maxfill /\ held[b] <= 2 * maxfill
    => spoiled[a] # {} \/ spoiled[b] # {}

Consistent(r, held, spoiled) ==
  Sound(r) /\ Held(held, spoiled) /\ Recorded(r, held) /\ Doomed(held, spoiled)

\* What the driver knows of an allocator that keeps its contract.
Spotless(r, held, spoiled) ==
  /\ DOMAIN r.node = DOMAIN held
  /\ \A lo \in DOMAIN held : spoiled[lo] = {}
  /\ \A a, b \in DOMAIN held : a < b => a + held[a] <= b

\* Giving back a payload keeps all of this for the others.
LEMMA DropKeeps ==
  ASSUME NEW r, NEW h, NEW s, Consistent(r, h, s), NEW lo \in DOMAIN h,
         NEW g, g = remove_range(r, lo)
  PROVE  /\ Consistent(g, Drop(h, lo), Drop(s, lo))
         /\ Spotless(r, h, s) => Spotless(g, Drop(h, lo), Drop(s, lo))
         /\ Ordered(r) => Ordered(g)
<1> DEFINE k == Drop(h, lo)
           t == Drop(s, lo)
<1>1. Sound(r) /\ Held(h, s) /\ Recorded(r, h) /\ Doomed(h, s) /\ lo \in DOMAIN r.node
  BY DEF Consistent, Recorded
<1>2. /\ Sound(g)
      /\ DOMAIN g.node = DOMAIN r.node \ {lo}
      /\ \A l \in DOMAIN g.node : g.node[l].hi = r.node[l].hi
      /\ Ordered(r) => Ordered(g)
  BY <1>1, RemoveKeeps
<1>3. /\ DOMAIN k = DOMAIN h \ {lo} /\ DOMAIN t = DOMAIN h \ {lo}
      /\ \A l \in DOMAIN h \ {lo} : k[l] = h[l] /\ t[l] = s[l]
  BY <1>1 DEF Drop, Held
<1>4. k \in [DOMAIN k -> Sizes] /\ t \in [DOMAIN k -> SUBSET Nat]
  BY <1>1 DEF Drop, Held
<1> HIDE DEF k, t
<1>5. Held(k, t)
  BY <1>1, <1>3, <1>4 DEF Held
<1>6. Recorded(g, k)
  BY <1>1, <1>2, <1>3 DEF Recorded
<1>7. Doomed(k, t)
  BY <1>1, <1>3 DEF Doomed
<1>8. Spotless(r, h, s) => Spotless(g, k, t)
  BY <1>2, <1>3 DEF Spotless
<1> QED BY <1>2, <1>5, <1>6, <1>7, <1>8 DEF Consistent, k, t

\* Filling a payload that passed the checks keeps it too: where it overlaps an
\* earlier one that is not too long, it writes over some of its bytes.
LEMMA FillKeeps ==
  ASSUME NEW r, NEW h, NEW s, Consistent(r, h, s), NEW lo \in Addrs, NEW size \in Sizes,
         Check(r, lo, lo + size - 1) = "ok",
         NEW g, g = add_range(r, lo, size)
  PROVE  /\ lo \notin DOMAIN h
         /\ Consistent(g, Hold(h, lo, size), randomize_block(h, s, lo, size))
         /\ Spotless(r, h, s) /\ Contract!Fresh(h, lo, size) =>
              Spotless(g, Hold(h, lo, size), randomize_block(h, s, lo, size))
         /\ Above(r, lo) /\ Ordered(r) => Ordered(g)
<1> DEFINE k == Hold(h, lo, size)
           t == randomize_block(h, s, lo, size)
           hi == lo + size - 1
<1>1. Sound(r) /\ Held(h, s) /\ Recorded(r, h) /\ Doomed(h, s)
  BY DEF Consistent
<1>2. lo \in Nat \ {0} /\ size \in Nat \ {0} /\ hi \in Int /\ hi >= lo
  BY HeapAssumption, ClientAssumption
<1>3. g = Record(r, lo, hi)
  BY DEF add_range
<1>4. Check(r, lo, hi) = "ok"
  OBVIOUS
<1>5. /\ Sound(g)
      /\ lo \notin DOMAIN r.node /\ DOMAIN g.node = DOMAIN r.node \cup {lo}
      /\ g.node[lo].hi = hi /\ \A l \in DOMAIN r.node : g.node[l].hi = r.node[l].hi
      /\ Above(r, lo) /\ Ordered(r) => Ordered(g)
  <2> HIDE DEF hi
  <2> QED BY <1>1, <1>2, <1>3, <1>4, RecordKeeps
<1>6. lo \notin DOMAIN h /\ DOMAIN h \subseteq DOMAIN r.node
  BY <1>1, <1>5 DEF Recorded
<1>7. /\ DOMAIN k = DOMAIN h \cup {lo} /\ DOMAIN t = DOMAIN h \cup {lo}
      /\ k[lo] = size /\ t[lo] = {}
      /\ \A l \in DOMAIN h :
           /\ k[l] = h[l]
           /\ t[l] = s[l] \cup {x \in Written(h[l]) : l + x - lo \in Written(size)}
  BY <1>6 DEF Hold, randomize_block
<1>8. \A l \in DOMAIN h : /\ l \in Nat \ {0} /\ h[l] \in Nat \ {0}
                          /\ s[l] \subseteq Written(h[l]) /\ Written(h[l]) \subseteq 0 .. h[l] - 1
  <2> TAKE l \in DOMAIN h
  <2>1. l \in Nat \ {0} /\ h[l] \in Nat \ {0} /\ s[l] \subseteq Written(h[l])
    BY <1>1, HeapAssumption, ClientAssumption DEF Held
  <2> QED BY <2>1, WrittenBounds
<1>9. Held(k, t)
  <2>1. k \in [DOMAIN k -> Sizes]
    BY <1>1, <1>7 DEF Held, Hold
  <2>2. \A l \in DOMAIN k : t[l] \subseteq Written(k[l]) /\ t[l] \in SUBSET Nat
    BY <1>7, <1>8
  <2>3. t = [l \in DOMAIN t |-> t[l]]
    BY DEF randomize_block
  <2> HIDE DEF k, t
  <2>4. t \in [DOMAIN k -> SUBSET Nat]
    BY <1>7, <2>2, <2>3
  <2> QED BY <1>1, <1>7, <2>1, <2>2, <2>4 DEF Held
<1> HIDE DEF k, t
<1>10. Recorded(g, k)
  BY <1>1, <1>5, <1>6, <1>7 DEF Recorded
<1>11. Doomed(k, t)
  <2> SUFFICES ASSUME NEW a \in DOMAIN k, NEW b \in DOMAIN k, a < b, b < a + k[a],
                      k[a] <= 2 * maxfill, k[b] <= 2 * maxfill
               PROVE  t[a] # {} \/ t[b] # {}
    BY DEF Doomed
  <2>1. CASE a \in DOMAIN h /\ b \in DOMAIN h
    BY <2>1, <1>1, <1>7 DEF Doomed
  <2>2. CASE a = lo
    <3>1. b \in DOMAIN h /\ b - lo \in 0 .. size - 1
      BY <2>2, <1>2, <1>7, <1>8
    <3>2. b + 0 - lo \in Written(size)
      BY <2>2, <3>1, <1>2, <1>7, <1>8, WrittenWhole
    <3>3. 0 \in Written(h[b])
      BY <3>1, <1>8, WrittenBounds
    <3> QED BY <3>1, <3>2, <3>3, <1>7
  <2>3. CASE b = lo
    <3>1. a \in DOMAIN h /\ lo - a \in 0 .. h[a] - 1
      BY <2>3, <1>2, <1>7, <1>8
    <3>2. lo - a \in Written(h[a])
      BY <3>1, <1>7, <1>8, WrittenWhole
    <3>3. a + (lo - a) - lo \in Written(size)
      BY <3>1, <1>2, <1>8, WrittenBounds
    <3> QED BY <3>1, <3>2, <3>3, <1>7
  <2> QED BY <2>1, <2>2, <2>3, <1>7
<1>12. ASSUME Spotless(r, h, s), Contract!Fresh(h, lo, size) PROVE Spotless(g, k, t)
  <2>1. \A q \in DOMAIN h : lo + size <= q \/ q + h[q] <= lo
    BY <1>12 DEF Contract!Fresh, Contract!Apart
  <2>2. \A l \in DOMAIN k : t[l] = {}
    <3>1. ASSUME NEW l \in DOMAIN h, NEW x \in Written(h[l]), l + x - lo \in Written(size)
          PROVE  FALSE
      <4>1. x \in 0 .. h[l] - 1 /\ l + x - lo \in 0 .. size - 1
        BY <3>1, <1>2, <1>8, WrittenBounds
      <4> QED BY <4>1, <2>1, <1>2, <1>8
    <3>2. \A l \in DOMAIN h : s[l] = {}
      BY <1>12 DEF Spotless
    <3> QED BY <3>1, <3>2, <1>7
  <2>3. \A a, b \in DOMAIN k : a < b => a + k[a] <= b
    <3> TAKE a, b \in DOMAIN k
    <3>1. CASE a \in DOMAIN h /\ b \in DOMAIN h
      BY <3>1, <1>7, <1>12 DEF Spotless
    <3>2. CASE a = lo
      BY <3>2, <2>1, <1>2, <1>7, <1>8
    <3>3. CASE b = lo
      BY <3>3, <2>1, <1>2, <1>7, <1>8
    <3> QED BY <3>1, <3>2, <3>3, <1>7
  <2>4. DOMAIN g.node = DOMAIN k
    BY <1>5, <1>7, <1>12 DEF Spotless
  <2> QED BY <2>2, <2>3, <2>4 DEF Spotless
<1> QED BY <1>5, <1>6, <1>9, <1>10, <1>11, <1>12 DEF Consistent, k, t

\* A payload that an allocator may give out by its contract passes the checks.
LEMMA FreshPasses ==
  ASSUME NEW r, NEW h, NEW s, Consistent(r, h, s), Spotless(r, h, s),
         NEW lo \in Addrs, NEW size \in Sizes, Contract!Fresh(h, lo, size)
  PROVE  Check(r, lo, lo + size - 1) = "ok"
<1> DEFINE D == DOMAIN r.node
<1>1. PICK p : p = tree_find_nearest(r, lo)
  OBVIOUS
<1>2. PICK x : x = IF p = NULL THEN NULL ELSE r.node[p].next
  OBVIOUS
<1>3. lo \in Nat \ {0} /\ size \in Nat \ {0} /\ HeapLo \in Nat /\ HeapHi \in Nat
  BY HeapAssumption, ClientAssumption
<1>4. /\ lo % ALIGNMENT = 0 /\ HeapLo <= lo /\ lo + size <= HeapHi + 1
      /\ \A q \in DOMAIN h : lo + size <= q \/ q + h[q] <= lo
  BY DEF Contract!Fresh, Contract!Apart
<1>5. /\ D = DOMAIN h /\ Sound(r)
      /\ \A q \in D : q \in Nat \ {0} /\ h[q] \in Nat \ {0} /\ r.node[q].hi = q + h[q] - 1
  BY HeapAssumption, ClientAssumption DEF Consistent, Held, Recorded, Spotless
<1>6. \/ p = NULL
      \/ p \in D /\ p <= lo /\ \A l \in D : l <= lo => l <= p
  <2>1. Typed(r)
    BY <1>5 DEF Sound
  <2>2. \/ p = NULL /\ \A l \in DOMAIN r.node : lo < l
        \/ p \in DOMAIN r.node /\ p <= lo /\ \A l \in DOMAIN r.node : l <= lo => l <= p
    BY ONLY <2>1, <1>1, NearestIsGreatest, lo \in Addrs
  <2> QED BY <2>2
<1>7. p # NULL => p \in D /\ p + h[p] <= lo
  BY <1>3, <1>4, <1>5, <1>6
<1>8. ~ (p # NULL /\ lo <= r.node[p].hi)
  BY <1>3, <1>5, <1>7
<1>9. x # NULL => x \in D /\ p \in D /\ x > p
  BY <1>2, <1>5, <1>6 DEF Sound, Typed, Shapes, Recs, Linked
<1>10. x # NULL => lo < x
  BY <1>3, <1>5, <1>6, <1>9 DEF NULL
<1>11. ~ (x # NULL /\ lo + size - 1 >= x)
  BY <1>3, <1>4, <1>5, <1>9, <1>10
<1>12. ~ (lo < HeapLo \/ lo + size - 1 > HeapHi)
  BY <1>3, <1>4
<1> QED BY <1>1, <1>2, <1>4, <1>8, <1>11, <1>12 DEF Check

Verdicts == {"ok", "unaligned", "outside", "overlap", "garbled", "failed"}

\* The inductive invariant of the passes over a trace.
IInv ==
  /\ Consistent(ranges, live, bad)
  /\ honest => verdict = "ok" /\ Spotless(ranges, live, bad)
  /\ rising => Ordered(ranges)
  /\ verdict \in Verdicts
  /\ passes \in 1 .. MaxPasses

\* It holds of an empty range set and no payloads, whatever the debug level.
LEMMA InitIInv == Init => IInv
<1> SUFFICES ASSUME Init PROVE IInv
  OBVIOUS
<1>1. /\ ranges.list = NULL /\ DOMAIN ranges.node = {}
      /\ DOMAIN live = {} /\ DOMAIN bad = {}
  BY DEF Init, new_range_set
<1>2. Sound(ranges)
  <2>1. ranges.node \in [{} -> Recs({})]
    BY DEF Init, new_range_set
  <2>2. ranges \in Shapes({})
    BY <2>1 DEF Init, new_range_set, Shapes
  <2> QED BY <2>2, <1>1 DEF Sound, Typed, Linked
<1>3. Held(live, bad)
  BY DEF Init, Held
<1>4. Recorded(ranges, live) /\ Doomed(live, bad) /\ Ordered(ranges) /\ Spotless(ranges, live, bad)
  BY <1>1 DEF Recorded, Doomed, Ordered, Spotless
<1>5. verdict \in Verdicts /\ verdict = "ok" /\ passes \in 1 .. MaxPasses
  BY PassesAssumption DEF Init, Verdicts
<1> QED BY <1>2, <1>3, <1>4, <1>5 DEF IInv, Consistent

\* A payload that passes its check has lost nothing; one that lost nothing passes.
LEMMA SurvivesIntact ==
  ASSUME IInv, NEW lo \in DOMAIN live
  PROVE  Survives(lo) <=> bad[lo] = {}
<1>1. bad[lo] \subseteq Written(live[lo])
  BY DEF IInv, Consistent, Held
<1>2. Survives(lo) => bad[lo] = {}
  BY <1>1 DEF Survives, check_index, Compared
<1>3. bad[lo] = {} => Survives(lo)
  BY UntouchedSurvives DEF Survives
<1> QED BY <1>2, <1>3

\* An error ends the pass and changes nothing else.
LEMMA RejectKeeps ==
  ASSUME IInv, NEW error \in Verdicts, Reject(error), honest' => FALSE
  PROVE  IInv'
<1>1. /\ ranges' = ranges /\ live' = live /\ bad' = bad /\ rising' = rising
      /\ passes' = passes /\ verdict' = error
  BY DEF Reject
<1> QED BY <1>1 DEF IInv

\* The common end of an allocation and of a reallocation.
LEMMA AcceptKeeps ==
  ASSUME IInv, NEW held, NEW s, NEW r, Consistent(r, held, s),
         honest => Spotless(r, held, s), rising => Ordered(r),
         NEW lo \in Addrs, NEW size \in Sizes, NEW found \in Verdicts, NEW faithful,
         found = "ok" => Check(r, lo, lo + size - 1) = "ok",
         honest /\ faithful /\ Contract!Fresh(held, lo, size) => found = "ok",
         randomize_block(held, bad, lo, size) = randomize_block(held, s, lo, size),
         Accept(held, r, lo, size, found, faithful)
  PROVE  IInv'
<1>1. /\ verdict' = found /\ passes' = passes
      /\ honest' => honest /\ faithful /\ Contract!Fresh(held, lo, size)
  BY DEF Accept
<1>2. CASE found # "ok"
  <2>1. ranges' = ranges /\ live' = live /\ bad' = bad /\ rising' = rising
    BY <1>2 DEF Accept
  <2> QED BY <2>1, <1>1, <1>2 DEF IInv
<1>3. CASE found = "ok"
  <2>1. /\ ranges' = add_range(r, lo, size)
        /\ live' = Hold(held, lo, size)
        /\ bad' = randomize_block(held, s, lo, size)
        /\ rising' => rising /\ Above(r, lo)
    BY <1>3 DEF Accept
  <2>2. /\ Consistent(ranges', live', bad')
        /\ Spotless(r, held, s) /\ Contract!Fresh(held, lo, size) =>
             Spotless(ranges', live', bad')
        /\ Above(r, lo) /\ Ordered(r) => Ordered(ranges')
    BY <2>1, <1>3, FillKeeps
  <2> QED BY <2>1, <2>2, <1>1, <1>3 DEF IInv
<1> QED BY <1>2, <1>3

\* Check finds one of three faults, or none.
LEMMA CheckTyped ==
  ASSUME NEW r, NEW lo \in Addrs, NEW hi
  PROVE  Check(r, lo, hi) \in Verdicts
BY DEF Check, Verdicts

\* Every step of the driver, with any allocator, keeps the invariant.
LEMMA NextIInv == IInv /\ [Next]_vars => IInv'
<1> SUFFICES ASSUME IInv, [Next]_vars PROVE IInv'
  OBVIOUS
<1>1. /\ Consistent(ranges, live, bad)
      /\ honest => verdict = "ok" /\ Spotless(ranges, live, bad)
      /\ rising => Ordered(ranges)
      /\ \A lo \in DOMAIN live : live[lo] \in Sizes /\ live[lo] \in Nat \ {0}
  BY ClientAssumption DEF IInv, Consistent, Held
<1>2. ASSUME NEW lo \in Addrs, NEW size \in Sizes, Malloc(lo, size) PROVE IInv'
  <2> DEFINE found == Check(ranges, lo, lo + size - 1)
  <2>1. found \in Verdicts
    BY CheckTyped
  <2>2. honest /\ Contract!Fresh(live, lo, size) => found = "ok"
    BY <1>1, FreshPasses
  <2>3. Accept(live, ranges, lo, size, found, TRUE)
    BY <1>2 DEF Malloc
  <2>4. found = "ok" => Check(ranges, lo, lo + size - 1) = "ok"
    OBVIOUS
  <2> HIDE DEF found
  <2> QED BY <1>1, <2>1, <2>2, <2>3, <2>4, AcceptKeeps
<1>3. ASSUME NEW old \in DOMAIN live, NEW lo \in Addrs, NEW size \in Sizes, NEW spoiled,
             Realloc(old, lo, size, spoiled)
      PROVE  IInv'
  <2> DEFINE kept  == IF size < live[old] THEN size ELSE live[old]
             r     == remove_range(ranges, old)
             held  == Drop(live, old)
             s     == Drop(bad, old)
             check == Check(r, lo, lo + size - 1)
             found == IF check = "ok" /\ ~check_index(kept, live[old], spoiled, TRUE)
                      THEN "garbled" ELSE check
  <2>1. /\ Consistent(r, held, s)
        /\ Spotless(ranges, live, bad) => Spotless(r, held, s)
        /\ Ordered(ranges) => Ordered(r)
    BY <1>1, DropKeeps
  <2>2. found \in Verdicts
    <3>1. check \in Verdicts
      BY CheckTyped
    <3> HIDE DEF check
    <3> QED BY <3>1 DEF Verdicts
  <2>3. found = "ok" => check = "ok"
    OBVIOUS
  <2>4. honest /\ spoiled = {} /\ Contract!Fresh(held, lo, size) => found = "ok"
    <3> SUFFICES ASSUME honest, spoiled = {}, Contract!Fresh(held, lo, size) PROVE found = "ok"
      OBVIOUS
    <3>1. check = "ok"
      <4>1. Spotless(r, held, s)
        BY <1>1, <2>1
      <4> HIDE DEF r, held, s
      <4> QED BY <2>1, <4>1, FreshPasses
    <3>2. kept \in Nat \ {0} /\ kept <= live[old] /\ live[old] \in Nat \ {0}
      BY <1>1, ClientAssumption
    <3>3. check_index(kept, live[old], spoiled, TRUE)
      <4> HIDE DEF kept
      <4> QED BY <3>2, ComparableAfterRealloc
    <3> QED BY <3>1, <3>3
  <2>5. randomize_block(held, bad, lo, size) = randomize_block(held, s, lo, size)
    <3>1. \A q \in DOMAIN held : bad[q] = s[q]
      BY <1>1 DEF Drop, Consistent, Held
    <3> HIDE DEF held, s
    <3> QED BY <3>1 DEF randomize_block
  <2>6. Accept(held, r, lo, size, found, spoiled = {})
    BY <1>3 DEF Realloc
  <2>7. (honest => Spotless(r, held, s)) /\ (rising => Ordered(r))
    BY <1>1, <2>1
  <2>8. found = "ok" => Check(r, lo, lo + size - 1) = "ok"
    BY <2>3
  <2> HIDE DEF r, held, s, check, found
  <2> DEFINE faithful == spoiled = {}
  <2>9. Accept(held, r, lo, size, found, faithful)
    BY <2>6
  <2>10. honest /\ faithful /\ Contract!Fresh(held, lo, size) => found = "ok"
    BY <2>4
  <2> HIDE DEF faithful
  <2> QED BY <2>1, <2>2, <2>5, <2>7, <2>8, <2>9, <2>10, AcceptKeeps
<1>4. ASSUME NEW lo \in DOMAIN live, Free(lo) PROVE IInv'
  <2>1. /\ ranges' = remove_range(ranges, lo) /\ live' = Drop(live, lo) /\ bad' = Drop(bad, lo)
        /\ verdict' = verdict /\ passes' = passes /\ honest' = honest /\ rising' = rising
    BY <1>4 DEF Free, history
  <2>2. /\ Consistent(ranges', live', bad')
        /\ Spotless(ranges, live, bad) => Spotless(ranges', live', bad')
        /\ Ordered(ranges) => Ordered(ranges')
    BY <2>1, <1>1, DropKeeps
  <2> QED BY <2>1, <2>2 DEF IInv
<1>5. ASSUME NEW lo \in DOMAIN live, Garbled(lo) PROVE IInv'
  <2>1. bad[lo] # {} /\ honest' = honest /\ Reject("garbled") /\ "garbled" \in Verdicts
    BY <1>5, SurvivesIntact DEF Garbled, Verdicts
  <2>2. ~honest
    BY <2>1, <1>1 DEF Spotless
  <2> QED BY <2>1, <2>2, RejectKeeps
<1>6. CASE Fail
  <2>1. honest' = FALSE /\ Reject("failed") /\ "failed" \in Verdicts
    BY <1>6 DEF Fail, Verdicts
  <2> QED BY <2>1, RejectKeeps
<1>7. CASE ScanFails
  <2>1. PICK lo \in DOMAIN live : ~Survives(lo)
    BY <1>7 DEF ScanFails, Listed
  <2>2. bad[lo] # {} /\ honest' = honest /\ Reject("garbled") /\ "garbled" \in Verdicts
    BY <1>7, <2>1, SurvivesIntact DEF ScanFails, Verdicts
  <2>3. ~honest
    BY <2>1, <2>2, <1>1 DEF Spotless
  <2> QED BY <2>2, <2>3, RejectKeeps
<1>8. ASSUME NEW lo \in DOMAIN live, NEW x \in Offsets, Damage(lo, x) PROVE IInv'
  <2>1. /\ \A q \in DOMAIN live : bad[q] = {}
        /\ x \in Written(live[lo]) /\ bad' = [bad EXCEPT ![lo] = {x}] /\ ~honest'
        /\ ranges' = ranges /\ live' = live /\ verdict' = verdict /\ passes' = passes
        /\ rising' = rising
    BY <1>8 DEF Damage
  <2>2. Held(live, bad')
    <3>1. bad \in [DOMAIN live -> SUBSET Nat] /\ x \in Nat
      BY <1>1, ClientAssumption DEF Consistent, Held
    <3> QED BY <3>1, <2>1, <1>1 DEF Consistent, Held
  <2>3. Doomed(live, bad')
    <3>1. \A q \in DOMAIN live : bad[q] \subseteq bad'[q]
      BY <2>1
    <3> QED BY <3>1, <2>1, <1>1 DEF Consistent, Doomed
  <2>4. Consistent(ranges', live', bad')
    BY <2>1, <2>2, <2>3, <1>1 DEF Consistent
  <2> QED BY <2>1, <2>4 DEF IInv
<1>9. CASE NextPass
  <2>1. /\ honest' => honest /\ DOMAIN live = {}
        /\ ranges' = ranges /\ verdict' = verdict /\ rising' = rising
        /\ passes < MaxPasses /\ passes' = passes + 1
        /\ live' = [lo \in {} |-> 0] /\ bad' = [lo \in {} |-> {}]
    BY <1>9 DEF NextPass
  <2>2. Held(live', bad') /\ Recorded(ranges, live') /\ Doomed(live', bad')
    BY <2>1 DEF Held, Recorded, Doomed
  <2>3. Consistent(ranges', live', bad')
    BY <2>1, <2>2, <1>1 DEF Consistent
  <2>4. honest' => verdict' = "ok" /\ Spotless(ranges', live', bad')
    BY <2>1, <1>1 DEF Spotless
  <2>5. passes' \in 1 .. MaxPasses
    BY <2>1, PassesAssumption DEF IInv
  <2> QED BY <2>1, <2>3, <2>4, <2>5 DEF IInv
<1>10. CASE UNCHANGED vars
  BY <1>10 DEF IInv, vars, history
<1> QED BY <1>2, <1>3, <1>4, <1>5, <1>6, <1>7, <1>8, <1>9, <1>10 DEF Next, Operation

THEOREM Invariance == Spec => []IInv
BY InitIInv, NextIInv, PTL DEF Spec

\* No pointer of a record or of the list names a record that was freed.
THEOREM TypeCorrect == Spec => []TypeOK
<1>1. IInv => TypeOK
  <2> SUFFICES ASSUME IInv PROVE TypeOK
    OBVIOUS
  <2>1. /\ DOMAIN ranges.node \subseteq Addrs
        /\ ranges.list \in DOMAIN ranges.node \cup {NULL}
        /\ \A lo \in DOMAIN ranges.node :
             /\ lo \in Nat
             /\ ranges.node[lo].hi \in Int /\ ranges.node[lo].hi >= lo
             /\ ranges.node[lo].prev \in DOMAIN ranges.node \cup {NULL}
             /\ ranges.node[lo].next \in DOMAIN ranges.node \cup {NULL}
    BY HeapAssumption DEF IInv, Consistent, Sound, Typed, Shapes, Recs, Linked
  <2>2. /\ DOMAIN live \subseteq Addrs /\ DOMAIN bad = DOMAIN live
        /\ \A lo \in DOMAIN live : live[lo] \in Sizes /\ bad[lo] \subseteq Written(live[lo])
    BY DEF IInv, Consistent, Held
  <2>3. verdict \in Verdicts /\ passes \in 1 .. MaxPasses
    BY DEF IInv
  <2>4. \A lo \in DOMAIN ranges.node : ranges.node[lo].hi \in Nat
    BY <2>1
  <2> QED BY <2>1, <2>2, <2>3, <2>4 DEF TypeOK, Verdicts
<1> QED BY <1>1, Invariance, PTL

\* The records that an out-of-order payload drops from the list stay linked to each
\* other, so that remove_range unlinks every one of them properly.
THEOREM LinksStayMutual == Spec => []LinksMutual
<1>1. IInv => LinksMutual
  BY DEF IInv, Consistent, Sound, Linked, LinksMutual
<1> QED BY <1>1, Invariance, PTL

\* No allocator that keeps its contract is reported by the driver.
THEOREM NeverFalseAlarm == Spec => []NoFalseAlarm
<1>1. IInv => NoFalseAlarm
  BY DEF IInv, NoFalseAlarm
<1> QED BY <1>1, Invariance, PTL

\* For such an allocator the records are the live payloads, with their extents.
THEOREM ExactRecords == Spec => []RecordsExact
<1>1. IInv => RecordsExact
  BY DEF IInv, Consistent, Recorded, Spotless, RecordsExact
<1> QED BY <1>1, Invariance, PTL

\* As long as no payload was recorded below all others every overlap is reported.
THEOREM RisingOverlapsDetected == Spec => []RisingDetected
<1>1. IInv => RisingDetected
  <2> SUFFICES ASSUME IInv, rising, NEW a \in DOMAIN live, NEW b \in DOMAIN live
               PROVE  ~ Overlapping(a, b)
    BY DEF RisingDetected, OverlapsDetected
  <2>1. /\ a \in DOMAIN ranges.node /\ b \in DOMAIN ranges.node
        /\ ranges.node[a].hi = a + live[a] - 1
        /\ a < b => ranges.node[a].hi < b
    BY DEF IInv, Consistent, Recorded, Ordered
  <2>2. a \in Nat /\ b \in Nat /\ live[a] \in Nat
    BY HeapAssumption, ClientAssumption DEF IInv, Consistent, Held
  <2> QED BY <2>1, <2>2 DEF Overlapping
<1> QED BY <1>1, Invariance, PTL

\* An overlap that the records did not show has cost one of the two payloads data.
THEOREM MissedOverlapsDoomed == Spec => []OverlapDoomed
<1>1. IInv => OverlapDoomed
  BY DEF IInv, Consistent, Doomed, OverlapDoomed, Overlapping
<1> QED BY <1>1, Invariance, PTL

\* The list has every record, as long as none went below all the others.
THEOREM ListAlwaysComplete == Spec => []ListComplete
<1>1. IInv => ListComplete
  BY OrderedComplete DEF IInv, Consistent, ListComplete
<1> QED BY <1>1, Invariance, PTL

Lasting == \A lo \in DOMAIN live : bad[lo] # {} => lo \in DOMAIN live' /\ bad[lo] \subseteq bad'[lo]

\* A payload that has lost data stays held and keeps its loss, whatever else is filled,
\* moved or freed: its own check would fail, and what is filled is recorded elsewhere.
LEMMA DamageStays ==
  ASSUME IInv, Next, verdict' = "ok", passes' = passes
  PROVE  Lasting
<1>0. IInv
  OBVIOUS
<1> SUFFICES ASSUME NEW q \in DOMAIN live, bad[q] # {}
             PROVE  q \in DOMAIN live' /\ bad[q] \subseteq bad'[q]
  BY DEF Lasting
<1>1. ASSUME NEW held, NEW r, NEW lo \in Addrs, NEW size, NEW found, NEW faithful,
             Accept(held, r, lo, size, found, faithful), q \in DOMAIN held, q # lo
      PROVE  q \in DOMAIN live' /\ bad[q] \subseteq bad'[q]
  BY <1>1 DEF Accept, Hold, randomize_block
<1>2. ASSUME NEW lo \in Addrs, NEW size \in Sizes, Malloc(lo, size)
      PROVE  q \in DOMAIN live' /\ bad[q] \subseteq bad'[q]
  <2>1. /\ Accept(live, ranges, lo, size, Check(ranges, lo, lo + size - 1), TRUE)
        /\ Check(ranges, lo, lo + size - 1) = "ok"
    BY <1>2 DEF Malloc, Accept
  <2>2. lo \notin DOMAIN live
    BY <1>0, <2>1, FillKeeps DEF IInv
  <2> QED BY <1>1, <2>1, <2>2
<1>3. ASSUME NEW old \in DOMAIN live, NEW lo \in Addrs, NEW size \in Sizes, NEW spoiled,
             Realloc(old, lo, size, spoiled)
      PROVE  q \in DOMAIN live' /\ bad[q] \subseteq bad'[q]
  <2> DEFINE r == remove_range(ranges, old)
             held == Drop(live, old)
  <2>1. q # old
    BY <1>0, <1>3, SurvivesIntact DEF Realloc
  <2>2. q \in DOMAIN held
    BY <2>1 DEF Drop
  <2>3. PICK found : /\ Accept(held, r, lo, size, found, spoiled = {})
                     /\ found = "ok" => Check(r, lo, lo + size - 1) = "ok"
    BY <1>3 DEF Realloc
  <2>4. Check(r, lo, lo + size - 1) = "ok"
    BY <2>3 DEF Accept
  <2>5. Consistent(r, held, Drop(bad, old))
    BY <1>0, DropKeeps DEF IInv
  <2> HIDE DEF r, held
  <2>6. lo \notin DOMAIN held
    BY <2>4, <2>5, FillKeeps
  <2> QED BY <1>1, <2>2, <2>3, <2>6
<1>4. ASSUME NEW lo \in DOMAIN live, Free(lo)
      PROVE  q \in DOMAIN live' /\ bad[q] \subseteq bad'[q]
  <2>1. q # lo
    BY <1>0, <1>4, SurvivesIntact DEF Free
  <2>2. DOMAIN bad = DOMAIN live
    BY <1>0 DEF IInv, Consistent, Held
  <2> QED BY <1>4, <2>1, <2>2 DEF Free, Drop
<1>5. ~ (ScanFails \/ Fail \/ \E lo \in DOMAIN live : Garbled(lo))
  BY DEF ScanFails, Fail, Garbled, Reject
<1>6. ~ \E lo \in DOMAIN live, x \in Offsets : Damage(lo, x)
  BY DEF Damage
<1>7. ~ NextPass
  BY <1>0 DEF NextPass, IInv
<1> QED BY <1>2, <1>3, <1>4, <1>5, <1>6, <1>7 DEF Next, Operation

\* With DBG_EXPENSIVE the scan before each operation sees every loss.
LEMMA ScanSeesAll ==
  ASSUME IInv, Next, verdict' = "ok", passes' = passes,
         debug_mode = "expensive", rising, ranges' # ranges
  PROVE  \A lo \in DOMAIN live : bad[lo] = {}
<1>1. ScanPasses
  <2>1. Operation
    BY DEF Next, ScanFails, Reject, Damage, NextPass
  <2> QED BY <2>1 DEF Operation
<1>2. OnList(ranges) = DOMAIN ranges.node /\ DOMAIN live \subseteq DOMAIN ranges.node
  BY OrderedComplete DEF IInv, Consistent, Recorded
<1>3. \A lo \in DOMAIN live : Survives(lo)
  BY <1>1, <1>2 DEF ScanPasses, Listed
<1> QED BY <1>3, SurvivesIntact

\* A payload that lost data is held until an error is reported; and with DBG_EXPENSIVE
\* nothing is allocated, moved or freed meanwhile (mdriver.c:140-142).
THEOREM DamageAlwaysReported == Spec => DamageReported
<1>1. ASSUME IInv, [Next]_vars
      PROVE  [verdict' = "ok" /\ passes' = passes =>
                /\ \A lo \in DOMAIN live :
                     bad[lo] # {} => lo \in DOMAIN live' /\ bad[lo] \subseteq bad'[lo]
                /\ debug_mode = "expensive" /\ rising /\ ranges' # ranges =>
                     \A lo \in DOMAIN live : bad[lo] = {}]_vars
  BY <1>1, DamageStays, ScanSeesAll DEF Lasting
<1> QED BY <1>1, Invariance, PTL DEF Spec, DamageReported
=============================================================================
