------------------------------ MODULE MmProofs ------------------------------
(***************************************************************************)
(* The words of the heap represent blocks that tile it and a doubly linked *)
(* list of the free ones, whatever the client does with care: proofs for   *)
(* every size of heap, of page and of request.                             *)
(***************************************************************************)
EXTENDS MmImplementsBlockHeap, Iteration, FiniteSetTheorems

(***************************************************************************)
(* Words.                                                                  *)
(***************************************************************************)
Top  == HeapLo + MaxHeap
Word == Int \ {-1}

Heaps == [mem : [Words -> Word], brk : Nat, free_root : Nat, TOH : Nat,
          fault : {"none", "oom", "init", "stray"}]

\* g is h but for its words.
Alike(h, g) == /\ g \in Heaps /\ g.brk = h.brk /\ g.free_root = h.free_root
               /\ g.TOH = h.TOH /\ g.fault = h.fault

\* What the assumptions on the constants amount to.
LEMMA Sizing ==
  /\ HeapLo = 16 /\ FirstBlk = 48 /\ NULL = 0
  /\ MaxHeap \in Nat /\ SizeMod \in Nat /\ SizeMod > 0 /\ Page \in Nat /\ InitPage \in Nat
  /\ Top \in Nat /\ Top % 16 = 0 /\ Top + Top < SizeMod /\ Top + Page < SizeMod
  /\ Page >= 32 /\ Page % 16 = 0 /\ InitPage >= 32 /\ InitPage % 16 = 0
  /\ FirstBlk + InitPage <= Top
BY PagesAssumption, HeapAssumption DEF HeapLo, FirstBlk, NULL, Top

\* The remainder of a number below the divisor is the number.
LEMMA Remainder ==
  ASSUME NEW m \in Nat, NEW x \in Nat, x < m
  PROVE  x % m = x
OBVIOUS

\* The words of the heap are the multiples of 8 in the mapping.
LEMMA WordRange ==
  /\ \A a : a \in Words <=> a \in Nat /\ 16 <= a /\ a + 8 <= Top /\ a % 8 = 0
  /\ \A a \in Words : a % SizeMod = a
<1>1. \A a : a \in Words <=> a \in Nat /\ 16 <= a /\ a + 8 <= Top /\ a % 8 = 0
  BY Sizing DEF Words, Top
<1>2. ASSUME NEW a \in Words PROVE a % SizeMod = a
  <2>1. a \in Nat /\ a < SizeMod /\ SizeMod \in Nat
    BY <1>1, Sizing
  <2> QED BY <2>1, Remainder
<1> QED BY <1>1, <1>2

\* A load from a word of the heap.
LEMMA GetWord ==
  ASSUME NEW h \in Heaps, NEW a \in Words
  PROVE  get(h, a) = h.mem[a] /\ h.mem[a] \in Word
BY WordRange DEF get, Heaps

\* A store to a word below the break.
LEMMA PutWord ==
  ASSUME NEW h \in Heaps, NEW a \in Words, a < h.brk, NEW v \in Word
  PROVE  /\ Alike(h, put(h, a, v))
         /\ \A b \in Words : put(h, a, v).mem[b] = IF b = a THEN v ELSE h.mem[b]
<1>1. put(h, a, v) = [h EXCEPT !.mem[a] = v]
  BY WordRange DEF put
<1>2. h.mem \in [Words -> Word]
  BY DEF Heaps
<1>3. [h EXCEPT !.mem[a] = v] \in Heaps
  BY <1>2 DEF Heaps
<1> QED BY <1>1, <1>2, <1>3 DEF Alike, Heaps

(***************************************************************************)
(* Links.                                                                  *)
(***************************************************************************)
\* p has its two links below the break.
Cell(h, p) == p \in Words /\ p + 8 \in Words /\ p + 8 < h.brk

\* p may be what a link names.
Target(h, p) == p = NULL \/ Cell(h, p)

\* A cell is an address, not NULL.
LEMMA CellFacts ==
  ASSUME NEW h, NEW p, Cell(h, p), NEW g, g.brk = h.brk, h.brk \in Nat
  PROVE  /\ p \in Nat /\ p # NULL /\ p \in Word /\ NULL \notin Words /\ NULL \in Word
         /\ p \in Words /\ p + 8 \in Words /\ p < g.brk /\ p + 8 < g.brk /\ p + 8 \in Word
         /\ Cell(g, p)
BY WordRange, Sizing DEF Cell, Word, NULL

\* The pred of a cell is written, that of NULL is not.
LEMMA SetPredEffect ==
  ASSUME NEW h \in Heaps, NEW p, Target(h, p), NEW q \in Word
  PROVE  /\ Alike(h, SetPred(h, p, q))
         /\ \A b \in Words : SetPred(h, p, q).mem[b] = IF b = p THEN q ELSE h.mem[b]
<1>0. h.brk \in Nat
  BY DEF Heaps
<1>1. CASE p = NULL
  <2>1. NULL \notin Words
    BY WordRange DEF NULL
  <2> QED BY <1>1, <2>1 DEF SetPred, Alike
<1>2. CASE Cell(h, p)
  <2>1. p \in Words /\ p < h.brk /\ p # NULL
    BY <1>0, <1>2, CellFacts
  <2> QED BY <2>1, PutWord DEF SetPred
<1> QED BY <1>1, <1>2 DEF Target

\* p is linked before q: two stores.
LEMMA BeginEffect ==
  ASSUME NEW h \in Heaps, NEW p, Cell(h, p), NEW q \in Word
  PROVE  /\ Alike(h, Begin(h, p, q))
         /\ \A b \in Words : Begin(h, p, q).mem[b] = IF b = p + 8 THEN q
                                                     ELSE IF b = p THEN NULL ELSE h.mem[b]
<1> DEFINE g == put(h, p, NULL)
<1>0. h.brk \in Nat
  BY DEF Heaps
<1>1. p \in Words /\ p + 8 \in Words /\ p < h.brk /\ p + 8 < h.brk /\ NULL \in Word
  BY <1>0, CellFacts
<1>2. Alike(h, g) /\ \A b \in Words : g.mem[b] = IF b = p THEN NULL ELSE h.mem[b]
  BY <1>1, PutWord
<1> HIDE DEF g
<1>3. g \in Heaps /\ g.brk = h.brk
  BY <1>2 DEF Alike
<1>4. /\ Alike(g, put(g, p + 8, q))
      /\ \A b \in Words : put(g, p + 8, q).mem[b] = IF b = p + 8 THEN q ELSE g.mem[b]
  BY <1>1, <1>3, PutWord
<1>5. Begin(h, p, q) = put(g, p + 8, q)
  BY DEF Begin, g
<1> QED BY <1>2, <1>4, <1>5 DEF Alike

\* q follows p.
LEMMA LinkEffect ==
  ASSUME NEW h \in Heaps, NEW p, Cell(h, p), NEW q, Target(h, q)
  PROVE  /\ Alike(h, Link(h, p, q))
         /\ \A b \in Words : Link(h, p, q).mem[b] = IF b = q THEN p
                                                    ELSE IF b = p + 8 THEN q ELSE h.mem[b]
<1> DEFINE g == put(h, p + 8, q)
<1>0. h.brk \in Nat
  BY DEF Heaps
<1>1. p + 8 \in Words /\ p + 8 < h.brk /\ NULL \in Word /\ p \in Word
  BY <1>0, CellFacts
<1>2. q \in Word
  BY <1>0, <1>1, CellFacts DEF Target
<1>3. Alike(h, g) /\ \A b \in Words : g.mem[b] = IF b = p + 8 THEN q ELSE h.mem[b]
  BY <1>1, <1>2, PutWord
<1> HIDE DEF g
<1>4. g \in Heaps /\ Target(g, q)
  BY <1>3 DEF Alike, Cell, Target
<1>5. /\ Alike(g, SetPred(g, q, p))
      /\ \A b \in Words : SetPred(g, q, p).mem[b] = IF b = q THEN p ELSE g.mem[b]
  BY <1>1, <1>4, SetPredEffect
<1>6. Link(h, p, q) = SetPred(g, q, p)
  BY DEF Link, g
<1> QED BY <1>3, <1>5, <1>6 DEF Alike

\* p becomes the first cell, before q.
LEMMA LeadEffect ==
  ASSUME NEW h \in Heaps, NEW p, Cell(h, p), NEW q, Target(h, q)
  PROVE  /\ Alike(h, Lead(h, p, q))
         /\ \A b \in Words : Lead(h, p, q).mem[b] = IF b = q THEN p
                                                    ELSE IF b = p + 8 THEN q
                                                    ELSE IF b = p THEN NULL ELSE h.mem[b]
<1> DEFINE g == Begin(h, p, q)
<1>0. h.brk \in Nat
  BY DEF Heaps
<1>1. NULL \in Word /\ p \in Word
  BY <1>0, CellFacts
<1>2. q \in Word
  BY <1>0, <1>1, CellFacts DEF Target
<1>3. Alike(h, g) /\ \A b \in Words : g.mem[b] = IF b = p + 8 THEN q
                                                ELSE IF b = p THEN NULL ELSE h.mem[b]
  BY <1>2, BeginEffect
<1> HIDE DEF g
<1>4. g \in Heaps /\ Target(g, q)
  BY <1>3 DEF Alike, Cell, Target
<1>5. /\ Alike(g, SetPred(g, q, p))
      /\ \A b \in Words : SetPred(g, q, p).mem[b] = IF b = q THEN p ELSE g.mem[b]
  BY <1>1, <1>4, SetPredEffect
<1>6. Lead(h, p, q) = SetPred(g, q, p)
  BY DEF Lead, g
<1> QED BY <1>3, <1>5, <1>6 DEF Alike

\* p becomes the first cell, before the root.
LEMMA PushFrontEffect ==
  ASSUME NEW h \in Heaps, NEW p, Cell(h, p), NEW r, r = h.free_root, Cell(h, r)
  PROVE  /\ Alike(h, PushFront(h, p))
         /\ \A b \in Words : PushFront(h, p).mem[b] = IF b = r THEN p
                                                      ELSE IF b = p + 8 THEN r
                                                      ELSE IF b = p THEN NULL ELSE h.mem[b]
<1> DEFINE g == Begin(h, p, r)
<1>0. h.brk \in Nat
  BY DEF Heaps
<1>1. p \in Word /\ r \in Word /\ r # NULL
  BY <1>0, CellFacts
<1>2. Alike(h, g) /\ \A b \in Words : g.mem[b] = IF b = p + 8 THEN r
                                                ELSE IF b = p THEN NULL ELSE h.mem[b]
  BY <1>1, BeginEffect
<1> HIDE DEF g
<1>3. g \in Heaps /\ r \in Words /\ r < g.brk
  BY <1>0, <1>2, CellFacts DEF Alike
<1>4. /\ Alike(g, put(g, r, p))
      /\ \A b \in Words : put(g, r, p).mem[b] = IF b = r THEN p ELSE g.mem[b]
  BY <1>1, <1>3, PutWord
<1>5. PushFront(h, p) = put(g, r, p)
  BY DEF PushFront, g
<1> QED BY <1>2, <1>4, <1>5 DEF Alike

(***************************************************************************)
(* Lists.  F is the set of cells, r the first of them, P and S their links *)
(* and K their places.                                                     *)
(***************************************************************************)
Linked(F, r, P, S) ==
  /\ IsFiniteSet(F) /\ NULL \notin F /\ r \in F \cup {NULL}
  /\ P \in [F -> F \cup {NULL}] /\ S \in [F -> F \cup {NULL}]
  /\ \A x \in F : P[x] = NULL <=> x = r
  /\ \A x \in F : S[x] # NULL => P[S[x]] = x
  /\ \A x \in F : P[x] # NULL => S[P[x]] = x

Ranked(F, r, S, K) ==
  /\ K \in [F -> 1 .. Cardinality(F)]
  /\ \A x, y \in F : K[x] = K[y] => x = y
  /\ \A x \in F : K[x] = 1 <=> x = r
  /\ \A x \in F : S[x] # NULL => K[S[x]] = K[x] + 1

Chained(F, r, P, S) == Linked(F, r, P, S) /\ \E K : Ranked(F, r, S, K)

\* The root and the links without n, and with p in front
RootOff(r, S, n)  == IF n = r THEN S[n] ELSE r
PredOff(F, P, S, n) == [x \in F \ {n} |-> IF x = S[n] THEN P[n] ELSE P[x]]
SuccOff(F, P, S, n) == [x \in F \ {n} |-> IF x = P[n] THEN S[n] ELSE S[x]]

PredOn(F, r, P, p) == [x \in F \cup {p} |-> IF x = p THEN NULL ELSE IF x = r THEN p ELSE P[x]]
SuccOn(F, r, S, p) == [x \in F \cup {p} |-> IF x = p THEN r ELSE S[x]]

\* A list without one of its cells is a list.
LEMMA UnlinkChained ==
  ASSUME NEW F, NEW r, NEW P, NEW S, Chained(F, r, P, S), NEW n \in F
  PROVE  Chained(F \ {n}, RootOff(r, S, n), PredOff(F, P, S, n), SuccOff(F, P, S, n))
<1> DEFINE E  == F \ {n}
           r1 == RootOff(r, S, n)
           P1 == PredOff(F, P, S, n)
           S1 == SuccOff(F, P, S, n)
<1>1. Linked(F, r, P, S) /\ \E K : Ranked(F, r, S, K)
  BY DEF Chained
<1>2. PICK K : Ranked(F, r, S, K)
  BY <1>1
<1>3. /\ IsFiniteSet(F) /\ NULL \notin F /\ r \in F \cup {NULL}
      /\ \A x \in F : P[x] \in F \cup {NULL} /\ S[x] \in F \cup {NULL}
      /\ \A x \in F : P[x] = NULL <=> x = r
      /\ \A x \in F : S[x] # NULL => P[S[x]] = x
      /\ \A x \in F : P[x] # NULL => S[P[x]] = x
  BY <1>1 DEF Linked
<1>4. /\ Cardinality(E) = Cardinality(F) - 1 /\ Cardinality(F) \in Nat /\ IsFiniteSet(E)
      /\ Cardinality(E) \in Nat
  BY <1>3, FS_RemoveElement, FS_CardinalityType
<1>5. /\ \A x \in F : K[x] \in 1 .. Cardinality(F)
      /\ \A x, y \in F : K[x] = K[y] => x = y
      /\ \A x \in F : K[x] = 1 <=> x = r
      /\ \A x \in F : S[x] # NULL => K[S[x]] = K[x] + 1
  BY <1>2 DEF Ranked
<1>6. S[n] # n /\ P[n] # n
  BY <1>3, <1>5
<1>7. /\ \A x \in E : P1[x] = IF x = S[n] THEN P[n] ELSE P[x]
      /\ \A x \in E : S1[x] = IF x = P[n] THEN S[n] ELSE S[x]
      /\ r1 = IF n = r THEN S[n] ELSE r
  BY DEF PredOff, SuccOff, RootOff
<1>8. /\ P1 \in [E -> E \cup {NULL}] /\ S1 \in [E -> E \cup {NULL}]
  <2>1. \A x \in E : P1[x] \in E \cup {NULL} /\ S1[x] \in E \cup {NULL}
    BY <1>3, <1>6, <1>7
  <2> QED BY <2>1 DEF PredOff, SuccOff
<1> HIDE DEF P1, S1, r1
<1>9. Linked(E, r1, P1, S1)
  <2>1. r1 \in E \cup {NULL} /\ NULL \notin E
    BY <1>3, <1>6, <1>7
  <2>2. \A x \in E : P1[x] = NULL <=> x = r1
    BY <1>3, <1>6, <1>7
  <2>3. \A x \in E : S1[x] # NULL => P1[S1[x]] = x
    BY <1>3, <1>6, <1>7
  <2>4. \A x \in E : P1[x] # NULL => S1[P1[x]] = x
    BY <1>3, <1>6, <1>7
  <2> QED BY <1>4, <1>8, <2>1, <2>2, <2>3, <2>4 DEF Linked
<1> DEFINE L == [x \in E |-> IF K[x] > K[n] THEN K[x] - 1 ELSE K[x]]
<1>10. Ranked(E, r1, S1, L)
  <2>1. \A x \in E : /\ L[x] = IF K[x] > K[n] THEN K[x] - 1 ELSE K[x]
                     /\ K[x] # K[n] /\ K[x] \in 1 .. Cardinality(F)
    BY <1>5
  <2>2. K[n] \in 1 .. Cardinality(F)
    BY <1>5
  <2>3. L \in [E -> 1 .. Cardinality(E)]
    <3>1. \A x \in E : L[x] \in 1 .. Cardinality(E)
      BY <1>4, <2>1, <2>2
    <3> QED BY <3>1
  <2> HIDE DEF L
  <2>4. \A x, y \in E : L[x] = L[y] => x = y
    BY <1>5, <2>1, <2>2
  <2>5. ASSUME NEW x \in E, S1[x] # NULL PROVE L[S1[x]] = L[x] + 1
    <3>1. CASE x = P[n]
      <4>1. S1[x] = S[n] /\ S[x] = n /\ S[n] # NULL /\ P[n] # NULL
        BY <1>3, <1>7, <2>5, <3>1
      <4>2. K[n] = K[x] + 1 /\ K[S[n]] = K[n] + 1 /\ S[n] \in E
        BY <1>3, <1>5, <1>6, <4>1
      <4> QED BY <2>1, <2>2, <4>1, <4>2
    <3>2. CASE x # P[n]
      <4>1. S1[x] = S[x] /\ S[x] \in E /\ K[S[x]] = K[x] + 1
        BY <1>3, <1>5, <1>7, <2>5, <3>2
      <4> QED BY <2>1, <2>2, <4>1
    <3> QED BY <3>1, <3>2
  <2>6. ASSUME NEW x \in E PROVE L[x] = 1 <=> x = r1
    <3>1. CASE n = r
      <4>1. r1 = S[n] /\ K[n] = 1
        BY <1>5, <1>7, <3>1
      <4>2. L[x] = K[x] - 1
        BY <2>1, <4>1
      <4>3. x = S[n] => K[x] = 2
        BY <1>3, <1>5, <4>1
      <4>4. ASSUME K[x] = 2 PROVE x = S[n]
        <5>1. x # r /\ P[x] # NULL /\ P[x] \in F /\ S[P[x]] = x
          BY <1>3, <1>5, <4>1, <4>4, <3>1
        <5>2. K[P[x]] = 1
          <6>1. S[P[x]] # NULL /\ K[S[P[x]]] = K[P[x]] + 1
            BY <1>3, <1>5, <5>1
          <6>2. K[P[x]] \in 1 .. Cardinality(F)
            BY <1>5, <5>1
          <6> QED BY <4>4, <5>1, <6>1, <6>2
        <5> QED BY <1>5, <3>1, <5>1, <5>2
      <4> QED BY <2>1, <4>1, <4>2, <4>3, <4>4
    <3>2. CASE n # r
      <4>1. r1 = r /\ K[n] # 1 /\ K[n] > 1
        BY <1>5, <1>7, <3>2, <2>2
      <4>2. K[x] > K[n] => L[x] > 1
        BY <2>1, <2>2, <4>1
      <4> QED BY <1>5, <2>1, <2>2, <4>1, <4>2
    <3> QED BY <3>1, <3>2
  <2> QED BY <2>3, <2>4, <2>5, <2>6 DEF Ranked
<1> HIDE DEF L
<1> QED BY <1>9, <1>10 DEF Chained, P1, S1, r1

\* A list with another cell in front is a list.
LEMMA PushChained ==
  ASSUME NEW F, NEW r, NEW P, NEW S, Chained(F, r, P, S), NEW p, p \notin F, p # NULL
  PROVE  Chained(F \cup {p}, p, PredOn(F, r, P, p), SuccOn(F, r, S, p))
<1> DEFINE E  == F \cup {p}
           P1 == PredOn(F, r, P, p)
           S1 == SuccOn(F, r, S, p)
<1>1. Linked(F, r, P, S) /\ \E K : Ranked(F, r, S, K)
  BY DEF Chained
<1>2. PICK K : Ranked(F, r, S, K)
  BY <1>1
<1>3. /\ IsFiniteSet(F) /\ NULL \notin F /\ r \in F \cup {NULL}
      /\ \A x \in F : P[x] \in F \cup {NULL} /\ S[x] \in F \cup {NULL}
      /\ \A x \in F : P[x] = NULL <=> x = r
      /\ \A x \in F : S[x] # NULL => P[S[x]] = x
      /\ \A x \in F : P[x] # NULL => S[P[x]] = x
  BY <1>1 DEF Linked
<1>4. /\ Cardinality(E) = Cardinality(F) + 1 /\ Cardinality(F) \in Nat /\ IsFiniteSet(E)
  BY <1>3, FS_AddElement, FS_CardinalityType
<1>5. /\ \A x \in F : K[x] \in 1 .. Cardinality(F)
      /\ \A x, y \in F : K[x] = K[y] => x = y
      /\ \A x \in F : K[x] = 1 <=> x = r
      /\ \A x \in F : S[x] # NULL => K[S[x]] = K[x] + 1
  BY <1>2 DEF Ranked
<1>6. /\ \A x \in E : P1[x] = IF x = p THEN NULL ELSE IF x = r THEN p ELSE P[x]
      /\ \A x \in E : S1[x] = IF x = p THEN r ELSE S[x]
  BY DEF PredOn, SuccOn
<1>7. /\ P1 \in [E -> E \cup {NULL}] /\ S1 \in [E -> E \cup {NULL}]
  <2>1. \A x \in E : P1[x] \in E \cup {NULL} /\ S1[x] \in E \cup {NULL}
    BY <1>3, <1>6
  <2> QED BY <2>1 DEF PredOn, SuccOn
<1> HIDE DEF P1, S1
<1>8. Linked(E, p, P1, S1)
  <2>1. p \in E /\ NULL \notin E
    BY <1>3
  <2>2. \A x \in E : P1[x] = NULL <=> x = p
    BY <1>3, <1>6
  <2>3. \A x \in E : S1[x] # NULL => P1[S1[x]] = x
    BY <1>3, <1>6
  <2>4. \A x \in E : P1[x] # NULL => S1[P1[x]] = x
    BY <1>3, <1>6
  <2> QED BY <1>4, <1>7, <2>1, <2>2, <2>3, <2>4 DEF Linked
<1> DEFINE L == [x \in E |-> IF x = p THEN 1 ELSE K[x] + 1]
<1>9. Ranked(E, p, S1, L)
  <2>1. /\ L[p] = 1
        /\ \A x \in F : L[x] = K[x] + 1 /\ K[x] \in 1 .. Cardinality(F) /\ x # p
    BY <1>5
  <2>2. L \in [E -> 1 .. Cardinality(E)]
    <3>1. \A x \in E : L[x] \in 1 .. Cardinality(E)
      BY <1>4, <1>5
    <3> QED BY <3>1
  <2> HIDE DEF L
  <2>3. \A x, y \in E : L[x] = L[y] => x = y
    BY <1>5, <2>1
  <2>4. \A x \in E : L[x] = 1 <=> x = p
    BY <2>1
  <2>5. ASSUME NEW x \in E, S1[x] # NULL PROVE L[S1[x]] = L[x] + 1
    <3>1. CASE x = p
      <4>1. S1[x] = r /\ r \in F /\ K[r] = 1
        BY <1>3, <1>5, <1>6, <2>5, <3>1
      <4> QED BY <2>1, <3>1, <4>1
    <3>2. CASE x \in F
      <4>1. S1[x] = S[x] /\ S[x] \in F /\ K[S[x]] = K[x] + 1
        BY <1>3, <1>5, <1>6, <2>1, <2>5, <3>2
      <4> QED BY <2>1, <3>2, <4>1
    <3> QED BY <3>1, <3>2
  <2> QED BY <2>2, <2>3, <2>4, <2>5 DEF Ranked
<1> HIDE DEF L
<1> QED BY <1>8, <1>9 DEF Chained, P1, S1

\* A list of some cells has a first one.
LEMMA RootExists ==
  ASSUME NEW F, NEW r, NEW P, NEW S, Chained(F, r, P, S), NEW x \in F
  PROVE  r # NULL /\ r \in F /\ (P[x] = NULL <=> x = r)
<1>1. Linked(F, r, P, S) /\ \E K : Ranked(F, r, S, K)
  BY DEF Chained
<1>2. PICK K : Ranked(F, r, S, K)
  BY <1>1
<1> DEFINE N == {K[y] : y \in F}
<1>3. \A y \in F : K[y] \in Nat /\ K[y] \in N
  BY <1>2 DEF Ranked
<1>4. N \in SUBSET Nat /\ N # {}
  BY <1>3
<1>5. PICK k \in N : \A m \in N : k <= m
  <2> HIDE DEF N
  <2> QED BY <1>4, LeastExists
<1>6. PICK y \in F : K[y] = k
  BY <1>5
<1>7. \A z \in F : K[y] <= K[z]
  BY <1>3, <1>5, <1>6
<1>8. P[y] = NULL
  <2> SUFFICES ASSUME P[y] # NULL PROVE FALSE
    OBVIOUS
  <2>1. P[y] \in F /\ S[P[y]] = y /\ NULL # y
    BY <1>1 DEF Linked
  <2>2. K[y] = K[P[y]] + 1
    BY <1>2, <2>1 DEF Ranked
  <2> QED BY <1>3, <1>7, <2>1, <2>2
<1> QED BY <1>1, <1>8 DEF Linked

\* What a list says cell by cell.
Joined(F, r, P, S) ==
  /\ NULL \notin F /\ r \in F \cup {NULL} /\ (F # {} => r \in F)
  /\ \A x \in F : P[x] \in F \cup {NULL} /\ S[x] \in F \cup {NULL} /\ P[x] # x /\ S[x] # x
  /\ \A x \in F : P[x] = NULL <=> x = r
  /\ \A x \in F : S[x] # NULL => P[S[x]] = x
  /\ \A x \in F : P[x] # NULL => S[P[x]] = x
  /\ \A x \in F : S[x] # NULL => S[S[x]] # x

\* No cell follows itself, nor the one that follows it.
LEMMA ChainedJoins ==
  ASSUME NEW F, NEW r, NEW P, NEW S, Chained(F, r, P, S)
  PROVE  Joined(F, r, P, S)
<1>1. Linked(F, r, P, S) /\ \E K : Ranked(F, r, S, K)
  BY DEF Chained
<1>2. PICK K : Ranked(F, r, S, K)
  BY <1>1
<1>3. /\ NULL \notin F /\ r \in F \cup {NULL}
      /\ \A x \in F : P[x] \in F \cup {NULL} /\ S[x] \in F \cup {NULL}
      /\ \A x \in F : P[x] = NULL <=> x = r
      /\ \A x \in F : S[x] # NULL => P[S[x]] = x
      /\ \A x \in F : P[x] # NULL => S[P[x]] = x
  BY <1>1 DEF Linked
<1>4. ASSUME NEW x \in F PROVE S[x] # x /\ P[x] # x /\ (S[x] # NULL => S[S[x]] # x)
  <2>1. \A y \in F : K[y] \in Nat /\ (S[y] # NULL => K[S[y]] = K[y] + 1)
    BY <1>2 DEF Ranked
  <2> QED BY <1>3, <2>1
<1>5. F # {} => r \in F
  BY RootExists
<1> QED BY <1>3, <1>4, <1>5 DEF Joined

\* The words at the cells in F are the links of a list of them.
Listed(h, F) ==
  \E P, S : /\ Chained(F, h.free_root, P, S)
            /\ \A x \in F : h.mem[x] = P[x] /\ h.mem[x + 8] = S[x]

\* The cells in E do not share words.
Cells(h, E) == \A x \in E : Cell(h, x) /\ \A y \in E : x # y + 8

\* The links of the cells in E
Bears(h, E, P, S) ==
  h \in Heaps /\ Cells(h, E) /\ \A x \in E : h.mem[x] = P[x] /\ h.mem[x + 8] = S[x]

\* Nothing but the links of the cells in E, and the root, differs between h and g.
OnlyLinks(h, g, E) ==
  /\ g \in Heaps /\ g.brk = h.brk /\ g.TOH = h.TOH /\ g.fault = h.fault
  /\ \A a \in Words : (\A x \in E : a # x /\ a # x + 8) => g.mem[a] = h.mem[a]

\* The links in g are P and S, the rest is as in h.
Relinks(h, g, E, P, S) == Bears(g, E, P, S) /\ OnlyLinks(h, g, E) /\ g.free_root = h.free_root

Upd(E, P, a, v) == [x \in E |-> IF x = a THEN v ELSE P[x]]

Rooted(h, r) == [h EXCEPT !.free_root = r]

\* The root is a word of its own.
LEMMA RootedEffect ==
  ASSUME NEW h \in Heaps, NEW r \in Nat
  PROVE  /\ Rooted(h, r) \in Heaps /\ Rooted(h, r).free_root = r /\ Rooted(h, r).mem = h.mem
         /\ Rooted(h, r).brk = h.brk /\ Rooted(h, r).TOH = h.TOH /\ Rooted(h, r).fault = h.fault
BY DEF Rooted, Heaps

\* A cell and what it links are words.
LEMMA CellsFacts ==
  ASSUME NEW h \in Heaps, NEW E, Cells(h, E)
  PROVE  /\ \A x \in E : /\ Cell(h, x) /\ x \in Words /\ x + 8 \in Words /\ x \in Nat
                         /\ x # NULL /\ x \in Word
         /\ \A x, y \in E : x # y + 8 /\ (x + 8 = y + 8 => x = y)
         /\ NULL \notin Words /\ NULL \in Word /\ NULL \in Nat
         /\ \A x \in E \cup {NULL} : Target(h, x)
<1>1. h.brk \in Nat
  BY DEF Heaps
<1>2. NULL \notin Words /\ NULL \in Word /\ Target(h, NULL) /\ NULL \in Nat
  BY WordRange DEF NULL, Word, Target
<1>3. ASSUME NEW x \in E PROVE /\ Cell(h, x) /\ x \in Words /\ x + 8 \in Words /\ x \in Nat
                               /\ x # NULL /\ x \in Word /\ Target(h, x)
  <2>1. Cell(h, x)
    BY DEF Cells
  <2> QED BY <1>1, <2>1, CellFacts DEF Target
<1>4. \A x, y \in E : x # y + 8 /\ (x + 8 = y + 8 => x = y)
  BY <1>3 DEF Cells
<1> QED BY <1>2, <1>3, <1>4

\* What the words at the cells say afterwards, read off the words of the heap.
LEMMA RelinksBy ==
  ASSUME NEW h, NEW E, Cells(h, E), NEW g, Alike(h, g), NEW P, NEW S,
         \A x \in E : g.mem[x] = P[x] /\ g.mem[x + 8] = S[x],
         \A a \in Words : (\A x \in E : a # x /\ a # x + 8) => g.mem[a] = h.mem[a]
  PROVE  Relinks(h, g, E, P, S)
<1>1. Cells(g, E)
  BY DEF Cells, Cell, Alike
<1> QED BY <1>1 DEF Relinks, Bears, OnlyLinks, Alike

\* The pred of p is cleared.
LEMMA ClearLinks ==
  ASSUME NEW h, NEW E, NEW P, NEW S, Bears(h, E, P, S), NEW p \in E \cup {NULL}
  PROVE  Relinks(h, SetPred(h, p, NULL), E, Upd(E, P, p, NULL), S)
<1> DEFINE g == SetPred(h, p, NULL)
           P2 == Upd(E, P, p, NULL)
<1>1. h \in Heaps /\ Cells(h, E) /\ \A x \in E : h.mem[x] = P[x] /\ h.mem[x + 8] = S[x]
  BY DEF Bears
<1>2. /\ \A x \in E : x \in Words /\ x + 8 \in Words
      /\ \A x, y \in E : x # y + 8
      /\ NULL \notin Words /\ NULL \in Word /\ Target(h, p)
  BY <1>1, CellsFacts
<1>3. Alike(h, g) /\ \A b \in Words : g.mem[b] = IF b = p THEN NULL ELSE h.mem[b]
  BY <1>1, <1>2, SetPredEffect
<1>4. \A x \in E : P2[x] = IF x = p THEN NULL ELSE P[x]
  BY DEF Upd
<1> HIDE DEF g, P2
<1>5. \A x \in E : g.mem[x] = P2[x] /\ g.mem[x + 8] = S[x]
  BY <1>1, <1>2, <1>3, <1>4
<1>6. \A a \in Words : (\A x \in E : a # x /\ a # x + 8) => g.mem[a] = h.mem[a]
  BY <1>2, <1>3
<1>7. Relinks(h, g, E, P2, S)
  BY <1>1, <1>3, <1>5, <1>6, RelinksBy
<1> QED BY <1>7 DEF g, P2

\* q follows p.
LEMMA LinkLinks ==
  ASSUME NEW h, NEW E, NEW P, NEW S, Bears(h, E, P, S), NEW p \in E, NEW q \in E \cup {NULL}
  PROVE  Relinks(h, Link(h, p, q), E, Upd(E, P, q, p), Upd(E, S, p, q))
<1> DEFINE g == Link(h, p, q)
           P2 == Upd(E, P, q, p)
           S2 == Upd(E, S, p, q)
<1>1. h \in Heaps /\ Cells(h, E) /\ \A x \in E : h.mem[x] = P[x] /\ h.mem[x + 8] = S[x]
  BY DEF Bears
<1>2. /\ \A x \in E : x \in Words /\ x + 8 \in Words
      /\ \A x, y \in E : x # y + 8 /\ (x + 8 = y + 8 => x = y)
      /\ NULL \notin Words /\ Cell(h, p) /\ Target(h, q)
  BY <1>1, CellsFacts
<1>3. /\ Alike(h, g)
      /\ \A b \in Words : g.mem[b] = IF b = q THEN p ELSE IF b = p + 8 THEN q ELSE h.mem[b]
  BY <1>1, <1>2, LinkEffect
<1>4. /\ \A x \in E : P2[x] = IF x = q THEN p ELSE P[x]
      /\ \A x \in E : S2[x] = IF x = p THEN q ELSE S[x]
  BY DEF Upd
<1> HIDE DEF g, P2, S2
<1>5. \A x \in E : g.mem[x] = P2[x] /\ g.mem[x + 8] = S2[x]
  BY <1>1, <1>2, <1>3, <1>4
<1>6. \A a \in Words : (\A x \in E : a # x /\ a # x + 8) => g.mem[a] = h.mem[a]
  BY <1>2, <1>3
<1>7. Relinks(h, g, E, P2, S2)
  BY <1>1, <1>3, <1>5, <1>6, RelinksBy
<1> QED BY <1>7 DEF g, P2, S2

\* p begins the list, and its successor q does not know.
LEMMA BeginLinks ==
  ASSUME NEW h, NEW E, NEW P, NEW S, Bears(h, E, P, S), NEW p \in E, NEW q \in E \cup {NULL}
  PROVE  Relinks(h, Begin(h, p, q), E, Upd(E, P, p, NULL), Upd(E, S, p, q))
<1> DEFINE g == Begin(h, p, q)
           P2 == Upd(E, P, p, NULL)
           S2 == Upd(E, S, p, q)
<1>1. h \in Heaps /\ Cells(h, E) /\ \A x \in E : h.mem[x] = P[x] /\ h.mem[x + 8] = S[x]
  BY DEF Bears
<1>2. /\ \A x \in E : x \in Words /\ x + 8 \in Words
      /\ \A x, y \in E : x # y + 8 /\ (x + 8 = y + 8 => x = y)
      /\ NULL \notin Words /\ Cell(h, p) /\ q \in Word
  BY <1>1, CellsFacts
<1>3. /\ Alike(h, g)
      /\ \A b \in Words : g.mem[b] = IF b = p + 8 THEN q ELSE IF b = p THEN NULL ELSE h.mem[b]
  BY <1>1, <1>2, BeginEffect
<1>4. /\ \A x \in E : P2[x] = IF x = p THEN NULL ELSE P[x]
      /\ \A x \in E : S2[x] = IF x = p THEN q ELSE S[x]
  BY DEF Upd
<1> HIDE DEF g, P2, S2
<1>5. \A x \in E : g.mem[x] = P2[x] /\ g.mem[x + 8] = S2[x]
  BY <1>1, <1>2, <1>3, <1>4
<1>6. \A a \in Words : (\A x \in E : a # x /\ a # x + 8) => g.mem[a] = h.mem[a]
  BY <1>2, <1>3
<1>7. Relinks(h, g, E, P2, S2)
  BY <1>1, <1>3, <1>5, <1>6, RelinksBy
<1> QED BY <1>7 DEF g, P2, S2

\* p begins the list, before q.
LEMMA LeadLinks ==
  ASSUME NEW h, NEW E, NEW P, NEW S, Bears(h, E, P, S), NEW p \in E, NEW q \in E \cup {NULL}
  PROVE  Relinks(h, Lead(h, p, q), E, Upd(E, Upd(E, P, p, NULL), q, p), Upd(E, S, p, q))
<1> DEFINE g == Lead(h, p, q)
           P2 == Upd(E, Upd(E, P, p, NULL), q, p)
           S2 == Upd(E, S, p, q)
<1>1. h \in Heaps /\ Cells(h, E) /\ \A x \in E : h.mem[x] = P[x] /\ h.mem[x + 8] = S[x]
  BY DEF Bears
<1>2. /\ \A x \in E : x \in Words /\ x + 8 \in Words
      /\ \A x, y \in E : x # y + 8 /\ (x + 8 = y + 8 => x = y)
      /\ NULL \notin Words /\ Cell(h, p) /\ Target(h, q)
  BY <1>1, CellsFacts
<1>3. /\ Alike(h, g)
      /\ \A b \in Words : g.mem[b] = IF b = q THEN p ELSE IF b = p + 8 THEN q
                                     ELSE IF b = p THEN NULL ELSE h.mem[b]
  BY <1>1, <1>2, LeadEffect
<1>4. /\ \A x \in E : P2[x] = IF x = q THEN p ELSE IF x = p THEN NULL ELSE P[x]
      /\ \A x \in E : S2[x] = IF x = p THEN q ELSE S[x]
  BY DEF Upd
<1> HIDE DEF g, P2, S2
<1>5. \A x \in E : g.mem[x] = P2[x] /\ g.mem[x + 8] = S2[x]
  BY <1>1, <1>2, <1>3, <1>4
<1>6. \A a \in Words : (\A x \in E : a # x /\ a # x + 8) => g.mem[a] = h.mem[a]
  BY <1>2, <1>3
<1>7. Relinks(h, g, E, P2, S2)
  BY <1>1, <1>3, <1>5, <1>6, RelinksBy
<1> QED BY <1>7 DEF g, P2, S2

\* p begins the list, before its root.
LEMMA FrontLinks ==
  ASSUME NEW h, NEW E, NEW P, NEW S, Bears(h, E, P, S), NEW p \in E, NEW r \in E,
         r = h.free_root
  PROVE  Relinks(h, PushFront(h, p), E, Upd(E, Upd(E, P, p, NULL), r, p), Upd(E, S, p, r))
<1> DEFINE g == PushFront(h, p)
           P2 == Upd(E, Upd(E, P, p, NULL), r, p)
           S2 == Upd(E, S, p, r)
<1>1. h \in Heaps /\ Cells(h, E) /\ \A x \in E : h.mem[x] = P[x] /\ h.mem[x + 8] = S[x]
  BY DEF Bears
<1>2. /\ \A x \in E : x \in Words /\ x + 8 \in Words
      /\ \A x, y \in E : x # y + 8 /\ (x + 8 = y + 8 => x = y)
      /\ NULL \notin Words /\ Cell(h, p) /\ Cell(h, r)
  BY <1>1, CellsFacts
<1>3. /\ Alike(h, g)
      /\ \A b \in Words : g.mem[b] = IF b = r THEN p ELSE IF b = p + 8 THEN r
                                     ELSE IF b = p THEN NULL ELSE h.mem[b]
  BY <1>1, <1>2, PushFrontEffect
<1>4. /\ \A x \in E : P2[x] = IF x = r THEN p ELSE IF x = p THEN NULL ELSE P[x]
      /\ \A x \in E : S2[x] = IF x = p THEN r ELSE S[x]
  BY DEF Upd
<1> HIDE DEF g, P2, S2
<1>5. \A x \in E : g.mem[x] = P2[x] /\ g.mem[x + 8] = S2[x]
  BY <1>1, <1>2, <1>3, <1>4
<1>6. \A a \in Words : (\A x \in E : a # x /\ a # x + 8) => g.mem[a] = h.mem[a]
  BY <1>2, <1>3
<1>7. Relinks(h, g, E, P2, S2)
  BY <1>1, <1>3, <1>5, <1>6, RelinksBy
<1> QED BY <1>7 DEF g, P2, S2

\* One update of links after another.
LEMMA RelinksAgain ==
  ASSUME NEW h, NEW g, NEW k, NEW E, NEW P, NEW S, NEW P2, NEW S2,
         Relinks(h, g, E, P, S), Relinks(g, k, E, P2, S2)
  PROVE  Relinks(h, k, E, P2, S2)
BY DEF Relinks, OnlyLinks

\* The list of h has become one of the cells in F2, by links of E only.
Relisted(h, g, E, F2) == Listed(g, F2) /\ OnlyLinks(h, g, E)

\* The links that a list of the cells in F2 needs make it a list.
LEMMA RelistedBy ==
  ASSUME NEW h, NEW k, NEW E, NEW P2, NEW S2, Relinks(h, k, E, P2, S2),
         NEW F2, F2 \subseteq E, NEW r \in Nat, NEW P, NEW S, Chained(F2, r, P, S),
         \A x \in F2 : P2[x] = P[x] /\ S2[x] = S[x]
  PROVE  Relisted(h, Rooted(k, r), E, F2)
<1>1. k \in Heaps
  BY DEF Relinks, Bears
<1>2. /\ Rooted(k, r) \in Heaps /\ Rooted(k, r).free_root = r /\ Rooted(k, r).mem = k.mem
      /\ Rooted(k, r).brk = k.brk /\ Rooted(k, r).TOH = k.TOH /\ Rooted(k, r).fault = k.fault
  BY <1>1, RootedEffect
<1>3. OnlyLinks(h, Rooted(k, r), E)
  BY <1>2 DEF Relinks, OnlyLinks
<1>4. \A x \in F2 : k.mem[x] = P[x] /\ k.mem[x + 8] = S[x]
  BY DEF Relinks, Bears
<1> QED BY <1>2, <1>3, <1>4 DEF Relisted, Listed
\* The links in h of the cells in E
PredsIn(h, E) == [x \in E |-> h.mem[x]]
SuccsIn(h, E) == [x \in E |-> h.mem[x + 8]]

\* The cells of F have the same neighbours in P and S as in Q and R.
Agree(F, P, S, Q, R) == \A x \in F : P[x] = Q[x] /\ S[x] = R[x]

\* The same, for neighbours that agree.
LEMMA RelistedAs ==
  ASSUME NEW h, NEW k, NEW E, NEW P2, NEW S2, Relinks(h, k, E, P2, S2),
         NEW F2, F2 \subseteq E, NEW r \in Nat, NEW P, NEW S, Chained(F2, r, P, S),
         Agree(F2, P2, S2, P, S)
  PROVE  Relisted(h, Rooted(k, r), E, F2)
BY RelistedBy DEF Agree

\* A list of some of the cells in E, in the words of h.
LEMMA ListLinks ==
  ASSUME NEW h \in Heaps, NEW F, Listed(h, F), NEW E, F \subseteq E, Cells(h, E)
  PROVE  /\ Bears(h, E, PredsIn(h, E), SuccsIn(h, E))
         /\ \E P, S : /\ Chained(F, h.free_root, P, S) /\ Joined(F, h.free_root, P, S)
                      /\ \A x \in F : P[x] = PredsIn(h, E)[x] /\ S[x] = SuccsIn(h, E)[x]
                      /\ \A x \in F : P[x] = h.mem[x] /\ S[x] = h.mem[x + 8]
<1>1. Bears(h, E, PredsIn(h, E), SuccsIn(h, E))
  BY DEF Bears, PredsIn, SuccsIn
<1>2. PICK P, S : /\ Chained(F, h.free_root, P, S)
                  /\ \A x \in F : h.mem[x] = P[x] /\ h.mem[x + 8] = S[x]
  BY DEF Listed
<1>3. Joined(F, h.free_root, P, S)
  BY <1>2, ChainedJoins
<1>4. \A x \in F : P[x] = PredsIn(h, E)[x] /\ S[x] = SuccsIn(h, E)[x]
  BY <1>2 DEF PredsIn, SuccsIn
<1> QED BY <1>1, <1>2, <1>3, <1>4

\* coalesce without free neighbours: the block is put in front of the list.
LEMMA PushListed ==
  ASSUME NEW h \in Heaps, NEW F, Listed(h, F), NEW p, p \notin F, Cells(h, F \cup {p}),
         NEW k, k = IF h.free_root # NULL THEN PushFront(h, p) ELSE Begin(h, p, NULL)
  PROVE  Relisted(h, Rooted(k, p), F \cup {p}, F \cup {p})
<1> DEFINE r  == h.free_root
           E  == F \cup {p}
           P0 == PredsIn(h, E)
           S0 == SuccsIn(h, E)
<1>1. PICK P, S : /\ Chained(F, r, P, S) /\ Joined(F, r, P, S)
                  /\ \A x \in F : P[x] = P0[x] /\ S[x] = S0[x]
  BY ListLinks
<1>2. Bears(h, E, P0, S0)
  BY ListLinks
<1>3. p \in Nat /\ p # NULL
  BY CellsFacts
<1> DEFINE PQ == PredOn(F, r, P, p)
           SQ == SuccOn(F, r, S, p)
<1>4. Chained(E, p, PQ, SQ)
  BY <1>1, <1>3, PushChained
<1>5. /\ \A x \in E : PQ[x] = IF x = p THEN NULL ELSE IF x = r THEN p ELSE P[x]
      /\ \A x \in E : SQ[x] = IF x = p THEN r ELSE S[x]
  BY DEF PredOn, SuccOn
<1> HIDE DEF P0, S0, PQ, SQ
<1>6. CASE r # NULL
  <2> DEFINE P2 == Upd(E, Upd(E, P0, p, NULL), r, p)
             S2 == Upd(E, S0, p, r)
  <2>1. r \in E
    BY <1>1, <1>6 DEF Joined
  <2>2. Relinks(h, k, E, P2, S2)
    BY <1>2, <1>6, <2>1, FrontLinks
  <2>3. \A x \in E : /\ P2[x] = IF x = r THEN p ELSE IF x = p THEN NULL ELSE P0[x]
                     /\ S2[x] = IF x = p THEN r ELSE S0[x]
    BY DEF Upd
  <2> HIDE DEF P2, S2
  <2>4. \A x \in E : P2[x] = PQ[x] /\ S2[x] = SQ[x]
    BY <1>1, <1>5, <1>6, <2>3 DEF Joined
  <2> QED BY <1>3, <1>4, <2>2, <2>4, RelistedBy
<1>7. CASE r = NULL
  <2> DEFINE P2 == Upd(E, P0, p, NULL)
             S2 == Upd(E, S0, p, NULL)
  <2>1. Relinks(h, k, E, P2, S2)
    BY <1>2, <1>7, BeginLinks
  <2>2. \A x \in E : /\ P2[x] = IF x = p THEN NULL ELSE P0[x]
                     /\ S2[x] = IF x = p THEN NULL ELSE S0[x]
    BY DEF Upd
  <2> HIDE DEF P2, S2
  <2>3. \A x \in E : P2[x] = PQ[x] /\ S2[x] = SQ[x]
    BY <1>1, <1>5, <1>7, <2>2 DEF Joined
  <2> QED BY <1>3, <1>4, <2>1, <2>3, RelistedBy
<1> QED BY <1>6, <1>7

\* The list without n, links and root, when F is a list
Off(F, r, P, S, n, F1, r1, P1, S1) ==
  /\ F1 = F \ {n} /\ Chained(F1, r1, P1, S1)
  /\ r1 = IF n = r THEN S[n] ELSE r
  /\ \A x \in F1 : /\ P1[x] = IF x = S[n] THEN P[n] ELSE P[x]
                   /\ S1[x] = IF x = P[n] THEN S[n] ELSE S[x]

\* A cell can be taken off a list.
LEMMA TakeOff ==
  ASSUME NEW F, NEW r, NEW P, NEW S, Chained(F, r, P, S), NEW n \in F
  PROVE  \E F1, r1, P1, S1 : Off(F, r, P, S, n, F1, r1, P1, S1)
<1>1. Off(F, r, P, S, n, F \ {n}, RootOff(r, S, n), PredOff(F, P, S, n), SuccOff(F, P, S, n))
  BY UnlinkChained DEF Off, RootOff, PredOff, SuccOff
<1> QED BY <1>1

\* The list with p in front
Front(F, r, P, S, p, PQ, SQ) ==
  /\ Chained(F \cup {p}, p, PQ, SQ)
  /\ \A x \in F \cup {p} : /\ PQ[x] = IF x = p THEN NULL ELSE IF x = r THEN p ELSE P[x]
                           /\ SQ[x] = IF x = p THEN r ELSE S[x]

\* A cell can be put in front of a list.
LEMMA PutInFront ==
  ASSUME NEW F, NEW r, NEW P, NEW S, Chained(F, r, P, S), NEW p, p \notin F, p # NULL
  PROVE  \E PQ, SQ : Front(F, r, P, S, p, PQ, SQ)
<1>1. Front(F, r, P, S, p, PredOn(F, r, P, p), SuccOn(F, r, S, p))
  BY PushChained DEF Front, PredOn, SuccOn
<1> QED BY <1>1

\* A cell n of the list gives way to p, or to itself, in front of the list.
LEMMA ReplaceListed ==
  ASSUME NEW h \in Heaps, NEW F, Listed(h, F), NEW n \in F, NEW p, p \notin F \ {n},
         Cells(h, F \cup {p}),
         NEW k, k = IF n # h.free_root THEN Link(PushFront(h, p), h.mem[n], h.mem[n + 8])
                    ELSE Lead(h, p, h.mem[n + 8])
  PROVE  Relisted(h, Rooted(k, p), F \cup {p}, (F \ {n}) \cup {p})
<1> DEFINE r  == h.free_root
           E  == F \cup {p}
           P0 == PredsIn(h, E)
           S0 == SuccsIn(h, E)
<1>1. PICK P, S : /\ Chained(F, r, P, S) /\ Joined(F, r, P, S)
                  /\ \A x \in F : P[x] = P0[x] /\ S[x] = S0[x]
                  /\ \A x \in F : P[x] = h.mem[x] /\ S[x] = h.mem[x + 8]
  BY ListLinks
<1>2. Bears(h, E, P0, S0)
  BY ListLinks
<1>3. p \in Nat /\ p # NULL
  BY CellsFacts
<1>4. PICK F1, r1, P1, S1 : Off(F, r, P, S, n, F1, r1, P1, S1)
  BY <1>1, TakeOff
<1>5. F1 = F \ {n} /\ Chained(F1, r1, P1, S1)
  BY <1>4 DEF Off
<1>6. PICK PQ, SQ : Front(F1, r1, P1, S1, p, PQ, SQ)
  BY <1>3, <1>5, PutInFront
<1>7. F1 \cup {p} \subseteq E /\ Chained(F1 \cup {p}, p, PQ, SQ)
  BY <1>5, <1>6 DEF Front
<1> HIDE DEF P0, S0
<1>8. CASE n # r
  <2> DEFINE PA == Upd(E, Upd(E, P0, p, NULL), r, p)
             SA == Upd(E, S0, p, r)
             PB == Upd(E, PA, S[n], P[n])
             SB == Upd(E, SA, P[n], S[n])
             t  == PushFront(h, p)
  <2>1. r \in E /\ P[n] \in E /\ S[n] \in E \cup {NULL}
    BY <1>1, <1>8 DEF Joined
  <2>2. Relinks(h, t, E, PA, SA)
    BY <1>2, <2>1, FrontLinks
  <2>3. k = Link(t, P[n], S[n])
    BY <1>1, <1>8
  <2>4. \A x \in E : /\ PB[x] = IF x = S[n] THEN P[n] ELSE IF x = r THEN p
                                ELSE IF x = p THEN NULL ELSE P0[x]
                     /\ SB[x] = IF x = P[n] THEN S[n] ELSE IF x = p THEN r ELSE S0[x]
    BY DEF Upd
  <2> HIDE DEF PA, SA, t
  <2>5. Relinks(t, k, E, PB, SB)
    <3>1. Bears(t, E, PA, SA)
      BY <2>2 DEF Relinks
    <3> QED BY <2>1, <2>3, <3>1, LinkLinks
  <2> HIDE DEF PB, SB
  <2>6. Relinks(h, k, E, PB, SB)
    BY <2>2, <2>5, RelinksAgain
  <2>7. \A x \in F1 \cup {p} : PB[x] = PQ[x] /\ SB[x] = SQ[x]
    BY <1>1, <1>3, <1>4, <1>6, <1>8, <2>4 DEF Joined, Off, Front
  <2>8. Relisted(h, Rooted(k, p), E, F1 \cup {p})
    BY <1>3, <1>7, <2>6, <2>7, RelistedBy
  <2> QED BY <1>5, <2>8
<1>9. CASE n = r
  <2> DEFINE PB == Upd(E, Upd(E, P0, p, NULL), S[n], p)
             SB == Upd(E, S0, p, S[n])
  <2>1. S[n] \in E \cup {NULL}
    BY <1>1 DEF Joined
  <2>2. k = Lead(h, p, S[n])
    BY <1>1, <1>9
  <2>3. Relinks(h, k, E, PB, SB)
    BY <1>2, <2>1, <2>2, LeadLinks
  <2>4. \A x \in E : /\ PB[x] = IF x = S[n] THEN p ELSE IF x = p THEN NULL ELSE P0[x]
                     /\ SB[x] = IF x = p THEN S[n] ELSE S0[x]
    BY DEF Upd
  <2> HIDE DEF PB, SB
  <2>5. \A x \in F1 \cup {p} : PB[x] = PQ[x] /\ SB[x] = SQ[x]
    BY <1>1, <1>3, <1>4, <1>6, <1>9, <2>4 DEF Joined, Off, Front
  <2>6. Relisted(h, Rooted(k, p), E, F1 \cup {p})
    BY <1>3, <1>7, <2>3, <2>5, RelistedBy
  <2> QED BY <1>5, <2>6
<1> QED BY <1>8, <1>9

\* A heap whose root is r already.
LEMMA RootedSame ==
  ASSUME NEW h \in Heaps
  PROVE  Rooted(h, h.free_root) = h
BY DEF Rooted, Heaps

\* place, the whole block: n leaves the list.
LEMMA RemoveListed ==
  ASSUME NEW h \in Heaps, NEW F, Listed(h, F), NEW n \in F, Cells(h, F),
         NEW g, g = IF n # h.free_root THEN Link(h, h.mem[n], h.mem[n + 8])
                    ELSE Rooted(SetPred(h, h.mem[n + 8], NULL), h.mem[n + 8])
  PROVE  Relisted(h, g, F, F \ {n})
<1> DEFINE r  == h.free_root
           P0 == PredsIn(h, F)
           S0 == SuccsIn(h, F)
<1>1. PICK P, S : /\ Chained(F, r, P, S) /\ Joined(F, r, P, S)
                  /\ \A x \in F : P[x] = P0[x] /\ S[x] = S0[x]
                  /\ \A x \in F : P[x] = h.mem[x] /\ S[x] = h.mem[x + 8]
  BY ListLinks
<1>2. Bears(h, F, P0, S0)
  BY ListLinks
<1>3. \A x \in F \cup {NULL} : x \in Nat
  BY CellsFacts
<1>4. PICK F1, r1, P1, S1 : Off(F, r, P, S, n, F1, r1, P1, S1)
  BY <1>1, TakeOff
<1>5. F1 = F \ {n} /\ Chained(F1, r1, P1, S1)
  BY <1>4 DEF Off
<1> HIDE DEF P0, S0
<1>6. CASE n # r
  <2> DEFINE PB == Upd(F, P0, S[n], P[n])
             SB == Upd(F, S0, P[n], S[n])
  <2>1. P[n] \in F /\ S[n] \in F \cup {NULL} /\ r \in F
    BY <1>1, <1>6 DEF Joined
  <2>2. g = Link(h, P[n], S[n])
    BY <1>1, <1>6
  <2>3. Relinks(h, g, F, PB, SB)
    BY <1>2, <2>1, <2>2, LinkLinks
  <2>4. \A x \in F : /\ PB[x] = IF x = S[n] THEN P[n] ELSE P0[x]
                     /\ SB[x] = IF x = P[n] THEN S[n] ELSE S0[x]
    BY DEF Upd
  <2> HIDE DEF PB, SB
  <2>5. \A x \in F1 : PB[x] = P1[x] /\ SB[x] = S1[x]
    BY <1>1, <1>4, <2>4 DEF Off
  <2>6. r1 = r /\ r \in Nat /\ g \in Heaps /\ g.free_root = r
    BY <1>3, <1>4, <1>6, <2>1, <2>3 DEF Off, Relinks, Bears
  <2>7. Relisted(h, Rooted(g, r1), F, F1)
    BY <1>3, <1>5, <2>3, <2>5, <2>6, RelistedBy
  <2> QED BY <1>5, <2>6, <2>7, RootedSame
<1>7. CASE n = r
  <2> DEFINE PB == Upd(F, P0, S[n], NULL)
             k  == SetPred(h, S[n], NULL)
  <2>1. S[n] \in F \cup {NULL}
    BY <1>1 DEF Joined
  <2>2. g = Rooted(k, S[n])
    BY <1>1, <1>7
  <2>3. Relinks(h, k, F, PB, S0)
    BY <1>2, <2>1, ClearLinks
  <2>4. \A x \in F : PB[x] = IF x = S[n] THEN NULL ELSE P0[x]
    BY DEF Upd
  <2> HIDE DEF PB
  <2>5. \A x \in F1 : PB[x] = P1[x] /\ S0[x] = S1[x]
    BY <1>1, <1>4, <1>7, <2>4 DEF Off, Joined
  <2>6. r1 = S[n] /\ r1 \in Nat
    BY <1>3, <1>4, <1>7, <2>1 DEF Off
  <2>7. Relisted(h, Rooted(k, r1), F, F1)
    BY <1>5, <2>3, <2>5, <2>6, RelistedBy
  <2> QED BY <1>5, <2>2, <2>6, <2>7
<1> QED BY <1>6, <1>7

\* coalesce with both neighbours free: n leaves the list and q comes in front.
LEMMA MergeListed ==
  ASSUME NEW h, NEW t \in Heaps, NEW F, Listed(t, F), NEW q \in F, NEW n \in F, q # n,
         Cells(t, F), h.free_root = t.free_root,
         succ(t, q) = t.mem[q + 8], pred(t, q) = t.mem[q],
         succ(h, n) = t.mem[n + 8], pred(h, n) = t.mem[n]
  PROVE  Relisted(t, Rooted(SpliceBoth(h, t, q, n), q), F, F \ {n})
<1> DEFINE r  == t.free_root
           P0 == PredsIn(t, F)
           S0 == SuccsIn(t, F)
           k  == SpliceBoth(h, t, q, n)
           g  == PushFront(t, q)
<1>1. PICK P, S : /\ Chained(F, r, P, S) /\ Joined(F, r, P, S)
                  /\ \A x \in F : P[x] = P0[x] /\ S[x] = S0[x]
                  /\ \A x \in F : P[x] = t.mem[x] /\ S[x] = t.mem[x + 8]
  BY ListLinks
<1>2. Bears(t, F, P0, S0)
  BY ListLinks
<1>3. q \in Nat /\ q # NULL /\ n # NULL
  BY CellsFacts
<1>4. PICK F1, r1, P1, S1 : Off(F, r, P, S, q, F1, r1, P1, S1)
  BY <1>1, TakeOff
<1>5. F1 = F \ {q} /\ Chained(F1, r1, P1, S1) /\ n \in F1
  BY <1>4 DEF Off
<1>6. PICK F2, r2, P2, S2 : Off(F1, r1, P1, S1, n, F2, r2, P2, S2)
  BY <1>5, TakeOff
<1>7. F2 = F1 \ {n} /\ Chained(F2, r2, P2, S2) /\ q \notin F2
  BY <1>5, <1>6 DEF Off
<1>8. PICK PQ, SQ : Front(F2, r2, P2, S2, q, PQ, SQ)
  BY <1>3, <1>7, PutInFront
<1>9. F2 \cup {q} = F \ {n} /\ Chained(F \ {n}, q, PQ, SQ) /\ F \ {n} \subseteq F
  <2>1. F2 \cup {q} = F \ {n}
    BY <1>5, <1>7
  <2> QED BY <1>8, <2>1 DEF Front
<1>10. /\ succ(t, q) = S[q] /\ pred(t, q) = P[q] /\ succ(h, n) = S[n] /\ pred(h, n) = P[n]
       /\ h.free_root = r
  BY <1>1
<1>11. /\ r \in F /\ S[q] \in F \cup {NULL} /\ S[n] \in F \cup {NULL}
       /\ q # r => P[q] \in F
       /\ n # r => P[n] \in F
  BY <1>1 DEF Joined
<1> SUFFICES Relisted(t, Rooted(k, q), F, F \ {n})
  BY DEF k
<1> HIDE DEF k
<1>12. ASSUME NEW P3, NEW S3, Relinks(t, k, F, P3, S3),
              \A x \in F \ {n} : P3[x] = PQ[x] /\ S3[x] = SQ[x]
       PROVE  Relisted(t, Rooted(k, q), F, F \ {n})
  <2>1. Agree(F \ {n}, P3, S3, PQ, SQ)
    BY <1>12 DEF Agree
  <2> QED BY ONLY <1>3, <1>9, <1>12, <2>1, RelistedAs
<1>13. \A x \in F \ {n} :
          /\ PQ[x] = IF x = q THEN NULL ELSE IF x = r2 THEN q
                     ELSE IF x = S1[n] THEN P1[n] ELSE P1[x]
          /\ SQ[x] = IF x = q THEN r2 ELSE IF x = P1[n] THEN S1[n] ELSE S1[x]
  BY <1>6, <1>7, <1>8, <1>9 DEF Off, Front
<1>14. /\ \A x \in F \ {q} : /\ P1[x] = IF x = S[q] THEN P[q] ELSE P[x]
                             /\ S1[x] = IF x = P[q] THEN S[q] ELSE S[x]
       /\ r1 = IF q = r THEN S[q] ELSE r
       /\ r2 = IF n = r1 THEN S1[n] ELSE r1
  BY <1>4, <1>6 DEF Off
<1> HIDE DEF P0, S0, g
<1> DEFINE PA == Upd(F, Upd(F, P0, q, NULL), r, q)
           SA == Upd(F, S0, q, r)
<1>15. Relinks(t, g, F, PA, SA) /\ Bears(g, F, PA, SA)
  <2>1. Relinks(t, g, F, PA, SA)
    BY <1>2, <1>11, FrontLinks DEF g
  <2> QED BY <2>1 DEF Relinks
<1>near. /\ n # q /\ n \in F \ {q} /\ P[q] # q /\ S[q] # q /\ S[q] # r /\ S[n] # r
         /\ S[q] = n <=> P[n] = q
         /\ S[n] = q <=> P[q] = n
         /\ ~(S[q] = n /\ S[n] = q)
  <2>1. q \in F /\ n \in F /\ n # q /\ NULL \notin F /\ r \in F
    BY <1>1, <1>5 DEF Joined
  <2>2. \A y \in F : P[y] # y /\ S[y] # y
    BY <1>1 DEF Joined
  <2>3. \A y, x \in F : S[x] = y <=> P[y] = x
    <3>1. \A x \in F : (S[x] # NULL => P[S[x]] = x) /\ (P[x] # NULL => S[P[x]] = x)
      BY <1>1 DEF Joined
    <3> QED BY <2>1, <3>1
  <2>4. \A x \in F : S[x] # NULL => S[S[x]] # x
    BY <1>1 DEF Joined
  <2>5. P[r] = NULL
    BY <1>1, <2>1 DEF Joined
  <2>6. \A x \in F : S[x] # r
    BY <2>1, <2>3, <2>5
  <2> QED BY <2>1, <2>2, <2>3, <2>4, <2>6
<1>16. CASE q # r /\ n # r /\ S[q] = n
  <2> DEFINE PB == Upd(F, PA, S[n], P[q])
             SB == Upd(F, SA, P[q], S[n])
  <2>1. k = Link(g, P[q], S[n])
    BY <1>10, <1>16 DEF SpliceBoth, k, g
  <2>2. Relinks(g, k, F, PB, SB)
    <3> HIDE DEF PA, SA
    <3> QED BY <1>11, <1>15, <1>16, <2>1, LinkLinks
  <2>3. Relinks(t, k, F, PB, SB)
    BY <1>15, <2>2, RelinksAgain
  <2>4. \A x \in F : /\ PB[x] = IF x = S[n] THEN P[q] ELSE IF x = r THEN q
                                ELSE IF x = q THEN NULL ELSE P0[x]
                     /\ SB[x] = IF x = P[q] THEN S[n] ELSE IF x = q THEN r ELSE S0[x]
    BY DEF Upd
  <2> HIDE DEF PB, SB
  <2>5. \A x \in F \ {n} : PB[x] = PQ[x] /\ SB[x] = SQ[x]
    <3>1. P[n] = q /\ P[q] # n /\ S[n] # q /\ S[n] # r /\ P[q] # q /\ n # q
      BY <1>near, <1>16
    <3>2. r2 = r /\ S1[n] = S[n] /\ P1[n] = P[q]
      BY <1>14, <1>near, <1>16, <3>1
    <3>3. ASSUME NEW x \in F \ {n} PROVE P0[x] = P[x] /\ S0[x] = S[x]
      BY <1>1
    <3>4. ASSUME NEW x \in F \ {n} PROVE PB[x] = PQ[x]
      BY <1>13, <1>14, <1>16, <2>4, <3>1, <3>2, <3>3
    <3>5. ASSUME NEW x \in F \ {n} PROVE SB[x] = SQ[x]
      BY <1>13, <1>14, <1>16, <2>4, <3>1, <3>2, <3>3
    <3> QED BY <3>4, <3>5
  <2> QED BY <1>12, <2>3, <2>5
<1>17. CASE q # r /\ n # r /\ S[q] # n /\ S[n] = q
  <2> DEFINE PB == Upd(F, PA, S[q], P[n])
             SB == Upd(F, SA, P[n], S[q])
  <2>1. k = Link(g, P[n], S[q])
    BY <1>10, <1>17 DEF SpliceBoth, k, g
  <2>2. Relinks(g, k, F, PB, SB)
    <3> HIDE DEF PA, SA
    <3> QED BY <1>11, <1>15, <1>17, <2>1, LinkLinks
  <2>3. Relinks(t, k, F, PB, SB)
    BY <1>15, <2>2, RelinksAgain
  <2>4. \A x \in F : /\ PB[x] = IF x = S[q] THEN P[n] ELSE IF x = r THEN q
                                ELSE IF x = q THEN NULL ELSE P0[x]
                     /\ SB[x] = IF x = P[n] THEN S[q] ELSE IF x = q THEN r ELSE S0[x]
    BY DEF Upd
  <2> HIDE DEF PB, SB
  <2>5. \A x \in F \ {n} : PB[x] = PQ[x] /\ SB[x] = SQ[x]
    <3>1. P[q] = n /\ P[n] # q /\ S[q] # q /\ S[q] # r /\ n # q
      BY <1>near, <1>17
    <3>2. r2 = r /\ S1[n] = S[q] /\ P1[n] = P[n]
      BY <1>14, <1>near, <1>17, <3>1
    <3>3. ASSUME NEW x \in F \ {n} PROVE P0[x] = P[x] /\ S0[x] = S[x]
      BY <1>1
    <3>4. ASSUME NEW x \in F \ {n} PROVE PB[x] = PQ[x]
      BY <1>13, <1>14, <1>17, <2>4, <3>1, <3>2, <3>3
    <3>5. ASSUME NEW x \in F \ {n} PROVE SB[x] = SQ[x]
      BY <1>13, <1>14, <1>17, <2>4, <3>1, <3>2, <3>3
    <3> QED BY <3>4, <3>5
  <2> QED BY <1>12, <2>3, <2>5
<1>18. CASE q # r /\ n # r /\ S[q] # n /\ S[n] # q
  <2> DEFINE PB == Upd(F, PA, S[q], P[q])
             SB == Upd(F, SA, P[q], S[q])
             PC == Upd(F, PB, S[n], P[n])
             SC == Upd(F, SB, P[n], S[n])
             l  == Link(g, P[q], S[q])
  <2>1. k = Link(l, P[n], S[n])
    BY <1>10, <1>18 DEF SpliceBoth, k, g
  <2>2. Relinks(g, l, F, PB, SB)
    <3> HIDE DEF PA, SA
    <3> QED BY <1>11, <1>15, <1>18, LinkLinks
  <2>3. Relinks(l, k, F, PC, SC)
    <3>1. Bears(l, F, PB, SB)
      BY <2>2 DEF Relinks
    <3> HIDE DEF PB, SB, l
    <3> QED BY <1>11, <1>18, <2>1, <3>1, LinkLinks
  <2>4. Relinks(t, k, F, PC, SC)
    BY <1>15, <2>2, <2>3, RelinksAgain
  <2>5. \A x \in F : /\ PC[x] = IF x = S[n] THEN P[n] ELSE IF x = S[q] THEN P[q]
                                ELSE IF x = r THEN q ELSE IF x = q THEN NULL ELSE P0[x]
                     /\ SC[x] = IF x = P[n] THEN S[n] ELSE IF x = P[q] THEN S[q]
                                ELSE IF x = q THEN r ELSE S0[x]
    BY DEF Upd
  <2> HIDE DEF PC, SC
  <2>6. \A x \in F \ {n} : PC[x] = PQ[x] /\ SC[x] = SQ[x]
    <3>1. P[q] # n /\ P[n] # q /\ P[q] # q /\ S[q] # q /\ S[q] # r /\ S[n] # r /\ n # q
      BY <1>near, <1>18
    <3>2. r2 = r /\ S1[n] = S[n] /\ P1[n] = P[n]
      BY <1>14, <1>near, <1>18, <3>1
    <3>3. ASSUME NEW x \in F \ {n} PROVE P0[x] = P[x] /\ S0[x] = S[x]
      BY <1>1
    <3>4. ASSUME NEW x \in F \ {n} PROVE PC[x] = PQ[x]
      BY <1>13, <1>14, <1>18, <2>5, <3>1, <3>2, <3>3
    <3>5. ASSUME NEW x \in F \ {n} PROVE SC[x] = SQ[x]
      BY <1>13, <1>14, <1>18, <2>5, <3>1, <3>2, <3>3
    <3> QED BY <3>4, <3>5
  <2> QED BY <1>12, <2>4, <2>6
<1>19. CASE n = r /\ S[n] = q
  <2> DEFINE PB == Upd(F, P0, q, NULL)
  <2>1. k = put(t, q, NULL)
    BY <1>10, <1>19 DEF SpliceBoth, k
  <2>2. k = SetPred(t, q, NULL)
    BY <1>3, <2>1 DEF SetPred
  <2>3. Relinks(t, k, F, PB, S0)
    BY <1>2, <2>2, ClearLinks
  <2>4. \A x \in F : PB[x] = IF x = q THEN NULL ELSE P0[x]
    BY DEF Upd
  <2> HIDE DEF PB
  <2>5. \A x \in F \ {n} : PB[x] = PQ[x] /\ S0[x] = SQ[x]
    <3>1. q # r /\ P[q] = n /\ S[q] # n /\ P[n] = NULL /\ (S[q] # NULL => P[S[q]] = q)
      BY <1>1, <1>3, <1>19 DEF Joined
    <3>2. P1[n] = NULL /\ S1[n] = S[q] /\ r2 = S[q]
      BY <1>5, <1>14, <1>19, <3>1
    <3> QED BY <1>1, <1>3, <1>13, <1>14, <1>19, <2>4, <3>1, <3>2 DEF Joined
  <2> QED BY <1>12, <2>3, <2>5
<1>20. CASE n = r /\ S[n] # q
  <2> DEFINE PL == Upd(F, Upd(F, P0, q, NULL), S[n], q)
             SL == Upd(F, S0, q, S[n])
             PB == Upd(F, PL, S[q], P[q])
             SB == Upd(F, SL, P[q], S[q])
             l  == Lead(t, q, S[n])
  <2>1. k = Link(l, P[q], S[q])
    BY <1>10, <1>20 DEF SpliceBoth, k
  <2>2. Relinks(t, l, F, PL, SL)
    BY <1>2, <1>11, LeadLinks
  <2>3. Relinks(l, k, F, PB, SB)
    <3>1. Bears(l, F, PL, SL)
      BY <2>2 DEF Relinks
    <3> HIDE DEF PL, SL, l
    <3> QED BY <1>11, <1>20, <2>1, <3>1, LinkLinks
  <2>4. Relinks(t, k, F, PB, SB)
    BY <2>2, <2>3, RelinksAgain
  <2>5. \A x \in F : /\ PB[x] = IF x = S[q] THEN P[q] ELSE IF x = S[n] THEN q
                                ELSE IF x = q THEN NULL ELSE P0[x]
                     /\ SB[x] = IF x = P[q] THEN S[q] ELSE IF x = q THEN S[n] ELSE S0[x]
    BY DEF Upd
  <2> HIDE DEF PB, SB
  <2>6. \A x \in F \ {n} : PB[x] = PQ[x] /\ SB[x] = SQ[x]
    <3>1. q # r /\ P[n] = NULL
      BY <1>20, <1>1 DEF Joined
    <3>2. P[q] # n /\ S[q] # n
      BY <1>1, <1>3, <1>20, <3>1 DEF Joined
    <3>3. P1[n] = NULL /\ S1[n] = S[n] /\ r2 = S[n]
      BY <1>5, <1>14, <1>20, <3>1, <3>2
    <3>4. \A x \in F \ {n} :
             /\ PQ[x] = IF x = q THEN NULL ELSE IF x = S[n] THEN q ELSE P1[x]
             /\ SQ[x] = IF x = q THEN S[n] ELSE S1[x]
      BY <1>13, <1>1, <3>3 DEF Joined
    <3>5. ASSUME NEW x \in F \ {n} PROVE PB[x] = PQ[x]
      <4>1. x # NULL /\ S[q] # q /\ (S[q] # S[n] \/ S[n] = NULL) /\ P[x] = P0[x]
        BY <1>1 DEF Joined
      <4>2. /\ PB[x] = IF x = S[q] THEN P[q] ELSE IF x = S[n] THEN q
                       ELSE IF x = q THEN NULL ELSE P0[x]
            /\ PQ[x] = IF x = q THEN NULL ELSE IF x = S[n] THEN q ELSE P1[x]
            /\ x # q => P1[x] = IF x = S[q] THEN P[q] ELSE P[x]
        BY <1>14, <2>5, <3>4
      <4> QED BY <1>20, <4>1, <4>2
    <3>6. ASSUME NEW x \in F \ {n} PROVE SB[x] = SQ[x]
      <4>1. P[q] # q /\ S0[x] = S[x]
        BY <1>1 DEF Joined
      <4>2. /\ SB[x] = IF x = P[q] THEN S[q] ELSE IF x = q THEN S[n] ELSE S0[x]
            /\ SQ[x] = IF x = q THEN S[n] ELSE S1[x]
            /\ x # q => S1[x] = IF x = P[q] THEN S[q] ELSE S[x]
        BY <1>14, <2>5, <3>4
      <4> QED BY <4>1, <4>2
    <3> QED BY <3>5, <3>6
  <2> QED BY <1>12, <2>4, <2>6
<1>21. CASE q = r /\ S[q] = n
  <2> DEFINE PB == Upd(F, Upd(F, P0, q, NULL), S[n], q)
             SB == Upd(F, S0, q, S[n])
  <2>1. k = Lead(t, q, S[n])
    BY <1>10, <1>21 DEF SpliceBoth, k
  <2>2. Relinks(t, k, F, PB, SB)
    BY <1>2, <1>11, <2>1, LeadLinks
  <2>3. \A x \in F : /\ PB[x] = IF x = S[n] THEN q ELSE IF x = q THEN NULL ELSE P0[x]
                     /\ SB[x] = IF x = q THEN S[n] ELSE S0[x]
    BY DEF Upd
  <2> HIDE DEF PB, SB
  <2>4. \A x \in F \ {n} : PB[x] = PQ[x] /\ SB[x] = SQ[x]
    BY <1>1, <1>3, <1>13, <1>14, <1>21, <2>3 DEF Joined
  <2> QED BY <1>12, <2>2, <2>4
<1>22. CASE q = r /\ S[q] # n
  <2> DEFINE PL == Upd(F, Upd(F, P0, q, NULL), S[q], q)
             SL == Upd(F, S0, q, S[q])
             PB == Upd(F, PL, S[n], P[n])
             SB == Upd(F, SL, P[n], S[n])
             l  == Lead(t, q, S[q])
  <2>1. k = Link(l, P[n], S[n])
    BY <1>10, <1>22 DEF SpliceBoth, k
  <2>2. Relinks(t, l, F, PL, SL)
    BY <1>2, <1>11, LeadLinks
  <2>3. Relinks(l, k, F, PB, SB)
    <3>1. Bears(l, F, PL, SL)
      BY <2>2 DEF Relinks
    <3> HIDE DEF PL, SL, l
    <3> QED BY <1>11, <1>22, <2>1, <3>1, LinkLinks
  <2>4. Relinks(t, k, F, PB, SB)
    BY <2>2, <2>3, RelinksAgain
  <2>5. \A x \in F : /\ PB[x] = IF x = S[n] THEN P[n] ELSE IF x = S[q] THEN q
                                ELSE IF x = q THEN NULL ELSE P0[x]
                     /\ SB[x] = IF x = P[n] THEN S[n] ELSE IF x = q THEN S[q] ELSE S0[x]
    BY DEF Upd
  <2> HIDE DEF PB, SB
  <2>6. \A x \in F \ {n} : PB[x] = PQ[x] /\ SB[x] = SQ[x]
    BY <1>1, <1>3, <1>13, <1>14, <1>22, <2>5 DEF Joined
  <2> QED BY <1>12, <2>4, <2>6
<1> QED BY <1>16, <1>17, <1>18, <1>19, <1>20, <1>21, <1>22

(***************************************************************************)
(* Blocks.  b is a heap of BlockHeap.                                      *)
(***************************************************************************)
End(b, p) == p + b.size[p]
Frees(b)  == DOMAIN b.size \ b.used

Shaped(b) == /\ b = Abstract!Heap(b.size, b.used, b.brk, b.TOH)
             /\ b.size = [p \in DOMAIN b.size |-> b.size[p]]

Block(b, p) ==
  /\ p \in Nat /\ p % 16 = 0 /\ FirstBlk <= p
  /\ b.size[p] \in Nat /\ b.size[p] % 16 = 0 /\ b.size[p] >= 32
  /\ End(b, p) <= b.brk /\ End(b, p) \in DOMAIN b.size \cup {b.brk}

\* e follows a block, or is where the first one is.
Follows(b, e) == e = FirstBlk \/ \E q \in DOMAIN b.size : End(b, q) = e

\* The blocks tile the heap, which may be empty.
Tiles(b) ==
  /\ Shaped(b)
  /\ \A p \in DOMAIN b.size : Block(b, p) /\ Follows(b, p)
  /\ \A p, q \in DOMAIN b.size : p < q => End(b, p) <= q
  /\ FirstBlk \in DOMAIN b.size \cup {b.brk} /\ Follows(b, b.brk)
  /\ b.used \subseteq DOMAIN b.size
  /\ b.brk \in Nat /\ b.brk % 16 = 0 /\ FirstBlk <= b.brk /\ b.brk <= Top

\* a is the word of a tag, or one between the payload and the footer's end.
InTag(b, a) == \/ a = 24 \/ a = 32 \/ a = b.brk - 8
               \/ \E p \in DOMAIN b.size : a = p - 8 \/ a = End(b, p) - 16
InBody(b, p, a) == p <= a /\ a < End(b, p) - 16

\* Multiples of 16, and the words between them.
LEMMA Granules ==
  /\ \A x \in Nat : x % 16 = 0 => /\ x % 8 = 0 /\ (x + 8) % 8 = 0 /\ (x + 8) % 16 = 8
                                  /\ x >= 16 => /\ x - 8 \in Nat /\ (x - 8) % 8 = 0
                                                /\ (x - 8) % 16 = 8
                                                /\ x - 16 \in Nat /\ (x - 16) % 16 = 0
                                                /\ (x - 16) % 8 = 0
  /\ \A x, y \in Nat : x % 16 = 0 /\ y % 16 = 0 => (x + y) % 16 = 0
  /\ \A x, y \in Nat : x % 16 = 0 /\ y % 16 = 0 /\ y <= x => (x - y) % 16 = 0
OBVIOUS

\* Where the words of a block are.
LEMMA BlockWords ==
  ASSUME NEW b, Tiles(b), NEW p \in DOMAIN b.size
  PROVE  /\ p \in Nat /\ p % 16 = 0 /\ 48 <= p /\ p # NULL
         /\ b.size[p] \in Nat /\ b.size[p] % 16 = 0 /\ b.size[p] >= 32
         /\ End(b, p) = p + b.size[p] /\ End(b, p) \in Nat /\ End(b, p) % 16 = 0
         /\ p + 32 <= End(b, p) /\ End(b, p) <= b.brk
         /\ p \in Words /\ p + 8 \in Words /\ p - 8 \in Words /\ End(b, p) - 16 \in Words
         /\ End(b, p) - 8 \in Words /\ (p - 8) % 16 = 8 /\ (End(b, p) - 16) % 16 = 0
<1>1. /\ p \in Nat /\ p % 16 = 0 /\ FirstBlk <= p
      /\ b.size[p] \in Nat /\ b.size[p] % 16 = 0 /\ b.size[p] >= 32
      /\ End(b, p) <= b.brk /\ End(b, p) = p + b.size[p] /\ b.brk \in Nat /\ b.brk <= Top
  BY DEF Tiles, Block, End
<1>2. End(b, p) \in Nat /\ End(b, p) % 16 = 0 /\ FirstBlk = 48 /\ Top \in Nat /\ NULL = 0
  <2> DEFINE z == b.size[p]
  <2>1. p \in Nat /\ p % 16 = 0 /\ z \in Nat /\ z % 16 = 0 /\ End(b, p) = p + z
    BY <1>1
  <2> HIDE DEF z
  <2>2. p + z \in Nat /\ (p + z) % 16 = 0
    BY <2>1, Granules
  <2> QED BY <2>1, <2>2, Sizing
<1>3. /\ p % 8 = 0 /\ (p + 8) % 8 = 0 /\ (p - 8) % 8 = 0 /\ (End(b, p) - 16) % 8 = 0
      /\ (End(b, p) - 8) % 8 = 0 /\ (p - 8) % 16 = 8 /\ (End(b, p) - 16) % 16 = 0
  BY <1>1, <1>2, Granules
<1>4. /\ p \in Words /\ p + 8 \in Words /\ p - 8 \in Words /\ End(b, p) - 16 \in Words
      /\ End(b, p) - 8 \in Words
  BY <1>1, <1>2, <1>3, WordRange
<1> QED BY <1>1, <1>2, <1>3, <1>4

\* The break and the words before the first block.
LEMMA EdgeWords ==
  ASSUME NEW b, Tiles(b)
  PROVE  /\ b.brk \in Nat /\ b.brk % 16 = 0 /\ 48 <= b.brk /\ b.brk <= Top
         /\ b.brk - 8 \in Words /\ (b.brk - 8) % 16 = 8 /\ b.brk - 16 \in Words
         /\ 24 \in Words /\ 32 \in Words /\ FirstBlk = 48
<1>1. b.brk \in Nat /\ b.brk % 16 = 0 /\ FirstBlk <= b.brk /\ b.brk <= Top
  BY DEF Tiles
<1>2. FirstBlk = 48 /\ Top \in Nat
  BY Sizing
<1>3. 48 <= b.brk /\ 16 <= b.brk
  BY <1>1, <1>2
<1>4. (b.brk - 8) % 8 = 0 /\ (b.brk - 8) % 16 = 8 /\ (b.brk - 16) % 8 = 0
  BY <1>1, <1>3, Granules
<1>5. 24 % 8 = 0 /\ 32 % 8 = 0
  OBVIOUS
<1>6. b.brk - 8 \in Words /\ b.brk - 16 \in Words
  BY <1>1, <1>2, <1>3, <1>4, WordRange
<1>7. 24 \in Words /\ 32 \in Words
  BY <1>1, <1>2, <1>3, <1>5, WordRange
<1> QED BY <1>1, <1>2, <1>3, <1>4, <1>6, <1>7

\* Blocks apart are apart, and a block is known by its end.
LEMMA BlocksApart ==
  ASSUME NEW b, Tiles(b), NEW p \in DOMAIN b.size, NEW q \in DOMAIN b.size
  PROVE  /\ p = q \/ End(b, p) <= q \/ End(b, q) <= p
         /\ End(b, p) = End(b, q) => p = q
         /\ p < End(b, q) => p <= q
<1>1. p \in Nat /\ q \in Nat /\ p + 32 <= End(b, p) /\ q + 32 <= End(b, q)
      /\ End(b, p) \in Nat /\ End(b, q) \in Nat
  BY BlockWords
<1>2. (p < q => End(b, p) <= q) /\ (q < p => End(b, q) <= p)
  BY DEF Tiles
<1> QED BY <1>1, <1>2

\* Different tags are different words.
LEMMA TagsApart ==
  ASSUME NEW b, Tiles(b), NEW p \in DOMAIN b.size, NEW q \in DOMAIN b.size
  PROVE  /\ p - 8 = q - 8 => p = q
         /\ End(b, p) - 16 = End(b, q) - 16 => p = q
         /\ p - 8 # End(b, q) - 16
         /\ p - 8 \notin {24, 32, b.brk - 8} /\ End(b, p) - 16 \notin {24, 32, b.brk - 8}
<1>1. /\ p \in Nat /\ q \in Nat /\ 48 <= p /\ p + 32 <= End(b, p) /\ End(b, p) <= b.brk
      /\ End(b, p) \in Nat /\ End(b, q) \in Nat /\ b.brk \in Nat
      /\ (p - 8) % 16 = 8 /\ (End(b, q) - 16) % 16 = 0
  BY BlockWords, EdgeWords
<1>2. End(b, p) = End(b, q) => p = q
  BY BlocksApart
<1>3. p - 8 # End(b, q) - 16
  BY <1>1
<1> QED BY <1>1, <1>2, <1>3

\* The words of a payload are no tag's and no other payload's; a free block keeps its
\* links there.
LEMMA BodyApart ==
  ASSUME NEW b, Tiles(b), NEW p \in DOMAIN b.size
  PROVE  /\ \A a \in Int : InBody(b, p, a) => ~InTag(b, a)
         /\ \A q \in DOMAIN b.size \ {p} : \A a \in Int : InBody(b, p, a) => ~InBody(b, q, a)
         /\ InBody(b, p, p) /\ InBody(b, p, p + 8)
<1>1. /\ p \in Nat /\ 48 <= p /\ p + 32 <= End(b, p) /\ End(b, p) <= b.brk
      /\ End(b, p) \in Nat /\ b.brk \in Nat
  BY BlockWords, EdgeWords
<1>2. ASSUME NEW q \in DOMAIN b.size
      PROVE  /\ q \in Nat /\ End(b, q) \in Nat /\ q + 32 <= End(b, q)
             /\ p = q \/ End(b, p) <= q \/ End(b, q) <= p
  BY BlockWords, BlocksApart
<1>3. ASSUME NEW a \in Int, InBody(b, p, a), InTag(b, a) PROVE FALSE
  <2>1. p <= a /\ a < End(b, p) - 16
    BY <1>3 DEF InBody
  <2>2. PICK q \in DOMAIN b.size : a = q - 8 \/ a = End(b, q) - 16
    BY <1>1, <1>3, <2>1 DEF InTag
  <2> QED BY <1>1, <1>2, <2>1, <2>2
<1>4. ASSUME NEW q \in DOMAIN b.size \ {p}, NEW a \in Int, InBody(b, p, a), InBody(b, q, a)
      PROVE  FALSE
  BY <1>1, <1>2, <1>4 DEF InBody
<1>5. InBody(b, p, p) /\ InBody(b, p, p + 8)
  BY <1>1 DEF InBody
<1> QED BY <1>3, <1>4, <1>5

(***************************************************************************)
(* Tags.                                                                   *)
(***************************************************************************)
Bit(b, p) == IF p \in b.used THEN 1 ELSE 0

\* The words of the tags describe the blocks.
Tagged(h, b) ==
  /\ h.mem[24] = 17 /\ h.mem[32] = 17 /\ h.mem[b.brk - 8] = 1
  /\ \A p \in DOMAIN b.size : /\ h.mem[p - 8] = b.size[p] + Bit(b, p)
                              /\ h.mem[End(b, p) - 16] = b.size[p] + Bit(b, p)

Marked(h, b) == h \in Heaps /\ h.brk = b.brk /\ Tiles(b) /\ Tagged(h, b)

\* Only tags of the blocks differ between h and g, and the break.
OnlyTags(h, g, b) ==
  /\ g \in Heaps /\ g.free_root = h.free_root /\ g.TOH = h.TOH /\ g.fault = h.fault
  /\ \A a \in Words : ~InTag(b, a) => g.mem[a] = h.mem[a]

\* The blocks in K are what they were, and their payloads.
Kept(h, b, g, c, K) ==
  \A x \in K : /\ x \in DOMAIN b.size /\ x \in DOMAIN c.size /\ c.size[x] = b.size[x]
               /\ \A a \in Words : InBody(b, x, a) => g.mem[a] = h.mem[a]

\* Size and bit can be told apart in a tag.
LEMMA TagValue ==
  ASSUME NEW z \in Nat, z % 16 = 0, NEW u \in {0, 1}
  PROVE  /\ 16 * ((z + u) \div 16) = z /\ (z + u) % 2 = u /\ z + u \in Word
         /\ pack(z, u) = z + u
BY DEF Word, pack

\* What the code reads from the tags of a block.
LEMMA Reads ==
  ASSUME NEW h, NEW b, Marked(h, b), NEW p \in DOMAIN b.size
  PROVE  /\ get_size(h, GHA(p)) = b.size[p] /\ get_alloc(h, GHA(p)) = Bit(b, p)
         /\ GFA(h, p) = End(b, p) - 16
         /\ get_size(h, End(b, p) - 16) = b.size[p] /\ get_alloc(h, GFA(h, p)) = Bit(b, p)
         /\ get_size(h, GFA(h, p)) = b.size[p]
         /\ next_blk(h, p) = End(b, p)
         /\ get_alloc(h, GHA(End(b, p))) = IF End(b, p) \in Frees(b) THEN 0 ELSE 1
         /\ Bit(b, p) \in {0, 1}
<1>1. h \in Heaps /\ h.brk = b.brk /\ Tiles(b) /\ Tagged(h, b)
  BY DEF Marked
<1>2. \A q \in DOMAIN b.size :
         /\ get_size(h, q - 8) = b.size[q] /\ get_alloc(h, q - 8) = Bit(b, q)
         /\ get_size(h, End(b, q) - 16) = b.size[q] /\ get_alloc(h, End(b, q) - 16) = Bit(b, q)
         /\ Bit(b, q) \in {0, 1}
  <2>1. TAKE q \in DOMAIN b.size
  <2>2. /\ q - 8 \in Words /\ End(b, q) - 16 \in Words
        /\ b.size[q] \in Nat /\ b.size[q] % 16 = 0
    BY <1>1, BlockWords
  <2>3. Bit(b, q) \in {0, 1}
    BY DEF Bit
  <2>4. /\ get(h, q - 8) = b.size[q] + Bit(b, q)
        /\ get(h, End(b, q) - 16) = b.size[q] + Bit(b, q)
    BY <1>1, <2>2, GetWord DEF Tagged
  <2>5. 16 * ((b.size[q] + Bit(b, q)) \div 16) = b.size[q]
        /\ (b.size[q] + Bit(b, q)) % 2 = Bit(b, q)
    BY <2>2, <2>3, TagValue
  <2> QED BY <2>3, <2>4, <2>5 DEF get_size, get_alloc
<1>3. get_alloc(h, b.brk - 8) = 1
  <2>1. get(h, b.brk - 8) = 1
    BY <1>1, EdgeWords, GetWord DEF Tagged
  <2> QED BY <2>1 DEF get_alloc
<1>4. End(b, p) = p + b.size[p] /\ p \in Nat /\ b.size[p] \in Nat
  BY <1>1, BlockWords
<1>5. End(b, p) \in DOMAIN b.size \/ (End(b, p) = b.brk /\ b.brk \notin DOMAIN b.size)
  <2>1. End(b, p) \in DOMAIN b.size \cup {b.brk}
    BY <1>1 DEF Tiles, Block
  <2>2. ASSUME b.brk \in DOMAIN b.size PROVE FALSE
    <3>1. b.brk \in Nat /\ b.brk + 32 <= End(b, b.brk) /\ End(b, b.brk) <= b.brk
          /\ End(b, b.brk) \in Nat
      BY <1>1, <2>2, BlockWords
    <3> QED BY <3>1
  <2> QED BY <2>1, <2>2
<1>6. get_alloc(h, End(b, p) - 8) = IF End(b, p) \in Frees(b) THEN 0 ELSE 1
  BY <1>2, <1>3, <1>5 DEF Frees, Bit
<1>7. p + b.size[p] - 16 = End(b, p) - 16
  BY <1>4
<1> QED BY <1>2, <1>4, <1>6, <1>7 DEF GHA, GFA, next_blk

\* What the code reads from the tags before a block.
LEMMA ReadsBefore ==
  ASSUME NEW h, NEW b, Marked(h, b), NEW p \in DOMAIN b.size
  PROVE  /\ \A q \in DOMAIN b.size : End(b, q) = p => prev_blk(h, p) = q
         /\ get_alloc(h, GFA(h, prev_blk(h, p))) = IF \E q \in Frees(b) : End(b, q) = p
                                                   THEN 0 ELSE 1
<1>1. h \in Heaps /\ h.brk = b.brk /\ Tiles(b) /\ Tagged(h, b)
  BY DEF Marked
<1>2. ASSUME NEW q \in DOMAIN b.size, End(b, q) = p
      PROVE  prev_blk(h, p) = q /\ get_alloc(h, GFA(h, q)) = Bit(b, q)
  <2>1. get_size(h, End(b, q) - 16) = b.size[q] /\ get_alloc(h, GFA(h, q)) = Bit(b, q)
    BY Reads
  <2>2. End(b, q) = q + b.size[q] /\ q \in Nat /\ b.size[q] \in Nat
    BY <1>1, BlockWords
  <2> QED BY <1>2, <2>1, <2>2 DEF prev_blk
<1>3. CASE \E q \in DOMAIN b.size : End(b, q) = p
  <2>1. PICK q \in DOMAIN b.size : End(b, q) = p
    BY <1>3
  <2>2. \A x \in DOMAIN b.size : End(b, x) = p => x = q
    BY <1>1, <2>1, BlocksApart
  <2>3. prev_blk(h, p) = q /\ get_alloc(h, GFA(h, q)) = Bit(b, q)
    BY <1>2, <2>1
  <2> QED BY <2>1, <2>2, <2>3 DEF Frees, Bit
<1>4. CASE ~\E q \in DOMAIN b.size : End(b, q) = p
  <2>1. p = 48
    BY <1>1, <1>4, EdgeWords DEF Tiles, Follows
  <2>2. get(h, 24) = 17 /\ get(h, 32) = 17
    BY <1>1, EdgeWords, GetWord DEF Tagged
  <2>3. get_size(h, 24) = 16 /\ get_size(h, 32) = 16 /\ get_alloc(h, 32) = 1
    BY <2>2 DEF get_size, get_alloc
  <2>4. prev_blk(h, p) = 32
    BY <2>1, <2>3 DEF prev_blk
  <2>5. GFA(h, 32) = 32
    BY <2>3 DEF GFA, GHA
  <2> QED BY <1>4, <2>3, <2>4, <2>5 DEF Frees
<1> QED BY <1>2, <1>3, <1>4

\* Free blocks can hold links.
LEMMA BlocksAreCells ==
  ASSUME NEW h, NEW b, Tiles(b), h.brk = b.brk, NEW E, E \subseteq DOMAIN b.size
  PROVE  Cells(h, E)
<1>1. ASSUME NEW x \in E PROVE Cell(h, x) /\ \A y \in E : x # y + 8
  <2>1. /\ x \in Nat /\ x % 16 = 0 /\ x \in Words /\ x + 8 \in Words
        /\ x + 32 <= End(b, x) /\ End(b, x) <= b.brk /\ End(b, x) \in Nat /\ b.brk \in Nat
    BY BlockWords, EdgeWords
  <2>2. ASSUME NEW y \in E PROVE x # y + 8
    <3>1. y \in Nat /\ y % 16 = 0
      BY BlockWords
    <3>2. (y + 8) % 16 = 8
      BY <3>1, Granules
    <3> QED BY <2>1, <3>2
  <2> QED BY <2>1, <2>2 DEF Cell
<1> QED BY <1>1 DEF Cells

\* The links of the cells in E are in the bodies of the blocks in Y.
Within(b, E, Y) ==
  Y \subseteq DOMAIN b.size /\ \A x \in E : \E y \in Y : /\ InBody(b, y, x) /\ InBody(b, y, x + 8)
                                                       /\ x \in Nat

\* A block has its links in its own body.
LEMMA WithinSelf ==
  ASSUME NEW b, Tiles(b), NEW E, E \subseteq DOMAIN b.size
  PROVE  Within(b, E, E)
BY BodyApart, BlockWords DEF Within

\* Links of free blocks are not tags nor payload.
LEMMA LinksKeepTags ==
  ASSUME NEW h, NEW b, Marked(h, b), NEW g, NEW E, NEW Y, Within(b, E, Y), OnlyLinks(h, g, E)
  PROVE  Marked(g, b) /\ \A K : K \subseteq DOMAIN b.size \ Y => Kept(h, b, g, b, K)
<1>1. h \in Heaps /\ h.brk = b.brk /\ Tiles(b) /\ Tagged(h, b)
  BY DEF Marked
<1>2. /\ g \in Heaps /\ g.brk = h.brk
      /\ \A a \in Words : (\A x \in E : a # x /\ a # x + 8) => g.mem[a] = h.mem[a]
  BY DEF OnlyLinks
<1>3. /\ \A x \in E : \E y \in Y : InBody(b, y, x) /\ InBody(b, y, x + 8)
      /\ Y \subseteq DOMAIN b.size
  BY DEF Within
<1>4. ASSUME NEW a \in Words, \A y \in Y : ~InBody(b, y, a) PROVE g.mem[a] = h.mem[a]
  BY <1>2, <1>3, <1>4
<1>5. ASSUME NEW a \in Words, InTag(b, a) PROVE g.mem[a] = h.mem[a]
  <2>1. a \in Int
    BY WordRange
  <2>2. \A y \in Y : ~InBody(b, y, a)
    BY <1>1, <1>3, <1>5, <2>1, BodyApart
  <2> QED BY <1>4, <2>2
<1>6. Tagged(g, b)
  <2>1. \A p \in DOMAIN b.size : p - 8 \in Words /\ End(b, p) - 16 \in Words
    BY <1>1, BlockWords
  <2>2. \A p \in DOMAIN b.size : InTag(b, p - 8) /\ InTag(b, End(b, p) - 16)
    BY DEF InTag
  <2>3. InTag(b, 24) /\ InTag(b, 32) /\ InTag(b, b.brk - 8)
    BY DEF InTag
  <2>4. 24 \in Words /\ 32 \in Words /\ b.brk - 8 \in Words
    BY <1>1, EdgeWords
  <2> QED BY <1>1, <1>5, <2>1, <2>2, <2>3, <2>4 DEF Tagged
<1>7. ASSUME NEW K, K \subseteq DOMAIN b.size \ Y PROVE Kept(h, b, g, b, K)
  <2>1. ASSUME NEW x \in K, NEW a \in Words, InBody(b, x, a) PROVE g.mem[a] = h.mem[a]
    <3>1. a \in Int
      BY WordRange
    <3>2. \A y \in Y : ~InBody(b, y, a)
      BY <1>1, <1>3, <1>7, <2>1, <3>1, BodyApart
    <3> QED BY <1>4, <3>2
  <2> QED BY <1>7, <2>1 DEF Kept
<1> QED BY <1>1, <1>2, <1>6, <1>7 DEF Marked

\* Tags are not payload.
LEMMA TagsKeepBodies ==
  ASSUME NEW h, NEW b, Tiles(b), NEW g, OnlyTags(h, g, b)
  PROVE  Kept(h, b, g, b, DOMAIN b.size)
BY BodyApart, WordRange DEF OnlyTags, Kept

\* Nor are they links of blocks.
LEMMA TagsKeepLists ==
  ASSUME NEW h, NEW b, Tiles(b), NEW g, OnlyTags(h, g, b), NEW E, E \subseteq DOMAIN b.size
  PROVE  /\ \A x \in E : g.mem[x] = h.mem[x] /\ g.mem[x + 8] = h.mem[x + 8]
         /\ Listed(h, E) => Listed(g, E)
<1>1. \A x \in E : g.mem[x] = h.mem[x] /\ g.mem[x + 8] = h.mem[x + 8]
  BY TagsKeepBodies, BodyApart, BlockWords DEF Kept
<1> QED BY <1>1 DEF Listed, OnlyTags

\* tag stores one value in two words.
LEMMA TagStores ==
  ASSUME NEW h \in Heaps, NEW p \in Nat, NEW z \in Nat, z % 16 = 0, NEW u \in {0, 1},
         p - 8 \in Words, p + z - 16 \in Words, p - 8 < h.brk, p + z - 16 < h.brk
  PROVE  /\ Alike(h, tag(h, p, z, u))
         /\ \A a \in Words : tag(h, p, z, u).mem[a] =
                               IF a = p - 8 \/ a = p + z - 16 THEN z + u ELSE h.mem[a]
<1> DEFINE g == put(h, p - 8, z + u)
<1>1. 16 * ((z + u) \div 16) = z /\ z + u \in Word /\ pack(z, u) = z + u
  BY TagValue
<1>2. Alike(h, g) /\ \A a \in Words : g.mem[a] = IF a = p - 8 THEN z + u ELSE h.mem[a]
  BY <1>1, PutWord
<1> HIDE DEF g
<1>3. g \in Heaps /\ g.brk = h.brk
  BY <1>2 DEF Alike
<1>4. get(g, p - 8) = z + u
  BY <1>2, <1>3, GetWord
<1>5. GFA(g, p) = p + z - 16
  BY <1>1, <1>4 DEF GFA, GHA, get_size
<1>6. tag(h, p, z, u) = put(g, p + z - 16, z + u)
  BY <1>1, <1>5 DEF tag, GHA, g
<1>7. /\ Alike(g, put(g, p + z - 16, z + u))
      /\ \A a \in Words : put(g, p + z - 16, z + u).mem[a] =
                            IF a = p + z - 16 THEN z + u ELSE g.mem[a]
  BY <1>1, <1>3, PutWord
<1> QED BY <1>2, <1>6, <1>7 DEF Alike

\* What tag does to a block of b, as far as what follows needs it.
TwoWords(h, g, x, y, v) ==
  Alike(h, g) /\ \A a \in Words : g.mem[a] = IF a = x \/ a = y THEN v ELSE h.mem[a]

\* The tiling does not depend on which blocks are allocated.
LEMMA TilesAlike ==
  ASSUME NEW b, Tiles(b), NEW c, Shaped(c), c.size = b.size, c.brk = b.brk,
         c.used \subseteq DOMAIN b.size
  PROVE  Tiles(c)
<1>1. \A x : End(c, x) = End(b, x)
  BY DEF End
<1>2. \A x \in DOMAIN c.size : Block(c, x) /\ Follows(c, x)
  BY <1>1 DEF Tiles, Block, Follows
<1>3. Follows(c, c.brk)
  BY <1>1 DEF Tiles, Follows
<1> QED BY <1>1, <1>2, <1>3 DEF Tiles

\* A block is marked as allocated or free.
LEMMA Retag ==
  ASSUME NEW h, NEW b, Marked(h, b), NEW p \in DOMAIN b.size, NEW u \in {0, 1},
         NEW c, c = Abstract!Heap(b.size, IF u = 1 THEN b.used \cup {p} ELSE b.used \ {p},
                                  b.brk, b.TOH),
         NEW g, g = tag(h, p, b.size[p], u)
  PROVE  Marked(g, c) /\ OnlyTags(h, g, b) /\ Alike(h, g)
<1>1. h \in Heaps /\ h.brk = b.brk /\ Tiles(b) /\ Tagged(h, b)
  BY DEF Marked
<1>2. /\ p \in Nat /\ b.size[p] \in Nat /\ b.size[p] % 16 = 0
      /\ p - 8 \in Words /\ End(b, p) - 16 \in Words /\ End(b, p) = p + b.size[p]
      /\ End(b, p) \in Nat /\ End(b, p) <= b.brk /\ p + 32 <= End(b, p) /\ b.brk \in Nat
  BY <1>1, BlockWords, EdgeWords
<1>3. /\ Alike(h, g)
      /\ \A a \in Words : g.mem[a] = IF a = p - 8 \/ a = End(b, p) - 16
                                     THEN b.size[p] + u ELSE h.mem[a]
  BY <1>1, <1>2, TagStores
<1>4. /\ c.size = b.size /\ c.brk = b.brk /\ c.TOH = b.TOH
      /\ c.used = IF u = 1 THEN b.used \cup {p} ELSE b.used \ {p}
  BY DEF Abstract!Heap
<1>5. Tiles(c)
  <2>1. Shaped(c)
    BY <1>1, <1>4 DEF Tiles, Shaped
  <2>2. c.used \subseteq DOMAIN b.size
    BY <1>1, <1>4 DEF Tiles
  <2> QED BY <1>1, <1>4, <2>1, <2>2, TilesAlike
<1>6. Tagged(g, c)
  <2>1. 24 \in Words /\ 32 \in Words /\ b.brk - 8 \in Words
    BY <1>1, EdgeWords
  <2>2. ASSUME NEW x \in DOMAIN b.size
        PROVE  /\ x - 8 \in Words /\ End(b, x) - 16 \in Words
               /\ (x - 8 = p - 8 => x = p) /\ (End(b, x) - 16 = End(b, p) - 16 => x = p)
               /\ x - 8 # End(b, p) - 16 /\ p - 8 # End(b, x) - 16
    BY <1>1, BlockWords, TagsApart
  <2>3. /\ p - 8 \notin {24, 32, b.brk - 8} /\ End(b, p) - 16 \notin {24, 32, b.brk - 8}
    BY <1>1, TagsApart
  <2>4. Bit(c, p) = u /\ \A x \in DOMAIN b.size \ {p} : Bit(c, x) = Bit(b, x)
    BY <1>4 DEF Bit
  <2>5. \A x : End(c, x) = End(b, x)
    BY <1>4 DEF End
  <2>6. ASSUME NEW x \in DOMAIN b.size
        PROVE  /\ g.mem[x - 8] = c.size[x] + Bit(c, x)
               /\ g.mem[End(c, x) - 16] = c.size[x] + Bit(c, x)
    <3>1. CASE x = p
      BY <1>2, <1>3, <1>4, <2>4, <2>5, <3>1
    <3>2. CASE x # p
      <4>1. /\ h.mem[x - 8] = b.size[x] + Bit(b, x)
            /\ h.mem[End(b, x) - 16] = b.size[x] + Bit(b, x)
        BY <1>1 DEF Tagged
      <4>2. g.mem[x - 8] = h.mem[x - 8] /\ g.mem[End(b, x) - 16] = h.mem[End(b, x) - 16]
        BY <1>3, <2>2, <3>2
      <4> QED BY <1>4, <2>4, <2>5, <3>2, <4>1, <4>2
    <3> QED BY <3>1, <3>2
  <2>7. g.mem[24] = 17 /\ g.mem[32] = 17 /\ g.mem[b.brk - 8] = 1
    BY <1>1, <1>3, <2>1, <2>3 DEF Tagged
  <2> QED BY <1>4, <2>6, <2>7 DEF Tagged
<1>7. OnlyTags(h, g, b)
  BY <1>3 DEF OnlyTags, InTag, Alike
<1> QED BY <1>1, <1>3, <1>4, <1>5, <1>6, <1>7 DEF Marked, Alike

\* The blocks from q up to e are made one.
Merge(b, q, e) ==
  Abstract!Heap([x \in {y \in DOMAIN b.size : y <= q \/ e <= y} |->
                   IF x = q THEN e - q ELSE b.size[x]], b.used, b.brk, b.TOH)

\* What a merge of free blocks leaves of the tiling.
LEMMA MergeTiles ==
  ASSUME NEW b, Tiles(b), NEW q \in DOMAIN b.size, NEW e \in DOMAIN b.size \cup {b.brk}, q < e,
         \A x \in b.used : x < q \/ e <= x,
         NEW c, c = Merge(b, q, e)
  PROVE  /\ Tiles(c) /\ e \in Nat /\ End(b, q) <= e
         /\ DOMAIN c.size = {y \in DOMAIN b.size : y <= q \/ e <= y}
         /\ End(c, q) = e /\ c.size[q] = e - q
         /\ \A x \in DOMAIN c.size \ {q} : /\ c.size[x] = b.size[x] /\ End(c, x) = End(b, x)
                                           /\ End(b, x) <= q \/ e <= x
         /\ c.used = b.used /\ c.brk = b.brk /\ c.TOH = b.TOH
<1>1. /\ c.used = b.used /\ c.brk = b.brk /\ c.TOH = b.TOH
      /\ DOMAIN c.size = {y \in DOMAIN b.size : y <= q \/ e <= y}
      /\ \A x \in DOMAIN c.size : c.size[x] = IF x = q THEN e - q ELSE b.size[x]
      /\ Shaped(c)
  BY DEF Merge, Abstract!Heap, Shaped
<1>2. \A x \in DOMAIN b.size :
         /\ x \in Nat /\ x % 16 = 0 /\ 48 <= x /\ b.size[x] \in Nat /\ b.size[x] % 16 = 0
         /\ b.size[x] >= 32 /\ End(b, x) = x + b.size[x] /\ End(b, x) \in Nat
         /\ End(b, x) <= b.brk /\ End(b, x) \in DOMAIN b.size \cup {b.brk}
         /\ Follows(b, x)
  <2>1. \A x \in DOMAIN b.size : Block(b, x) /\ Follows(b, x)
    BY DEF Tiles
  <2> QED BY <2>1, BlockWords DEF Block
<1>3. b.brk \in Nat /\ b.brk % 16 = 0 /\ FirstBlk = 48 /\ 48 <= b.brk /\ b.brk <= Top
  BY EdgeWords
<1>4. \A x, y \in DOMAIN b.size : x = y \/ End(b, x) <= y \/ End(b, y) <= x
  BY BlocksApart
<1>5. e \in Nat /\ e % 16 = 0 /\ e <= b.brk
  <2>1. CASE e = b.brk
    BY <1>3, <2>1
  <2>2. CASE e \in DOMAIN b.size
    <3>1. e \in Nat /\ e % 16 = 0 /\ b.size[e] >= 32 /\ End(b, e) = e + b.size[e]
          /\ b.size[e] \in Nat /\ End(b, e) <= b.brk
      BY <1>2, <2>2
    <3> QED BY <1>3, <3>1
  <2> QED BY <2>1, <2>2
<1>6. \A x \in DOMAIN b.size : x < e => End(b, x) <= e
  <2>1. TAKE x \in DOMAIN b.size
  <2>2. CASE e = b.brk
    BY <1>2, <2>2
  <2>3. CASE e \in DOMAIN b.size
    BY <1>2, <1>4, <1>5, <2>3
  <2> QED BY <2>2, <2>3
<1>7. q \in DOMAIN c.size /\ c.size[q] = e - q /\ e - q \in Nat /\ End(c, q) = e
      /\ End(b, q) <= e /\ e - q >= 32 /\ (e - q) % 16 = 0
  <2>1. q \in Nat /\ q % 16 = 0 /\ End(b, q) <= e /\ q + 32 <= End(b, q) /\ End(b, q) \in Nat
    BY <1>2, <1>6, BlockWords
  <2>2. q \in DOMAIN c.size /\ c.size[q] = e - q
    BY <1>1, <2>1
  <2>3. (e - q) % 16 = 0 /\ e - q \in Nat
    <3>1. e \in Nat /\ q \in Nat /\ e % 16 = 0 /\ q % 16 = 0 /\ q <= e
      BY <1>5, <2>1
    <3> QED BY <3>1, Granules
  <2> QED BY <1>5, <2>1, <2>2, <2>3 DEF End
<1>8. \A x \in DOMAIN c.size \ {q} : /\ x \in DOMAIN b.size
                                     /\ c.size[x] = b.size[x] /\ End(c, x) = End(b, x)
                                     /\ End(b, x) <= q \/ e <= x
  <2>1. TAKE x \in DOMAIN c.size \ {q}
  <2>2. x \in DOMAIN b.size /\ (x <= q \/ e <= x) /\ c.size[x] = b.size[x]
    BY <1>1
  <2>3. x <= q => End(b, x) <= q
    BY <1>2, <1>4, <2>2
  <2> QED BY <2>2, <2>3 DEF End
<1>9. \A d \in DOMAIN c.size \cup {c.brk} : d \in DOMAIN b.size \cup {b.brk} /\ (d <= q \/ e <= d)
  BY <1>1, <1>5
<1>10. ASSUME NEW d \in DOMAIN c.size \cup {c.brk} PROVE Follows(c, d)
  <2>1. Follows(b, d) /\ d \in Nat
    BY <1>2, <1>3, <1>9 DEF Tiles
  <2>2. CASE d = FirstBlk
    BY <2>2 DEF Follows
  <2>3. CASE d # FirstBlk
    <3>1. PICK x \in DOMAIN b.size : End(b, x) = d
      BY <2>1, <2>3 DEF Follows
    <3>2. x \in Nat /\ q \in Nat /\ x < d /\ q < e
      BY <1>2, <3>1
    <3>3. CASE x < q \/ e <= x
      <4>1. x \in DOMAIN c.size \ {q}
        BY <1>1, <1>5, <3>2, <3>3
      <4> QED BY <1>8, <3>1, <4>1 DEF Follows
    <3>4. CASE q <= x /\ x < e
      <4>1. d <= e /\ e <= d
        BY <1>5, <1>6, <1>9, <2>1, <3>1, <3>2, <3>4
      <4>2. d = e
        BY <1>5, <2>1, <4>1
      <4> QED BY <1>7, <4>2 DEF Follows
    <3> QED BY <1>5, <3>2, <3>3, <3>4
  <2> QED BY <2>2, <2>3
<1>11. ASSUME NEW x \in DOMAIN c.size PROVE Block(c, x)
  <2>1. CASE x = q
    <3>1. e \in DOMAIN c.size \cup {c.brk}
      BY <1>1, <1>5
    <3> QED BY <1>1, <1>2, <1>3, <1>5, <1>7, <2>1, <3>1 DEF Block
  <2>2. CASE x # q
    <3>1. /\ x \in DOMAIN b.size /\ c.size[x] = b.size[x] /\ End(c, x) = End(b, x)
          /\ End(b, x) <= q \/ e <= x
      BY <1>8, <2>2
    <3>2. End(b, x) \in DOMAIN c.size \cup {c.brk}
      BY <1>1, <1>2, <1>5, <3>1
    <3> QED BY <1>1, <1>2, <1>3, <3>1, <3>2 DEF Block
  <2> QED BY <2>1, <2>2
<1>12. ASSUME NEW x \in DOMAIN c.size, NEW y \in DOMAIN c.size, x < y PROVE End(c, x) <= y
  <2>1. x \in DOMAIN b.size /\ y \in DOMAIN b.size
    BY <1>1
  <2>2. CASE x = q
    BY <1>1, <1>2, <1>5, <1>7, <1>12, <2>1, <2>2
  <2>3. CASE x # q
    BY <1>2, <1>4, <1>8, <1>12, <2>1, <2>3
  <2> QED BY <2>2, <2>3
<1>13. c.used \subseteq DOMAIN c.size
  <2>1. b.used \subseteq DOMAIN b.size
    BY DEF Tiles
  <2>2. ASSUME NEW x \in b.used PROVE x \in DOMAIN b.size /\ (x <= q \/ e <= x)
    <3>1. x < q \/ e <= x
      BY <2>1
    <3>2. x \in Nat /\ q \in Nat
      BY <1>2, <2>1
    <3> QED BY <2>1, <3>1, <3>2
  <2> QED BY <1>1, <2>2
<1>14. FirstBlk \in DOMAIN c.size \cup {c.brk}
  <2>1. 48 \in DOMAIN b.size \cup {b.brk} /\ 48 <= q
    BY <1>2, <1>3 DEF Tiles
  <2> QED BY <1>1, <1>3, <2>1
<1>15. Tiles(c)
  BY <1>1, <1>3, <1>10, <1>11, <1>12, <1>13, <1>14 DEF Tiles
<1> QED BY <1>1, <1>5, <1>7, <1>8, <1>15

\* Two words make the tags of a merged block.
LEMMA MergeMarked ==
  ASSUME NEW h, NEW b, Marked(h, b), NEW q \in DOMAIN b.size,
         NEW e \in DOMAIN b.size \cup {b.brk}, q < e, q \notin b.used,
         \A x \in b.used : x < q \/ e <= x,
         NEW c, c = Merge(b, q, e), NEW g, TwoWords(h, g, q - 8, e - 16, e - q)
  PROVE  Marked(g, c) /\ OnlyTags(h, g, b) /\ Kept(h, b, g, c, b.used)
<1>1. h \in Heaps /\ h.brk = b.brk /\ Tiles(b) /\ Tagged(h, b)
  BY DEF Marked
<1>2. /\ Tiles(c) /\ e \in Nat /\ End(b, q) <= e
      /\ DOMAIN c.size = {y \in DOMAIN b.size : y <= q \/ e <= y}
      /\ End(c, q) = e /\ c.size[q] = e - q
      /\ \A x \in DOMAIN c.size \ {q} : c.size[x] = b.size[x] /\ End(c, x) = End(b, x)
      /\ c.used = b.used /\ c.brk = b.brk
  BY <1>1, MergeTiles
<1>3. /\ Alike(h, g)
      /\ \A a \in Words : g.mem[a] = IF a = q - 8 \/ a = e - 16 THEN e - q ELSE h.mem[a]
  BY DEF TwoWords
<1>4. q \in DOMAIN c.size /\ q \in Nat
  BY <1>1, <1>2, BlockWords
<1>5. \E x \in DOMAIN b.size : e = End(b, x)
  <2>1. Follows(b, e) /\ q \in Nat /\ 48 <= q /\ FirstBlk = 48
    BY <1>1, BlockWords, EdgeWords DEF Tiles
  <2> QED BY <1>2, <2>1 DEF Follows
<1>6. InTag(b, q - 8) /\ InTag(b, e - 16)
  BY <1>5 DEF InTag
<1>7. OnlyTags(h, g, b)
  BY <1>3, <1>6 DEF OnlyTags, Alike
<1>8. Tagged(g, c)
  <2>1. 24 \in Words /\ 32 \in Words /\ b.brk - 8 \in Words
    BY <1>1, EdgeWords
  <2>2. ASSUME NEW x \in DOMAIN c.size
        PROVE  /\ x - 8 \in Words /\ End(c, x) - 16 \in Words
               /\ (x - 8 = q - 8 => x = q) /\ (End(c, x) - 16 = e - 16 => x = q)
               /\ x - 8 # e - 16 /\ q - 8 # End(c, x) - 16
    BY <1>2, <1>4, BlockWords, TagsApart
  <2>3. /\ q - 8 \notin {24, 32, b.brk - 8} /\ e - 16 \notin {24, 32, b.brk - 8}
    BY <1>2, <1>4, TagsApart
  <2>4. Bit(c, q) = 0 /\ \A x : Bit(c, x) = Bit(b, x)
    BY <1>2 DEF Bit
  <2>5. ASSUME NEW x \in DOMAIN c.size
        PROVE  /\ g.mem[x - 8] = c.size[x] + Bit(c, x)
               /\ g.mem[End(c, x) - 16] = c.size[x] + Bit(c, x)
    <3>1. CASE x = q
      BY <1>2, <1>3, <1>4, <2>2, <2>4, <3>1
    <3>2. CASE x # q
      <4>1. /\ h.mem[x - 8] = b.size[x] + Bit(b, x)
            /\ h.mem[End(b, x) - 16] = b.size[x] + Bit(b, x)
        BY <1>1, <1>2 DEF Tagged
      <4>2. g.mem[x - 8] = h.mem[x - 8] /\ g.mem[End(c, x) - 16] = h.mem[End(c, x) - 16]
        BY <1>3, <2>2, <3>2
      <4> QED BY <1>2, <2>4, <3>2, <4>1, <4>2
    <3> QED BY <3>1, <3>2
  <2>6. g.mem[24] = 17 /\ g.mem[32] = 17 /\ g.mem[b.brk - 8] = 1
    BY <1>1, <1>3, <2>1, <2>3 DEF Tagged
  <2> QED BY <1>2, <2>5, <2>6 DEF Tagged
<1>9. Kept(h, b, g, b, DOMAIN b.size)
  BY <1>1, <1>7, TagsKeepBodies
<1>10. \A x \in b.used : x \in DOMAIN c.size /\ x # q /\ c.size[x] = b.size[x]
  BY <1>2 DEF Tiles
<1>11. Kept(h, b, g, c, b.used)
  BY <1>9, <1>10, <1>1 DEF Kept, Tiles
<1> QED BY <1>1, <1>2, <1>3, <1>7, <1>8, <1>11 DEF Marked, Alike

\* What cutting a block leaves of the tiling.
LEMMA SplitTiles ==
  ASSUME NEW b, Tiles(b), NEW p \in DOMAIN b.size, NEW s \in Nat, s >= 32, s % 16 = 0,
         b.size[p] - s >= 32, NEW c, c = Abstract!Split(b, p, s)
  PROVE  /\ Tiles(c) /\ DOMAIN c.size = DOMAIN b.size \cup {p + s} /\ p + s \notin DOMAIN b.size
         /\ c.size[p] = s /\ End(c, p) = p + s
         /\ c.size[p + s] = b.size[p] - s /\ End(c, p + s) = End(b, p)
         /\ \A x \in DOMAIN b.size \ {p} : c.size[x] = b.size[x] /\ End(c, x) = End(b, x)
         /\ c.used = b.used /\ c.brk = b.brk /\ c.TOH = b.TOH
<1> DEFINE r == p + s
<1>1. /\ c.used = b.used /\ c.brk = b.brk /\ c.TOH = b.TOH
      /\ DOMAIN c.size = DOMAIN b.size \cup {r}
      /\ \A x \in DOMAIN c.size : c.size[x] = IF x = p THEN s ELSE IF x = r THEN b.size[p] - s
                                              ELSE b.size[x]
      /\ Shaped(c)
  BY DEF Abstract!Split, Abstract!Heap, Abstract!Blocks, Shaped
<1>2. \A x \in DOMAIN b.size :
         /\ x \in Nat /\ x % 16 = 0 /\ 48 <= x /\ b.size[x] \in Nat /\ b.size[x] % 16 = 0
         /\ b.size[x] >= 32 /\ End(b, x) = x + b.size[x] /\ End(b, x) \in Nat
         /\ End(b, x) <= b.brk /\ End(b, x) \in DOMAIN b.size \cup {b.brk}
         /\ Follows(b, x)
  <2>1. \A x \in DOMAIN b.size : Block(b, x) /\ Follows(b, x)
    BY DEF Tiles
  <2> QED BY <2>1, BlockWords DEF Block
<1>3. b.brk \in Nat /\ b.brk % 16 = 0 /\ FirstBlk = 48 /\ 48 <= b.brk /\ b.brk <= Top
  BY EdgeWords
<1>4. \A x, y \in DOMAIN b.size : x = y \/ End(b, x) <= y \/ End(b, y) <= x
  BY BlocksApart
<1>5. /\ p \in Nat /\ r \in Nat /\ r % 16 = 0 /\ (b.size[p] - s) % 16 = 0 /\ b.size[p] - s \in Nat
      /\ p + 32 <= r /\ r + 32 <= End(b, p) /\ r + (b.size[p] - s) = End(b, p)
  BY <1>2, Granules
<1>6. r \notin DOMAIN b.size
  <2> SUFFICES ASSUME r \in DOMAIN b.size PROVE FALSE
    OBVIOUS
  <2>1. r \in Nat /\ r + 32 <= End(b, r) /\ End(b, r) \in Nat
    BY <1>2, BlockWords
  <2> HIDE DEF r
  <2> QED BY <1>2, <1>4, <1>5, <2>1
<1> HIDE DEF r
<1>7. /\ c.size[p] = s /\ c.size[r] = b.size[p] - s /\ r # p
      /\ \A x \in DOMAIN b.size \ {p} : c.size[x] = b.size[x]
  BY <1>1, <1>5, <1>6
<1>8. /\ End(c, p) = r /\ End(c, r) = End(b, p)
      /\ \A x \in DOMAIN b.size \ {p} : End(c, x) = End(b, x)
  BY <1>5, <1>7 DEF End, r
<1>9. ASSUME NEW d \in DOMAIN c.size \cup {c.brk} PROVE Follows(c, d)
  <2>1. CASE d = r
    BY <1>1, <1>8, <2>1 DEF Follows
  <2>2. CASE d # r
    <3>1. Follows(b, d)
      BY <1>1, <1>2, <2>2 DEF Tiles
    <3> QED BY <1>1, <1>8, <3>1 DEF Follows
  <2> QED BY <2>1, <2>2
<1>10. ASSUME NEW x \in DOMAIN c.size PROVE Block(c, x)
  <2>1. CASE x = p
    BY <1>1, <1>2, <1>3, <1>5, <1>7, <1>8, <2>1 DEF Block
  <2>2. CASE x = r
    BY <1>1, <1>2, <1>3, <1>5, <1>7, <1>8, <2>2 DEF Block
  <2>3. CASE x # p /\ x # r
    BY <1>1, <1>2, <1>3, <1>7, <1>8, <2>3 DEF Block
  <2> QED BY <2>1, <2>2, <2>3
<1>11. ASSUME NEW x \in DOMAIN c.size, NEW y \in DOMAIN c.size, x < y PROVE End(c, x) <= y
  <2>1. CASE x # p /\ x # r /\ y # r
    BY <1>1, <1>2, <1>4, <1>8, <1>11, <2>1
  <2>2. CASE x # p /\ x # r /\ y = r
    BY <1>1, <1>2, <1>4, <1>5, <1>8, <1>11, <2>2
  <2>3. CASE x = p
    BY <1>1, <1>2, <1>4, <1>5, <1>8, <1>11, <2>3
  <2>4. CASE x = r
    BY <1>1, <1>2, <1>4, <1>5, <1>8, <1>11, <2>4
  <2> QED BY <2>1, <2>2, <2>3, <2>4
<1>12. Tiles(c)
  BY <1>1, <1>3, <1>9, <1>10, <1>11 DEF Tiles
<1> QED BY <1>1, <1>6, <1>7, <1>8, <1>12 DEF r

\* The tags of x and y
TagWords(b, x, y) ==
  /\ x - 8 \in Words /\ End(b, x) - 16 \in Words
  /\ (x - 8 = y - 8 => x = y) /\ (End(b, x) - 16 = End(b, y) - 16 => x = y)
  /\ x - 8 # End(b, y) - 16 /\ End(b, x) - 16 # y - 8
  /\ x - 8 \notin {24, 32, b.brk - 8} /\ End(b, x) - 16 \notin {24, 32, b.brk - 8}

\* The four words of a split.
LEMMA SplitMarked ==
  ASSUME NEW h, NEW b, Marked(h, b), NEW p \in DOMAIN b.size, NEW s \in Nat, s >= 32, s % 16 = 0,
         b.size[p] - s >= 32, NEW u \in {0, 1},
         NEW d, d = Abstract!Split(b, p, s),
         NEW c, c = Abstract!Heap(d.size, IF u = 1 THEN b.used \cup {p, p + s}
                                          ELSE b.used \cup {p}, b.brk, b.TOH),
         NEW g, g = tag(tag(h, p, s, 1), p + s, b.size[p] - s, u)
  PROVE  Marked(g, c) /\ OnlyTags(h, g, c) /\ Alike(h, g)
         /\ Kept(h, b, g, c, DOMAIN b.size \ {p})
<1> DEFINE r == p + s
           k == tag(h, p, s, 1)
<1>1. h \in Heaps /\ h.brk = b.brk /\ Tiles(b) /\ Tagged(h, b)
  BY DEF Marked
<1>2. /\ Tiles(d) /\ DOMAIN d.size = DOMAIN b.size \cup {r} /\ r \notin DOMAIN b.size
      /\ d.size[p] = s /\ End(d, p) = r /\ d.size[r] = b.size[p] - s /\ End(d, r) = End(b, p)
      /\ \A x \in DOMAIN b.size \ {p} : d.size[x] = b.size[x] /\ End(d, x) = End(b, x)
      /\ d.used = b.used /\ d.brk = b.brk /\ d.TOH = b.TOH
  BY <1>1, SplitTiles
<1> HIDE DEF r
<1>3. /\ p \in Nat /\ r \in Nat /\ p \in DOMAIN d.size /\ r \in DOMAIN d.size
      /\ p - 8 \in Words /\ r - 16 \in Words /\ r - 8 \in Words /\ End(b, p) - 16 \in Words
      /\ p + s - 16 = r - 16 /\ r + (b.size[p] - s) - 16 = End(b, p) - 16
      /\ b.size[p] - s \in Nat /\ (b.size[p] - s) % 16 = 0
      /\ p + 32 <= r /\ r + 32 <= End(b, p) /\ End(b, p) <= b.brk /\ b.brk \in Nat
      /\ End(b, p) \in Nat
  <2>1. p \in DOMAIN d.size /\ r \in DOMAIN d.size
    BY <1>2
  <2>2. /\ p \in Nat /\ r \in Nat /\ p - 8 \in Words /\ r - 8 \in Words
        /\ End(d, p) - 16 \in Words /\ End(d, r) - 16 \in Words
        /\ d.size[r] \in Nat /\ d.size[r] % 16 = 0
        /\ p + 32 <= End(d, p) /\ r + 32 <= End(d, r) /\ End(d, r) <= d.brk
        /\ End(d, r) = r + d.size[r] /\ End(d, p) = p + d.size[p] /\ End(d, r) \in Nat
    BY <1>2, <2>1, BlockWords
  <2> QED BY <1>1, <1>2, <2>1, <2>2, EdgeWords
<1>4. /\ Alike(h, k)
      /\ \A a \in Words : k.mem[a] = IF a = p - 8 \/ a = r - 16 THEN s + 1 ELSE h.mem[a]
  <2>1. p - 8 < h.brk /\ p + s - 16 < h.brk /\ p + s - 16 \in Words
    BY <1>1, <1>3
  <2>2. /\ Alike(h, k)
        /\ \A a \in Words : k.mem[a] = IF a = p - 8 \/ a = p + s - 16 THEN s + 1 ELSE h.mem[a]
    <3>1. h \in Heaps /\ p \in Nat /\ p - 8 \in Words /\ 1 \in {0, 1}
      BY <1>1, <1>3
    <3> QED BY <2>1, <3>1, TagStores
  <2> QED BY <1>3, <2>2
<1> HIDE DEF k
<1>5. /\ Alike(k, g)
      /\ \A a \in Words : g.mem[a] = IF a = r - 8 \/ a = End(b, p) - 16
                                     THEN b.size[p] - s + u ELSE k.mem[a]
  <2>1. r - 8 < k.brk /\ r + (b.size[p] - s) - 16 < k.brk /\ k \in Heaps
    BY <1>1, <1>3, <1>4 DEF Alike
  <2>2. g = tag(k, r, b.size[p] - s, u)
    BY DEF k, r
  <2> QED BY <1>3, <2>1, <2>2, TagStores
<1>6. /\ c.size = d.size /\ c.brk = b.brk /\ c.TOH = b.TOH
      /\ c.used = IF u = 1 THEN b.used \cup {p, r} ELSE b.used \cup {p}
  BY DEF Abstract!Heap, r
<1>7. Tiles(c)
  <2>1. Shaped(c)
    BY <1>2, <1>6 DEF Tiles, Shaped, Abstract!Heap
  <2>2. c.used \subseteq DOMAIN d.size
    BY <1>1, <1>2, <1>6 DEF Tiles
  <2> QED BY <1>2, <1>6, <2>1, <2>2, TilesAlike
<1>8. \A x : End(c, x) = End(d, x)
  BY <1>6 DEF End
<1>9. \A x, y \in DOMAIN c.size : TagWords(c, x, y)
  BY <1>7, BlockWords, TagsApart DEF TagWords
<1>10. p \in DOMAIN c.size /\ r \in DOMAIN c.size /\ p # r /\ End(c, p) = r /\ End(c, r) = End(b, p)
  BY <1>2, <1>3, <1>6, <1>8
<1>11. \A a \in Words : g.mem[a] = IF a = r - 8 \/ a = End(c, r) - 16 THEN b.size[p] - s + u
                                   ELSE IF a = p - 8 \/ a = End(c, p) - 16 THEN s + 1
                                   ELSE h.mem[a]
  BY <1>4, <1>5, <1>10
<1>12. Tagged(g, c)
  <2>1. 24 \in Words /\ 32 \in Words /\ b.brk - 8 \in Words
    BY <1>1, EdgeWords
  <2>2. /\ Bit(c, p) = 1 /\ Bit(c, r) = u
        /\ \A x \in DOMAIN c.size \ {p, r} : Bit(c, x) = Bit(b, x)
    <3>1. r \notin b.used
      BY <1>1, <1>2 DEF Tiles
    <3> QED BY <1>6, <1>10, <3>1 DEF Bit
  <2>3. ASSUME NEW x \in DOMAIN c.size
        PROVE  /\ g.mem[x - 8] = c.size[x] + Bit(c, x)
               /\ g.mem[End(c, x) - 16] = c.size[x] + Bit(c, x)
    <3>1. CASE x = p
      <4>1. /\ p - 8 \in Words /\ End(c, p) - 16 \in Words /\ p - 8 # r - 8
            /\ p - 8 # End(c, r) - 16 /\ End(c, p) - 16 # r - 8
            /\ End(c, p) - 16 # End(c, r) - 16
        <5>1. TagWords(c, p, r)
          BY <1>9, <1>10
        <5> QED BY <1>10, <5>1 DEF TagWords
      <4>2. c.size[p] = s /\ Bit(c, p) = 1
        BY <1>2, <1>6, <2>2
      <4> QED BY <1>11, <3>1, <4>1, <4>2
    <3>2. CASE x = r
      <4>1. r - 8 \in Words /\ End(c, r) - 16 \in Words
        <5>1. TagWords(c, r, p)
          BY <1>9, <1>10
        <5> QED BY <5>1 DEF TagWords
      <4>2. c.size[r] = b.size[p] - s /\ Bit(c, r) = u
        BY <1>2, <1>6, <2>2
      <4> QED BY <1>11, <3>2, <4>1, <4>2
    <3>3. CASE x # p /\ x # r
      <4>1. /\ h.mem[x - 8] = b.size[x] + Bit(b, x)
            /\ h.mem[End(b, x) - 16] = b.size[x] + Bit(b, x)
            /\ End(c, x) = End(b, x) /\ c.size[x] = b.size[x]
        BY <1>1, <1>2, <1>6, <1>8, <3>3 DEF Tagged
      <4>2. g.mem[x - 8] = h.mem[x - 8] /\ g.mem[End(c, x) - 16] = h.mem[End(c, x) - 16]
        <5>1. TagWords(c, x, p) /\ TagWords(c, x, r)
          BY <1>9, <1>10
        <5>2. /\ x - 8 \in Words /\ End(c, x) - 16 \in Words
              /\ x - 8 # r - 8 /\ x - 8 # End(c, r) - 16
              /\ x - 8 # p - 8 /\ x - 8 # End(c, p) - 16
              /\ End(c, x) - 16 # r - 8 /\ End(c, x) - 16 # End(c, r) - 16
              /\ End(c, x) - 16 # p - 8 /\ End(c, x) - 16 # End(c, p) - 16
          BY <3>3, <5>1 DEF TagWords
        <5> QED BY <1>11, <5>2
      <4> QED BY <2>2, <3>3, <4>1, <4>2
    <3> QED BY <3>1, <3>2, <3>3
  <2>4. g.mem[24] = 17 /\ g.mem[32] = 17 /\ g.mem[b.brk - 8] = 1
    <3>1. TagWords(c, p, r) /\ TagWords(c, r, p)
      BY <1>9, <1>10
    <3>2. \A a \in {24, 32, b.brk - 8} : a # p - 8 /\ a # End(c, p) - 16
                                        /\ a # r - 8 /\ a # End(c, r) - 16
      BY <1>6, <3>1 DEF TagWords
    <3>3. \A a \in {24, 32, b.brk - 8} : g.mem[a] = h.mem[a]
      BY <1>11, <2>1, <3>2
    <3>4. h.mem[24] = 17 /\ h.mem[32] = 17 /\ h.mem[b.brk - 8] = 1
      BY <1>1 DEF Tagged
    <3> QED BY <3>3, <3>4
  <2> QED BY <1>6, <2>3, <2>4 DEF Tagged
<1>13. OnlyTags(h, g, c)
  <2>1. /\ InTag(c, p - 8) /\ InTag(c, End(c, p) - 16)
        /\ InTag(c, r - 8) /\ InTag(c, End(c, r) - 16)
    BY <1>10 DEF InTag
  <2> QED BY <1>4, <1>5, <1>11, <2>1 DEF OnlyTags, Alike
<1>14. Kept(h, b, g, c, DOMAIN b.size \ {p})
  <2>1. Kept(h, c, g, c, DOMAIN c.size)
    BY <1>7, <1>13, TagsKeepBodies
  <2>2. \A x \in DOMAIN b.size \ {p} : /\ x \in DOMAIN c.size /\ c.size[x] = b.size[x]
                                       /\ \A a : InBody(b, x, a) <=> InBody(c, x, a)
    BY <1>2, <1>6, <1>8 DEF InBody
  <2> QED BY <2>1, <2>2 DEF Kept
<1> QED BY <1>1, <1>4, <1>5, <1>6, <1>7, <1>12, <1>13, <1>14 DEF Marked, Alike

\* A word that is neither of the two tags keeps its value.
LEMMA TagElsewhere ==
  ASSUME NEW h \in Heaps, NEW p \in Nat, NEW z \in Nat, z % 16 = 0, NEW u \in {0, 1},
         p - 8 \in Words, p + z - 16 \in Words, p - 8 < h.brk, p + z - 16 < h.brk,
         NEW a \in Words, a # p - 8, a # p + z - 16
  PROVE  tag(h, p, z, u) \in Heaps /\ tag(h, p, z, u).mem[a] = h.mem[a]
BY TagStores, SMTT(60) DEF Alike

\* The header that says where the rest is can be read again once it is written.
LEMMA CutTags ==
  ASSUME NEW h, NEW b, Marked(h, b), NEW p \in DOMAIN b.size, NEW n \in Nat, n >= 32, n % 16 = 0,
         b.size[p] - n >= 32, NEW u \in {0, 1}
  PROVE  /\ Cut(h, p, n, u) = tag(tag(h, p, n, 1), p + n, b.size[p] - n, u)
         /\ next_blk(Cut(h, p, n, u), p) = p + n
<1> DEFINE k == tag(h, p, n, 1)
           m == p + n
           z == b.size[p] - n
           g == put(k, m - 8, z + u)
           l == tag(k, m, z, u)
           e == End(b, p) - 16
<1>1. h \in Heaps /\ h.brk = b.brk /\ Tiles(b)
  BY DEF Marked
<1>2. /\ p - 8 \in Words /\ m - 8 \in Words /\ m - 16 \in Words /\ e \in Words
      /\ p - 8 < h.brk /\ m - 8 < h.brk /\ m - 16 < h.brk /\ e < h.brk
      /\ p - 8 # m - 8 /\ p - 8 # m - 16 /\ p - 8 # e /\ p + n - 16 = m - 16 /\ m + z - 16 = e
      /\ p \in Nat /\ m \in Nat /\ z \in Nat /\ z % 16 = 0 /\ z % SizeMod = z
  <2> DEFINE d == Abstract!Split(b, p, n)
  <2>1. d = Abstract!Split(b, p, n)
    OBVIOUS
  <2> HIDE DEF d
  <2>2. /\ Tiles(d) /\ p \in DOMAIN d.size /\ m \in DOMAIN d.size /\ d.size[p] = n /\ d.size[m] = z
        /\ End(d, p) = m /\ End(d, m) = End(b, p) /\ d.brk = b.brk
    BY <1>1, <2>1, SplitTiles
  <2> HIDE DEF m, z
  <2>3. /\ p \in Nat /\ m \in Nat /\ p - 8 \in Words /\ m - 8 \in Words /\ m - 16 \in Words
        /\ e \in Words /\ z \in Nat /\ z % 16 = 0 /\ p + 32 <= m /\ m + 32 <= End(b, p)
        /\ End(b, p) <= b.brk /\ m = p + n /\ End(b, p) = m + z /\ End(b, p) \in Nat
    BY <2>2, BlockWords DEF e
  <2>4. b.brk \in Nat /\ b.brk <= Top /\ Top < SizeMod /\ SizeMod \in Nat /\ Top \in Nat
    BY <1>1, EdgeWords, Sizing
  <2>5. z < SizeMod
    BY <2>3, <2>4
  <2>6. z % SizeMod = z
    BY <2>3, <2>4, <2>5, Remainder
  <2> QED BY <1>1, <2>3, <2>4, <2>6 DEF e
<1> HIDE DEF m, z, e
<1>3. Alike(h, k) /\ \A a \in Words : k.mem[a] = IF a = p - 8 \/ a = m - 16 THEN n + 1 ELSE h.mem[a]
  <2>1. p + n - 16 \in Words /\ p + n - 16 < h.brk /\ 1 \in {0, 1} /\ p \in Nat
        /\ p - 8 \in Words /\ p - 8 < h.brk /\ m - 16 = p + n - 16
    BY <1>2
  <2>2. /\ Alike(h, k)
        /\ \A a \in Words : k.mem[a] = IF a = p - 8 \/ a = p + n - 16 THEN n + 1 ELSE h.mem[a]
    BY <1>1, <2>1, TagStores
  <2> HIDE DEF k
  <2> QED BY <2>1, <2>2
<1> HIDE DEF k
<1>4. k \in Heaps /\ k.brk = h.brk
  BY <1>3 DEF Alike
<1>5. 16 * ((n + 1) \div 16) = n /\ z + u \in Word /\ pack(z, u) = z + u
  <2>1. 1 \in {0, 1}
    OBVIOUS
  <2> QED BY <1>2, <2>1, TagValue
<1>6. \A f : f \in Heaps /\ f.mem[p - 8] = n + 1 => next_blk(f, p) = m
  BY <1>2, <1>5, GetWord DEF next_blk, get_size, m
<1>7. next_blk(k, p) = m
  BY <1>2, <1>3, <1>4, <1>6
<1>8. next_blk(g, p) = m
  <2>1. g \in Heaps /\ \A a \in Words : g.mem[a] = IF a = m - 8 THEN z + u ELSE k.mem[a]
    BY <1>2, <1>4, <1>5, PutWord DEF Alike
  <2> QED BY <1>2, <1>3, <1>6, <2>1
<1>9. Cut(h, p, n, u) = put(g, GFA(g, m), z + u)
  <2>1. get_size(h, GHA(p)) = b.size[p]
    BY Reads
  <2>2. Cut(h, p, n, u) = tag_next(k, p, z, u)
    BY <1>2, <2>1 DEF Cut, k, z
  <2> QED BY <1>5, <1>7, <1>8, <2>2 DEF tag_next, GHA
<1>10. l = put(g, GFA(g, m), z + u)
  BY <1>5 DEF tag, GHA
<1>11. next_blk(l, p) = m
  <2>1. /\ m + z - 16 \in Words /\ m - 8 < k.brk /\ m + z - 16 < k.brk
        /\ m - 8 \in Words /\ m \in Nat /\ z \in Nat /\ z % 16 = 0 /\ k \in Heaps
        /\ p - 8 \in Words /\ p - 8 # m - 8 /\ p - 8 # m + z - 16
    BY <1>2, <1>4
  <2>2. l \in Heaps /\ l.mem[p - 8] = k.mem[p - 8]
    BY <2>1, TagElsewhere, SMTT(60)
  <2>3. k.mem[p - 8] = n + 1
    BY <1>2, <1>3
  <2> HIDE DEF l
  <2> QED BY <1>6, <2>2, <2>3
<1> QED BY <1>9, <1>10, <1>11 DEF k, l, m, z

\* What a new block at the break leaves of the tiling.
LEMMA AddTiles ==
  ASSUME NEW b, Tiles(b), NEW n \in Nat, n >= 32, n % 16 = 0, b.brk + n <= Top,
         NEW c, c = Abstract!AddBlock(b, n)
  PROVE  /\ Tiles(c) /\ DOMAIN c.size = DOMAIN b.size \cup {b.brk} /\ b.brk \notin DOMAIN b.size
         /\ c.size[b.brk] = n /\ End(c, b.brk) = b.brk + n
         /\ \A x \in DOMAIN b.size : c.size[x] = b.size[x] /\ End(c, x) = End(b, x)
         /\ c.used = b.used /\ c.brk = b.brk + n /\ c.TOH = b.TOH
<1> DEFINE r == b.brk
<1>1. /\ c.used = b.used /\ c.brk = r + n /\ c.TOH = b.TOH
      /\ DOMAIN c.size = DOMAIN b.size \cup {r}
      /\ \A x \in DOMAIN c.size : c.size[x] = IF x = r THEN n ELSE b.size[x]
      /\ Shaped(c)
  BY DEF Abstract!AddBlock, Abstract!Heap, Abstract!Blocks, Shaped
<1>2. \A x \in DOMAIN b.size :
         /\ x \in Nat /\ x % 16 = 0 /\ 48 <= x /\ b.size[x] \in Nat /\ b.size[x] % 16 = 0
         /\ b.size[x] >= 32 /\ End(b, x) = x + b.size[x] /\ End(b, x) \in Nat
         /\ x + 32 <= End(b, x)
         /\ End(b, x) <= r /\ End(b, x) \in DOMAIN b.size \cup {r}
         /\ Follows(b, x)
  <2>1. \A x \in DOMAIN b.size : Block(b, x) /\ Follows(b, x)
    BY DEF Tiles
  <2> QED BY <2>1, BlockWords DEF Block
<1>3. r \in Nat /\ r % 16 = 0 /\ FirstBlk = 48 /\ 48 <= r /\ r <= Top
  BY EdgeWords
<1> HIDE DEF r
<1>4. r \notin DOMAIN b.size /\ \A x \in DOMAIN b.size : x < r
  BY <1>2, <1>3
<1>5. r + n \in Nat /\ (r + n) % 16 = 0 /\ 48 <= r + n /\ r + n <= Top
  BY <1>3, Granules DEF r
<1>6. /\ End(c, r) = r + n /\ c.size[r] = n
      /\ \A x \in DOMAIN b.size : c.size[x] = b.size[x] /\ End(c, x) = End(b, x)
  BY <1>1, <1>4 DEF End
<1>7. ASSUME NEW d \in DOMAIN c.size \cup {c.brk} PROVE Follows(c, d)
  <2>1. CASE d = r + n
    BY <1>1, <1>6, <2>1 DEF Follows
  <2>2. CASE d # r + n
    <3>1. Follows(b, d)
      BY <1>1, <1>2, <2>2 DEF Tiles, r
    <3> QED BY <1>1, <1>6, <3>1 DEF Follows
  <2> QED BY <2>1, <2>2
<1>8. ASSUME NEW x \in DOMAIN c.size PROVE Block(c, x)
  <2>1. CASE x = r
    BY <1>1, <1>3, <1>5, <1>6, <2>1 DEF Block
  <2>2. CASE x # r
    BY <1>1, <1>2, <1>3, <1>5, <1>6, <2>2 DEF Block
  <2> QED BY <2>1, <2>2
<1>9. ASSUME NEW x \in DOMAIN c.size, NEW y \in DOMAIN c.size, x < y PROVE End(c, x) <= y
  <2>1. CASE x = r
    BY <1>1, <1>2, <1>3, <1>9, <2>1
  <2>2. CASE x # r
    <3>1. y \in DOMAIN b.size => End(b, x) <= y
      BY <1>1, <1>9, <2>2 DEF Tiles
    <3> QED BY <1>1, <1>2, <1>6, <2>2, <3>1
  <2> QED BY <2>1, <2>2
<1>10. FirstBlk \in DOMAIN c.size \cup {c.brk} /\ c.used \subseteq DOMAIN c.size
  BY <1>1 DEF Tiles, r
<1>11. Tiles(c)
  BY <1>1, <1>3, <1>5, <1>7, <1>8, <1>9, <1>10 DEF Tiles
<1> QED BY <1>1, <1>4, <1>6, <1>11 DEF r

\* The heap with another break
Broken(h, brk) == [h EXCEPT !.brk = brk]

\* The three words of a new page.
LEMMA PageMarked ==
  ASSUME NEW h, NEW b, Marked(h, b), NEW n \in Nat, n >= 32, n % 16 = 0, b.brk + n <= Top,
         NEW c, c = Abstract!AddBlock(b, n),
         NEW k, k = tag(Broken(h, h.brk + n), h.brk, n, 0),
         NEW g, g = put(k, GHA(next_blk(k, h.brk)), pack(0, 1))
  PROVE  Marked(g, c) /\ OnlyTags(h, g, c) /\ Kept(h, b, g, c, DOMAIN b.size)
<1> DEFINE r == b.brk
           l == Broken(h, h.brk + n)
<1>1. h \in Heaps /\ h.brk = r /\ Tiles(b) /\ Tagged(h, b)
  BY DEF Marked
<1>2. /\ Tiles(c) /\ DOMAIN c.size = DOMAIN b.size \cup {r} /\ r \notin DOMAIN b.size
      /\ c.size[r] = n /\ End(c, r) = r + n
      /\ \A x \in DOMAIN b.size : c.size[x] = b.size[x] /\ End(c, x) = End(b, x)
      /\ c.used = b.used /\ c.brk = r + n /\ c.TOH = b.TOH
  BY <1>1, AddTiles
<1>3. /\ r \in DOMAIN c.size /\ r \in Nat /\ r - 8 \in Words /\ r + n - 16 \in Words
      /\ r + n - 8 \in Words /\ r + n \in Nat /\ r + 32 <= r + n
  BY <1>2, BlockWords
<1>4. /\ l \in Heaps /\ l.brk = r + n /\ l.free_root = h.free_root /\ l.TOH = h.TOH
      /\ l.fault = h.fault /\ l.mem = h.mem
  BY <1>1, <1>3 DEF Broken, Heaps
<1> HIDE DEF r, l
<1>5. /\ Alike(l, k)
      /\ \A a \in Words : k.mem[a] = IF a = r - 8 \/ a = r + n - 16 THEN n ELSE h.mem[a]
  <2>1. r - 8 < l.brk /\ r + n - 16 < l.brk
    BY <1>3, <1>4
  <2>2. k = tag(l, r, n, 0)
    BY <1>1 DEF l
  <2>3. \A a \in Words : k.mem[a] = IF a = r - 8 \/ a = r + n - 16 THEN n + 0 ELSE l.mem[a]
    BY <1>3, <1>4, <2>1, <2>2, TagStores
  <2>4. Alike(l, k)
    BY <1>3, <1>4, <2>1, <2>2, TagStores
  <2> QED BY <1>4, <2>3, <2>4
<1>6. k \in Heaps /\ k.brk = r + n
  BY <1>4, <1>5 DEF Alike
<1>7. GHA(next_blk(k, h.brk)) = r + n - 8
  <2>1. get(k, r - 8) = n
    BY <1>3, <1>5, <1>6, GetWord
  <2>2. next_blk(k, r) = r + n
    BY <2>1, TagValue DEF next_blk, get_size
  <2>3. next_blk(k, h.brk) = r + n
    BY <1>1, <2>2
  <2> QED BY <1>3, <2>3 DEF GHA
<1>8. /\ Alike(k, g)
      /\ \A a \in Words : g.mem[a] = IF a = r + n - 8 THEN 1
                                     ELSE IF a = r - 8 \/ a = r + n - 16 THEN n ELSE h.mem[a]
  <2>1. r + n - 8 < k.brk /\ 1 \in Word /\ pack(0, 1) = 1
    BY <1>3, <1>6 DEF Word, pack
  <2>2. /\ Alike(k, put(k, r + n - 8, 1))
        /\ \A a \in Words : put(k, r + n - 8, 1).mem[a] = IF a = r + n - 8 THEN 1 ELSE k.mem[a]
    BY <1>3, <1>6, <2>1, PutWord
  <2> QED BY <1>5, <1>7, <2>1, <2>2
<1>9. \A x, y \in DOMAIN c.size : TagWords(c, x, y)
  BY <1>2, BlockWords, TagsApart DEF TagWords
<1>10. Tagged(g, c)
  <2>1. \A x \in DOMAIN c.size : Bit(c, x) = Bit(b, x)
    BY <1>2 DEF Bit
  <2>2. Bit(c, r) = 0
    BY <1>1, <1>2 DEF Bit, Tiles
  <2>3. ASSUME NEW x \in DOMAIN c.size
        PROVE  /\ g.mem[x - 8] = c.size[x] + Bit(c, x)
               /\ g.mem[End(c, x) - 16] = c.size[x] + Bit(c, x)
    <3>1. TagWords(c, x, r)
      BY <1>3, <1>9
    <3>2. CASE x = r
      <4>1. /\ r - 8 # r + n - 8 /\ r + n - 16 # r + n - 8
        BY <1>3
      <4> QED BY <1>2, <1>3, <1>8, <2>2, <3>2, <4>1
    <3>3. CASE x # r
      <4>1. /\ h.mem[x - 8] = b.size[x] + Bit(b, x)
            /\ h.mem[End(b, x) - 16] = b.size[x] + Bit(b, x)
        BY <1>1, <1>2, <3>3 DEF Tagged
      <4>2. /\ x - 8 \in Words /\ End(c, x) - 16 \in Words
            /\ x - 8 # r - 8 /\ x - 8 # r + n - 16 /\ x - 8 # r + n - 8
            /\ End(c, x) - 16 # r - 8 /\ End(c, x) - 16 # r + n - 16
            /\ End(c, x) - 16 # r + n - 8
        <5>1. c.brk - 8 = r + n - 8 /\ End(c, r) - 16 = r + n - 16
          BY <1>2, <1>3
        <5>2. /\ x - 8 \in Words /\ End(c, x) - 16 \in Words /\ x - 8 # r - 8
              /\ x - 8 # End(c, r) - 16 /\ x - 8 # c.brk - 8
              /\ End(c, x) - 16 # r - 8 /\ End(c, x) - 16 # End(c, r) - 16
              /\ End(c, x) - 16 # c.brk - 8
          BY <3>1, <3>3 DEF TagWords
        <5> QED BY <5>1, <5>2
      <4>3. g.mem[x - 8] = h.mem[x - 8] /\ g.mem[End(c, x) - 16] = h.mem[End(c, x) - 16]
        BY <1>8, <4>2
      <4> QED BY <1>2, <2>1, <3>3, <4>1, <4>3
    <3> QED BY <3>2, <3>3
  <2>4. g.mem[24] = 17 /\ g.mem[32] = 17 /\ g.mem[c.brk - 8] = 1
    <3>1. 24 \in Words /\ 32 \in Words /\ 48 <= r
      BY <1>1, EdgeWords DEF r
    <3>2. \A a \in {24, 32} : a # r - 8 /\ a # r + n - 16 /\ a # r + n - 8
      BY <1>3, <3>1
    <3>3. h.mem[24] = 17 /\ h.mem[32] = 17
      BY <1>1 DEF Tagged
    <3> QED BY <1>2, <1>3, <1>8, <3>1, <3>2, <3>3
  <2> QED BY <2>3, <2>4 DEF Tagged
<1>11. OnlyTags(h, g, c)
  <2>1. InTag(c, r - 8) /\ InTag(c, r + n - 16) /\ InTag(c, r + n - 8)
    BY <1>2, <1>3 DEF InTag
  <2> QED BY <1>4, <1>5, <1>8, <2>1 DEF OnlyTags, Alike
<1>12. Kept(h, b, g, c, DOMAIN b.size)
  <2>1. Kept(h, c, g, c, DOMAIN c.size)
    BY <1>2, <1>11, TagsKeepBodies
  <2>2. \A x \in DOMAIN b.size : /\ x \in DOMAIN c.size /\ c.size[x] = b.size[x]
                                 /\ \A a : InBody(b, x, a) <=> InBody(c, x, a)
    BY <1>2 DEF InBody
  <2> QED BY <2>1, <2>2 DEF Kept
<1> QED BY <1>2, <1>6, <1>8, <1>10, <1>11, <1>12 DEF Marked, Alike

(***************************************************************************)
(* coalesce.                                                               *)
(***************************************************************************)
Unmerged(b) == \A x \in Frees(b) : End(b, x) \notin Frees(b)

\* Only p may have a free neighbour.
UnmergedBut(b, p) ==
  \A x \in Frees(b) : x # p /\ End(b, x) # p => End(b, x) \notin Frees(b)

\* Tags and list describe the blocks of b, TOH aside.
Sound(h, b) == Marked(h, b) /\ Listed(h, Frees(b)) /\ Unmerged(b)

\* What is kept twice is kept.
LEMMA KeptAgain ==
  ASSUME NEW h, NEW b, NEW g, NEW c, NEW k, NEW d, NEW K,
         Kept(h, b, g, c, K), Kept(g, c, k, d, K)
  PROVE  Kept(h, b, k, d, K)
BY DEF Kept, InBody, End

\* The list, once it has the right cells, goes with the tags.
LEMMA RelistedSound ==
  ASSUME NEW h, NEW b, Marked(h, b), Unmerged(b), NEW g, NEW E,
         Relisted(h, g, E, Frees(b)), Within(b, E, Frees(b))
  PROVE  Sound(g, b) /\ Kept(h, b, g, b, b.used) /\ g.TOH = h.TOH /\ g.fault = h.fault
<1>1. OnlyLinks(h, g, E) /\ Listed(g, Frees(b))
  BY DEF Relisted
<1>2. b.used \subseteq DOMAIN b.size \ Frees(b)
  BY DEF Marked, Tiles, Frees
<1>3. Marked(g, b) /\ Kept(h, b, g, b, b.used)
  BY <1>1, <1>2, LinksKeepTags
<1> QED BY <1>1, <1>3 DEF Sound, OnlyLinks

\* The blocks merged when p is freed: from First up to Last
FirstOf(b, p) == Abstract!Merged(b, p)
LastOf(b, p)  == IF End(b, p) \in Frees(b) THEN End(b, End(b, p)) ELSE End(b, p)

\* Which block precedes p, which follows, and that they can be merged.
LEMMA Neighbours ==
  ASSUME NEW b, Tiles(b), NEW p \in Frees(b), NEW q, q = FirstOf(b, p), NEW e, e = LastOf(b, p)
  PROVE  /\ q \in Frees(b) /\ q \in DOMAIN b.size /\ q \notin b.used
         /\ e \in DOMAIN b.size \cup {b.brk} /\ q < e /\ p < e /\ q <= p
         /\ \A x \in b.used : x < q \/ e <= x
         /\ \A x \in DOMAIN b.size : q <= x /\ x < e => x \in {q, p, End(b, p)}
         /\ End(b, p) \in Frees(b) => End(b, p) < e /\ End(b, p) > p
         /\ IF \E x \in Frees(b) : End(b, x) = p THEN End(b, q) = p /\ q < p ELSE q = p
<1>1. p \in DOMAIN b.size /\ p \notin b.used
  BY DEF Frees
<1>2. IF \E x \in Frees(b) : End(b, x) = p THEN q \in Frees(b) /\ End(b, q) = p ELSE q = p
  BY DEF FirstOf, Abstract!Merged, Abstract!FreeBefore, Abstract!FreeBlocks, Abstract!End,
         End, Frees
<1>3. q \in Frees(b) /\ q \in DOMAIN b.size /\ q \notin b.used
  BY <1>2 DEF Frees
<1>4. \A x \in DOMAIN b.size : /\ x \in Nat /\ End(b, x) \in Nat /\ x + 32 <= End(b, x)
                               /\ End(b, x) \in DOMAIN b.size \cup {b.brk}
  BY BlockWords DEF Tiles, Block
<1>5. q <= p /\ (q # p => q < p /\ End(b, q) = p)
  BY <1>1, <1>2, <1>3, <1>4
<1>6. \A x, y \in DOMAIN b.size : x = y \/ End(b, x) <= y \/ End(b, y) <= x
  BY BlocksApart
<1> DEFINE n == End(b, p)
<1>7. n \in Nat /\ p < n /\ n \in DOMAIN b.size \cup {b.brk}
  BY <1>1, <1>4
<1>8. CASE n \in Frees(b)
  <2>1. n \in DOMAIN b.size /\ e = End(b, n) /\ n \notin b.used
    BY <1>8 DEF LastOf, Frees
  <2> HIDE DEF n
  <2>2. e \in Nat /\ n < e /\ e \in DOMAIN b.size \cup {b.brk}
    BY <1>4, <1>7, <2>1
  <2>3. ASSUME NEW x \in DOMAIN b.size, q <= x, x < e PROVE x \in {q, p, n}
    <3>1. x = n \/ x < n
      BY <1>4, <1>6, <2>1, <2>2, <2>3
    <3>2. x < n => x = p \/ x < p
      BY <1>1, <1>4, <1>6, <1>7 DEF n
    <3>3. x < p => x = q
      BY <1>1, <1>3, <1>4, <1>5, <1>6, <2>3
    <3> QED BY <3>1, <3>2, <3>3
  <2>4. ASSUME NEW x \in b.used PROVE x < q \/ e <= x
    <3>1. x \in DOMAIN b.size /\ x \in Nat
      BY <1>4 DEF Tiles
    <3>2. x \notin {q, p, n}
      BY <1>1, <1>3, <2>1
    <3> QED BY <1>3, <1>4, <2>2, <2>3, <3>1, <3>2
  <2> QED BY <1>1, <1>2, <1>3, <1>4, <1>5, <1>7, <2>2, <2>3, <2>4 DEF n
<1>9. CASE n \notin Frees(b)
  <2>1. e = n
    BY <1>9 DEF LastOf
  <2>2. ASSUME NEW x \in DOMAIN b.size, q <= x, x < e PROVE x \in {q, p, n}
    <3>1. x = p \/ x < p
      BY <1>1, <1>4, <1>6, <1>7, <2>1, <2>2
    <3>2. x < p => x = q
      BY <1>1, <1>3, <1>4, <1>5, <1>6, <2>2
    <3> QED BY <3>1, <3>2
  <2>3. ASSUME NEW x \in b.used PROVE x < q \/ e <= x
    <3>1. x \in DOMAIN b.size /\ x \in Nat
      BY <1>4 DEF Tiles
    <3>2. x \notin {q, p}
      BY <1>1, <1>3
    <3>3. x = n => e <= x
      BY <1>7, <2>1
    <3> QED BY <1>3, <1>4, <1>7, <2>1, <2>2, <3>1, <3>2, <3>3
  <2> HIDE DEF n
  <2> QED BY <1>1, <1>2, <1>3, <1>4, <1>5, <1>7, <1>9, <2>1, <2>2, <2>3 DEF n
<1> QED BY <1>8, <1>9

\* The coalesce of BlockHeap makes the blocks from FirstOf to LastOf one.
LEMMA AbstractCoalesce ==
  ASSUME NEW b, Tiles(b), NEW p \in Frees(b), NEW q, q = FirstOf(b, p), NEW e, e = LastOf(b, p)
  PROVE  Abstract!coalesce(b, p) = Merge(b, q, e)
<1> DEFINE n == End(b, p)
           j == Abstract!JoinNext(b, p)
<1>1. /\ q \in Frees(b) /\ q \in DOMAIN b.size /\ q \notin b.used
      /\ e \in DOMAIN b.size \cup {b.brk} /\ q < e /\ p < e /\ q <= p
      /\ \A x \in DOMAIN b.size : q <= x /\ x < e => x \in {q, p, n}
      /\ n \in Frees(b) => n < e /\ n > p
      /\ IF \E x \in Frees(b) : End(b, x) = p THEN End(b, q) = p /\ q < p ELSE q = p
  BY Neighbours
<1>2. p \in DOMAIN b.size
  BY DEF Frees
<1>3. \A x \in DOMAIN b.size : /\ x \in Nat /\ b.size[x] \in Nat /\ End(b, x) = x + b.size[x]
                               /\ x + 32 <= End(b, x) /\ End(b, x) \in Nat
  BY BlockWords
<1>4. \A x, y \in DOMAIN b.size : x = y \/ End(b, x) <= y \/ End(b, y) <= x
  BY BlocksApart
<1>5. e \in Nat /\ (n \in Frees(b) => e = n + b.size[n]) /\ (n \notin Frees(b) => e = n)
  BY <1>2, <1>3 DEF LastOf, Frees
<1>6. /\ DOMAIN j.size = {y \in DOMAIN b.size : y <= p \/ e <= y}
      /\ \A x \in DOMAIN j.size : j.size[x] = IF x = p THEN e - p ELSE b.size[x]
      /\ j = Abstract!Heap(j.size, b.used, b.brk, b.TOH)
      /\ j.size = [x \in DOMAIN j.size |-> j.size[x]]
      /\ j.used = b.used /\ j.brk = b.brk /\ j.TOH = b.TOH
  <2>1. CASE n \in Frees(b)
    <3>1. j = Abstract!Heap([x \in DOMAIN b.size \ {n} |->
                               IF x = p THEN b.size[p] + b.size[n] ELSE b.size[x]],
                            b.used, b.brk, b.TOH)
      BY <2>1 DEF Abstract!JoinNext, Abstract!Join, Abstract!FreeBlocks, Abstract!End, Frees,
                  Abstract!Blocks, End
    <3>2. DOMAIN b.size \ {n} = {y \in DOMAIN b.size : y <= p \/ e <= y}
      <4>1. n \in DOMAIN b.size /\ n > p /\ n < e /\ e = End(b, n)
        BY <1>1, <2>1 DEF Frees, LastOf
      <4> HIDE DEF n
      <4>2. \A x \in DOMAIN b.size : x # n => x <= p \/ e <= x
        BY <1>2, <1>3, <1>4, <4>1 DEF n
      <4>3. ~(n <= p) /\ ~(e <= n)
        BY <1>2, <1>3, <1>5, <4>1
      <4> QED BY <4>2, <4>3
    <3>3. b.size[p] + b.size[n] = e - p
      BY <1>2, <1>3, <1>5, <2>1 DEF Frees
    <3> QED BY <3>1, <3>2, <3>3 DEF Abstract!Heap
  <2>2. CASE n \notin Frees(b)
    <3>1. j = b
      BY <2>2 DEF Abstract!JoinNext, Abstract!FreeBlocks, Abstract!End, Frees, End
    <3>2. DOMAIN b.size = {y \in DOMAIN b.size : y <= p \/ e <= y}
      BY <1>2, <1>3, <1>4, <1>5, <2>2
    <3>3. b.size[p] = e - p
      BY <1>2, <1>3, <1>5, <2>2
    <3> QED BY <3>1, <3>2, <3>3 DEF Tiles, Shaped
  <2> QED BY <2>1, <2>2
<1> HIDE DEF j
<1>7. CASE ~\E x \in Frees(b) : End(b, x) = p
  <2>1. Abstract!coalesce(b, p) = j
    BY <1>7 DEF Abstract!coalesce, Abstract!FreeBefore, Abstract!FreeBlocks, Abstract!End,
                End, Frees, j
  <2>2. q = p
    BY <1>1, <1>7
  <2>3. j.size = [x \in {y \in DOMAIN b.size : y <= q \/ e <= y} |->
                    IF x = q THEN e - q ELSE b.size[x]]
    BY <1>6, <2>2
  <2> QED BY <1>6, <2>1, <2>3 DEF Merge
<1>8. CASE \E x \in Frees(b) : End(b, x) = p
  <2>1. q < p /\ End(b, q) = p /\ q \in Nat /\ p \in Nat
    BY <1>1, <1>2, <1>3, <1>8
  <2>2. q \in DOMAIN j.size /\ p \in DOMAIN j.size /\ j.size[q] = b.size[q] /\ j.size[p] = e - p
    BY <1>1, <1>2, <1>5, <1>6, <2>1
  <2>3. Abstract!coalesce(b, p) = Abstract!Join(j, q)
    BY <1>8 DEF Abstract!coalesce, Abstract!FreeBefore, Abstract!FreeBlocks, Abstract!End,
                End, Frees, j, FirstOf
  <2>4. Abstract!End(j, q) = p
    BY <1>1, <1>3, <2>1, <2>2 DEF Abstract!End
  <2>5. Abstract!Join(j, q) =
          Abstract!Heap([x \in DOMAIN j.size \ {p} |->
                           IF x = q THEN j.size[q] + j.size[p] ELSE j.size[x]],
                        b.used, b.brk, b.TOH)
    BY <1>6, <2>4 DEF Abstract!Join, Abstract!Blocks
  <2>6. DOMAIN j.size \ {p} = {y \in DOMAIN b.size : y <= q \/ e <= y}
    <3>1. ASSUME NEW x \in DOMAIN b.size, x # p, x <= p PROVE x <= q
      BY <1>1, <1>2, <1>3, <1>4, <2>1, <3>1
    <3>2. ASSUME NEW x \in DOMAIN b.size, x <= q \/ e <= x PROVE x # p /\ (x <= p \/ e <= x)
      BY <1>1, <1>3, <1>5, <2>1, <3>2
    <3> QED BY <1>6, <3>1, <3>2
  <2>7. j.size[q] + j.size[p] = e - q
    BY <1>1, <1>3, <1>5, <2>1, <2>2
  <2>8. [x \in DOMAIN j.size \ {p} |-> IF x = q THEN j.size[q] + j.size[p] ELSE j.size[x]]
        = [x \in {y \in DOMAIN b.size : y <= q \/ e <= y} |-> IF x = q THEN e - q ELSE b.size[x]]
    BY <1>6, <2>6, <2>7
  <2> QED BY <2>3, <2>5, <2>8 DEF Merge
<1> QED BY <1>7, <1>8

\* What coalesce leaves of the blocks.
LEMMA CoalesceBlocks ==
  ASSUME NEW b, Tiles(b), NEW p \in Frees(b), UnmergedBut(b, p),
         NEW q, q = FirstOf(b, p), NEW e, e = LastOf(b, p),
         NEW c, c = Merge(b, q, e)
  PROVE  /\ Tiles(c) /\ Unmerged(c) /\ q \in Frees(c) /\ End(c, q) = e
         /\ Frees(c) = {x \in Frees(b) : x <= q \/ e <= x}
         /\ Within(c, Frees(b), Frees(c))
<1>1. /\ q \in Frees(b) /\ q \in DOMAIN b.size /\ q \notin b.used
      /\ e \in DOMAIN b.size \cup {b.brk} /\ q < e /\ p < e /\ q <= p
      /\ \A x \in b.used : x < q \/ e <= x
      /\ \A x \in DOMAIN b.size : q <= x /\ x < e => x \in {q, p, End(b, p)}
      /\ End(b, p) \in Frees(b) => End(b, p) < e /\ End(b, p) > p
      /\ IF \E x \in Frees(b) : End(b, x) = p THEN End(b, q) = p /\ q < p ELSE q = p
  BY Neighbours
<1>2. /\ Tiles(c) /\ e \in Nat /\ End(b, q) <= e
      /\ DOMAIN c.size = {y \in DOMAIN b.size : y <= q \/ e <= y}
      /\ End(c, q) = e /\ c.size[q] = e - q
      /\ \A x \in DOMAIN c.size \ {q} : /\ c.size[x] = b.size[x] /\ End(c, x) = End(b, x)
                                        /\ End(b, x) <= q \/ e <= x
      /\ c.used = b.used /\ c.brk = b.brk /\ c.TOH = b.TOH
  BY <1>1, MergeTiles
<1>3. Frees(c) = {x \in Frees(b) : x <= q \/ e <= x}
  BY <1>2 DEF Frees
<1>4. \A x \in DOMAIN b.size : x \in Nat /\ End(b, x) \in Nat /\ x + 32 <= End(b, x)
  BY BlockWords
<1>5. q \in Frees(c)
  BY <1>1, <1>3, <1>4
<1>6. Unmerged(c)
  <2> SUFFICES ASSUME NEW x \in Frees(c), End(c, x) \in Frees(c) PROVE FALSE
    BY DEF Unmerged
  <2>1. x \in DOMAIN c.size /\ x \in Frees(b) /\ End(c, x) \in Frees(b) /\ x \in DOMAIN b.size
        /\ p \in DOMAIN b.size
    BY <1>3 DEF Frees
  <2>2. CASE x = q
    <3>1. End(c, x) = e
      BY <1>2, <2>2
    <3>2. CASE End(b, p) \in Frees(b)
      <4>1. e = End(b, End(b, p)) /\ End(b, p) # p /\ e # p
        BY <1>1, <1>2, <1>4, <2>1, <3>2 DEF LastOf
      <4> QED BY <2>1, <3>1, <3>2, <4>1 DEF UnmergedBut
    <3>3. CASE End(b, p) \notin Frees(b)
      BY <2>1, <3>1, <3>3 DEF LastOf
    <3> QED BY <3>2, <3>3
  <2>3. CASE x # q
    <3>1. End(c, x) = End(b, x)
      BY <1>2, <2>1, <2>3
    <3>2. x = p \/ End(b, x) = p
      BY <2>1, <3>1 DEF UnmergedBut
    <3>3. x # p
      BY <1>1, <1>2, <1>3, <1>4, <2>1, <2>3
    <3>4. p \notin Frees(c) \/ p = q
      BY <1>1, <1>2, <1>3, <1>4, <2>1
    <3>5. q = p /\ End(b, x) = p
      BY <3>1, <3>2, <3>3, <3>4
    <3> QED BY <1>1, <1>4, <2>1, <3>5
  <2> QED BY <2>2, <2>3
<1>7. Within(c, Frees(b), Frees(c))
  <2>1. ASSUME NEW x \in Frees(b)
        PROVE  \E y \in Frees(c) : InBody(c, y, x) /\ InBody(c, y, x + 8) /\ x \in Nat
    <3>1. x \in DOMAIN b.size /\ x \in Nat /\ x + 32 <= End(b, x) /\ End(b, x) \in Nat /\ q \in Nat
      BY <1>1, <1>4 DEF Frees
    <3>2. CASE x < q \/ e <= x
      <4>1. x \in Frees(c) /\ x \in DOMAIN c.size
        BY <1>2, <1>3, <3>1, <3>2
      <4> QED BY <1>2, <3>1, <4>1, BodyApart
    <3>3. CASE ~(x < q \/ e <= x)
      <4>1. End(b, x) <= e
        BY <1>1, <1>2, <3>1, <3>3, BlocksApart DEF Frees, LastOf
      <4>2. InBody(c, q, x) /\ InBody(c, q, x + 8)
        BY <1>2, <3>1, <3>3, <4>1 DEF InBody
      <4> QED BY <1>5, <3>1, <4>2
    <3> QED BY <3>2, <3>3
  <2>2. Frees(c) \subseteq DOMAIN c.size
    BY DEF Frees
  <2> QED BY <2>1, <2>2 DEF Within
<1> QED BY <1>2, <1>3, <1>5, <1>6, <1>7

\* What coalesce makes of the heap, when it frees p
Coalesced(h, b, g, c) ==
  /\ Sound(g, c) /\ Kept(h, b, g, c, b.used) /\ g.TOH = h.TOH /\ g.fault = h.fault

\* Every case of coalesce that merges: the tags, then the list.
LEMMA MergedSound ==
  ASSUME NEW h, NEW b, Marked(h, b), NEW p \in Frees(b), UnmergedBut(b, p),
         NEW q, q = FirstOf(b, p), NEW e, e = LastOf(b, p),
         NEW c, c = Merge(b, q, e), NEW t, TwoWords(h, t, q - 8, e - 16, e - q),
         NEW g, OnlyTags(h, t, b) => Relisted(t, g, Frees(b), Frees(c))
  PROVE  Coalesced(h, b, g, c)
<1>1. Tiles(b)
  BY DEF Marked
<1>2. /\ q \in DOMAIN b.size /\ q \notin b.used
      /\ e \in DOMAIN b.size \cup {b.brk} /\ q < e
      /\ \A x \in b.used : x < q \/ e <= x
  BY <1>1, Neighbours
<1>3. Marked(t, c) /\ OnlyTags(h, t, b) /\ Kept(h, b, t, c, b.used)
  BY <1>2, MergeMarked
<1>4. Unmerged(c) /\ Within(c, Frees(b), Frees(c)) /\ c.used = b.used
  BY <1>1, CoalesceBlocks DEF Merge, Abstract!Heap
<1>5. Sound(g, c) /\ Kept(t, c, g, c, c.used) /\ g.TOH = t.TOH /\ g.fault = t.fault
  BY <1>3, <1>4, RelistedSound
<1> QED BY <1>3, <1>4, <1>5, KeptAgain DEF Coalesced, OnlyTags

\* Two stores of the same value.
LEMMA TwoPuts ==
  ASSUME NEW h \in Heaps, NEW x \in Words, NEW y \in Words, x < h.brk, y < h.brk, NEW v \in Word
  PROVE  TwoWords(h, put(put(h, x, v), y, v), x, y, v)
<1>1. /\ Alike(h, put(h, x, v))
      /\ \A a \in Words : put(h, x, v).mem[a] = IF a = x THEN v ELSE h.mem[a]
  BY PutWord
<1> DEFINE g == put(h, x, v)
<1> HIDE DEF g
<1>2. g \in Heaps /\ y < g.brk
  BY <1>1 DEF Alike, g
<1>3. /\ Alike(g, put(g, y, v))
      /\ \A a \in Words : put(g, y, v).mem[a] = IF a = y THEN v ELSE g.mem[a]
  BY <1>2, PutWord
<1> QED BY <1>1, <1>3 DEF TwoWords, Alike, g

\* Neither neighbour is free.
LEMMA NoneSound ==
  ASSUME NEW h, NEW b, Marked(h, b), NEW p \in Frees(b), UnmergedBut(b, p),
         Listed(h, Frees(b) \ {p}),
         ~\E x \in Frees(b) : End(b, x) = p, End(b, p) \notin Frees(b),
         NEW c, c = Merge(b, FirstOf(b, p), LastOf(b, p))
  PROVE  Coalesced(h, b, CoalesceNone(h, p), c)
<1> DEFINE F == Frees(b) \ {p}
           k == IF h.free_root # NULL THEN PushFront(h, p) ELSE Begin(h, p, NULL)
<1>1. Tiles(b) /\ h.brk = b.brk /\ h \in Heaps
  BY DEF Marked
<1>2. F \cup {p} = Frees(b) /\ p \notin F
  OBVIOUS
<1>3. Cells(h, F \cup {p})
  BY <1>1, <1>2, BlocksAreCells DEF Frees
<1> HIDE DEF F
<1>4. Relisted(h, Rooted(k, p), Frees(b), Frees(b))
  BY <1>1, <1>2, <1>3, PushListed DEF F
<1>5. CoalesceNone(h, p) = Rooted(k, p)
  BY DEF CoalesceNone, Rooted
<1> HIDE DEF k
<1>6. FirstOf(b, p) = p /\ LastOf(b, p) = End(b, p)
  BY <1>1, Neighbours DEF LastOf
<1>7. c = b
  <2>1. c = Abstract!coalesce(b, p)
    BY <1>1, AbstractCoalesce
  <2> QED BY <2>1 DEF Abstract!coalesce, Abstract!JoinNext, Abstract!FreeBefore,
                      Abstract!FreeBlocks, Abstract!End, End, Frees
<1>8. Unmerged(b) /\ Within(b, Frees(b), Frees(b))
  <2>1. \A q, e : q = FirstOf(b, p) /\ e = LastOf(b, p) => Unmerged(Merge(b, q, e))
    BY <1>1, CoalesceBlocks
  <2>2. Unmerged(c)
    BY <2>1
  <2>3. Frees(b) \subseteq DOMAIN b.size
    BY DEF Frees
  <2> QED BY <1>1, <1>7, <2>2, <2>3, WithinSelf
<1>9. Sound(Rooted(k, p), b) /\ Kept(h, b, Rooted(k, p), b, b.used)
      /\ Rooted(k, p).TOH = h.TOH /\ Rooted(k, p).fault = h.fault
  BY <1>4, <1>8, RelistedSound
<1> QED BY <1>5, <1>7, <1>9 DEF Coalesced

\* Only the block after is free.
LEMMA NextSound ==
  ASSUME NEW h, NEW b, Marked(h, b), NEW p \in Frees(b), UnmergedBut(b, p),
         Listed(h, Frees(b) \ {p}),
         ~\E x \in Frees(b) : End(b, x) = p, End(b, p) \in Frees(b),
         NEW c, c = Merge(b, FirstOf(b, p), LastOf(b, p))
  PROVE  Coalesced(h, b, CoalesceNext(h, p), c)
<1> DEFINE n == End(b, p)
           e == LastOf(b, p)
           F == Frees(b) \ {p}
           t == tag(h, p, get_size(h, GHA(p)) + get_size(h, GHA(n)), 0)
           k == IF n # t.free_root THEN Link(PushFront(t, p), t.mem[n], t.mem[n + 8])
                ELSE Lead(t, p, t.mem[n + 8])
<1>1. Tiles(b) /\ h.brk = b.brk /\ h \in Heaps
  BY DEF Marked
<1>2. p = FirstOf(b, p) /\ e = End(b, n) /\ n < e /\ n > p
  BY <1>1, Neighbours DEF LastOf
<1>3. p \in DOMAIN b.size /\ n \in DOMAIN b.size /\ n \in F /\ F \cup {p} = Frees(b)
  BY <1>1, <1>2, BlockWords DEF Frees
<1>4. /\ p \in Nat /\ p - 8 \in Words /\ b.size[p] \in Nat /\ b.size[p] % 16 = 0
      /\ n = p + b.size[p]
      /\ n \in Nat /\ b.size[n] \in Nat /\ b.size[n] % 16 = 0 /\ e = n + b.size[n]
      /\ n \in Words /\ n + 8 \in Words /\ e - 16 \in Words /\ e \in Nat /\ e <= b.brk
      /\ b.brk \in Nat /\ p < e
  <2>1. \A x \in {p, n} :
           /\ x \in Nat /\ x - 8 \in Words /\ x \in Words /\ x + 8 \in Words
           /\ b.size[x] \in Nat /\ b.size[x] % 16 = 0 /\ End(b, x) = x + b.size[x]
           /\ End(b, x) - 16 \in Words /\ End(b, x) \in Nat /\ End(b, x) <= b.brk
    BY <1>1, <1>3, BlockWords
  <2> QED BY <1>1, <1>2, <2>1, EdgeWords
<1>5. get_size(h, GHA(p)) = b.size[p] /\ get_size(h, GHA(n)) = b.size[n] /\ next_blk(h, p) = n
  BY <1>3, Reads
<1> HIDE DEF n, F, e
<1>6. TwoWords(h, t, p - 8, e - 16, e - p)
  <2>1. t = tag(h, p, b.size[p] + b.size[n], 0)
    BY <1>5
  <2>2. /\ b.size[p] + b.size[n] = e - p /\ e - p \in Nat
        /\ (b.size[p] + b.size[n]) % 16 = 0 /\ p + (e - p) - 16 = e - 16
        /\ p - 8 < h.brk /\ e - 16 < h.brk
    BY <1>1, <1>4, Granules
  <2> HIDE DEF t
  <2>3. t = tag(h, p, e - p, 0) /\ (e - p) % 16 = 0
    BY <2>1, <2>2
  <2> DEFINE z == e - p
  <2>4. z \in Nat /\ z % 16 = 0 /\ p + z - 16 = e - 16 /\ t = tag(h, p, z, 0) /\ e - p = z + 0
    BY <1>4, <2>2, <2>3
  <2> HIDE DEF z
  <2>5. p + z - 16 \in Words /\ p + z - 16 < h.brk /\ 0 \in {0, 1}
    BY <1>4, <2>2, <2>4
  <2>6. /\ Alike(h, t)
        /\ \A a \in Words : t.mem[a] = IF a = p - 8 \/ a = p + z - 16 THEN z + 0 ELSE h.mem[a]
    <3>1. p \in Nat /\ p - 8 \in Words /\ p - 8 < h.brk /\ h \in Heaps
      BY <1>1, <1>4, <2>2 DEF Marked
    <3>2. z \in Nat /\ z % 16 = 0 /\ p + z - 16 \in Words /\ p + z - 16 < h.brk /\ 0 \in {0, 1}
      BY <2>4, <2>5
    <3>3. /\ Alike(h, tag(h, p, z, 0))
          /\ \A a \in Words : tag(h, p, z, 0).mem[a] =
                                IF a = p - 8 \/ a = p + z - 16 THEN z + 0 ELSE h.mem[a]
      BY ONLY <3>1, <3>2, TagStores
    <3> QED BY <2>4, <3>3
  <2> QED BY <2>4, <2>6 DEF TwoWords
<1> HIDE DEF t
<1>7. ASSUME OnlyTags(h, t, b) PROVE Relisted(t, Rooted(k, p), Frees(b), Frees(c))
  <2>1. t \in Heaps /\ t.brk = b.brk
    BY <1>1, <1>6 DEF TwoWords, Alike
  <2>2. Listed(t, F) /\ F \subseteq DOMAIN b.size
    BY <1>1, <1>7, TagsKeepLists DEF F, Frees
  <2>3. Cells(t, F \cup {p})
    BY <1>1, <1>3, <2>1, BlocksAreCells DEF Frees
  <2>4. Relisted(t, Rooted(k, p), F \cup {p}, (F \ {n}) \cup {p})
    BY <1>3, <2>1, <2>2, <2>3, ReplaceListed DEF F
  <2>5. Frees(c) = (F \ {n}) \cup {p}
    <3>1. Frees(c) = {x \in Frees(b) : x <= p \/ e <= x}
      BY <1>1, <1>2, CoalesceBlocks DEF e
    <3>2. \A x \in DOMAIN b.size : x \in Nat /\ (p <= x /\ x < e => x \in {p, n})
      BY <1>1, <1>2, Neighbours, BlockWords DEF e, n
    <3>3. \A x \in Frees(b) : x \in Nat /\ (p <= x /\ x < e => x \in {p, n})
      BY <3>2 DEF Frees
    <3> QED BY <1>2, <1>3, <1>4, <3>1, <3>3
  <2> QED BY <1>3, <2>4, <2>5
<1>8. CoalesceNext(h, p) = Rooted(k, p)
  <2>1. get(h, n) = h.mem[n] /\ get(h, n + 8) = h.mem[n + 8]
    BY <1>1, <1>4, GetWord
  <2>2. t.mem[n] = h.mem[n] /\ t.mem[n + 8] = h.mem[n + 8]
    <3>1. /\ n # p - 8 /\ n + 8 # p - 8 /\ n + 8 # e - 16 /\ n # e - 16
      BY <1>1, <1>2, <1>3, <1>4, BlockWords
    <3> QED BY <1>4, <1>6, <3>1 DEF TwoWords
  <2>3. t.free_root = h.free_root
    BY <1>6 DEF TwoWords, Alike
  <2> QED BY <1>5, <2>1, <2>2, <2>3 DEF CoalesceNext, Rooted, pred, succ, t
<1> QED BY <1>1, <1>2, <1>6, <1>7, <1>8, MergedSound DEF e

\* Where the two words of a merge are, which no free block has its links at.
LEMMA MergeWords ==
  ASSUME NEW h, NEW b, Marked(h, b), NEW p \in Frees(b),
         NEW q, q = FirstOf(b, p), NEW e, e = LastOf(b, p)
  PROVE  /\ h \in Heaps /\ q \in Nat /\ e \in Nat /\ q < e /\ e - q \in Nat /\ e - q \in Word
         /\ (e - q) % 16 = 0
         /\ q - 8 \in Words /\ e - 16 \in Words /\ q - 8 < h.brk /\ e - 16 < h.brk
         /\ \A x \in Frees(b) : /\ x \in Words /\ x + 8 \in Words
                                /\ x \notin {q - 8, e - 16} /\ x + 8 \notin {q - 8, e - 16}
<1>1. Tiles(b) /\ h.brk = b.brk /\ h \in Heaps
  BY DEF Marked
<1>2. q \in DOMAIN b.size /\ e \in DOMAIN b.size \cup {b.brk} /\ q < e
  BY <1>1, Neighbours
<1>3. \A x \in DOMAIN b.size : /\ x \in Nat /\ x % 16 = 0 /\ 48 <= x /\ x - 8 \in Words
                               /\ x \in Words /\ x + 8 \in Words
                               /\ End(b, x) \in Nat /\ x + 32 <= End(b, x) /\ End(b, x) <= b.brk
                               /\ End(b, x) % 16 = 0 /\ End(b, x) - 16 \in Words
  BY <1>1, BlockWords
<1>4. /\ b.brk \in Nat /\ b.brk % 16 = 0 /\ 48 <= b.brk
      /\ b.brk - 16 \in Words
  BY <1>1, EdgeWords
<1>5. q \in Nat /\ q % 16 = 0 /\ 48 <= q /\ q - 8 \in Words /\ q < b.brk
  BY <1>2, <1>3, <1>4
<1>6. e \in Nat /\ e % 16 = 0 /\ 48 <= e /\ e <= b.brk
  BY <1>2, <1>3, <1>4
<1>7. Follows(b, e)
  BY <1>1, <1>2 DEF Tiles
<1>8. e - 16 \in Words
  <2>1. e # FirstBlk
    BY <1>2, <1>5, <1>6, Sizing
  <2>2. PICK y \in DOMAIN b.size : End(b, y) = e
    BY <1>7, <2>1 DEF Follows
  <2> QED BY <1>3, <2>2
<1>9. e - q \in Nat /\ (e - q) % 16 = 0 /\ e - q \in Word
  <2>1. (e - q) % 16 = 0
    BY <1>2, <1>5, <1>6, Granules
  <2> QED BY <1>2, <1>5, <1>6, <2>1 DEF Word
<1>10. ASSUME NEW x \in Frees(b)
       PROVE  /\ x \in Words /\ x + 8 \in Words
              /\ x \notin {q - 8, e - 16} /\ x + 8 \notin {q - 8, e - 16}
  <2>1. x \in DOMAIN b.size
    BY DEF Frees
  <2>2. InBody(b, x, x) /\ InBody(b, x, x + 8) /\ x \in Int /\ x + 8 \in Int
    BY <1>1, <1>3, <2>1, BodyApart
  <2>3. ~InTag(b, x) /\ ~InTag(b, x + 8)
    BY <1>1, <2>1, <2>2, BodyApart
  <2>4. InTag(b, q - 8)
    BY <1>2 DEF InTag
  <2>5. InTag(b, e - 16)
    <3>1. e # FirstBlk
      BY <1>2, <1>5, <1>6, Sizing
    <3>2. PICK y \in DOMAIN b.size : End(b, y) = e
      BY <1>7, <3>1 DEF Follows
    <3> QED BY <3>2 DEF InTag
  <2> QED BY <1>3, <2>1, <2>3, <2>4, <2>5
<1> QED BY <1>1, <1>2, <1>4, <1>5, <1>6, <1>8, <1>9, <1>10

\* Only the block before is free.
LEMMA PrevSound ==
  ASSUME NEW h, NEW b, Marked(h, b), NEW p \in Frees(b), UnmergedBut(b, p),
         Listed(h, Frees(b) \ {p}),
         \E x \in Frees(b) : End(b, x) = p, End(b, p) \notin Frees(b),
         NEW c, c = Merge(b, FirstOf(b, p), LastOf(b, p))
  PROVE  Coalesced(h, b, CoalescePrev(h, p), c)
<1> DEFINE q == FirstOf(b, p)
           e == LastOf(b, p)
           F == Frees(b) \ {p}
           size == get_size(h, GHA(p)) + get_size(h, GHA(q))
           t == put(put(h, GFA(h, p), pack(size, 0)), GHA(q), pack(size, 0))
           k == IF q # t.free_root THEN Link(PushFront(t, q), t.mem[q], t.mem[q + 8]) ELSE t
<1>1. Tiles(b) /\ h.brk = b.brk /\ h \in Heaps
  BY DEF Marked
<1>2. q \in Frees(b) /\ End(b, q) = p /\ q < p /\ e = End(b, p) /\ q \in F
      /\ q \in DOMAIN b.size /\ p \in DOMAIN b.size
  <2>1. q \in Frees(b) /\ End(b, q) = p /\ q < p
    BY <1>1, Neighbours
  <2>2. p \in Nat /\ q \in Nat
    BY <1>1, <2>1, BlockWords DEF Frees
  <2> QED BY <2>1, <2>2 DEF LastOf, Frees
<1>3. /\ h \in Heaps /\ q \in Nat /\ e \in Nat /\ q < e /\ e - q \in Nat /\ e - q \in Word
      /\ q - 8 \in Words /\ e - 16 \in Words /\ q - 8 < h.brk /\ e - 16 < h.brk
      /\ \A x \in Frees(b) : /\ x \in Words /\ x + 8 \in Words
                             /\ x \notin {q - 8, e - 16} /\ x + 8 \notin {q - 8, e - 16}
  BY MergeWords
<1>4. prev_blk(h, p) = q /\ GFA(h, p) = e - 16 /\ size = e - q /\ pack(size, 0) = e - q
  <2>1. prev_blk(h, p) = q
    BY <1>2, ReadsBefore
  <2>2. get_size(h, GHA(p)) = b.size[p] /\ get_size(h, GHA(q)) = b.size[q]
        /\ GFA(h, p) = End(b, p) - 16
    BY <1>2, Reads
  <2>3. b.size[p] + b.size[q] = e - q
    <3>1. p \in Nat /\ b.size[p] \in Nat /\ End(b, p) = p + b.size[p]
          /\ b.size[q] \in Nat /\ End(b, q) = q + b.size[q]
      BY <1>1, <1>2, BlockWords
    <3> QED BY <1>2, <1>3, <3>1
  <2> QED BY <1>2, <1>3, <2>1, <2>2, <2>3 DEF pack
<1>5. CoalescePrev(h, p) = Rooted(IF q # h.free_root
                                  THEN Link(PushFront(t, q), pred(t, q), succ(t, q)) ELSE t, q)
  BY <1>4 DEF CoalescePrev, Rooted
<1>6. TwoWords(h, t, q - 8, e - 16, e - q)
  <2>1. t = put(put(h, e - 16, e - q), q - 8, e - q)
    BY <1>4 DEF GHA
  <2> HIDE DEF t, size
  <2>2. TwoWords(h, t, e - 16, q - 8, e - q)
    BY <1>3, <2>1, TwoPuts
  <2> QED BY <2>2 DEF TwoWords
<1> HIDE DEF t, q, F, e
<1>7. ASSUME OnlyTags(h, t, b) PROVE Relisted(t, Rooted(k, q), Frees(b), Frees(c))
  <2>1. t \in Heaps /\ t.brk = b.brk
    BY <1>1, <1>6 DEF TwoWords, Alike
  <2>2. Listed(t, F) /\ F \subseteq DOMAIN b.size
    BY <1>1, <1>7, TagsKeepLists DEF F, Frees
  <2>3. Cells(t, F)
    BY <1>1, <2>1, <2>2, BlocksAreCells
  <2>4. F \cup {q} = F /\ (F \ {q}) \cup {q} = F /\ q \notin F \ {q}
    BY <1>2
  <2>5. Relisted(t, Rooted(k, q), F, F)
    <3>1. CASE q # t.free_root
      <4>1. k = IF q # t.free_root THEN Link(PushFront(t, q), t.mem[q], t.mem[q + 8])
                    ELSE Lead(t, q, t.mem[q + 8])
        BY <3>1
      <4> HIDE DEF k
      <4>2. Relisted(t, Rooted(k, q), F \cup {q}, (F \ {q}) \cup {q})
        BY <1>2, <2>1, <2>2, <2>3, <2>4, <4>1, ReplaceListed
      <4> QED BY <2>4, <4>2
    <3>2. CASE q = t.free_root
      <4>1. Rooted(k, q) = t
        BY <2>1, <3>2, RootedSame
      <4> QED BY <2>1, <2>2, <4>1 DEF Relisted, OnlyLinks
    <3> QED BY <3>1, <3>2
  <2>6. Frees(c) = F
    <3>1. Frees(c) = {x \in Frees(b) : x <= q \/ e <= x}
      BY <1>1, CoalesceBlocks DEF e, q
    <3>2. \A x \in DOMAIN b.size : x \in Nat /\ (q <= x /\ x < e => x \in {q, p, End(b, p)})
      BY <1>1, Neighbours, BlockWords DEF e, q
    <3>3. \A x \in Frees(b) : x \in Nat /\ (q <= x /\ x < e => x \in {q, p})
      BY <3>2 DEF Frees
    <3>4. p < e
      BY <1>1, Neighbours DEF e
    <3>5. \A x \in Frees(b) : x <= q \/ e <= x <=> x # p
      BY <1>2, <1>3, <3>3, <3>4
    <3> QED BY <3>1, <3>5 DEF F
  <2>7. F \subseteq Frees(b)
    BY DEF F
  <2> QED BY <2>5, <2>6, <2>7 DEF Relisted, OnlyLinks
<1>8. CoalescePrev(h, p) = Rooted(k, q)
  <2>1. t.free_root = h.free_root /\ t \in Heaps
    BY <1>6 DEF TwoWords, Alike
  <2>2. pred(t, q) = t.mem[q] /\ succ(t, q) = t.mem[q + 8]
    BY <1>2, <1>3, <2>1, GetWord DEF pred, succ
  <2> QED BY <1>5, <2>1, <2>2
<1> QED BY <1>6, <1>7, <1>8, MergedSound DEF e, q

\* Both neighbours are free.
LEMMA BothSound ==
  ASSUME NEW h, NEW b, Marked(h, b), NEW p \in Frees(b), UnmergedBut(b, p),
         Listed(h, Frees(b) \ {p}),
         \E x \in Frees(b) : End(b, x) = p, End(b, p) \in Frees(b),
         NEW c, c = Merge(b, FirstOf(b, p), LastOf(b, p))
  PROVE  Coalesced(h, b, CoalesceBoth(h, p), c)
<1> DEFINE q == FirstOf(b, p)
           n == End(b, p)
           e == LastOf(b, p)
           F == Frees(b) \ {p}
           size == get_size(h, GHA(p)) + get_size(h, GHA(q)) + get_size(h, GFA(h, n))
           t == put(put(h, GHA(q), pack(size, 0)), GFA(h, n), pack(size, 0))
<1>1. Tiles(b) /\ h.brk = b.brk /\ h \in Heaps
  BY DEF Marked
<1>2. /\ q \in Frees(b) /\ End(b, q) = p /\ e = End(b, n) /\ q \in F /\ n \in F /\ q # n
      /\ q < p /\ p < n /\ n < e
      /\ q \in DOMAIN b.size /\ p \in DOMAIN b.size /\ n \in DOMAIN b.size
  <2>1. q \in Frees(b) /\ End(b, q) = p /\ q < p /\ n > p /\ n < e
    BY <1>1, Neighbours
  <2>2. p \in Nat /\ q \in Nat /\ n \in Nat
    BY <1>1, <2>1, BlockWords DEF Frees
  <2> QED BY <2>1, <2>2 DEF LastOf, Frees
<1>3. /\ h \in Heaps /\ q \in Nat /\ e \in Nat /\ q < e /\ e - q \in Nat /\ e - q \in Word
      /\ q - 8 \in Words /\ e - 16 \in Words /\ q - 8 < h.brk /\ e - 16 < h.brk
      /\ \A x \in Frees(b) : /\ x \in Words /\ x + 8 \in Words
                             /\ x \notin {q - 8, e - 16} /\ x + 8 \notin {q - 8, e - 16}
  BY MergeWords
<1>4. prev_blk(h, p) = q /\ next_blk(h, p) = n /\ GFA(h, n) = e - 16 /\ size = e - q
      /\ pack(size, 0) = e - q
  <2>1. prev_blk(h, p) = q
    BY <1>2, ReadsBefore
  <2>2. get_size(h, GHA(p)) = b.size[p] /\ get_size(h, GHA(q)) = b.size[q]
        /\ next_blk(h, p) = n
    BY <1>2, Reads
  <2>3. get_size(h, GFA(h, n)) = b.size[n] /\ GFA(h, n) = e - 16
    BY <1>2, Reads
  <2>4. b.size[p] + b.size[q] + b.size[n] = e - q
    <3>1. /\ p \in Nat /\ b.size[p] \in Nat /\ n = p + b.size[p]
          /\ b.size[q] \in Nat /\ p = q + b.size[q]
          /\ b.size[n] \in Nat /\ e = n + b.size[n]
      BY <1>1, <1>2, BlockWords
    <3> HIDE DEF n, q, e
    <3> QED BY <1>3, <3>1
  <2> QED BY <1>3, <2>1, <2>2, <2>3, <2>4 DEF pack
<1>5. CoalesceBoth(h, p) = Rooted(SpliceBoth(h, t, q, n), q)
  BY <1>4 DEF CoalesceBoth, Rooted
<1>6. TwoWords(h, t, q - 8, e - 16, e - q)
  <2>1. t = put(put(h, q - 8, e - q), e - 16, e - q)
    BY <1>4 DEF GHA
  <2> HIDE DEF t, size
  <2> QED BY <1>3, <2>1, TwoPuts
<1> HIDE DEF t, q, F, e, n
<1>7. ASSUME OnlyTags(h, t, b)
      PROVE  Relisted(t, Rooted(SpliceBoth(h, t, q, n), q), Frees(b), Frees(c))
  <2>1. t \in Heaps /\ t.brk = b.brk /\ h.free_root = t.free_root
    BY <1>1, <1>6 DEF TwoWords, Alike
  <2>2. Listed(t, F) /\ F \subseteq DOMAIN b.size
    BY <1>1, <1>7, TagsKeepLists DEF F, Frees
  <2>3. Cells(t, F)
    BY <1>1, <2>1, <2>2, BlocksAreCells
  <2>4. /\ q \in Words /\ q + 8 \in Words /\ n \in Words /\ n + 8 \in Words
        /\ t.mem[n] = h.mem[n] /\ t.mem[n + 8] = h.mem[n + 8]
    BY <1>2, <1>3, <1>6 DEF TwoWords, F
  <2>5. /\ succ(t, q) = t.mem[q + 8] /\ pred(t, q) = t.mem[q]
        /\ succ(h, n) = t.mem[n + 8] /\ pred(h, n) = t.mem[n]
    BY <1>3, <2>1, <2>4, GetWord DEF pred, succ
  <2>6. Relisted(t, Rooted(SpliceBoth(h, t, q, n), q), F, F \ {n})
    BY <1>2, <2>1, <2>2, <2>3, <2>5, MergeListed
  <2>7. Frees(c) = F \ {n}
    <3>1. Frees(c) = {x \in Frees(b) : x <= q \/ e <= x}
      BY <1>1, CoalesceBlocks DEF e, q
    <3>2. \A x \in DOMAIN b.size : x \in Nat /\ (q <= x /\ x < e => x \in {q, p, n})
      BY <1>1, Neighbours, BlockWords DEF e, q, n
    <3>3. \A x \in Frees(b) : x \in Nat /\ (q <= x /\ x < e => x \in {q, p, n})
      BY <3>2 DEF Frees
    <3>4. p \in Nat /\ n \in Nat
      BY <1>1, <1>2, BlockWords
    <3>5. \A x \in Frees(b) : x <= q \/ e <= x <=> x # p /\ x # n
      BY <1>2, <1>3, <3>3, <3>4
    <3> QED BY <3>1, <3>5 DEF F
  <2>8. F \subseteq Frees(b)
    BY DEF F
  <2> QED BY <2>6, <2>7, <2>8 DEF Relisted, OnlyLinks
<1> QED BY <1>5, <1>6, <1>7, MergedSound DEF e, q

\* coalesce does to tags and list what the coalesce of BlockHeap does to the blocks,
\* whichever neighbours are free and wherever they are in the list (mm.c:533-680).
THEOREM CoalesceSound ==
  ASSUME NEW h, NEW b, Marked(h, b), NEW p \in Frees(b), UnmergedBut(b, p),
         Listed(h, Frees(b) \ {p})
  PROVE  /\ Coalesced(h, b, coalesce(h, p).h, Abstract!coalesce(b, p))
         /\ coalesce(h, p).p = Abstract!Merged(b, p)
<1> DEFINE c == Merge(b, FirstOf(b, p), LastOf(b, p))
<1>1. Tiles(b) /\ p \in DOMAIN b.size
  BY DEF Marked, Frees
<1>2. Abstract!coalesce(b, p) = c
  BY <1>1, AbstractCoalesce
<1>3. /\ get_alloc(h, GFA(h, prev_blk(h, p))) = IF \E x \in Frees(b) : End(b, x) = p THEN 0 ELSE 1
      /\ get_alloc(h, GHA(next_blk(h, p))) = IF End(b, p) \in Frees(b) THEN 0 ELSE 1
  BY <1>1, Reads, ReadsBefore
<1>4. /\ Abstract!Merged(b, p) = FirstOf(b, p)
      /\ IF \E x \in Frees(b) : End(b, x) = p THEN End(b, FirstOf(b, p)) = p
         ELSE FirstOf(b, p) = p
      /\ FirstOf(b, p) \in DOMAIN b.size
  BY <1>1, Neighbours DEF FirstOf
<1>5. (\E x \in Frees(b) : End(b, x) = p) => prev_blk(h, p) = Abstract!Merged(b, p)
  BY <1>1, <1>4, ReadsBefore
<1> DEFINE before == \E x \in Frees(b) : End(b, x) = p
           after == End(b, p) \in Frees(b)
<1>6. /\ ~before /\ ~after => Coalesced(h, b, CoalesceNone(h, p), c)
      /\ ~before /\ after => Coalesced(h, b, CoalesceNext(h, p), c)
      /\ before /\ ~after => Coalesced(h, b, CoalescePrev(h, p), c)
      /\ before /\ after => Coalesced(h, b, CoalesceBoth(h, p), c)
  BY NoneSound, NextSound, PrevSound, BothSound
<1> HIDE DEF c
<1>7. /\ ~before => Abstract!Merged(b, p) = p
      /\ get_alloc(h, GFA(h, prev_blk(h, p))) = IF before THEN 0 ELSE 1
      /\ get_alloc(h, GHA(next_blk(h, p))) = IF after THEN 0 ELSE 1
      /\ before => prev_blk(h, p) = Abstract!Merged(b, p)
  BY <1>3, <1>4, <1>5
<1> HIDE DEF before, after
<1> QED BY <1>2, <1>6, <1>7 DEF coalesce

(***************************************************************************)
(* TOH, and free.                                                          *)
(***************************************************************************)
\* TOH is the break or the last block, which is then free.
TopFits(b) == b.TOH = b.brk \/ (b.TOH \in Frees(b) /\ End(b, b.TOH) = b.brk)

\* The words of h represent the blocks of b.
Rep(h, b) == Sound(h, b) /\ h.TOH = b.TOH /\ TopFits(b)

\* A call makes of h, which represents b, a heap g that represents c; the blocks in K
\* stay what they are.
Yields(h, b, g, c, K) == Rep(g, c) /\ Kept(h, b, g, c, K) /\ g.fault = h.fault

\* What SetTOH does.
LEMMA TopSet ==
  ASSUME NEW h, NEW b, Sound(h, b), NEW t \in Nat
  PROVE  /\ Sound([h EXCEPT !.TOH = t], Abstract!SetTOH(b, t))
         /\ Frees(Abstract!SetTOH(b, t)) = Frees(b)
         /\ \A x : End(Abstract!SetTOH(b, t), x) = End(b, x)
         /\ [h EXCEPT !.TOH = t].fault = h.fault /\ [h EXCEPT !.TOH = t].TOH = t
         /\ [h EXCEPT !.TOH = t].mem = h.mem
         /\ Abstract!SetTOH(b, t).size = b.size /\ Abstract!SetTOH(b, t).used = b.used
         /\ Abstract!SetTOH(b, t).brk = b.brk /\ Abstract!SetTOH(b, t).TOH = t
<1> DEFINE g == [h EXCEPT !.TOH = t]
           c == Abstract!SetTOH(b, t)
<1>1. h \in Heaps /\ h.brk = b.brk /\ Tiles(b) /\ Tagged(h, b) /\ Listed(h, Frees(b)) /\ Unmerged(b)
  BY DEF Sound, Marked
<1>2. g \in Heaps /\ g.mem = h.mem /\ g.brk = h.brk /\ g.free_root = h.free_root
      /\ g.fault = h.fault /\ g.TOH = t
  BY <1>1 DEF Heaps
<1>3. c.size = b.size /\ c.used = b.used /\ c.brk = b.brk /\ c.TOH = t /\ Shaped(c)
  BY <1>1 DEF Abstract!SetTOH, Abstract!Heap, Tiles, Shaped
<1> HIDE DEF g, c
<1>4. Frees(c) = Frees(b) /\ \A x : End(c, x) = End(b, x) /\ Bit(c, x) = Bit(b, x)
  BY <1>3 DEF Frees, End, Bit
<1>5. Tiles(c)
  <2>1. c.used \subseteq DOMAIN b.size
    BY <1>1, <1>3 DEF Tiles
  <2> QED BY <1>1, <1>3, <2>1, TilesAlike
<1>6. Tagged(g, c) /\ Listed(g, Frees(c)) /\ Unmerged(c)
  BY <1>1, <1>2, <1>3, <1>4 DEF Tagged, Listed, Unmerged
<1>7. Sound(g, c)
  BY <1>1, <1>2, <1>3, <1>5, <1>6 DEF Sound, Marked
<1> QED BY <1>2, <1>3, <1>4, <1>7 DEF g, c

\* The break is no block.
LEMMA BreakApart ==
  ASSUME NEW b, Tiles(b)
  PROVE  b.brk \notin DOMAIN b.size /\ b.brk \notin Frees(b)
<1>1. ASSUME b.brk \in DOMAIN b.size PROVE FALSE
  <2>1. b.brk \in Nat /\ b.brk + 32 <= End(b, b.brk) /\ End(b, b.brk) <= b.brk
        /\ End(b, b.brk) \in Nat
    BY <1>1, BlockWords
  <2> QED BY <2>1
<1> QED BY <1>1 DEF Frees

\* The heap in which p is freed and not merged yet.
LEMMA Released ==
  ASSUME NEW h, NEW b, Sound(h, b), NEW p \in b.used,
         NEW c, c = Abstract!Release(b, p),
         NEW g, g = tag(h, p, get_size(h, GHA(p)), 0)
  PROVE  /\ Marked(g, c) /\ Listed(g, Frees(c) \ {p}) /\ UnmergedBut(c, p)
         /\ p \in Frees(c) /\ Frees(c) \ {p} = Frees(b) /\ Frees(c) = Frees(b) \cup {p}
         /\ Kept(h, b, g, c, b.used \ {p}) /\ g.TOH = h.TOH /\ g.fault = h.fault
         /\ c.size = b.size /\ c.used = b.used \ {p} /\ c.brk = b.brk /\ c.TOH = b.TOH
<1>1. Marked(h, b) /\ Listed(h, Frees(b)) /\ Unmerged(b) /\ Tiles(b)
  BY DEF Sound, Marked
<1>2. p \in DOMAIN b.size
  BY <1>1 DEF Tiles
<1>3. g = tag(h, p, b.size[p], 0)
  BY <1>1, <1>2, Reads
<1>4. c = Abstract!Heap(b.size, b.used \ {p}, b.brk, b.TOH)
  BY DEF Abstract!Release
<1>5. c.size = b.size /\ c.used = b.used \ {p} /\ c.brk = b.brk /\ c.TOH = b.TOH
  BY <1>4 DEF Abstract!Heap
<1>6. Marked(g, c) /\ OnlyTags(h, g, b)
  <2>1. c = Abstract!Heap(b.size, IF 0 = 1 THEN b.used \cup {p} ELSE b.used \ {p}, b.brk, b.TOH)
        /\ 0 \in {0, 1}
    BY <1>4
  <2> QED BY <1>1, <1>2, <1>3, <2>1, Retag
<1>7. p \in Frees(c) /\ Frees(c) \ {p} = Frees(b) /\ Frees(c) = Frees(b) \cup {p}
  BY <1>2, <1>5 DEF Frees
<1>8. Listed(g, Frees(b))
  <2>1. Frees(b) \subseteq DOMAIN b.size
    BY DEF Frees
  <2> QED BY <1>1, <1>6, <2>1, TagsKeepLists
<1>9. UnmergedBut(c, p)
  BY <1>1, <1>5, <1>7 DEF UnmergedBut, Unmerged, End
<1>10. Kept(h, b, g, c, b.used \ {p})
  <2>1. Kept(h, b, g, b, DOMAIN b.size)
    BY <1>1, <1>6, TagsKeepBodies
  <2>2. b.used \ {p} \subseteq DOMAIN b.size
    BY <1>1 DEF Tiles
  <2> QED BY <1>5, <2>1, <2>2 DEF Kept
<1> QED BY <1>5, <1>6, <1>7, <1>8, <1>9, <1>10 DEF OnlyTags

\* Whether free finds the TOH free after the block.
LEMMA FreeAtTop ==
  ASSUME NEW h, NEW b, Rep(h, b), NEW p \in b.used,
         NEW g, g = tag(h, p, get_size(h, GHA(p)), 0)
  PROVE  /\ p # NULL /\ get_alloc(h, GHA(p)) # 0
         /\ p + get_size(h, GHA(p)) = g.TOH /\ get_alloc(g, GHA(g.TOH)) = 0
            <=> End(b, p) = b.TOH /\ b.TOH # b.brk
<1> DEFINE c == Abstract!Release(b, p)
<1>1. Sound(h, b) /\ h.TOH = b.TOH /\ TopFits(b) /\ Marked(h, b) /\ Tiles(b)
  BY DEF Rep, Sound, Marked
<1> HIDE DEF c
<1>2. /\ Marked(g, c) /\ Frees(c) = Frees(b) \cup {p} /\ g.TOH = h.TOH
      /\ c.size = b.size /\ c.used = b.used \ {p} /\ c.brk = b.brk
  <2>1. c = Abstract!Release(b, p)
    BY DEF c
  <2> DEFINE k == g
  <2> HIDE DEF k
  <2>2. /\ Marked(k, c) /\ Listed(k, Frees(c) \ {p}) /\ UnmergedBut(c, p) /\ p \in Frees(c)
        /\ Kept(h, b, k, c, b.used \ {p}) /\ k.TOH = h.TOH /\ k.fault = h.fault
        /\ c.used = b.used \ {p} /\ c.brk = b.brk /\ c.TOH = b.TOH
    <3>1. k = tag(h, p, get_size(h, GHA(p)), 0)
      BY DEF k
    <3> QED BY <1>1, <2>1, <3>1, Released
  <2>3. c.size = b.size
    BY <2>1 DEF Abstract!Release, Abstract!Heap
  <2>4. Frees(c) = Frees(b) \cup {p}
    BY <1>1, <2>2, <2>3 DEF Frees, Tiles
  <2> QED BY <2>2, <2>3, <2>4 DEF k
<1>3. p \in DOMAIN b.size /\ Bit(b, p) = 1
  BY <1>1 DEF Tiles, Bit
<1>4. p # NULL /\ get_alloc(h, GHA(p)) # 0
  <2>1. p # NULL
    BY <1>1, <1>3, BlockWords
  <2>2. get_alloc(h, GHA(p)) = 1
    BY <1>1, <1>3, Reads
  <2> QED BY <2>1, <2>2
<1>5. p + get_size(h, GHA(p)) = End(b, p) /\ End(c, p) = End(b, p)
  BY <1>1, <1>2, <1>3, Reads DEF End
<1>6. get_alloc(g, GHA(End(b, p))) = IF End(b, p) \in Frees(c) THEN 0 ELSE 1
  BY <1>2, <1>3, <1>5, Reads
<1>7. ASSUME End(b, p) = b.TOH PROVE End(b, p) \in Frees(c) <=> b.TOH # b.brk
  <2>1. End(b, p) # p
    BY <1>1, <1>3, BlockWords
  <2>2. b.brk \notin Frees(b)
    BY <1>1, BreakApart
  <2> QED BY <1>1, <1>2, <1>7, <2>1, <2>2 DEF TopFits
<1> QED BY <1>1, <1>2, <1>4, <1>5, <1>6, <1>7

\* The TOH that free leaves is the break or the last block, then free.
LEMMA FreeTop ==
  ASSUME NEW b, Tiles(b), TopFits(b), NEW p \in b.used,
         NEW r, r = Abstract!Release(b, p), UnmergedBut(r, p), Tiles(r),
         NEW q, q = FirstOf(r, p), NEW e, e = LastOf(r, p), NEW c, c = Merge(r, q, e)
  PROVE  IF End(b, p) = b.TOH /\ b.TOH # b.brk THEN q \in Frees(c) /\ End(c, q) = b.brk
         ELSE b.TOH = b.brk \/ (b.TOH \in Frees(c) /\ End(c, b.TOH) = b.brk)
<1>1. p \in DOMAIN b.size
  BY DEF Tiles
<1>2. r.size = b.size /\ r.used = b.used \ {p} /\ r.brk = b.brk /\ r.TOH = b.TOH
  BY DEF Abstract!Release, Abstract!Heap
<1>3. p \in Frees(r) /\ Frees(r) = Frees(b) \cup {p} /\ \A x : End(r, x) = End(b, x)
  BY <1>1, <1>2 DEF Frees, End
<1>4. /\ q \in DOMAIN r.size /\ e \in DOMAIN r.size \cup {r.brk} /\ q < e
      /\ \A x \in r.used : x < q \/ e <= x
      /\ \A x \in DOMAIN r.size : q <= x /\ x < e => x \in {q, p, End(r, p)}
      /\ IF \E x \in Frees(r) : End(r, x) = p THEN End(r, q) = p /\ q < p ELSE q = p
  BY <1>3, Neighbours
<1>5. /\ DOMAIN c.size = {y \in DOMAIN r.size : y <= q \/ e <= y}
      /\ End(c, q) = e /\ e \in Nat
      /\ \A x \in DOMAIN c.size \ {q} : End(c, x) = End(r, x)
  BY <1>4, MergeTiles
<1>6. q \in Frees(c) /\ Frees(c) = {x \in Frees(r) : x <= q \/ e <= x}
  BY <1>3, CoalesceBlocks
<1>7. CASE End(b, p) = b.TOH /\ b.TOH # b.brk
  <2>1. b.TOH \in Frees(r) /\ End(r, b.TOH) = b.brk
    BY <1>3, <1>7 DEF TopFits
  <2>2. e = b.brk
    BY <1>3, <1>7, <2>1 DEF LastOf
  <2> QED BY <1>5, <1>6, <1>7, <2>2
<1>8. CASE b.TOH # b.brk /\ End(b, p) # b.TOH
  <2> DEFINE t == b.TOH
  <2>1. t \in Frees(b) /\ End(b, t) = b.brk /\ t \in DOMAIN b.size /\ t \notin b.used
    BY <1>8 DEF TopFits, Frees
  <2>2. t # p /\ b.brk # p
    BY <1>1, <2>1, BreakApart
  <2>3. t # q
    BY <1>3, <1>4, <2>1, <2>2
  <2>4. t \in Nat /\ q \in Nat
    BY <1>2, <1>4, <2>1, BlockWords
  <2>5. t \in DOMAIN r.size /\ End(r, p) # t
    BY <1>2, <1>3, <1>8, <2>1
  <2> HIDE DEF t
  <2>6. t < q \/ e <= t
    BY <1>4, <1>5, <2>2, <2>3, <2>4, <2>5
  <2>7. t \in Frees(c) /\ t \in DOMAIN c.size
    BY <1>3, <1>5, <1>6, <2>1, <2>4, <2>5, <2>6
  <2>8. End(c, t) = b.brk
    BY <1>3, <1>5, <2>1, <2>3, <2>7
  <2> QED BY <1>8, <2>7, <2>8 DEF t
<1> QED BY <1>7, <1>8

\* free does to tags, list and TOH what the free of BlockHeap does to the blocks; the
\* other live blocks keep their words (mm.c:223-246).
THEOREM FreeSound ==
  ASSUME NEW h, NEW b, Rep(h, b), NEW p \in b.used
  PROVE  /\ Yields(h, b, free(h, p), Abstract!free(b, p), b.used \ {p})
         /\ Abstract!free(b, p).used = b.used \ {p} /\ Abstract!free(b, p).brk = b.brk
<1> DEFINE r == Abstract!Release(b, p)
           q == FirstOf(r, p)
           e == LastOf(r, p)
           c == Merge(r, q, e)
           g == tag(h, p, get_size(h, GHA(p)), 0)
           k == coalesce(g, p)
<1>1. Sound(h, b) /\ h.TOH = b.TOH /\ TopFits(b) /\ Tiles(b)
  BY DEF Rep, Sound, Marked
<1> HIDE DEF g, r
<1>2. /\ Marked(g, r) /\ Listed(g, Frees(r) \ {p}) /\ UnmergedBut(r, p) /\ p \in Frees(r)
      /\ Kept(h, b, g, r, b.used \ {p}) /\ g.TOH = h.TOH /\ g.fault = h.fault
      /\ r.used = b.used \ {p} /\ r.brk = b.brk /\ r.TOH = b.TOH
  <2>1. r = Abstract!Release(b, p) /\ g = tag(h, p, get_size(h, GHA(p)), 0)
    BY DEF r, g
  <2> QED BY <1>1, <2>1, Released
<1>3. Coalesced(g, r, k.h, Abstract!coalesce(r, p)) /\ k.p = Abstract!Merged(r, p)
  BY <1>2, CoalesceSound
<1>4. Tiles(r)
  BY <1>2 DEF Marked
<1>5. Abstract!coalesce(r, p) = c /\ Abstract!Merged(r, p) = q
  BY <1>2, <1>4, AbstractCoalesce DEF FirstOf
<1>6. c.used = b.used \ {p} /\ c.brk = b.brk /\ c.TOH = b.TOH
  BY <1>2 DEF Merge, Abstract!Heap
<1>7. q \in Nat
  BY <1>2, <1>4, Neighbours, BlockWords
<1>8. IF End(b, p) = b.TOH /\ b.TOH # b.brk THEN q \in Frees(c) /\ End(c, q) = b.brk
      ELSE b.TOH = b.brk \/ (b.TOH \in Frees(c) /\ End(c, b.TOH) = b.brk)
  <2>1. r = Abstract!Release(b, p)
    BY DEF r
  <2> QED BY <1>1, <1>2, <1>4, <2>1, FreeTop
<1>9. free(h, p) = IF End(b, p) = b.TOH /\ b.TOH # b.brk THEN TopAt(k) ELSE k.h
  BY FreeAtTop DEF free, g
<1>10. Abstract!free(b, p) = IF End(b, p) = b.TOH /\ b.TOH # b.brk THEN Abstract!SetTOH(c, q) ELSE c
  BY <1>5 DEF Abstract!free, Abstract!End, End, r
<1> HIDE DEF c, q, k
<1>11. Sound(k.h, c) /\ Kept(g, r, k.h, c, r.used) /\ k.h.TOH = g.TOH /\ k.h.fault = g.fault
  BY <1>3, <1>5 DEF Coalesced
<1>12. Kept(h, b, k.h, c, b.used \ {p})
  BY <1>2, <1>11, KeptAgain
<1>13. CASE End(b, p) = b.TOH /\ b.TOH # b.brk
  <2>1. TopAt(k) = [k.h EXCEPT !.TOH = q]
    BY <1>3, <1>5 DEF TopAt
  <2>2. /\ Sound(TopAt(k), Abstract!SetTOH(c, q)) /\ Frees(Abstract!SetTOH(c, q)) = Frees(c)
        /\ \A x : End(Abstract!SetTOH(c, q), x) = End(c, x)
        /\ TopAt(k).fault = k.h.fault /\ TopAt(k).mem = k.h.mem /\ TopAt(k).TOH = q
        /\ Abstract!SetTOH(c, q).size = c.size /\ Abstract!SetTOH(c, q).used = c.used
        /\ Abstract!SetTOH(c, q).brk = c.brk /\ Abstract!SetTOH(c, q).TOH = q
    BY <1>7, <1>11, <2>1, TopSet
  <2>3. Kept(h, b, TopAt(k), Abstract!SetTOH(c, q), b.used \ {p})
    BY <1>12, <2>2 DEF Kept
  <2> QED BY <1>2, <1>6, <1>8, <1>9, <1>10, <1>11, <1>13, <2>2, <2>3 DEF Yields, Rep, TopFits
<1>14. CASE ~(End(b, p) = b.TOH /\ b.TOH # b.brk)
  <2> QED BY <1>1, <1>2, <1>6, <1>8, <1>9, <1>10, <1>11, <1>12, <1>14 DEF Yields, Rep, TopFits
<1> QED BY <1>13, <1>14

(***************************************************************************)
(* Pages.                                                                  *)
(***************************************************************************)
\* The block at t becomes the last one, n bytes above the break, and the TOH.
Stretch(b, t, n) ==
  Abstract!Heap([x \in DOMAIN b.size \cup {t} |-> IF x = t THEN b.brk + n - t ELSE b.size[x]],
                b.used, b.brk + n, t)

\* t is where the block of a new page begins.
TopOf(b, t) ==
  IF \E x \in Frees(b) : End(b, x) = b.brk THEN t \in Frees(b) /\ End(b, t) = b.brk
  ELSE t = b.brk

\* The last block, if it is free, and no other one, is where a page goes.
LEMMA TopExists ==
  ASSUME NEW b, Tiles(b)
  PROVE  /\ \E t : TopOf(b, t)
         /\ \A t, u : TopOf(b, t) /\ TopOf(b, u) => t = u
         /\ \A t : TopOf(b, t) => t \in Nat /\ t <= b.brk /\ t % 16 = 0 /\ t \notin b.used
<1>1. \A t, u : TopOf(b, t) /\ TopOf(b, u) => t = u
  BY BlocksApart DEF TopOf, Frees
<1>2. ASSUME NEW t, TopOf(b, t) PROVE t \in Nat /\ t <= b.brk /\ t % 16 = 0 /\ t \notin b.used
  <2>1. CASE t \in Frees(b)
    <3>1. /\ t \in DOMAIN b.size /\ t \notin b.used /\ t \in Nat /\ t % 16 = 0
          /\ t + 32 <= End(b, t) /\ End(b, t) \in Nat /\ End(b, t) <= b.brk /\ b.brk \in Nat
      BY <2>1, BlockWords, EdgeWords DEF Frees
    <3> QED BY <3>1
  <2>2. CASE t = b.brk
    <3>1. b.brk \in Nat /\ b.brk % 16 = 0 /\ b.brk \notin DOMAIN b.size
      BY EdgeWords, BreakApart
    <3> QED BY <2>2, <3>1 DEF Tiles
  <2> QED BY <1>2, <2>1, <2>2 DEF TopOf
<1> QED BY <1>1, <1>2 DEF TopOf

\* Extend lengthens the last block if it is free, and adds one if not.
LEMMA ExtendStretches ==
  ASSUME NEW b, Tiles(b), NEW n \in Nat, n >= 32, n % 16 = 0, b.brk + n <= Top,
         NEW t, TopOf(b, t)
  PROVE  /\ Abstract!Extend(b, n) = Stretch(b, t, n)
         /\ Abstract!Merged(Abstract!AddBlock(b, n), b.brk) = t
<1> DEFINE g == Abstract!AddBlock(b, n)
           q == FirstOf(g, b.brk)
           e == LastOf(g, b.brk)
<1>1. /\ Tiles(g) /\ DOMAIN g.size = DOMAIN b.size \cup {b.brk} /\ b.brk \notin DOMAIN b.size
      /\ g.size[b.brk] = n /\ End(g, b.brk) = b.brk + n
      /\ \A x \in DOMAIN b.size : g.size[x] = b.size[x] /\ End(g, x) = End(b, x)
      /\ g.used = b.used /\ g.brk = b.brk + n /\ g.TOH = b.TOH
  BY AddTiles
<1>2. b.brk \in Nat
  BY EdgeWords
<1>3. b.used \subseteq DOMAIN b.size
  BY DEF Tiles
<1> HIDE DEF g
<1>4. Frees(g) = Frees(b) \cup {b.brk} /\ b.brk \in Frees(g)
  BY <1>1, <1>3 DEF Frees
<1>5. End(g, b.brk) \notin Frees(g) /\ e = b.brk + n
  <2>1. b.brk + n \notin DOMAIN g.size
    BY <1>1, BreakApart
  <2> QED BY <1>1, <2>1 DEF Frees, LastOf
<1>6. /\ q \in DOMAIN g.size
      /\ IF \E x \in Frees(g) : End(g, x) = b.brk THEN q \in Frees(g) /\ End(g, q) = b.brk /\ q < b.brk
         ELSE q = b.brk
  BY <1>1, <1>4, Neighbours
<1>7. q = t
  <2>1. \A x \in Frees(b) : End(g, x) = End(b, x)
    BY <1>1 DEF Frees
  <2>2. End(g, b.brk) # b.brk
    BY <1>1, <1>2
  <2>3. (\E x \in Frees(g) : End(g, x) = b.brk) <=> \E x \in Frees(b) : End(b, x) = b.brk
    BY <1>4, <2>1, <2>2
  <2>4. q \in Frees(g) /\ q < b.brk => q \in Frees(b)
    BY <1>2, <1>4
  <2>5. TopOf(b, q)
    BY <1>6, <2>1, <2>3, <2>4 DEF TopOf
  <2> QED BY <2>5, TopExists
<1>8. Abstract!coalesce(g, b.brk) = Merge(g, t, b.brk + n) /\ Abstract!Merged(g, b.brk) = t
  BY <1>1, <1>4, <1>5, <1>7, AbstractCoalesce DEF FirstOf
<1>9. Abstract!Extend(b, n) = Abstract!SetTOH(Merge(g, t, b.brk + n), t)
  BY <1>8 DEF Abstract!Extend, g
<1>10. [x \in {y \in DOMAIN g.size : y <= t \/ b.brk + n <= y} |->
          IF x = t THEN b.brk + n - t ELSE g.size[x]]
       = [x \in DOMAIN b.size \cup {t} |-> IF x = t THEN b.brk + n - t ELSE b.size[x]]
  <2>1. \A x \in DOMAIN b.size : x \in Nat /\ x + 32 <= End(b, x) /\ End(b, x) <= b.brk
                                 /\ End(b, x) \in Nat
    BY BlockWords, EdgeWords
  <2>2. CASE \E x \in Frees(b) : End(b, x) = b.brk
    <3>1. t \in DOMAIN b.size /\ End(b, t) = b.brk /\ t \in Nat /\ t < b.brk
      BY <1>2, <2>1, <2>2 DEF TopOf, Frees
    <3>2. \A x \in DOMAIN b.size : x <= t
      BY <1>2, <2>1, <3>1, BlocksApart
    <3>3. ~(b.brk <= t) /\ ~(b.brk + n <= b.brk)
      BY <1>2, <3>1
    <3>4. {y \in DOMAIN g.size : y <= t \/ b.brk + n <= y} = DOMAIN b.size \cup {t}
      BY <1>1, <3>1, <3>2, <3>3
    <3>5. \A x \in DOMAIN b.size \cup {t} : x # t => g.size[x] = b.size[x]
      BY <1>1
    <3> QED BY <3>4, <3>5
  <2>3. CASE ~\E x \in Frees(b) : End(b, x) = b.brk
    <3>1. t = b.brk
      BY <2>3 DEF TopOf
    <3>2. \A x \in DOMAIN b.size : x <= t
      BY <1>2, <2>1, <3>1
    <3>3. {y \in DOMAIN g.size : y <= t \/ b.brk + n <= y} = DOMAIN b.size \cup {t}
      BY <1>1, <1>2, <3>1, <3>2
    <3>4. \A x \in DOMAIN b.size \cup {t} : x # t => g.size[x] = b.size[x]
      BY <1>1
    <3> QED BY <3>3, <3>4
  <2> QED BY <2>2, <2>3
<1>11. Abstract!SetTOH(Merge(g, t, b.brk + n), t) =
         Abstract!Heap([x \in {y \in DOMAIN g.size : y <= t \/ b.brk + n <= y} |->
                          IF x = t THEN b.brk + n - t ELSE g.size[x]], b.used, b.brk + n, t)
  <2> DEFINE f == [x \in {y \in DOMAIN g.size : y <= t \/ b.brk + n <= y} |->
                     IF x = t THEN b.brk + n - t ELSE g.size[x]]
  <2>1. Merge(g, t, b.brk + n) = Abstract!Heap(f, b.used, b.brk + n, b.TOH)
    <3>1. t \in Nat
      BY TopExists
    <3>2. (b.brk + n) - t = b.brk + n - t
      BY <1>2, <3>1
    <3> QED BY <1>1, <3>2 DEF Merge
  <2> HIDE DEF f
  <2>2. Abstract!SetTOH(Abstract!Heap(f, b.used, b.brk + n, b.TOH), t)
        = Abstract!Heap(f, b.used, b.brk + n, t)
    BY DEF Abstract!SetTOH, Abstract!Heap
  <2> QED BY <2>1, <2>2 DEF f
<1> QED BY <1>8, <1>9, <1>10, <1>11 DEF Stretch, g

\* Two pages lengthen the block as one of their sizes together does.
LEMMA StretchAgain ==
  ASSUME NEW b, Tiles(b), NEW n \in Nat, n >= 32, NEW m \in Nat, NEW t, TopOf(b, t),
         NEW c, c = Stretch(b, t, n), Tiles(c), t \in Frees(c), End(c, t) = c.brk
  PROVE  TopOf(c, t) /\ Stretch(c, t, m) = Stretch(b, t, n + m)
<1>1. /\ DOMAIN c.size = DOMAIN b.size \cup {t} /\ c.used = b.used /\ c.brk = b.brk + n
      /\ \A x \in DOMAIN c.size : c.size[x] = IF x = t THEN b.brk + n - t ELSE b.size[x]
  BY DEF Stretch, Abstract!Heap
<1>2. TopOf(c, t)
  BY DEF TopOf
<1>3. t \in Nat /\ b.brk \in Nat
  BY TopExists, EdgeWords
<1>4. b.brk + n + m - t = b.brk + (n + m) - t /\ b.brk + n + m = b.brk + (n + m)
  BY <1>3
<1>5. [x \in DOMAIN c.size \cup {t} |-> IF x = t THEN c.brk + m - t ELSE c.size[x]]
      = [x \in DOMAIN b.size \cup {t} |-> IF x = t THEN b.brk + (n + m) - t ELSE b.size[x]]
  BY <1>1, <1>4
<1> QED BY <1>1, <1>2, <1>4, <1>5 DEF Stretch

\* A page is added.
LEMMA PageSound ==
  ASSUME NEW h, NEW b, Sound(h, b), NEW n \in Nat, n >= 32, n % 16 = 0, b.brk + n <= Top,
         NEW t, TopOf(b, t), NEW c, c = Stretch(b, t, n), NEW r, r = allocate_page(h, n)
  PROVE  /\ r.ok /\ Yields(h, b, r.h, c, b.used)
         /\ c.TOH = t /\ c.brk = b.brk + n /\ c.used = b.used
         /\ t \in Frees(c) /\ End(c, t) = c.brk /\ Tiles(c)
<1> DEFINE a == Abstract!AddBlock(b, n)
           w == Broken(h, h.brk + n)
           k == tag(w, h.brk, n, 0)
           g == put(k, GHA(next_blk(k, h.brk)), pack(0, 1))
           z == coalesce(g, h.brk)
<1>1. Marked(h, b) /\ Listed(h, Frees(b)) /\ Unmerged(b) /\ Tiles(b) /\ h \in Heaps /\ h.brk = b.brk
  BY DEF Sound, Marked
<1>2. /\ Tiles(a) /\ DOMAIN a.size = DOMAIN b.size \cup {b.brk} /\ b.brk \notin DOMAIN b.size
      /\ End(a, b.brk) = b.brk + n
      /\ \A x \in DOMAIN b.size : a.size[x] = b.size[x] /\ End(a, x) = End(b, x)
      /\ a.used = b.used /\ a.brk = b.brk + n /\ a.TOH = b.TOH
  BY <1>1, AddTiles
<1>3. Marked(g, a) /\ OnlyTags(h, g, a) /\ Kept(h, b, g, a, DOMAIN b.size)
  <2>1. b.brk = h.brk
    BY <1>1
  <2> QED BY <1>1, PageMarked
<1>4. b.used \subseteq DOMAIN b.size /\ b.brk \in Nat
  BY <1>1, EdgeWords DEF Tiles
<1> HIDE DEF a, k, g
<1>5. Frees(a) = Frees(b) \cup {b.brk} /\ b.brk \in Frees(a) /\ Frees(a) \ {b.brk} = Frees(b)
  BY <1>2, <1>4 DEF Frees
<1>6. UnmergedBut(a, b.brk)
  <2> SUFFICES ASSUME NEW x \in Frees(a), x # b.brk, End(a, x) # b.brk, End(a, x) \in Frees(a)
               PROVE  FALSE
    BY DEF UnmergedBut
  <2>1. x \in Frees(b) /\ x \in DOMAIN b.size
    BY <1>5 DEF Frees
  <2> QED BY <1>1, <1>2, <1>5, <2>1 DEF Unmerged
<1>7. Listed(g, Frees(b))
  <2>1. Frees(b) \subseteq DOMAIN a.size
    BY <1>2 DEF Frees
  <2> QED BY <1>1, <1>2, <1>3, <2>1, TagsKeepLists
<1>8. Coalesced(g, a, z.h, Abstract!coalesce(a, b.brk)) /\ z.p = Abstract!Merged(a, b.brk)
  <2>1. Listed(g, Frees(a) \ {b.brk})
    BY <1>5, <1>7
  <2>2. Coalesced(g, a, coalesce(g, b.brk).h, Abstract!coalesce(a, b.brk))
        /\ coalesce(g, b.brk).p = Abstract!Merged(a, b.brk)
    BY <1>3, <1>5, <1>6, <2>1, CoalesceSound
  <2> QED BY <1>1, <2>2
<1>9. Abstract!Extend(b, n) = c /\ Abstract!Merged(a, b.brk) = t
  BY <1>1, ExtendStretches DEF a
<1>10. c = Abstract!SetTOH(Abstract!coalesce(a, b.brk), t)
  BY <1>9 DEF Abstract!Extend, a
<1>11. r = [ok |-> TRUE, h |-> [z.h EXCEPT !.TOH = t]]
  <2>1. h.brk \in Words /\ w.mem = h.mem /\ h.mem \in [Words -> Word]
    <3>1. b.brk % 16 = 0 /\ 48 <= b.brk /\ b.brk <= Top /\ Top \in Nat
      BY <1>1, EdgeWords, Sizing
    <3>2. b.brk % 8 = 0
      BY <1>4, <3>1, Granules
    <3> QED BY <1>1, <1>4, <3>1, <3>2, WordRange DEF Heaps, Broken
  <2>2. get(w, h.brk) # -1
    <3>1. h.brk % SizeMod = h.brk
      BY <2>1, WordRange
    <3>2. w.mem[h.brk] \in Word
      BY <2>1
    <3> QED BY <2>1, <3>1, <3>2 DEF get, Word
  <2>3. ~(h.brk + n > HeapLo + MaxHeap)
    BY <1>1, <1>4, Sizing DEF Top
  <2> HIDE DEF z
  <2>4. r = [ok |-> TRUE, h |-> TopAt(z)]
    BY <2>2, <2>3 DEF allocate_page, Broken, w, k, g, z
  <2> QED BY <1>8, <1>9, <2>4 DEF TopAt
<1> HIDE DEF z, w
<1> DEFINE d == Abstract!coalesce(a, b.brk)
<1> HIDE DEF d
<1>12. Sound(z.h, d) /\ Kept(g, a, z.h, d, b.used) /\ z.h.fault = g.fault
  BY <1>2, <1>8 DEF Coalesced, d
<1>13. t \in Nat
  BY <1>1, TopExists
<1>14. /\ Sound(r.h, c) /\ r.h.TOH = t /\ c.TOH = t /\ r.h.fault = z.h.fault /\ r.h.mem = z.h.mem
       /\ c.size = d.size
  <2>1. c = Abstract!SetTOH(d, t) /\ r.h = [z.h EXCEPT !.TOH = t]
    BY <1>10, <1>11 DEF d
  <2>2. Sound([z.h EXCEPT !.TOH = t], Abstract!SetTOH(d, t))
        /\ [z.h EXCEPT !.TOH = t].fault = z.h.fault /\ [z.h EXCEPT !.TOH = t].TOH = t
        /\ [z.h EXCEPT !.TOH = t].mem = z.h.mem
        /\ Abstract!SetTOH(d, t).TOH = t
    BY <1>12, <1>13, TopSet
  <2>3. c.size = d.size
    BY <2>1 DEF Abstract!SetTOH, Abstract!Heap
  <2> QED BY <2>1, <2>2, <2>3
<1>15. /\ DOMAIN c.size = DOMAIN b.size \cup {t} /\ c.used = b.used /\ c.brk = b.brk + n
       /\ c.size[t] = b.brk + n - t
  BY DEF Stretch, Abstract!Heap
<1>16. t \in Frees(c) /\ End(c, t) = c.brk
  <2>1. t \notin b.used
    BY <1>1, TopExists
  <2> QED BY <1>4, <1>13, <1>15, <2>1 DEF Frees, End
<1>17. Kept(h, b, r.h, c, b.used)
  <2>1. Kept(h, b, g, a, b.used)
    BY <1>3, <1>4 DEF Kept
  <2>2. Kept(h, b, z.h, d, b.used)
    BY <1>12, <2>1, KeptAgain
  <2> QED BY <1>14, <2>2 DEF Kept
<1>18. r.h.fault = h.fault
  BY <1>3, <1>12, <1>14 DEF OnlyTags
<1>19. Tiles(c)
  BY <1>14 DEF Sound, Marked
<1> QED BY <1>11, <1>14, <1>15, <1>16, <1>17, <1>18, <1>19 DEF Yields, Rep, TopFits

\* No page is left.
LEMMA NoPage ==
  ASSUME NEW h, NEW b, Sound(h, b), NEW n \in Nat, b.brk + n > Top,
         NEW r, r = allocate_page(h, n)
  PROVE  r = [ok |-> FALSE, h |-> [h EXCEPT !.fault = "oom"]]
BY DEF allocate_page, Sound, Marked, Top

(***************************************************************************)
(* place.                                                                  *)
(***************************************************************************)
\* A block of b, now in use in c, has been placed.
Placed(h, b, g, c, p) ==
  /\ Sound(g, c) /\ Kept(h, b, g, c, b.used) /\ g.TOH = h.TOH /\ g.fault = h.fault
  /\ c.used = b.used \cup {p} /\ c.brk = b.brk /\ c.TOH = b.TOH

\* The whole block is taken.
LEMMA WholeSound ==
  ASSUME NEW h, NEW b, Sound(h, b), NEW p \in Frees(b), NEW c, c = Abstract!Use(b, p)
  PROVE  Placed(h, b, PlaceWhole(h, p), c, p)
<1> DEFINE g == tag(h, p, get_size(h, GHA(p)), 1)
           k == IF p # g.free_root THEN Link(g, g.mem[p], g.mem[p + 8])
                ELSE Rooted(SetPred(g, g.mem[p + 8], NULL), g.mem[p + 8])
<1>1. Marked(h, b) /\ Listed(h, Frees(b)) /\ Unmerged(b) /\ Tiles(b) /\ h \in Heaps
      /\ Frees(b) \subseteq DOMAIN b.size /\ p \in DOMAIN b.size /\ p \notin b.used
  BY DEF Sound, Marked, Frees
<1>2. c = Abstract!Heap(b.size, IF 1 = 1 THEN b.used \cup {p} ELSE b.used \ {p}, b.brk, b.TOH)
      /\ 1 \in {0, 1}
  BY DEF Abstract!Use
<1>3. g = tag(h, p, b.size[p], 1)
  BY <1>1, Reads
<1> HIDE DEF g
<1>4. Marked(g, c) /\ OnlyTags(h, g, b) /\ Alike(h, g)
  BY <1>1, <1>2, <1>3, Retag
<1>5. c.size = b.size /\ c.used = b.used \cup {p} /\ c.brk = b.brk /\ c.TOH = b.TOH
  BY <1>2 DEF Abstract!Heap
<1>6. Frees(c) = Frees(b) \ {p}
  BY <1>5 DEF Frees
<1>7. Listed(g, Frees(b)) /\ g.mem[p] = h.mem[p] /\ g.mem[p + 8] = h.mem[p + 8]
  BY <1>1, <1>4, TagsKeepLists
<1>8. Cells(g, Frees(b)) /\ g \in Heaps
  BY <1>1, <1>4, BlocksAreCells DEF Marked, Alike
<1>9. Relisted(g, k, Frees(b), Frees(b) \ {p})
  BY <1>7, <1>8, RemoveListed
<1>10. PlaceWhole(h, p) = k
  <2>1. p \in Words /\ p + 8 \in Words
    BY <1>1, BlockWords
  <2>2. pred(h, p) = h.mem[p] /\ succ(h, p) = h.mem[p + 8]
    BY <1>1, <2>1, GetWord DEF pred, succ
  <2>3. g.free_root = h.free_root
    BY <1>4 DEF Alike
  <2> QED BY <1>7, <2>2, <2>3 DEF PlaceWhole, Rooted, g
<1> HIDE DEF k
<1>11. Marked(k, c) /\ Kept(g, c, k, c, b.used)
  <2>1. Within(c, Frees(b), Frees(b))
    <3>1. Tiles(c) /\ Frees(b) \subseteq DOMAIN c.size
      BY <1>1, <1>4, <1>5 DEF Marked
    <3> QED BY <3>1, WithinSelf
  <2>2. b.used \subseteq DOMAIN c.size \ Frees(b)
    BY <1>1, <1>5 DEF Tiles, Frees
  <2> QED BY <1>4, <1>9, <2>1, <2>2, LinksKeepTags DEF Relisted
<1>12. Kept(h, b, g, c, b.used)
  <2>1. Kept(h, b, g, b, DOMAIN b.size)
    BY <1>1, <1>4, TagsKeepBodies
  <2> QED BY <1>1, <1>5, <2>1 DEF Kept, Tiles
<1>13. Unmerged(c)
  BY <1>1, <1>5, <1>6 DEF Unmerged, End
<1>14. Sound(k, c)
  BY <1>6, <1>9, <1>11, <1>13 DEF Sound, Relisted
<1>15. Kept(h, b, k, c, b.used)
  BY <1>11, <1>12, KeptAgain
<1>16. k.TOH = h.TOH /\ k.fault = h.fault
  BY <1>4, <1>9 DEF Relisted, OnlyLinks, Alike
<1> QED BY <1>5, <1>10, <1>14, <1>15, <1>16 DEF Placed

\* The block is cut in two; the rest takes its place in front of the list.
LEMMA CutSound ==
  ASSUME NEW h, NEW b, Sound(h, b), NEW p \in Frees(b), NEW n \in Nat, n >= 32, n % 16 = 0,
         b.size[p] - n >= 32, NEW c, c = Abstract!Use(Abstract!Split(b, p, n), p)
  PROVE  /\ Placed(h, b, PlaceSplit(h, p, n), c, p)
         /\ c.size[p] = n /\ p + n \in Frees(c) /\ End(c, p + n) = End(b, p)
         /\ Frees(c) = (Frees(b) \ {p}) \cup {p + n}
         /\ \A x \in Frees(b) \ {p} : End(c, x) = End(b, x)
<1> DEFINE d == Abstract!Split(b, p, n)
           m == p + n
           g == tag(tag(h, p, n, 1), m, b.size[p] - n, 0)
           k == IF p # g.free_root THEN Link(PushFront(g, m), g.mem[p], g.mem[p + 8])
                ELSE Lead(g, m, g.mem[p + 8])
<1>1. Marked(h, b) /\ Listed(h, Frees(b)) /\ Unmerged(b) /\ Tiles(b) /\ h \in Heaps
      /\ Frees(b) \subseteq DOMAIN b.size /\ p \in DOMAIN b.size /\ p \notin b.used
  BY DEF Sound, Marked, Frees
<1>2. /\ Tiles(d) /\ DOMAIN d.size = DOMAIN b.size \cup {m} /\ m \notin DOMAIN b.size
      /\ d.size[p] = n /\ End(d, p) = m
      /\ d.size[m] = b.size[p] - n /\ End(d, m) = End(b, p)
      /\ \A x \in DOMAIN b.size \ {p} : d.size[x] = b.size[x] /\ End(d, x) = End(b, x)
      /\ d.used = b.used /\ d.brk = b.brk /\ d.TOH = b.TOH
  BY <1>1, SplitTiles
<1>3. c = Abstract!Heap(d.size, IF 0 = 1 THEN b.used \cup {p, p + n} ELSE b.used \cup {p},
                        b.brk, b.TOH) /\ 0 \in {0, 1}
  BY <1>2 DEF Abstract!Use
<1>4. Marked(g, c) /\ OnlyTags(h, g, c) /\ Alike(h, g) /\ Kept(h, b, g, c, DOMAIN b.size \ {p})
  BY <1>1, <1>3, SplitMarked
<1> HIDE DEF g, d
<1>5. c.size = d.size /\ c.used = b.used \cup {p} /\ c.brk = b.brk /\ c.TOH = b.TOH
  BY <1>3 DEF Abstract!Heap
<1>6. b.used \subseteq DOMAIN b.size
  BY <1>1 DEF Tiles
<1>7. Frees(c) = (Frees(b) \ {p}) \cup {m} /\ m \in Frees(c)
  BY <1>1, <1>2, <1>5, <1>6 DEF Frees
<1>8. \A x \in DOMAIN c.size : End(c, x) = End(d, x)
  BY <1>5 DEF End
<1>9. \A x \in Frees(b) \ {p} : End(c, x) = End(b, x)
  BY <1>1, <1>2, <1>5, <1>8
<1>10. End(c, m) = End(b, p) /\ c.size[p] = n
  BY <1>2, <1>5, <1>8
<1> HIDE DEF m
<1>11. Unmerged(c)
  <2> SUFFICES ASSUME NEW x \in Frees(c), End(c, x) \in Frees(c) PROVE FALSE
    BY DEF Unmerged
  <2>1. CASE x = m
    <3>1. End(b, p) \in Frees(c) /\ End(b, p) \notin Frees(b)
      BY <1>1, <1>10, <2>1 DEF Unmerged
    <3>2. End(b, p) = m
      BY <1>7, <3>1
    <3>3. End(b, p) \in DOMAIN b.size \/ End(b, p) = b.brk
      BY <1>1 DEF Tiles, Block
    <3>4. m = b.brk /\ m \in DOMAIN d.size /\ d.brk = b.brk
      BY <1>2, <3>2, <3>3
    <3> QED BY <1>2, <3>4, BreakApart
  <2>2. CASE x # m
    <3>1. x \in Frees(b) \ {p} /\ End(c, x) = End(b, x)
      BY <1>7, <1>9, <2>2
    <3>2. End(b, x) = m
      BY <1>1, <1>7, <3>1 DEF Unmerged
    <3>3. End(b, x) \in DOMAIN b.size \/ End(b, x) = b.brk
      BY <1>1, <3>1 DEF Tiles, Block
    <3>4. m = b.brk /\ m \in DOMAIN d.size /\ d.brk = b.brk
      BY <1>2, <3>2, <3>3
    <3> QED BY <1>2, <3>4, BreakApart
  <2> QED BY <2>1, <2>2
<1>12. /\ Tiles(c) /\ Frees(b) \subseteq DOMAIN c.size /\ m \in DOMAIN c.size
       /\ Frees(b) \cup {m} \subseteq DOMAIN c.size /\ m \notin Frees(b)
  BY <1>1, <1>2, <1>4, <1>5 DEF Marked
<1>13. Listed(g, Frees(b)) /\ g.mem[p] = h.mem[p] /\ g.mem[p + 8] = h.mem[p + 8]
  <2>1. \A x \in Frees(b) : g.mem[x] = h.mem[x] /\ g.mem[x + 8] = h.mem[x + 8]
    BY ONLY <1>4, <1>12, TagsKeepLists
  <2>2. Listed(h, Frees(b)) => Listed(g, Frees(b))
    BY <1>4, <1>12, TagsKeepLists
  <2> QED BY <1>1, <2>1, <2>2
<1>14. Cells(g, Frees(b) \cup {m}) /\ g \in Heaps
  BY <1>4, <1>12, BlocksAreCells DEF Marked
<1>15. Relisted(g, Rooted(k, m), Frees(b) \cup {m}, (Frees(b) \ {p}) \cup {m})
  <2>1. m \notin Frees(b) \ {p}
    BY <1>12
  <2> QED BY <1>13, <1>14, <2>1, ReplaceListed
<1>16. PlaceSplit(h, p, n) = Rooted(k, m)
  <2>1. /\ p \in Words /\ p + 8 \in Words /\ b.size[p] \in Nat
        /\ End(b, p) = p + b.size[p] /\ p \in Nat /\ End(b, p) <= b.brk /\ b.brk <= Top
        /\ b.brk \in Nat
    BY <1>1, BlockWords, EdgeWords
  <2>2. pred(h, p) = h.mem[p] /\ succ(h, p) = h.mem[p + 8]
    BY <1>1, <2>1, GetWord DEF pred, succ
  <2>3. g.free_root = h.free_root
    BY <1>4 DEF Alike
  <2>5. Cut(h, p, n, 0) = g /\ next_blk(g, p) = m
    BY <1>1, CutTags DEF g, m
  <2>6. h.free_root # NULL
    <3>1. PICK P, S : Chained(Frees(b), h.free_root, P, S)
      BY <1>1 DEF Listed
    <3> QED BY <3>1, RootExists
  <2>7. /\ PlaceSplit(h, p, n) =
             [(CASE h.free_root = NULL -> Begin(g, m, NULL)
                 [] h.free_root # NULL /\ p # h.free_root ->
                      Link(PushFront(g, m), g.mem[p], g.mem[p + 8])
                 [] OTHER -> Lead(g, m, g.mem[p + 8])) EXCEPT !.free_root = m]
    BY <1>13, <2>2, <2>5 DEF PlaceSplit
  <2>8. CASE p # h.free_root
    BY <2>3, <2>6, <2>7, <2>8 DEF Rooted
  <2>9. CASE p = h.free_root
    BY <2>3, <2>6, <2>7, <2>9 DEF Rooted
  <2> QED BY <2>8, <2>9
<1> HIDE DEF k
<1>17. Marked(Rooted(k, m), c) /\ Kept(g, c, Rooted(k, m), c, b.used)
  <2>1. Within(c, Frees(b) \cup {m}, Frees(b) \cup {m})
    BY <1>12, WithinSelf
  <2>2. b.used \subseteq DOMAIN c.size \ (Frees(b) \cup {m})
    BY <1>2, <1>5, <1>6 DEF Frees
  <2> QED BY <1>4, <1>15, <2>1, <2>2, LinksKeepTags DEF Relisted
<1>18. Kept(h, b, g, c, b.used)
  BY <1>1, <1>4, <1>6 DEF Kept
<1>19. Sound(Rooted(k, m), c)
  BY <1>7, <1>11, <1>15, <1>17 DEF Sound, Relisted
<1>20. Kept(h, b, Rooted(k, m), c, b.used)
  BY <1>17, <1>18, KeptAgain
<1>21. Rooted(k, m).TOH = h.TOH /\ Rooted(k, m).fault = h.fault
  BY <1>4, <1>15 DEF Relisted, OnlyLinks, Alike
<1>22. Placed(h, b, PlaceSplit(h, p, n), c, p)
  BY <1>5, <1>16, <1>19, <1>20, <1>21 DEF Placed
<1> QED BY <1>7, <1>9, <1>10, <1>22 DEF m

\* Which of the two place does, and what it returns.
LEMMA PlaceCases ==
  ASSUME NEW h, NEW b, Marked(h, b), NEW p \in DOMAIN b.size, NEW n \in Nat, n <= b.size[p]
  PROVE  /\ Abstract!Whole(b, p, n) \in BOOLEAN
         /\ place(h, p, n) = IF Abstract!Whole(b, p, n)
                             THEN [h |-> PlaceWhole(h, p), size |-> b.size[p]]
                             ELSE [h |-> PlaceSplit(h, p, n), size |-> n]
         /\ ~Abstract!Whole(b, p, n) => b.size[p] - n >= 32
<1>1. /\ p \in Nat /\ b.size[p] \in Nat /\ End(b, p) = p + b.size[p] /\ End(b, p) <= b.brk
      /\ b.brk <= Top /\ b.brk \in Nat /\ SizeMod \in Nat /\ Top \in Nat /\ Top + Top < SizeMod
  BY BlockWords, EdgeWords, Sizing DEF Marked
<1>2. get_size(h, GHA(p)) = b.size[p]
  BY Reads
<1>3. (b.size[p] - n) % SizeMod = b.size[p] - n
  <2>1. b.size[p] - n \in Nat /\ b.size[p] - n < SizeMod
    BY <1>1
  <2> QED BY <1>1, <2>1, Remainder
<1>4. ~Abstract!Whole(b, p, n) => b.size[p] - n >= 32
  BY <1>1 DEF Abstract!Whole
<1> QED BY <1>2, <1>3, <1>4 DEF place, Abstract!Whole

\* A block larger than needed is placed, and TOH follows if it was the last one.
LEMMA GiveSound ==
  ASSUME NEW h, NEW b, Rep(h, b), NEW p \in Frees(b), NEW n \in Nat, n >= 32, n % 16 = 0,
         n <= b.size[p], NEW r, r = MallocFit(h, p, n), NEW c, c = Abstract!MallocAt(b, p, n)
  PROVE  /\ r.p = p /\ Yields(h, b, r.h, c, b.used)
         /\ c.used = b.used \cup {p} /\ c.size[p] >= n /\ c.brk = b.brk
<1> DEFINE a == Abstract!place(b, p, n)
           s == Abstract!Allocated(b, p, n)
           g == place(h, p, n).h
<1>1. Sound(h, b) /\ h.TOH = b.TOH /\ TopFits(b) /\ Marked(h, b) /\ Tiles(b) /\ Unmerged(b)
      /\ p \in DOMAIN b.size
  BY DEF Rep, Sound, Marked, Frees
<1>2. /\ p \in Nat /\ b.size[p] \in Nat /\ End(b, p) = p + b.size[p] /\ End(b, p) <= b.brk
      /\ b.brk <= Top /\ b.brk \in Nat /\ SizeMod \in Nat /\ Top \in Nat /\ Top + Top < SizeMod
  BY <1>1, BlockWords, EdgeWords, Sizing
<1>3. /\ place(h, p, n) = IF Abstract!Whole(b, p, n)
                          THEN [h |-> PlaceWhole(h, p), size |-> b.size[p]]
                          ELSE [h |-> PlaceSplit(h, p, n), size |-> n]
      /\ ~Abstract!Whole(b, p, n) => b.size[p] - n >= 32
  BY <1>1, PlaceCases
<1>4. /\ Placed(h, b, g, a, p) /\ place(h, p, n).size = s /\ s \in Nat /\ n <= s /\ s <= b.size[p]
      /\ a.size[p] = s
      /\ \A x \in Frees(b) \ {p} : x \in Frees(a) /\ End(a, x) = End(b, x)
      /\ p + s = End(b, p) \/ (p + s \in Frees(a) /\ End(a, p + s) = End(b, p))
  <2>1. CASE Abstract!Whole(b, p, n)
    <3>1. a = Abstract!Use(b, p) /\ s = b.size[p]
      BY <2>1 DEF Abstract!place, Abstract!Allocated
    <3>2. g = PlaceWhole(h, p) /\ place(h, p, n).size = b.size[p]
      BY <1>3, <2>1
    <3> HIDE DEF a, g
    <3>3. Placed(h, b, g, a, p)
      BY <1>1, <3>1, <3>2, WholeSound
    <3>4. a.size = b.size
      BY <3>1 DEF Abstract!Use, Abstract!Heap
    <3>5. \A x \in Frees(b) \ {p} : x \in Frees(a) /\ End(a, x) = End(b, x)
      BY <3>3, <3>4 DEF Placed, Frees, End
    <3> QED BY <1>2, <3>1, <3>2, <3>3, <3>4, <3>5
  <2>2. CASE ~Abstract!Whole(b, p, n)
    <3>1. a = Abstract!Use(Abstract!Split(b, p, n), p) /\ s = n /\ b.size[p] - n >= 32
      BY <1>3, <2>2 DEF Abstract!place, Abstract!Allocated
    <3>2. g = PlaceSplit(h, p, n) /\ place(h, p, n).size = n
      BY <1>3, <2>2
    <3> HIDE DEF a, g, s
    <3>3. /\ Placed(h, b, g, a, p)
          /\ a.size[p] = n /\ p + n \in Frees(a) /\ End(a, p + n) = End(b, p)
          /\ Frees(a) = (Frees(b) \ {p}) \cup {p + n}
          /\ \A x \in Frees(b) \ {p} : End(a, x) = End(b, x)
      BY <1>1, <3>1, <3>2, CutSound
    <3> QED BY <1>2, <3>1, <3>2, <3>3
  <2> QED BY <2>1, <2>2
<1>5. /\ Sound(g, a) /\ Kept(h, b, g, a, b.used) /\ g.TOH = h.TOH /\ g.fault = h.fault
      /\ a.used = b.used \cup {p} /\ a.brk = b.brk /\ a.TOH = b.TOH
  BY <1>4 DEF Placed
<1>6. CASE p = b.TOH
  <2>1. r = AboveTop(place(h, p, n), p)
    BY <1>1, <1>6 DEF MallocFit
  <2>2. (p + s) % SizeMod = p + s /\ p + s \in Nat
    <3> HIDE DEF s
    <3>1. p + s \in Nat /\ p + s < SizeMod
      BY <1>2, <1>4
    <3> QED BY <1>2, <3>1, Remainder
  <2>3. r.p = p /\ r.h = [g EXCEPT !.TOH = p + s]
    BY <1>4, <2>1, <2>2 DEF AboveTop
  <2>4. c = Abstract!SetTOH(a, p + s)
    BY <1>6 DEF Abstract!MallocAt
  <2>5. End(b, p) = b.brk
    BY <1>1, <1>6, BreakApart DEF TopFits
  <2> HIDE DEF a, s, g
  <2> DEFINE t == p + s
  <2>6. t \in Nat /\ r.h = [g EXCEPT !.TOH = t] /\ c = Abstract!SetTOH(a, t)
        /\ (t = b.brk \/ (t \in Frees(a) /\ End(a, t) = b.brk))
    BY <1>4, <2>2, <2>3, <2>4, <2>5
  <2> HIDE DEF t
  <2>7. /\ Sound([g EXCEPT !.TOH = t], Abstract!SetTOH(a, t))
        /\ Frees(Abstract!SetTOH(a, t)) = Frees(a)
        /\ \A x : End(Abstract!SetTOH(a, t), x) = End(a, x)
        /\ [g EXCEPT !.TOH = t].fault = g.fault /\ [g EXCEPT !.TOH = t].TOH = t
        /\ [g EXCEPT !.TOH = t].mem = g.mem
        /\ Abstract!SetTOH(a, t).used = a.used
        /\ Abstract!SetTOH(a, t).brk = a.brk /\ Abstract!SetTOH(a, t).TOH = t
    BY <1>5, <2>6, TopSet
  <2>8. c.size = a.size
    BY <2>6 DEF Abstract!SetTOH, Abstract!Heap
  <2>9. Sound(r.h, c) /\ r.h.TOH = c.TOH /\ TopFits(c) /\ r.h.mem = g.mem
    BY <1>5, <2>6, <2>7 DEF TopFits
  <2>10. Kept(h, b, r.h, c, b.used)
    BY <1>5, <2>8, <2>9 DEF Kept
  <2> QED BY <1>4, <1>5, <2>3, <2>6, <2>7, <2>8, <2>9, <2>10 DEF Yields, Rep
<1>7. CASE p # b.TOH
  <2>1. r.p = p /\ r.h = g /\ c = a
    BY <1>1, <1>7 DEF MallocFit, Abstract!MallocAt
  <2>2. TopFits(a)
    BY <1>1, <1>4, <1>5, <1>7 DEF TopFits
  <2> QED BY <1>1, <1>4, <1>5, <2>1, <2>2 DEF Yields, Rep
<1> QED BY <1>6, <1>7

(***************************************************************************)
(* Walks: along the blocks, and along the list.                            *)
(***************************************************************************)
\* Each of M states is the successor F[.] of the one before.
Stepwise(f, M, s0, F) == f[1] = s0 /\ \A n \in 2 .. M : f[n] = F[f[n - 1]]
Closed(S, F) == \A s \in S : F[s] \in S

\* There are such states, from any first one.
LEMMA WalkExists ==
  ASSUME NEW M \in Nat, M >= 1, NEW S, NEW s0 \in S, NEW F, Closed(S, F)
  PROVE  \E f \in [1 .. M -> S] : Stepwise(f, M, s0, F)
<1> DEFINE E == [n \in 1 .. M - 1 |-> F]
<1>1. M - 1 \in Nat /\ \A n \in 1 .. M - 1 : E[n] = F
  OBVIOUS
<1>2. \A n \in 1 .. M - 1 : \A s \in S : E[n][s] \in S
  BY <1>1 DEF Closed
<1> HIDE DEF E
<1>3. PICK g \in [0 .. M - 1 -> S] : Iterated(g, M - 1, s0, E)
  BY ONLY <1>1, <1>2, s0 \in S, Iterates
<1> DEFINE f == [n \in 1 .. M |-> g[n - 1]]
<1>4. \A n \in 1 .. M : n - 1 \in 0 .. M - 1 /\ f[n] = g[n - 1] /\ f[n] \in S
  BY <1>3
<1>5. f[1] = s0
  <2>1. f[1] = g[0]
    BY <1>4
  <2> QED BY <1>3, <2>1 DEF Iterated
<1>6. ASSUME NEW n \in 2 .. M PROVE f[n] = F[f[n - 1]]
  <2>1. n - 1 \in 1 .. M - 1 /\ n \in 1 .. M /\ n - 1 \in 1 .. M
    OBVIOUS
  <2>2. g[n - 1] = E[n - 1][g[(n - 1) - 1]] /\ E[n - 1] = F
    BY <1>1, <1>3, <2>1 DEF Iterated
  <2> QED BY <1>4, <2>1, <2>2
<1>7. f \in [1 .. M -> S]
  BY <1>4
<1> QED BY <1>5, <1>6, <1>7 DEF Stepwise

\* The bound on the walks.
LEMMA MaxBlocksFacts ==
  MaxBlocks \in Nat /\ MaxBlocks >= 1 /\ 48 + 32 * (MaxBlocks - 1) > Top
<1>1. MaxHeap \in Nat /\ Top = 16 + MaxHeap
  BY Sizing DEF Top
<1>2. MaxHeap \div 32 \in Nat /\ 32 * (MaxHeap \div 32) > MaxHeap - 32
  BY <1>1
<1> QED BY <1>1, <1>2 DEF MaxBlocks

\* The walk of BlkSet
Walk(h, f) ==
  f = [n \in 1 .. MaxBlocks |->
         IF n = 1 THEN FirstBlk
         ELSE LET q == f[n - 1] IN IF q < h.brk THEN next_blk(h, q) ELSE q]

\* The blocks can be walked.
LEMMA BlockWalk ==
  ASSUME NEW h, NEW b, Marked(h, b)
  PROVE  \E f : Walk(h, f)
<1> DEFINE S == DOMAIN b.size \cup {b.brk}
           F == [q \in S |-> IF q < h.brk THEN next_blk(h, q) ELSE q]
<1>1. Tiles(b) /\ h.brk = b.brk
  BY DEF Marked
<1>2. ASSUME NEW q \in S PROVE F[q] \in S
  <2>1. CASE q < h.brk
    <3>1. q \in DOMAIN b.size
      BY <1>1, <2>1, EdgeWords
    <3>2. next_blk(h, q) = End(b, q) /\ End(b, q) \in S
      BY <1>1, <3>1, Reads DEF Tiles, Block
    <3> QED BY <2>1, <3>2
  <2>2. CASE ~(q < h.brk)
    BY <2>2
  <2> QED BY <2>1, <2>2
<1>3. FirstBlk \in S
  BY <1>1 DEF Tiles
<1>4. \A q \in S : F[q] = IF q < h.brk THEN next_blk(h, q) ELSE q
  OBVIOUS
<1>5. MaxBlocks \in Nat /\ MaxBlocks >= 1
  BY MaxBlocksFacts
<1> HIDE DEF F, S
<1>6. PICK f \in [1 .. MaxBlocks -> S] : Stepwise(f, MaxBlocks, FirstBlk, F)
  <2>1. Closed(S, F)
    BY <1>2 DEF Closed
  <2> QED BY ONLY <1>3, <1>5, <2>1, WalkExists
<1>7. \A n \in 1 .. MaxBlocks :
        f[n] = IF n = 1 THEN FirstBlk
               ELSE LET q == f[n - 1] IN IF q < h.brk THEN next_blk(h, q) ELSE q
  <2>1. \A n \in 1 .. MaxBlocks : n = 1 \/ (n \in 2 .. MaxBlocks /\ n - 1 \in 1 .. MaxBlocks)
    BY <1>5
  <2> QED BY <1>4, <1>6, <2>1 DEF Stepwise
<1>8. f = [n \in 1 .. MaxBlocks |->
             IF n = 1 THEN FirstBlk
             ELSE LET q == f[n - 1] IN IF q < h.brk THEN next_blk(h, q) ELSE q]
  BY <1>6, <1>7
<1> QED BY <1>8 DEF Walk

\* The walk meets every block, and then the break.
LEMMA WalkBlocks ==
  ASSUME NEW h, NEW b, Marked(h, b), NEW f, Walk(h, f)
  PROVE  {f[n] : n \in 1 .. MaxBlocks} = DOMAIN b.size \cup {b.brk}
<1> DEFINE D == DOMAIN b.size
           I == {n \in Nat : n + 1 <= MaxBlocks =>
                   /\ f[n + 1] \in D \cup {b.brk}
                   /\ f[n + 1] = b.brk \/ f[n + 1] >= 48 + 32 * n
                   /\ \A x \in D : x < f[n + 1] => \E m \in 1 .. MaxBlocks : f[m] = x}
<1>1. Tiles(b) /\ h.brk = b.brk /\ b.brk \in Nat /\ FirstBlk = 48 /\ b.brk <= Top /\ Top \in Nat
  BY EdgeWords, Sizing DEF Marked
<1>2. \A x \in D : /\ x \in Nat /\ End(b, x) \in Nat /\ x + 32 <= End(b, x) /\ x < b.brk
                   /\ End(b, x) \in D \cup {b.brk} /\ 48 <= x
  <2> TAKE x \in D
  <2>1. /\ x \in Nat /\ End(b, x) \in Nat /\ x + 32 <= End(b, x) /\ End(b, x) <= b.brk /\ 48 <= x
    BY <1>1, BlockWords
  <2>2. End(b, x) \in D \cup {b.brk}
    BY <1>1 DEF Tiles, Block
  <2> QED BY <1>1, <2>1, <2>2
<1>3. \A n \in 1 .. MaxBlocks :
        f[n] = IF n = 1 THEN FirstBlk ELSE IF f[n - 1] < h.brk THEN next_blk(h, f[n - 1]) ELSE f[n - 1]
  BY DEF Walk
<1>4. MaxBlocks \in Nat /\ MaxBlocks >= 1 /\ 48 + 32 * (MaxBlocks - 1) > Top
  BY MaxBlocksFacts
<1>5. 0 \in I
  <2>1. 0 + 1 = 1 /\ 1 \in 1 .. MaxBlocks /\ f[1] = 48 /\ 48 + 32 * 0 = 48
    BY <1>1, <1>3, <1>4
  <2>2. 48 \in D \cup {b.brk}
    BY <1>1 DEF Tiles
  <2>3. \A x \in D : ~(x < 48)
    BY <1>2
  <2> QED BY <2>1, <2>2, <2>3
<1>6. ASSUME NEW n \in Nat, n \in I PROVE n + 1 \in I
  <2> DEFINE q == f[n + 1]
             z == f[(n + 1) + 1]
  <2> SUFFICES ASSUME (n + 1) + 1 <= MaxBlocks
               PROVE  /\ z \in D \cup {b.brk}
                      /\ z = b.brk \/ z >= 48 + 32 * (n + 1)
                      /\ \A x \in D : x < z => \E m \in 1 .. MaxBlocks : f[m] = x
    OBVIOUS
  <2>1. /\ q \in D \cup {b.brk} /\ (q = b.brk \/ q >= 48 + 32 * n)
        /\ \A x \in D : x < q => \E m \in 1 .. MaxBlocks : f[m] = x
    BY <1>4, <1>6
  <2>2. (n + 1) + 1 \in 1 .. MaxBlocks /\ (n + 1) + 1 # 1 /\ ((n + 1) + 1) - 1 = n + 1
        /\ n + 1 \in 1 .. MaxBlocks
    BY <1>4
  <2>3. z = IF q < h.brk THEN next_blk(h, q) ELSE q
    BY <1>3, <2>2
  <2>4. \E m \in 1 .. MaxBlocks : f[m] = q
    BY <2>2
  <2> HIDE DEF q, z
  <2>5. CASE q = b.brk
    <3>1. z = b.brk
      BY <1>1, <2>3, <2>5
    <3> QED BY <2>1, <2>5, <3>1
  <2>6. CASE q # b.brk
    <3>1. q \in D /\ q < h.brk
      BY <1>1, <1>2, <2>1, <2>6
    <3>2. z = End(b, q)
      BY <2>3, <3>1, Reads
    <3>3. z \in D \cup {b.brk} /\ z >= 48 + 32 * (n + 1)
      <4>1. q >= 48 + 32 * n /\ q + 32 <= z /\ q \in Nat /\ z \in Nat
        BY <1>2, <2>1, <2>6, <3>1, <3>2
      <4>2. 48 + 32 * n + 32 = 48 + 32 * (n + 1)
        OBVIOUS
      <4> QED BY <1>2, <3>1, <3>2, <4>1, <4>2
    <3>4. ASSUME NEW x \in D, x < z PROVE \E m \in 1 .. MaxBlocks : f[m] = x
      <4>1. x <= q
        BY <1>1, <3>1, <3>2, <3>4, BlocksApart
      <4>2. x = q \/ x < q
        <5>1. x \in Nat /\ q \in Nat
          BY <1>2, <3>1
        <5> QED BY <4>1, <5>1
      <4> QED BY <2>1, <2>4, <4>2
    <3> QED BY <3>3, <3>4
  <2> QED BY <2>5, <2>6
<1>7. \A n \in Nat : n \in I
  <2> HIDE DEF I
  <2> QED BY <1>5, <1>6, Induction
<1>8. \A n \in 1 .. MaxBlocks : f[n] \in D \cup {b.brk}
  <2> TAKE n \in 1 .. MaxBlocks
  <2>1. n - 1 \in Nat /\ (n - 1) + 1 = n /\ n <= MaxBlocks
    BY <1>4
  <2>2. n - 1 \in I
    BY <1>7, <2>1
  <2> QED BY <2>1, <2>2
<1>9. f[MaxBlocks] = b.brk /\ MaxBlocks \in 1 .. MaxBlocks
      /\ \A x \in D : x < f[MaxBlocks] => \E m \in 1 .. MaxBlocks : f[m] = x
  <2> DEFINE n == MaxBlocks - 1
  <2>1. n \in Nat /\ n + 1 = MaxBlocks /\ n \in I
    BY <1>4, <1>7
  <2>2. /\ f[n + 1] \in D \cup {b.brk}
        /\ f[n + 1] = b.brk \/ f[n + 1] >= 48 + 32 * n
        /\ \A x \in D : x < f[n + 1] => \E m \in 1 .. MaxBlocks : f[m] = x
    BY <1>4, <2>1
  <2> HIDE DEF n
  <2>3. f[n + 1] # b.brk => f[n + 1] \in D /\ f[n + 1] < b.brk /\ f[n + 1] \in Nat
    BY <1>2, <2>2
  <2>4. 48 + 32 * n > Top
    BY <1>4 DEF n
  <2>5. f[n + 1] = b.brk
    BY <1>1, <2>1, <2>2, <2>3, <2>4
  <2> QED BY <1>4, <2>1, <2>2, <2>5
<1>10. \A x \in D : \E m \in 1 .. MaxBlocks : f[m] = x
  BY <1>2, <1>9
<1> QED BY <1>8, <1>9, <1>10

\* What BlkSet reads are the blocks.
LEMMA BlocksRead ==
  ASSUME NEW h, NEW b, Marked(h, b)
  PROVE  /\ BlkSet(h) = DOMAIN b.size \cup {b.brk}
         /\ Blks(h) = DOMAIN b.size /\ FreeBlks(h) = Frees(b)
<1> DEFINE IsWalk(f) == f = [n \in 1 .. MaxBlocks |->
                               IF n = 1 THEN FirstBlk
                               ELSE LET q == f[n - 1]
                                    IN  IF q < h.brk THEN next_blk(h, q) ELSE q]
           at == CHOOSE f : IsWalk(f)
<1>1. IsWalk(at)
  <2>1. \E f : IsWalk(f)
    BY BlockWalk DEF Walk
  <2> QED BY ONLY <2>1
<1>2. BlkSet(h) = {at[n] : n \in 1 .. MaxBlocks}
  BY DEF BlkSet
<1>3. Walk(h, at)
  BY <1>1 DEF Walk
<1> HIDE DEF at
<1>4. BlkSet(h) = DOMAIN b.size \cup {b.brk}
  BY <1>2, <1>3, WalkBlocks
<1>5. Tiles(b) /\ h.brk = b.brk
  BY DEF Marked
<1>6. \A x \in DOMAIN b.size : x < b.brk
  <2> TAKE x \in DOMAIN b.size
  <2>1. x \in Nat /\ x + 32 <= End(b, x) /\ End(b, x) <= b.brk /\ End(b, x) \in Nat /\ b.brk \in Nat
    BY <1>5, BlockWords, EdgeWords
  <2> QED BY <2>1
<1>7. Blks(h) = DOMAIN b.size
  <2>1. ~(b.brk < b.brk)
    BY <1>5, EdgeWords
  <2> QED BY <1>4, <1>5, <1>6, <2>1 DEF Blks
<1>8. FreeBlks(h) = Frees(b)
  <2>1. \A p \in DOMAIN b.size : get_alloc(h, GHA(p)) = 0 <=> p \notin b.used
    BY Reads DEF Bit
  <2> QED BY <1>7, <2>1 DEF FreeBlks, Frees
<1> QED BY <1>4, <1>7, <1>8

\* There are fewer blocks than steps in a walk.
LEMMA FreesBounded ==
  ASSUME NEW h, NEW b, Marked(h, b)
  PROVE  IsFiniteSet(Frees(b)) /\ Cardinality(Frees(b)) \in Nat
         /\ Cardinality(Frees(b)) <= MaxBlocks
<1> DEFINE I == 1 .. MaxBlocks
           T == DOMAIN b.size \cup {b.brk}
<1>1. PICK f : Walk(h, f)
  BY BlockWalk
<1>2. {f[n] : n \in I} = T
  BY <1>1, WalkBlocks
<1>3. DOMAIN f = I /\ f = [n \in I |-> f[n]]
  BY <1>1 DEF Walk
<1>4. f \in Surjection(I, T)
  <2>1. f \in [I -> T]
    BY <1>2, <1>3
  <2>2. \A t \in T : \E n \in I : f[n] = t
    BY <1>2
  <2> HIDE DEF I, T
  <2> QED BY <2>1, <2>2 DEF Surjection
<1>5. MaxBlocks \in Nat /\ MaxBlocks >= 1
  BY MaxBlocksFacts
<1>6. IsFiniteSet(I) /\ Cardinality(I) = MaxBlocks
  <2>1. 1 \in Int /\ MaxBlocks \in Int /\ ~(1 > MaxBlocks) /\ MaxBlocks - 1 + 1 = MaxBlocks
    BY <1>5
  <2> QED BY <2>1, FS_Interval
<1> HIDE DEF I
<1>7. IsFiniteSet(T) /\ Cardinality(T) <= Cardinality(I)
  BY <1>4, <1>6, FS_Surjection
<1>8. Frees(b) \in SUBSET T
  BY DEF Frees
<1> HIDE DEF T
<1>9. IsFiniteSet(Frees(b)) /\ Cardinality(Frees(b)) <= Cardinality(T)
  BY <1>7, <1>8, FS_Subset
<1>10. Cardinality(Frees(b)) \in Nat /\ Cardinality(T) \in Nat
  BY <1>7, <1>9, FS_CardinalityType
<1> QED BY <1>5, <1>6, <1>7, <1>9, <1>10

\* The walk of FreeChain
Chase(h, f) ==
  f = [n \in 1 .. MaxBlocks |->
         IF n = 1 THEN h.free_root
         ELSE LET q == f[n - 1] IN IF q = NULL THEN NULL ELSE succ(h, q)]

\* f follows the list: each free block is at its place.
Places(h, b, f, K) ==
  /\ \A x \in Frees(b) : K[x] \in 1 .. MaxBlocks /\ f[K[x]] = x
  /\ \A n \in 1 .. MaxBlocks : f[n] = NULL \/ (f[n] \in Frees(b) /\ K[f[n]] = n)
  /\ \A n \in 1 .. MaxBlocks : f[n] # NULL => pred(h, f[n]) = IF n = 1 THEN NULL ELSE f[n - 1]

\* The links of the list, as they are read.
LEMMA ListReads ==
  ASSUME NEW h, NEW b, Marked(h, b), Listed(h, Frees(b))
  PROVE  \E P, S : /\ Chained(Frees(b), h.free_root, P, S)
                   /\ \A x \in Frees(b) : pred(h, x) = P[x] /\ succ(h, x) = S[x]
<1>1. PICK P, S : /\ Chained(Frees(b), h.free_root, P, S)
                  /\ \A x \in Frees(b) : h.mem[x] = P[x] /\ h.mem[x + 8] = S[x]
  BY DEF Listed
<1>2. ASSUME NEW x \in Frees(b) PROVE pred(h, x) = P[x] /\ succ(h, x) = S[x]
  <2>1. x \in Words /\ x + 8 \in Words /\ h \in Heaps
    BY BlockWords DEF Frees, Marked
  <2> QED BY <1>1, <2>1, GetWord DEF pred, succ
<1> QED BY <1>1, <1>2

\* The list can be walked.
LEMMA ChainWalk ==
  ASSUME NEW h, NEW b, Marked(h, b), Listed(h, Frees(b))
  PROVE  \E f : Chase(h, f)
<1> DEFINE S == Frees(b) \cup {NULL}
           F == [q \in S |-> IF q = NULL THEN NULL ELSE succ(h, q)]
<1>1. PICK P, L : /\ Chained(Frees(b), h.free_root, P, L)
                  /\ \A x \in Frees(b) : pred(h, x) = P[x] /\ succ(h, x) = L[x]
  BY ListReads
<1>2. h.free_root \in S /\ \A x \in Frees(b) : L[x] \in S
  BY <1>1 DEF Chained, Linked
<1>3. \A q \in S : F[q] = IF q = NULL THEN NULL ELSE succ(h, q)
  OBVIOUS
<1>4. Closed(S, F)
  <2>1. ASSUME NEW q \in S PROVE F[q] \in S
    <3>1. CASE q = NULL
      BY <3>1
    <3>2. CASE q # NULL
      BY <1>1, <1>2, <3>2
    <3> QED BY <3>1, <3>2
  <2> HIDE DEF F, S
  <2> QED BY <2>1 DEF Closed
<1>5. MaxBlocks \in Nat /\ MaxBlocks >= 1
  BY MaxBlocksFacts
<1> HIDE DEF F, S
<1>6. PICK f \in [1 .. MaxBlocks -> S] : Stepwise(f, MaxBlocks, h.free_root, F)
  BY ONLY <1>2, <1>4, <1>5, WalkExists
<1>7. \A n \in 1 .. MaxBlocks :
        f[n] = IF n = 1 THEN h.free_root
               ELSE LET q == f[n - 1] IN IF q = NULL THEN NULL ELSE succ(h, q)
  <2>1. \A n \in 1 .. MaxBlocks : n = 1 \/ (n \in 2 .. MaxBlocks /\ n - 1 \in 1 .. MaxBlocks)
    BY <1>5
  <2> QED BY <1>3, <1>6, <2>1 DEF Stepwise
<1>8. f = [n \in 1 .. MaxBlocks |->
             IF n = 1 THEN h.free_root
             ELSE LET q == f[n - 1] IN IF q = NULL THEN NULL ELSE succ(h, q)]
  BY <1>6, <1>7
<1> QED BY <1>8 DEF Chase

\* The walk meets every free block, once, at the place its rank says.
LEMMA ChasePlaces ==
  ASSUME NEW h, NEW b, Marked(h, b), Listed(h, Frees(b)), NEW f, Chase(h, f)
  PROVE  \E K : Places(h, b, f, K)
<1> DEFINE F == Frees(b)
           r == h.free_root
<1>1. PICK P, S : /\ Chained(F, r, P, S)
                  /\ \A x \in F : pred(h, x) = P[x] /\ succ(h, x) = S[x]
  BY ListReads
<1>2. PICK K : Ranked(F, r, S, K)
  BY <1>1 DEF Chained
<1>3. /\ r \in F \cup {NULL}
      /\ \A x \in F : P[x] \in F \cup {NULL} /\ S[x] \in F \cup {NULL} /\ (P[x] = NULL <=> x = r)
      /\ \A x \in F : P[x] # NULL => S[P[x]] = x
      /\ NULL \notin F
  BY <1>1 DEF Chained, Linked
<1>4. Cardinality(F) \in Nat /\ Cardinality(F) <= MaxBlocks
  BY FreesBounded
<1>5. MaxBlocks \in Nat /\ MaxBlocks >= 1
  BY MaxBlocksFacts
<1>6. /\ \A x \in F : K[x] \in Nat /\ K[x] >= 1 /\ K[x] <= MaxBlocks
      /\ \A x \in F : K[x] = 1 <=> x = r
      /\ \A x \in F : S[x] # NULL => K[S[x]] = K[x] + 1
  <2>1. \A x \in F : K[x] \in 1 .. Cardinality(F)
    BY <1>2 DEF Ranked
  <2>2. \A x \in F : K[x] \in Nat /\ K[x] >= 1 /\ K[x] <= MaxBlocks
    BY <1>4, <1>5, <2>1
  <2> QED BY <1>2, <2>2 DEF Ranked
<1>7. \A n \in 1 .. MaxBlocks :
        f[n] = IF n = 1 THEN r ELSE IF f[n - 1] = NULL THEN NULL ELSE succ(h, f[n - 1])
  BY DEF Chase
<1> HIDE DEF F, r
<1>8. \A n \in Nat : n + 1 <= MaxBlocks => f[n + 1] = NULL \/ (f[n + 1] \in F /\ K[f[n + 1]] = n + 1)
  <2> DEFINE I == {n \in Nat : n + 1 <= MaxBlocks =>
                     f[n + 1] = NULL \/ (f[n + 1] \in F /\ K[f[n + 1]] = n + 1)}
  <2>1. 0 \in I
    <3>1. 0 + 1 = 1 /\ 1 \in 1 .. MaxBlocks /\ f[1] = r
      BY <1>5, <1>7
    <3> QED BY <1>3, <1>6, <3>1
  <2>2. ASSUME NEW n \in Nat, n \in I PROVE n + 1 \in I
    <3> SUFFICES ASSUME (n + 1) + 1 <= MaxBlocks
                 PROVE  f[(n + 1) + 1] = NULL \/
                        (f[(n + 1) + 1] \in F /\ K[f[(n + 1) + 1]] = (n + 1) + 1)
      OBVIOUS
    <3>1. f[n + 1] = NULL \/ (f[n + 1] \in F /\ K[f[n + 1]] = n + 1)
      BY <1>5, <2>2
    <3>2. (n + 1) + 1 \in 1 .. MaxBlocks /\ (n + 1) + 1 # 1 /\ ((n + 1) + 1) - 1 = n + 1
      BY <1>5
    <3>3. f[(n + 1) + 1] = IF f[n + 1] = NULL THEN NULL ELSE succ(h, f[n + 1])
      BY <1>7, <3>2
    <3> QED BY <1>1, <1>3, <1>6, <3>1, <3>3
  <2>3. \A n \in Nat : n \in I
    <3> HIDE DEF I
    <3> QED BY <2>1, <2>2, Induction
  <2> QED BY <2>3
<1>9. \A k \in Nat : \A x \in F : K[x] = k + 1 => f[k + 1] = x
  <2> DEFINE I == {k \in Nat : \A x \in F : K[x] = k + 1 => f[k + 1] = x}
  <2>1. 0 \in I
    <3>1. 0 + 1 = 1 /\ 1 \in 1 .. MaxBlocks /\ f[1] = r
      BY <1>5, <1>7
    <3> QED BY <1>6, <3>1
  <2>2. ASSUME NEW k \in Nat, k \in I PROVE k + 1 \in I
    <3> SUFFICES ASSUME NEW x \in F, K[x] = (k + 1) + 1 PROVE f[(k + 1) + 1] = x
      OBVIOUS
    <3>1. K[x] # 1
      BY <2>2
    <3>2. P[x] \in F /\ P[x] # NULL /\ S[P[x]] = x /\ x # NULL
      BY <1>3, <1>6, <3>1
    <3>3. K[x] = K[P[x]] + 1 /\ K[P[x]] \in Nat
      BY <1>6, <3>2
    <3>4. K[P[x]] = k + 1
      BY <2>2, <3>3
    <3>5. f[k + 1] = P[x]
      BY <2>2, <3>2, <3>4
    <3>6. (k + 1) + 1 \in 1 .. MaxBlocks /\ (k + 1) + 1 # 1 /\ ((k + 1) + 1) - 1 = k + 1
      BY <1>5, <1>6, <2>2
    <3>7. f[(k + 1) + 1] = succ(h, P[x])
      BY <1>7, <3>2, <3>5, <3>6
    <3> QED BY <1>1, <3>2, <3>7
  <2>3. \A k \in Nat : k \in I
    <3> HIDE DEF I
    <3> QED BY <2>1, <2>2, Induction
  <2> QED BY <2>3
<1>10. ASSUME NEW x \in F PROVE K[x] \in 1 .. MaxBlocks /\ f[K[x]] = x
  <2>1. K[x] \in Nat /\ K[x] >= 1 /\ K[x] <= MaxBlocks
    BY <1>6
  <2>2. K[x] - 1 \in Nat /\ K[x] = (K[x] - 1) + 1
    BY <2>1
  <2> QED BY <1>5, <1>9, <2>1, <2>2
<1>11. ASSUME NEW n \in 1 .. MaxBlocks PROVE f[n] = NULL \/ (f[n] \in F /\ K[f[n]] = n)
  <2>1. n - 1 \in Nat /\ n = (n - 1) + 1 /\ n <= MaxBlocks
    BY <1>5
  <2> QED BY <1>8, <2>1
<1>12. ASSUME NEW n \in 1 .. MaxBlocks, f[n] # NULL
       PROVE  pred(h, f[n]) = IF n = 1 THEN NULL ELSE f[n - 1]
  <2> DEFINE x == f[n]
  <2>1. x \in F /\ K[x] = n /\ pred(h, x) = P[x]
    BY <1>1, <1>11, <1>12
  <2> HIDE DEF x
  <2>2. CASE n = 1
    BY <1>3, <1>6, <2>1, <2>2 DEF x
  <2>3. CASE n # 1
    <3>1. P[x] \in F /\ P[x] # NULL /\ S[P[x]] = x /\ x # NULL
      BY <1>3, <1>6, <2>1, <2>3
    <3>2. K[x] = K[P[x]] + 1 /\ K[P[x]] \in Nat
      BY <1>6, <3>1
    <3>3. K[P[x]] = n - 1
      BY <1>5, <2>1, <3>2
    <3>4. f[n - 1] = P[x]
      BY <1>10, <3>1, <3>3
    <3> QED BY <2>1, <2>3, <3>4 DEF x
  <2> QED BY <2>2, <2>3
<1> QED BY <1>10, <1>11, <1>12 DEF Places, F

\* What FreeChain returns is such a walk.
LEMMA ChainPlaces ==
  ASSUME NEW h, NEW b, Marked(h, b), Listed(h, Frees(b))
  PROVE  \E K : Places(h, b, FreeChain(h), K)
<1> DEFINE IsChain(f) == f = [n \in 1 .. MaxBlocks |->
                                IF n = 1 THEN h.free_root
                                ELSE LET q == f[n - 1] IN IF q = NULL THEN NULL ELSE succ(h, q)]
           chain == CHOOSE f : IsChain(f)
<1>1. IsChain(chain)
  <2>1. \E f : IsChain(f)
    BY ChainWalk DEF Chase
  <2> QED BY ONLY <2>1
<1>2. FreeChain(h) = [n \in 1 .. MaxBlocks |-> chain[n]]
  BY DEF FreeChain
<1> HIDE DEF chain
<1>3. chain = [n \in 1 .. MaxBlocks |-> chain[n]]
  BY <1>1
<1>4. Chase(h, chain)
  BY <1>1 DEF Chase
<1> QED BY <1>2, <1>3, <1>4, ChasePlaces

\* find_fit returns a free block with more bytes than asked for, if there is one
\* (mm.c:374-392).
LEMMA FitFound ==
  ASSUME NEW h, NEW b, Sound(h, b), NEW n \in Nat
  PROVE  \/ find_fit(h, n) \in Frees(b) /\ b.size[find_fit(h, n)] > n
         \/ find_fit(h, n) = NULL /\ Abstract!NoFit(b, n)
<1> DEFINE chain == FreeChain(h)
           fits == {m \in 1 .. MaxBlocks : chain[m] # NULL /\ get_size(h, GHA(chain[m])) > n}
<1>1. Marked(h, b) /\ Listed(h, Frees(b)) /\ Tiles(b)
  BY DEF Sound, Marked
<1>2. PICK K : Places(h, b, chain, K)
  BY <1>1, ChainPlaces
<1> HIDE DEF chain
<1>3. \A x \in Frees(b) : get_size(h, GHA(x)) = b.size[x] /\ b.size[x] \in Nat /\ x # NULL
  BY <1>1, Reads, BlockWords DEF Frees
<1>4. find_fit(h, n) = IF fits = {} THEN NULL ELSE chain[CHOOSE m \in fits : \A k \in fits : m <= k]
  BY DEF find_fit, chain
<1>5. CASE fits = {}
  <2>1. \A x \in Frees(b) : ~(b.size[x] > n)
    BY <1>2, <1>3, <1>5 DEF Places
  <2>2. Abstract!NoFit(b, n)
    BY <1>3, <2>1 DEF Abstract!NoFit, Abstract!FreeBlocks, Frees
  <2> QED BY <1>4, <1>5, <2>2
<1>6. CASE fits # {}
  <2> DEFINE m == CHOOSE m \in fits : \A k \in fits : m <= k
  <2>1. m \in fits
    <3>1. fits \in SUBSET Nat
      OBVIOUS
    <3> HIDE DEF fits
    <3>2. \E i \in fits : \A k \in fits : i <= k
      BY <1>6, <3>1, LeastExists
    <3> QED BY <3>2
  <2>2. find_fit(h, n) = chain[m]
    BY <1>4, <1>6
  <2> HIDE DEF m
  <2>3. chain[m] \in Frees(b) /\ get_size(h, GHA(chain[m])) > n
    BY <1>2, <2>1 DEF Places
  <2> QED BY <1>3, <2>2, <2>3
<1> QED BY <1>5, <1>6

(***************************************************************************)
(* GrowTo.                                                                 *)
(***************************************************************************)
\* Some pages.
LEMMA Pages ==
  /\ 0 * Page = 0
  /\ \A k \in Nat : k * Page \in Nat /\ (k + 1) * Page = k * Page + Page /\ (k * Page) % 16 = 0
  /\ \A k \in Nat : k >= 1 => k * Page >= 32
  /\ \A k \in Nat : k * Page <= MaxHeap => k <= MaxHeap \div Page
  /\ MaxHeap \div Page \in Nat
<1>1. Page \in Nat /\ Page >= 32 /\ Page % 16 = 0 /\ MaxHeap \in Nat
  BY Sizing
<1>2. ASSUME NEW k \in Nat
      PROVE  k * Page \in Nat /\ (k + 1) * Page = k * Page + Page
  BY <1>1
<1>3. \A k \in Nat : (k * Page) % 16 = 0
  <2> DEFINE I == {k \in Nat : (k * Page) % 16 = 0}
  <2>1. 0 \in I
    BY <1>1
  <2>2. ASSUME NEW k \in Nat, k \in I PROVE k + 1 \in I
    <3> DEFINE x == k * Page
    <3>1. x \in Nat /\ x % 16 = 0 /\ (k + 1) * Page = x + Page
      BY <1>2, <2>2
    <3> HIDE DEF x
    <3>2. (x + Page) % 16 = 0
      BY <1>1, <3>1, Granules
    <3> QED BY <3>1, <3>2
  <2>3. \A k \in Nat : k \in I
    <3> HIDE DEF I
    <3> QED BY <2>1, <2>2, Induction
  <2> QED BY <2>3
<1>4. ASSUME NEW k \in Nat, k >= 1 PROVE k * Page >= 32
  <2>1. k - 1 \in Nat /\ k = (k - 1) + 1
    BY <1>4
  <2>2. k * Page = (k - 1) * Page + Page /\ (k - 1) * Page \in Nat
    BY <1>2, <2>1
  <2> QED BY <1>1, <2>2
<1>5. MaxHeap \div Page \in Nat /\ MaxHeap < (MaxHeap \div Page + 1) * Page
  BY <1>1
<1>6. ASSUME NEW k \in Nat, k * Page <= MaxHeap PROVE k <= MaxHeap \div Page
  <2> DEFINE d == MaxHeap \div Page + 1
  <2>1. d \in Nat /\ MaxHeap < d * Page
    BY <1>5
  <2> SUFFICES ~(d <= k)
    BY <1>5
  <2> HIDE DEF d
  <2>2. d <= k => d * Page <= k * Page
    BY <1>1, <2>1
  <2>3. k * Page \in Nat /\ d * Page \in Nat
    BY <1>1, <2>1
  <2> QED BY <1>1, <1>6, <2>1, <2>2, <2>3
<1>7. 0 * Page = 0
  BY <1>1
<1>8. MaxHeap \div Page \in Nat
  BY <1>5
<1>9. \A k \in Nat : k * Page \in Nat /\ (k + 1) * Page = k * Page + Page /\ (k * Page) % 16 = 0
  BY ONLY <1>2, <1>3
<1>10. (\A k \in Nat : k >= 1 => k * Page >= 32)
       /\ \A k \in Nat : k * Page <= MaxHeap => k <= MaxHeap \div Page
  BY ONLY <1>4, <1>6
<1> QED BY ONLY <1>7, <1>8, <1>9, <1>10

\* One round of GrowTo, and all rounds.
GrowStep(r, pos) == IF r.ok /\ pos > r.h.brk - 1 - 8 THEN allocate_page(r.h, Page) ELSE r
Rounds == MaxHeap \div Page + 1
Growth(h, pos, f, m) ==
  f = [i \in 0 .. m |-> IF i = 0 THEN [ok |-> TRUE, h |-> h] ELSE GrowStep(f[i - 1], pos)]

\* The rounds can be gone through.
LEMMA GrowthExists ==
  ASSUME NEW h, NEW pos
  PROVE  \E f : Growth(h, pos, f, Rounds)
<1> DEFINE I == {m \in Nat : \E f : Growth(h, pos, f, m)}
<1>1. 0 \in I
  <2>1. Growth(h, pos, [i \in 0 .. 0 |-> [ok |-> TRUE, h |-> h]], 0)
    BY DEF Growth
  <2> QED BY <2>1
<1>2. ASSUME NEW m \in Nat, m \in I PROVE m + 1 \in I
  <2>1. PICK f : Growth(h, pos, f, m)
    BY <1>2
  <2> DEFINE g == [i \in 0 .. m + 1 |-> IF i = m + 1 THEN GrowStep(f[m], pos) ELSE f[i]]
  <2>2. \A i \in 0 .. m : f[i] = IF i = 0 THEN [ok |-> TRUE, h |-> h] ELSE GrowStep(f[i - 1], pos)
    BY <2>1 DEF Growth
  <2>3. ASSUME NEW i \in 0 .. m + 1
        PROVE  g[i] = IF i = 0 THEN [ok |-> TRUE, h |-> h] ELSE GrowStep(g[i - 1], pos)
    <3>1. CASE i = m + 1
      <4>1. g[i] = GrowStep(f[m], pos) /\ g[m] = f[m] /\ i - 1 = m /\ i # 0
        BY <3>1
      <4> HIDE DEF g
      <4> QED BY <4>1
    <3>2. CASE i \in 0 .. m /\ i # 0
      <4>1. g[i] = f[i] /\ g[i - 1] = f[i - 1]
        BY <3>2
      <4> HIDE DEF g
      <4> QED BY <2>2, <3>2, <4>1
    <3>3. CASE i = 0
      <4>1. g[i] = f[0] /\ 0 \in 0 .. m
        BY <3>3
      <4> HIDE DEF g
      <4> QED BY <2>2, <3>3, <4>1
    <3> QED BY <3>1, <3>2, <3>3
  <2>4. g = [i \in 0 .. m + 1 |-> g[i]]
    OBVIOUS
  <2> HIDE DEF g
  <2>5. Growth(h, pos, g, m + 1)
    BY <2>3, <2>4 DEF Growth
  <2> QED BY <2>5
<1>3. \A m \in Nat : m \in I
  <2> HIDE DEF I
  <2> QED BY <1>1, <1>2, Induction
<1>4. Rounds \in Nat
  BY Pages, SMTT(60) DEF Rounds
<1> QED BY <1>3, <1>4

\* GrowTo is the last state of such rounds.
LEMMA GrowToIs ==
  ASSUME NEW h, NEW pos
  PROVE  \E f : Growth(h, pos, f, Rounds) /\ GrowTo(h, pos) = f[Rounds]
<1> DEFINE IsGrown(f) == f = [i \in 0 .. Rounds |->
                                IF i = 0 THEN [ok |-> TRUE, h |-> h]
                                ELSE LET r == f[i - 1]
                                     IN  IF r.ok /\ pos > r.h.brk - 1 - 8
                                         THEN allocate_page(r.h, Page) ELSE r]
           grown == CHOOSE f : IsGrown(f)
<1>1. IsGrown(grown)
  <2>1. \E f : IsGrown(f)
    <3>1. PICK f : Growth(h, pos, f, Rounds)
      BY GrowthExists
    <3>2. IsGrown(f)
      BY <3>1 DEF Growth, GrowStep
    <3> QED BY <3>2
  <2> QED BY ONLY <2>1
<1>2. GrowTo(h, pos) = grown[Rounds]
  BY DEF GrowTo, Rounds
<1> HIDE DEF grown
<1>3. Growth(h, pos, grown, Rounds)
  BY <1>1 DEF Growth, GrowStep
<1> QED BY <1>2, <1>3

\* The break after k pages
Extent(b, k) == b.brk + k * Page

\* g is h with k pages more, above t.
GrownBy(h, b, t, k, g) ==
  /\ Extent(b, k) <= Top
  /\ IF k = 0 THEN g = h
     ELSE LET c == Stretch(b, t, k * Page)
          IN  /\ Yields(h, b, g, c, b.used) /\ c.TOH = t /\ t \in Frees(c) /\ End(c, t) = c.brk
              /\ c.brk = Extent(b, k) /\ c.used = b.used

\* What the rounds come to after i of them: k pages, each of them needed, and they are
\* enough, or one page more cannot be had, or there are rounds to come.
Grown(h, b, t, pos, i, k, g, r) ==
  /\ k \in Nat /\ k <= i /\ GrownBy(h, b, t, k, g)
  /\ k > 0 => pos > Extent(b, k) - Page - 9
  /\ \/ r.ok /\ r.h = g /\ (k = i \/ pos <= Extent(b, k) - 9)
     \/ ~r.ok /\ r.h = [g EXCEPT !.fault = "oom"] /\ pos > Extent(b, k) - 9
        /\ Extent(b, k) + Page > Top

\* Where the break is after k pages.
LEMMA ExtentFacts ==
  ASSUME NEW b, Tiles(b)
  PROVE  /\ Extent(b, 0) = b.brk
         /\ \A k \in Nat : /\ Extent(b, k) \in Nat /\ Extent(b, k + 1) = Extent(b, k) + Page
                           /\ Extent(b, k) % 16 = 0
                           /\ Extent(b, k) <= Top => k <= MaxHeap \div Page
<1>1. b.brk \in Nat /\ b.brk % 16 = 0 /\ 48 <= b.brk /\ Page \in Nat /\ MaxHeap \in Nat
      /\ Top = 16 + MaxHeap
  BY EdgeWords, Sizing DEF Top
<1>2. Extent(b, 0) = b.brk
  BY <1>1, Pages DEF Extent
<1>3. ASSUME NEW k \in Nat
      PROVE  /\ Extent(b, k) \in Nat /\ Extent(b, k + 1) = Extent(b, k) + Page
             /\ Extent(b, k) % 16 = 0
             /\ Extent(b, k) <= Top => k <= MaxHeap \div Page
  <2> DEFINE x == k * Page
  <2>1. x \in Nat /\ (k + 1) * Page = x + Page /\ x % 16 = 0
        /\ (x <= MaxHeap => k <= MaxHeap \div Page)
    BY Pages
  <2>2. Extent(b, k) = b.brk + x /\ Extent(b, k + 1) = b.brk + (x + Page)
    BY <2>1 DEF Extent
  <2> HIDE DEF x
  <2>3. (b.brk + x) % 16 = 0
    BY <1>1, <2>1, Granules
  <2>4. Extent(b, k) \in Nat /\ Extent(b, k + 1) = Extent(b, k) + Page
    BY <1>1, <2>1, <2>2
  <2>5. Extent(b, k) <= Top => x <= MaxHeap
    BY <1>1, <2>1, <2>2
  <2>6. Extent(b, k) % 16 = 0
    BY <2>2, <2>3
  <2> QED BY ONLY <2>1, <2>4, <2>5, <2>6
<1> QED BY <1>2, <1>3

\* One page more.
LEMMA GrownOnce ==
  ASSUME NEW h, NEW b, Rep(h, b), NEW t, TopOf(b, t), NEW k \in Nat, NEW g,
         GrownBy(h, b, t, k, g), NEW r, r = allocate_page(g, Page)
  PROVE  /\ g.brk = Extent(b, k)
         /\ Extent(b, k) + Page <= Top => r.ok /\ GrownBy(h, b, t, k + 1, r.h)
         /\ Extent(b, k) + Page > Top => ~r.ok /\ r.h = [g EXCEPT !.fault = "oom"]
<1>1. Sound(h, b) /\ Tiles(b) /\ h.brk = b.brk
  BY DEF Rep, Sound, Marked
<1>2. Page \in Nat /\ Page >= 32 /\ Page % 16 = 0
  BY Sizing
<1>3. /\ Extent(b, 0) = b.brk /\ Extent(b, k) \in Nat /\ Extent(b, k + 1) = Extent(b, k) + Page
  BY <1>1, ExtentFacts
<1>4. CASE k = 0
  <2>1. g = h /\ Extent(b, k) = b.brk
    BY <1>3, <1>4 DEF GrownBy
  <2>2. ASSUME b.brk + Page <= Top PROVE r.ok /\ GrownBy(h, b, t, k + 1, r.h)
    <3> DEFINE c == Stretch(b, t, Page)
    <3>1. /\ r.ok /\ Yields(h, b, r.h, c, b.used)
          /\ c.TOH = t /\ c.brk = b.brk + Page /\ c.used = b.used
          /\ t \in Frees(c) /\ End(c, t) = c.brk
      BY <1>1, <1>2, <2>1, <2>2, PageSound
    <3>2. (k + 1) * Page = Page /\ k + 1 # 0
      BY <1>2, <1>4
    <3> HIDE DEF c
    <3>3. c = Stretch(b, t, (k + 1) * Page)
      BY <3>2 DEF c
    <3> QED BY <1>3, <2>1, <2>2, <3>1, <3>2, <3>3 DEF GrownBy
  <2>3. ASSUME b.brk + Page > Top PROVE ~r.ok /\ r.h = [g EXCEPT !.fault = "oom"]
    <3>1. r = [ok |-> FALSE, h |-> [g EXCEPT !.fault = "oom"]]
      BY <1>1, <1>2, <2>1, <2>3, NoPage
    <3> QED BY <3>1
  <2>4. g.brk = Extent(b, k)
    BY <1>1, <2>1
  <2>5. Extent(b, k) = b.brk
    BY <2>1
  <2> QED BY ONLY <2>2, <2>3, <2>4, <2>5
<1>5. CASE k # 0
  <2> DEFINE c == Stretch(b, t, k * Page)
             d == Stretch(c, t, Page)
  <2>1. /\ Yields(h, b, g, c, b.used) /\ c.TOH = t /\ t \in Frees(c) /\ End(c, t) = c.brk
        /\ c.brk = Extent(b, k) /\ c.used = b.used
    BY <1>5 DEF GrownBy
  <2>2. k * Page \in Nat /\ k * Page >= 32 /\ (k + 1) * Page = k * Page + Page
    BY <1>5, Pages
  <2>3. Sound(g, c) /\ Tiles(c) /\ g.brk = c.brk /\ g.fault = h.fault
    BY <2>1 DEF Yields, Rep, Sound, Marked
  <2>4. TopOf(c, t) /\ d = Stretch(b, t, (k + 1) * Page)
    <3> DEFINE n == k * Page
    <3>1. n \in Nat /\ n >= 32 /\ (k + 1) * Page = n + Page
      BY <2>2
    <3> HIDE DEF n
    <3>2. c = Stretch(b, t, n)
      BY DEF n
    <3> HIDE DEF c
    <3>3. TopOf(c, t) /\ Stretch(c, t, Page) = Stretch(b, t, n + Page)
      <4>1. Page \in Nat /\ Tiles(b) /\ TopOf(b, t) /\ Tiles(c) /\ t \in Frees(c) /\ End(c, t) = c.brk
        BY <1>1, <1>2, <2>1, <2>3
      <4> QED BY ONLY <3>1, <3>2, <4>1, StretchAgain
    <3> QED BY <3>1, <3>3
  <2> HIDE DEF c, d
  <2>5. ASSUME Extent(b, k) + Page <= Top PROVE r.ok /\ GrownBy(h, b, t, k + 1, r.h)
    <3>1. /\ r.ok /\ Yields(g, c, r.h, d, c.used)
          /\ d.TOH = t /\ d.brk = c.brk + Page /\ d.used = c.used
          /\ t \in Frees(d) /\ End(d, t) = d.brk
      <4>1. d = Stretch(c, t, Page) /\ c.brk + Page <= Top
        BY <2>1, <2>5 DEF d
      <4> QED BY <1>2, <2>3, <2>4, <4>1, PageSound
    <3>2. Yields(h, b, r.h, d, b.used)
      <4>1. Kept(h, b, r.h, d, b.used)
        BY <2>1, <3>1, KeptAgain DEF Yields
      <4> QED BY <2>3, <3>1, <4>1 DEF Yields
    <3>3. k + 1 # 0
      OBVIOUS
    <3> QED BY <1>3, <2>1, <2>4, <2>5, <3>1, <3>2, <3>3 DEF GrownBy
  <2>6. ASSUME Extent(b, k) + Page > Top PROVE ~r.ok /\ r.h = [g EXCEPT !.fault = "oom"]
    <3>1. r = [ok |-> FALSE, h |-> [g EXCEPT !.fault = "oom"]]
      BY <1>2, <2>1, <2>3, <2>6, NoPage
    <3> QED BY <3>1
  <2> QED BY <2>1, <2>3, <2>5, <2>6
<1> QED BY <1>4, <1>5

\* Pages are added as long as the last one was needed, until they are enough or no more
\* can be had.
Enough(h, b, t, pos, r) ==
  \E k \in Nat : \E g :
    /\ GrownBy(h, b, t, k, g) /\ k <= MaxHeap \div Page
    /\ k > 0 => pos > Extent(b, k) - Page - 9
    /\ \/ r.ok /\ r.h = g /\ pos <= Extent(b, k) - 9
       \/ ~r.ok /\ r.h = [g EXCEPT !.fault = "oom"] /\ pos > Extent(b, k) - 9
          /\ Extent(b, k) + Page > Top

\* GrowTo adds the pages it takes, and no more; or all there are, if they do not suffice.
LEMMA GrowSound ==
  ASSUME NEW h, NEW b, Rep(h, b), NEW t, TopOf(b, t), NEW pos \in Nat, NEW r, r = GrowTo(h, pos)
  PROVE  Enough(h, b, t, pos, r)
<1>1. PICK f : Growth(h, pos, f, Rounds) /\ r = f[Rounds]
  BY GrowToIs
<1>2. \A i \in 0 .. Rounds : f[i] = IF i = 0 THEN [ok |-> TRUE, h |-> h] ELSE GrowStep(f[i - 1], pos)
  BY <1>1 DEF Growth
<1>3. Rounds \in Nat /\ Rounds = MaxHeap \div Page + 1 /\ MaxHeap \div Page \in Nat /\ Page \in Nat
      /\ Top \in Nat
  BY Pages, Sizing DEF Rounds
<1>4. /\ Extent(b, 0) = b.brk
      /\ \A k \in Nat : /\ Extent(b, k) \in Nat /\ Extent(b, k + 1) = Extent(b, k) + Page
                        /\ Extent(b, k) <= Top => k <= MaxHeap \div Page
  BY ExtentFacts DEF Rep, Sound, Marked
<1> DEFINE I == {i \in Nat : i <= Rounds => \E k, g : Grown(h, b, t, pos, i, k, g, f[i])}
<1>5. 0 \in I
  <2>1. f[0] = [ok |-> TRUE, h |-> h]
    <3>1. 0 \in 0 .. Rounds
      BY <1>3
    <3> QED BY <1>2, <3>1
  <2>2. GrownBy(h, b, t, 0, h)
    <3>1. b.brk <= Top
      BY EdgeWords DEF Rep, Sound, Marked
    <3> QED BY <1>4, <3>1 DEF GrownBy
  <2>3. Grown(h, b, t, pos, 0, 0, h, f[0])
    BY <2>1, <2>2 DEF Grown
  <2> QED BY <2>3
<1>6. ASSUME NEW i \in Nat, i \in I PROVE i + 1 \in I
  <2> SUFFICES ASSUME i + 1 <= Rounds PROVE \E k, g : Grown(h, b, t, pos, i + 1, k, g, f[i + 1])
    OBVIOUS
  <2>1. PICK k, g : Grown(h, b, t, pos, i, k, g, f[i])
    BY <1>3, <1>6
  <2>2. f[i + 1] = GrowStep(f[i], pos)
    <3>1. i + 1 \in 0 .. Rounds /\ i + 1 # 0 /\ (i + 1) - 1 = i
      BY <1>3
    <3> QED BY <1>2, <3>1
  <2> DEFINE r1 == f[i]
             r2 == f[i + 1]
             x == Extent(b, k)
  <2>3. /\ k \in Nat /\ k <= i /\ GrownBy(h, b, t, k, g) /\ (k > 0 => pos > x - Page - 9)
        /\ \/ r1.ok /\ r1.h = g /\ (k = i \/ pos <= x - 9)
           \/ ~r1.ok /\ r1.h = [g EXCEPT !.fault = "oom"] /\ pos > x - 9 /\ x + Page > Top
    BY <2>1 DEF Grown
  <2>4. /\ g.brk = x
        /\ x + Page <= Top => allocate_page(g, Page).ok
                              /\ GrownBy(h, b, t, k + 1, allocate_page(g, Page).h)
        /\ x + Page > Top => ~allocate_page(g, Page).ok
                             /\ allocate_page(g, Page).h = [g EXCEPT !.fault = "oom"]
    BY <2>3, GrownOnce
  <2>5. x \in Nat /\ Extent(b, k + 1) = x + Page
    BY <1>4, <2>3
  <2>6. r2 = IF r1.ok /\ pos > r1.h.brk - 1 - 8 THEN allocate_page(r1.h, Page) ELSE r1
    BY <2>2 DEF GrowStep
  <2> HIDE DEF r1, r2
  <2>7. CASE ~(r1.ok /\ pos > x - 9)
    <3>1. ~(r1.ok /\ pos > r1.h.brk - 1 - 8)
      <4>1. x - 1 - 8 = x - 9
        BY <2>5
      <4> QED BY <2>3, <2>4, <2>7, <4>1
    <3>2. r2 = r1
      BY <2>6, <3>1
    <3>3. k <= i + 1 /\ (r1.ok => pos <= x - 9)
      BY <2>3, <2>5, <2>7
    <3>4. Grown(h, b, t, pos, i + 1, k, g, r2)
      BY <2>3, <3>2, <3>3 DEF Grown
    <3> QED BY <3>4 DEF r2
  <2>8. CASE r1.ok /\ pos > x - 9
    <3>1. r1.h = g /\ k = i
      BY <2>3, <2>5, <2>8
    <3>2. r2 = allocate_page(g, Page)
      <4>1. pos > r1.h.brk - 1 - 8
        BY <2>4, <2>5, <2>8, <3>1
      <4> QED BY <2>6, <2>8, <3>1, <4>1
    <3>3. CASE x + Page <= Top
      <4>1. pos > Extent(b, k + 1) - Page - 9
        BY <1>3, <2>5, <2>8
      <4>2. Grown(h, b, t, pos, i + 1, k + 1, r2.h, r2)
        BY <2>3, <2>4, <3>1, <3>2, <3>3, <4>1 DEF Grown
      <4> QED BY <4>2 DEF r2
    <3>4. CASE x + Page > Top
      <4>1. k <= i + 1
        BY <2>3
      <4>2. Grown(h, b, t, pos, i + 1, k, g, r2)
        BY <2>3, <2>4, <2>8, <3>2, <3>4, <4>1 DEF Grown
      <4> QED BY <4>2 DEF r2
    <3> QED BY <1>3, <2>5, <3>3, <3>4
  <2> QED BY <2>7, <2>8
<1>7. \A i \in Nat : i \in I
  <2> HIDE DEF I
  <2> QED BY <1>5, <1>6, Induction
<1>8. PICK k, g : Grown(h, b, t, pos, Rounds, k, g, r)
  <2>1. Rounds \in I
    BY <1>3, <1>7
  <2> QED BY <1>1, <1>3, <2>1
<1>9. k \in Nat /\ k <= MaxHeap \div Page
  <2>1. k \in Nat /\ Extent(b, k) <= Top
    BY <1>8 DEF Grown, GrownBy
  <2> QED BY <1>4, <2>1
<1>10. k # Rounds
  BY <1>3, <1>9
<1> QED BY <1>8, <1>9, <1>10 DEF Grown, Enough

(***************************************************************************)
(* malloc.                                                                 *)
(***************************************************************************)
\* A request of which no size computed overflows.
Modest(size) == size \in Nat /\ size >= 1 /\ size % 8 = 0 /\ 2 * size + 64 <= SizeMod

\* The size of a block, and that it does not wrap around.
LEMMA BlockSizes ==
  ASSUME NEW size, Modest(size), NEW n, n = BlockSize(size)
  PROVE  /\ n \in Nat /\ n >= 32 /\ n % 16 = 0 /\ size + 16 <= n /\ n <= size + 31
         /\ 2 * n < SizeMod /\ Abstract!BlockSize(size) = n
         /\ \A x \in Nat : x <= Top => (x + n) % SizeMod = x + n
<1>1. size \in Nat /\ size >= 1 /\ 2 * size + 64 <= SizeMod /\ SizeMod \in Nat /\ Top \in Nat
      /\ Top + Top < SizeMod
  BY Sizing DEF Modest
<1>2. (size + 16) % SizeMod = size + 16
  BY <1>1, Remainder
<1>3. ((size + 16) + 15) % SizeMod = size + 31
  BY <1>1, Remainder
<1>4. n = 16 * ((size + 31) \div 16) /\ Abstract!BlockSize(size) = n
  BY <1>2, <1>3 DEF BlockSize, align, Abstract!BlockSize, Abstract!align
<1>5. n \in Nat /\ n >= 32 /\ n % 16 = 0 /\ size + 16 <= n /\ n <= size + 31
  BY <1>1, <1>4
<1>6. ASSUME NEW x \in Nat, x <= Top PROVE (x + n) % SizeMod = x + n
  <2>1. x + n \in Nat /\ x + n < SizeMod
    BY <1>1, <1>5, <1>6
  <2> QED BY <1>1, <2>1, Remainder
<1>7. 2 * n < SizeMod
  BY <1>1, <1>5
<1> QED BY <1>4, <1>5, <1>6, <1>7

\* TOH is the break although the last block is free.
LEMMA StrandedReads ==
  ASSUME NEW h, NEW b, Sound(h, b), h.TOH = b.TOH
  PROVE  Stranded(h) <=> Abstract!Stranded(b)
<1>1. Marked(h, b) /\ Tiles(b) /\ h.brk = b.brk /\ h \in Heaps
  BY DEF Sound, Marked
<1>2. get_alloc(h, b.brk - 16) = 0 <=> \E p \in Frees(b) : End(b, p) = b.brk
  <2>1. CASE b.brk = FirstBlk
    <3>1. b.brk - 16 = 32 /\ h.mem[32] = 17 /\ 32 \in Words
      BY <1>1, <2>1, EdgeWords, Sizing DEF Marked, Tagged
    <3>2. get_alloc(h, b.brk - 16) = 1
      BY <1>1, <3>1, GetWord DEF get_alloc
    <3>3. ASSUME NEW p \in Frees(b) PROVE End(b, p) # b.brk
      <4>1. p \in DOMAIN b.size
        BY DEF Frees
      <4>2. 48 <= p /\ p + 32 <= End(b, p) /\ p \in Nat /\ End(b, p) \in Nat
        BY <1>1, <4>1, BlockWords
      <4>3. b.brk = 48
        BY <2>1, Sizing
      <4> QED BY <4>2, <4>3
    <3> QED BY <3>2, <3>3
  <2>2. ASSUME NEW q \in DOMAIN b.size, End(b, q) = b.brk
        PROVE  get_alloc(h, b.brk - 16) = 0 <=> \E p \in Frees(b) : End(b, p) = b.brk
    <3>1. GFA(h, q) = b.brk - 16 /\ get_alloc(h, GFA(h, q)) = Bit(b, q)
      BY <1>1, <2>2, Reads
    <3>2. \A p \in DOMAIN b.size : End(b, p) = b.brk => p = q
      BY <1>1, <2>2, BlocksApart
    <3> QED BY <2>2, <3>1, <3>2 DEF Bit, Frees
  <2>3. b.brk = FirstBlk \/ \E q \in DOMAIN b.size : End(b, q) = b.brk
    BY <1>1 DEF Tiles, Follows
  <2> QED BY <2>1, <2>2, <2>3
<1>3. Abstract!Stranded(b) <=> b.TOH = b.brk /\ \E p \in Frees(b) : End(b, p) = b.brk
  BY DEF Abstract!Stranded, Abstract!FreeBlocks, Abstract!End, Frees, End
<1> QED BY <1>1, <1>2, <1>3 DEF Stranded

\* malloc returns a block for n bytes, of those that BlockHeap may give.
Gave(h, b, r, c, n) ==
  /\ [h |-> c, p |-> r.p] \in Abstract!Mallocs(b, n)
  /\ Yields(h, b, r.h, c, b.used) /\ r.p \notin b.used
  /\ c.used = b.used \cup {r.p} /\ c.size[r.p] >= n

\* The process dies of it; more bytes were added.
Exhausted(h, b, r, c, n, more) ==
  /\ r.p = NULL
  /\ \E g : Yields(h, b, g, c, b.used) /\ r.h = [g EXCEPT !.fault = "oom"]
  /\ c = IF more = 0 THEN b ELSE Abstract!Extend(b, more)
  /\ c.used = b.used
  /\ more \in Abstract!Growths /\ Abstract!NoFit(b, n)
  /\ b.brk + more + Page > Top /\ b.brk + more <= Top /\ b.TOH + n >= b.brk + more
  /\ more > 0 => ~Abstract!Stranded(b)

\* Multiples of 16 are 16 apart.
LEMMA Sixteens ==
  ASSUME NEW x \in Nat, NEW y \in Nat, x % 16 = 0, y % 16 = 0, x > y - 9
  PROVE  x >= y
OBVIOUS

\* A free block was found.
LEMMA FitGives ==
  ASSUME NEW h, NEW b, Rep(h, b), NEW n \in Nat, n >= 32, n % 16 = 0,
         NEW p \in Frees(b), b.size[p] > n, NEW r, r = MallocFit(h, p, n)
  PROVE  \E c : Gave(h, b, r, c, n)
<1> DEFINE c == Abstract!MallocAt(b, p, n)
<1>1. c = Abstract!MallocAt(b, p, n)
  OBVIOUS
<1> HIDE DEF c
<1>2. Tiles(b) /\ p \in DOMAIN b.size /\ p \notin b.used
  BY DEF Rep, Sound, Marked, Frees
<1>3. n <= b.size[p]
  BY <1>2, BlockWords
<1>4. r.p = p /\ Yields(h, b, r.h, c, b.used)
      /\ c.used = b.used \cup {p} /\ c.size[p] >= n
  BY <1>1, <1>3, GiveSound
<1>5. [h |-> c, p |-> p] \in Abstract!Mallocs(b, n)
  BY <1>1 DEF Abstract!Mallocs, Abstract!FreeBlocks, Frees
<1> QED BY <1>2, <1>4, <1>5 DEF Gave

\* Without a stranded block, the TOH is where a page goes; and a page it takes.
LEMMA TopIsTOH ==
  ASSUME NEW h, NEW b, Rep(h, b), ~Abstract!Stranded(b), NEW n \in Nat, n >= 32,
         Abstract!NoFit(b, n)
  PROVE  TopOf(b, b.TOH) /\ b.TOH + n >= b.brk
<1>1. Tiles(b) /\ TopFits(b)
  BY DEF Rep, Sound, Marked
<1>2. b.brk \in Nat
  BY <1>1, EdgeWords
<1>3. CASE b.TOH = b.brk
  <2>1. ~\E x \in Frees(b) : End(b, x) = b.brk
    BY <1>3 DEF Abstract!Stranded, Abstract!FreeBlocks, Abstract!End, Frees, End
  <2> QED BY <1>2, <1>3, <2>1 DEF TopOf
<1>4. CASE b.TOH \in Frees(b) /\ End(b, b.TOH) = b.brk
  <2>1. TopOf(b, b.TOH)
    BY <1>4 DEF TopOf
  <2>2. b.size[b.TOH] <= n
    BY <1>4 DEF Abstract!NoFit, Abstract!FreeBlocks, Frees
  <2>3. b.TOH \in Nat /\ b.size[b.TOH] \in Nat /\ b.brk = b.TOH + b.size[b.TOH]
    BY <1>1, <1>4, BlockWords DEF Frees
  <2> QED BY <2>1, <2>2, <2>3
<1> QED BY <1>1, <1>3, <1>4 DEF TopFits

\* After the pages, the block at the TOH is large enough.
LEMMA GrownFits ==
  ASSUME NEW h, NEW b, Rep(h, b), NEW t, TopOf(b, t), NEW k \in Nat, k # 0, NEW g,
         GrownBy(h, b, t, k, g), NEW n \in Nat, NEW toh \in Nat, t <= toh,
         toh + n <= Extent(b, k) - 9
  PROVE  /\ n <= Stretch(b, t, k * Page).size[t] /\ toh + n < Extent(b, k)
         /\ Rep(g, Stretch(b, t, k * Page))
<1> DEFINE c == Stretch(b, t, k * Page)
<1>1. Rep(g, c) /\ c.TOH = t /\ t \in Frees(c) /\ End(c, t) = c.brk /\ c.brk = Extent(b, k)
  BY DEF GrownBy, Yields
<1> HIDE DEF c
<1>2. Tiles(c) /\ t \in DOMAIN c.size
  BY <1>1 DEF Rep, Sound, Marked, Frees
<1>3. t \in Nat /\ c.size[t] \in Nat /\ t + c.size[t] = Extent(b, k)
  BY <1>1, <1>2, BlockWords
<1>4. n <= c.size[t] /\ toh + n < Extent(b, k)
  <2> DEFINE e == Extent(b, k)
             s == c.size[t]
  <2>1. t \in Nat /\ s \in Nat /\ t + s = e /\ toh + n <= e - 9
    BY <1>3
  <2> HIDE DEF e, s
  <2>2. n <= s /\ toh + n < e
    BY <2>1
  <2> QED BY <2>2 DEF e, s
<1> QED BY <1>1, <1>4 DEF c

\* A heap that is not stranded grows for the request.
LEMMA TopGives ==
  ASSUME NEW h, NEW b, Rep(h, b), ~Abstract!Stranded(b), NEW n \in Nat, n >= 32, n % 16 = 0,
         Abstract!NoFit(b, n), (b.TOH + n) % SizeMod = b.TOH + n,
         NEW r, r = MallocTop(h, n)
  PROVE  \E c : Gave(h, b, r, c, n) \/ \E more : Exhausted(h, b, r, c, n, more)
<1> DEFINE t == b.TOH
           pos == t + n
           grown == GrowTo(h, pos)
<1>1. Tiles(b) /\ b.brk \in Nat /\ b.brk % 16 = 0 /\ h.TOH = t /\ b.brk <= Top
  BY EdgeWords DEF Rep, Sound, Marked
<1>2. TopOf(b, t) /\ pos >= b.brk
  BY TopIsTOH
<1>3. t \in Nat /\ t <= b.brk /\ t % 16 = 0 /\ t \notin b.used /\ pos \in Nat /\ pos % 16 = 0
  <2>1. t \in Nat /\ t <= b.brk /\ t % 16 = 0 /\ t \notin b.used
    BY <1>1, <1>2, TopExists
  <2>2. (t + n) % 16 = 0
    BY <2>1, Granules
  <2> QED BY <2>1, <2>2
<1>4. r = PlaceTop(grown, t, n)
  BY <1>1 DEF MallocTop
<1> HIDE DEF pos, grown
<1> DEFINE Added(k, g) ==
             /\ GrownBy(h, b, t, k, g) /\ k <= MaxHeap \div Page
             /\ k > 0 => pos > Extent(b, k) - Page - 9
             /\ \/ grown.ok /\ grown.h = g /\ pos <= Extent(b, k) - 9
                \/ ~grown.ok /\ grown.h = [g EXCEPT !.fault = "oom"] /\ pos > Extent(b, k) - 9
                   /\ Extent(b, k) + Page > Top
<1>10. \E k \in Nat : \E g : Added(k, g)
  <2>1. grown = GrowTo(h, pos)
    BY DEF grown
  <2>2. TopOf(b, t) /\ pos \in Nat /\ Rep(h, b)
    BY <1>2, <1>3
  <2> HIDE DEF t
  <2>3. Enough(h, b, t, pos, grown)
    <3> HIDE DEF Added
    <3> QED BY ONLY <2>1, <2>2, GrowSound
  <2> QED BY <2>3 DEF Enough
<1>11. PICK k \in Nat : \E g : Added(k, g)
  BY <1>10
<1>12. PICK g : Added(k, g)
  BY <1>11
<1>5. /\ GrownBy(h, b, t, k, g) /\ k <= MaxHeap \div Page
      /\ k > 0 => pos > Extent(b, k) - Page - 9
      /\ \/ grown.ok /\ grown.h = g /\ pos <= Extent(b, k) - 9
         \/ ~grown.ok /\ grown.h = [g EXCEPT !.fault = "oom"] /\ pos > Extent(b, k) - 9
            /\ Extent(b, k) + Page > Top
  BY <1>12
<1> DEFINE more == k * Page
           c == Stretch(b, t, more)
<1>6. /\ more \in Nat /\ more % 16 = 0 /\ (k # 0 => more >= 32) /\ (k = 0 => more = 0)
      /\ Extent(b, k) = b.brk + more /\ Extent(b, k) \in Nat /\ Extent(b, k) <= Top
      /\ Extent(b, k) % 16 = 0 /\ Page \in Nat /\ Page % 16 = 0 /\ Top \in Nat
  <2>1. Extent(b, k) \in Nat /\ Extent(b, k) % 16 = 0
    BY <1>1, ExtentFacts
  <2> QED BY <1>5, <2>1, Pages, Sizing DEF GrownBy, Extent
<1>7. more \in Abstract!Growths
  <2>1. k \in 0 .. (HeapLo + MaxHeap) \div Page
    <3>1. MaxHeap \div Page <= (HeapLo + MaxHeap) \div Page /\ HeapLo + MaxHeap \in Nat
          /\ Page \in Nat /\ Page > 0 /\ MaxHeap \in Nat
      <4>1. MaxHeap \in Nat /\ HeapLo = 16 /\ Page \in Nat /\ Page > 0
        BY Sizing
      <4>2. MaxHeap \div Page <= (16 + MaxHeap) \div Page
        BY <4>1
      <4> QED BY <4>1, <4>2
    <3>2. MaxHeap \div Page \in Nat /\ (HeapLo + MaxHeap) \div Page \in Nat
      BY <3>1
    <3> QED BY <1>5, <3>1, <3>2
  <2> QED BY <2>1 DEF Abstract!Growths
<1> HIDE DEF more, c
<1>8. CASE grown.ok
  <2>1. grown.h = g /\ pos <= Extent(b, k) - 9
    BY <1>5, <1>8
  <2>2. k # 0
    <3> DEFINE e == Extent(b, k)
    <3>1. e \in Nat /\ pos \in Nat /\ pos <= e - 9 /\ pos >= b.brk /\ e = b.brk + more
          /\ b.brk \in Nat /\ more \in Nat
      BY <1>1, <1>2, <1>3, <1>6, <2>1
    <3> HIDE DEF e
    <3>2. more # 0
      BY ONLY <3>1
    <3> QED BY <1>6, <3>2
  <2>3. /\ Yields(h, b, g, c, b.used) /\ c.TOH = t /\ t \in Frees(c) /\ c.brk = Extent(b, k)
        /\ c.used = b.used
    BY <1>5, <2>2 DEF GrownBy, more, c
  <2>4. n <= c.size[t] /\ t + n < Extent(b, k) /\ Rep(g, c)
    <3>1. t + n <= Extent(b, k) - 9 /\ t <= t
      BY <1>3, <2>1 DEF pos
    <3> QED BY <1>2, <1>3, <1>5, <2>2, <3>1, GrownFits DEF more, c
  <2>5. r = MallocFit(g, t, n)
    <3>1. g.TOH = t
      BY <2>3, <2>4 DEF Rep
    <3> QED BY <1>4, <1>8, <2>1, <3>1 DEF PlaceTop, MallocFit
  <2> DEFINE d == Abstract!MallocAt(c, t, n)
  <2>6. r.p = t /\ Yields(g, c, r.h, d, c.used) /\ d.used = c.used \cup {t} /\ d.size[t] >= n
    BY <2>3, <2>4, <2>5, GiveSound
  <2>7. Yields(h, b, r.h, d, b.used)
    <3>1. Kept(h, b, r.h, d, b.used)
      BY <2>3, <2>6, KeptAgain DEF Yields
    <3> QED BY <2>3, <2>6, <3>1 DEF Yields
  <2>8. [h |-> d, p |-> r.p] \in Abstract!Mallocs(b, n)
    <3>1. Abstract!Extend(b, more) = c
      BY <1>1, <1>2, <1>6, <2>2, ExtendStretches DEF c
    <3>2. /\ Abstract!NoFit(b, n) /\ ~Abstract!Stranded(b)
          /\ b.brk + more <= HeapLo + MaxHeap /\ b.TOH + n < b.brk + more
          /\ b.TOH + n >= b.brk + more - Page
      <4>1. t + n < b.brk + more /\ b.brk + more <= HeapLo + MaxHeap
        BY <1>6, <2>4 DEF Top
      <4>2. pos >= Extent(b, k) - Page
        <5> DEFINE z == Extent(b, k) - Page
        <5>1. pos > z - 9
          BY <1>5, <1>6, <2>2
        <5>2. z \in Nat /\ z % 16 = 0
          <6>1. Extent(b, k) >= Page
            <7>1. more = k * Page /\ k >= 1
              BY <2>2 DEF more
            <7>2. k * Page >= Page
              <8>1. k - 1 \in Nat /\ k = (k - 1) + 1
                BY <7>1
              <8>2. k * Page = (k - 1) * Page + Page /\ (k - 1) * Page \in Nat
                BY <8>1, Pages
              <8> QED BY <1>6, <8>2
            <7> QED BY <1>1, <1>6, <7>1, <7>2
          <6> QED BY <1>6, <6>1, Granules
        <5> HIDE DEF z
        <5>3. pos >= z
          BY <1>3, <5>1, <5>2, Sixteens
        <5> QED BY <5>3 DEF z
      <4>3. b.TOH + n >= b.brk + more - Page
        BY <1>1, <1>3, <1>6, <4>2 DEF pos
      <4> QED BY <4>1, <4>3
    <3>3. d = Abstract!MallocAt(Abstract!Extend(b, more), b.TOH, n) /\ r.p = b.TOH
      BY <2>6, <3>1
    <3> HIDE DEF d, t
    <3> QED BY ONLY <1>7, <3>2, <3>3 DEF Abstract!Mallocs
  <2>9. Gave(h, b, r, d, n)
    BY <1>3, <2>3, <2>6, <2>7, <2>8 DEF Gave
  <2> QED BY <2>9
<1>9. CASE ~grown.ok
  <2> DEFINE d == IF more = 0 THEN b ELSE Abstract!Extend(b, more)
  <2>1. /\ grown.h = [g EXCEPT !.fault = "oom"] /\ pos > Extent(b, k) - 9
        /\ Extent(b, k) + Page > Top
    BY <1>5, <1>9
  <2>2. r.p = NULL /\ r.h = [g EXCEPT !.fault = "oom"]
    BY <1>4, <1>9, <2>1 DEF PlaceTop
  <2>3. Yields(h, b, g, d, b.used) /\ d.used = b.used
    <3>1. CASE k = 0
      <4>1. g = h /\ d = b
        BY <1>5, <1>6, <3>1 DEF GrownBy
      <4>2. Kept(h, b, h, b, b.used)
        BY <1>1 DEF Kept, Tiles
      <4> QED BY <4>1, <4>2 DEF Yields
    <3>2. CASE k # 0
      <4>1. d = c
        BY <1>1, <1>2, <1>6, <3>2, ExtendStretches DEF c
      <4> HIDE DEF d
      <4> QED BY <1>5, <3>2, <4>1 DEF GrownBy, more, c
    <3> QED BY <3>1, <3>2
  <2>4. pos >= Extent(b, k)
    BY <1>3, <1>6, <2>1, Sixteens
  <2>5. b.brk + more + Page > Top /\ b.brk + more <= Top /\ b.TOH + n >= b.brk + more
    BY <1>6, <2>1, <2>4 DEF pos
  <2>6. Exhausted(h, b, r, d, n, more)
    BY <1>7, <2>2, <2>3, <2>5 DEF Exhausted
  <2> QED BY <2>6
<1> QED BY <1>8, <1>9

(***************************************************************************)
(* No call but for a page moves the break, in whatever heap.               *)
(***************************************************************************)
SameBrk(h, g) ==
  "brk" \in DOMAIN h /\ "fault" \in DOMAIN h
    => "brk" \in DOMAIN g /\ "fault" \in DOMAIN g /\ g.brk = h.brk

\* One store or another, and one after the other.
LEMMA BrkBasics ==
  /\ \A h, a, v : SameBrk(h, put(h, a, v))
  /\ \A h, p, w : SameBrk(h, store(h, p, w))
  /\ \A h, r : SameBrk(h, [h EXCEPT !.free_root = r])
  /\ \A h, t : SameBrk(h, [h EXCEPT !.TOH = t])
  /\ \A h, f : SameBrk(h, [h EXCEPT !.fault = f])
  /\ \A h : SameBrk(h, h)
  /\ \A h, g, k : SameBrk(h, g) /\ SameBrk(g, k) => SameBrk(h, k)
<1>1. ASSUME NEW h, NEW a, NEW v PROVE SameBrk(h, put(h, a, v))
  BY DEF SameBrk, put
<1>2. ASSUME NEW h, NEW p, NEW w PROVE SameBrk(h, store(h, p, w))
  <2> DEFINE m == [a \in Words |-> IF a < h.brk /\ ((a - p) % SizeMod) \div 8 \in DOMAIN w
                                   THEN w[((a - p) % SizeMod) \div 8] ELSE h.mem[a]]
             f == IF \A i \in DOMAIN w : (p + 8 * i) % SizeMod \in Words
                                         /\ (p + 8 * i) % SizeMod < h.brk
                  THEN h.fault ELSE "stray"
  <2>1. store(h, p, w) = [h EXCEPT !.mem = m, !.fault = f]
    BY DEF store
  <2> HIDE DEF m, f
  <2>2. SameBrk(h, [h EXCEPT !.mem = m, !.fault = f])
    BY DEF SameBrk
  <2> QED BY <2>1, <2>2
<1>3. \A h, r : SameBrk(h, [h EXCEPT !.free_root = r])
  BY DEF SameBrk
<1>4. \A h, t : SameBrk(h, [h EXCEPT !.TOH = t])
  BY DEF SameBrk
<1>5. \A h, f : SameBrk(h, [h EXCEPT !.fault = f])
  BY DEF SameBrk
<1>6. \A h : SameBrk(h, h)
  BY DEF SameBrk
<1>7. \A h, g, k : SameBrk(h, g) /\ SameBrk(g, k) => SameBrk(h, k)
  BY DEF SameBrk
<1> QED BY <1>1, <1>2, <1>3, <1>4, <1>5, <1>6, <1>7

\* The links
LEMMA LinksBrk ==
  /\ \A h, p, q : SameBrk(h, SetPred(h, p, q))
  /\ \A h, p, q : SameBrk(h, Link(h, p, q))
  /\ \A h, p, q : SameBrk(h, Begin(h, p, q))
  /\ \A h, p, q : SameBrk(h, Lead(h, p, q))
  /\ \A h, p : SameBrk(h, PushFront(h, p))
  /\ \A h, p, size, alloc : SameBrk(h, tag(h, p, size, alloc))
<1>1. \A h, p, q : SameBrk(h, SetPred(h, p, q))
  BY BrkBasics DEF SetPred
<1>2. \A h, p, q : SameBrk(h, Link(h, p, q))
  BY <1>1, BrkBasics DEF Link
<1>3. \A h, p, q : SameBrk(h, Begin(h, p, q))
  BY BrkBasics DEF Begin
<1>4. \A h, p, q : SameBrk(h, Lead(h, p, q))
  BY <1>1, <1>3, BrkBasics DEF Lead
<1>5. \A h, p : SameBrk(h, PushFront(h, p))
  BY <1>3, BrkBasics DEF PushFront
<1>6. \A h, p, size, alloc : SameBrk(h, tag(h, p, size, alloc))
  BY BrkBasics DEF tag
<1> QED BY <1>1, <1>2, <1>3, <1>4, <1>5, <1>6

\* Cutting a block
LEMMA CutBrk ==
  ASSUME NEW h, NEW p, NEW n, NEW u
  PROVE  SameBrk(h, Cut(h, p, n, u))
<1>1. \A f, size : SameBrk(f, tag_next(f, p, size, u))
  BY BrkBasics DEF tag_next
<1> QED BY <1>1, LinksBrk, BrkBasics DEF Cut

\* coalesce
LEMMA CoalesceBrk ==
  ASSUME NEW h, NEW p
  PROVE  SameBrk(h, coalesce(h, p).h)
<1>1. SameBrk(h, CoalesceNone(h, p))
  BY LinksBrk, BrkBasics DEF CoalesceNone
<1>2. SameBrk(h, CoalesceNext(h, p))
  BY LinksBrk, BrkBasics DEF CoalesceNext
<1>3. SameBrk(h, CoalescePrev(h, p))
  <2> DEFINE q    == prev_blk(h, p)
             size == get_size(h, GHA(p)) + get_size(h, GHA(q))
             t1   == put(h, GFA(h, p), pack(size, 0))
             t    == put(t1, GHA(q), pack(size, 0))
             g    == IF q # h.free_root THEN Link(PushFront(t, q), pred(t, q), succ(t, q)) ELSE t
  <2>1. SameBrk(h, t1) /\ SameBrk(t1, t)
    BY BrkBasics
  <2>2. CoalescePrev(h, p) = [g EXCEPT !.free_root = q]
    BY DEF CoalescePrev
  <2> HIDE DEF q, t1, t
  <2>3. SameBrk(t, g)
    BY LinksBrk, BrkBasics
  <2> HIDE DEF g
  <2> QED BY <2>1, <2>2, <2>3, BrkBasics
<1>4. SameBrk(h, CoalesceBoth(h, p))
  <2> DEFINE q    == prev_blk(h, p)
             n    == next_blk(h, p)
             size == get_size(h, GHA(p)) + get_size(h, GHA(q)) + get_size(h, GFA(h, n))
             t1   == put(h, GHA(q), pack(size, 0))
             t    == put(t1, GFA(h, n), pack(size, 0))
  <2>1. SameBrk(h, t1) /\ SameBrk(t1, t)
    BY BrkBasics
  <2>2. CoalesceBoth(h, p) = [SpliceBoth(h, t, q, n) EXCEPT !.free_root = q]
    BY DEF CoalesceBoth
  <2> HIDE DEF q, n, t1, t
  <2>3. SameBrk(t, SpliceBoth(h, t, q, n))
    BY LinksBrk, BrkBasics DEF SpliceBoth
  <2> QED BY <2>1, <2>2, <2>3, BrkBasics
<1>5. coalesce(h, p).h \in {CoalesceNone(h, p), CoalesceNext(h, p), CoalescePrev(h, p),
                            CoalesceBoth(h, p)}
  BY DEF coalesce
<1> QED BY <1>1, <1>2, <1>3, <1>4, <1>5

\* free and place
LEMMA FreeBrk ==
  ASSUME NEW h, NEW p
  PROVE  SameBrk(h, free(h, p))
<1> DEFINE g == tag(h, p, get_size(h, GHA(p)), 0)
           c == coalesce(g, p)
<1>1. SameBrk(h, g) /\ SameBrk(g, c.h) /\ SameBrk(c.h, TopAt(c))
  BY LinksBrk, CoalesceBrk, BrkBasics DEF TopAt
<1>2. free(h, p) \in {h, TopAt(c), c.h}
  BY DEF free
<1> HIDE DEF g, c
<1> QED BY <1>1, <1>2, BrkBasics

\* place
LEMMA PlaceBrk ==
  ASSUME NEW h, NEW p, NEW n
  PROVE  SameBrk(h, place(h, p, n).h)
<1>1. SameBrk(h, PlaceWhole(h, p))
  <2> DEFINE g == tag(h, p, get_size(h, GHA(p)), 1)
             k == SetPred(g, succ(h, p), NULL)
             l == Link(g, pred(h, p), succ(h, p))
             w == [k EXCEPT !.free_root = succ(h, p)]
  <2>1. SameBrk(h, g) /\ SameBrk(g, k) /\ SameBrk(g, l) /\ SameBrk(k, w)
    BY LinksBrk, BrkBasics
  <2>2. PlaceWhole(h, p) \in {l, w}
    BY DEF PlaceWhole
  <2> HIDE DEF g, k, l, w
  <2> QED BY <2>1, <2>2, BrkBasics
<1>2. SameBrk(h, PlaceSplit(h, p, n))
  <2> DEFINE t    == Cut(h, p, n, 0)
             rest == next_blk(t, p)
             g    == CASE h.free_root = NULL -> Begin(t, rest, NULL)
                       [] h.free_root # NULL /\ p # h.free_root ->
                            Link(PushFront(t, rest), pred(h, p), succ(h, p))
                       [] OTHER -> Lead(t, rest, succ(h, p))
  <2>1. SameBrk(h, t)
    BY CutBrk
  <2>2. PlaceSplit(h, p, n) = [g EXCEPT !.free_root = rest]
    BY DEF PlaceSplit
  <2> HIDE DEF t, rest
  <2>3. SameBrk(t, g)
    BY LinksBrk, BrkBasics
  <2> HIDE DEF g
  <2> QED BY <2>1, <2>2, <2>3, BrkBasics
<1>3. place(h, p, n).h \in {PlaceWhole(h, p), PlaceSplit(h, p, n)}
  BY DEF place
<1> QED BY <1>1, <1>2, <1>3

\* The break moved; n bytes are given from the old break on, or none.
MovedOn(b, r, n) ==
  /\ "brk" \in DOMAIN r.h /\ "fault" \in DOMAIN r.h /\ r.h.brk # b.brk
  /\ r.h.fault = "none" => r.h \in Heaps /\ r.h.brk <= Top /\ r.p = b.brk /\ r.p + n <= r.h.brk

\* A stranded heap grows, or dies as it is.
LEMMA StrandedGrows ==
  ASSUME NEW h, NEW b, Rep(h, b), Abstract!Stranded(b), NEW n \in Nat, n >= 32, n % 16 = 0,
         Abstract!NoFit(b, n), (b.TOH + n) % SizeMod = b.TOH + n,
         NEW r, r = MallocTop(h, n)
  PROVE  MovedOn(b, r, n) \/ \E c, more : Exhausted(h, b, r, c, n, more)
<1> DEFINE toh == b.TOH
           pos == toh + n
           grown == GrowTo(h, pos)
<1>1. Tiles(b) /\ b.brk \in Nat /\ b.brk % 16 = 0 /\ h.TOH = toh /\ b.brk <= Top /\ toh = b.brk
  BY EdgeWords DEF Rep, Sound, Marked, Abstract!Stranded
<1>2. PICK t : TopOf(b, t)
  BY <1>1, TopExists
<1>3. t \in Nat /\ t <= toh /\ pos \in Nat /\ pos >= b.brk
  BY <1>1, <1>2, TopExists
<1>4. r = PlaceTop(grown, toh, n)
  BY <1>1 DEF MallocTop
<1>5. grown = GrowTo(h, pos)
  OBVIOUS
<1> HIDE DEF grown
<1>6. Enough(h, b, t, pos, grown)
  <2>1. TopOf(b, t) /\ pos \in Nat /\ Rep(h, b)
    BY <1>2, <1>3
  <2> QED BY ONLY <1>5, <2>1, GrowSound
<1> HIDE DEF pos
<1>7. PICK k \in Nat : \E g :
        /\ GrownBy(h, b, t, k, g) /\ k <= MaxHeap \div Page
        /\ \/ grown.ok /\ grown.h = g /\ pos <= Extent(b, k) - 9
           \/ ~grown.ok /\ grown.h = [g EXCEPT !.fault = "oom"] /\ pos > Extent(b, k) - 9
              /\ Extent(b, k) + Page > Top
  BY <1>6 DEF Enough
<1>8. PICK g :
        /\ GrownBy(h, b, t, k, g) /\ k <= MaxHeap \div Page
        /\ \/ grown.ok /\ grown.h = g /\ pos <= Extent(b, k) - 9
           \/ ~grown.ok /\ grown.h = [g EXCEPT !.fault = "oom"] /\ pos > Extent(b, k) - 9
              /\ Extent(b, k) + Page > Top
  BY <1>7
<1>9. ASSUME k # 0 PROVE "brk" \in DOMAIN g /\ "fault" \in DOMAIN g /\ g.brk # b.brk
  <2>1. g \in Heaps /\ g.brk = Extent(b, k)
    BY <1>8, <1>9 DEF GrownBy, Yields, Rep, Sound, Marked
  <2>2. k * Page >= 32 /\ k * Page \in Nat
    BY <1>9, Pages
  <2>3. Extent(b, k) # b.brk
    BY <1>1, <2>2 DEF Extent
  <2> QED BY <2>1, <2>3 DEF Heaps
<1>10. CASE grown.ok
  <2>1. grown.h = g /\ pos <= Extent(b, k) - 9
    BY <1>8, <1>10
  <2>2. k # 0
    <3>1. Extent(b, 0) = b.brk
      BY <1>1, ExtentFacts
    <3> QED BY <1>1, <1>3, <2>1, <3>1
  <2> DEFINE w == place(g, g.TOH, n)
             v == [w.h EXCEPT !.TOH = (toh + w.size) % SizeMod]
  <2>3. r.h = v
    BY <1>4, <1>10, <2>1 DEF PlaceTop, AboveTop
  <2>4. SameBrk(g, w.h) /\ SameBrk(w.h, v)
    BY PlaceBrk, BrkBasics
  <2> DEFINE c == Stretch(b, t, k * Page)
             m == MallocFit(g, t, n)
  <2>5. t \in Frees(c) /\ c.TOH = t /\ n <= c.size[t] /\ toh + n < Extent(b, k) /\ Rep(g, c)
        /\ g.TOH = t /\ c.brk = Extent(b, k)
    <3>1. toh + n <= Extent(b, k) - 9 /\ toh \in Nat
      BY <1>1, <2>1 DEF pos
    <3>2. t \in Frees(c) /\ c.TOH = t /\ g.TOH = c.TOH /\ c.brk = Extent(b, k)
      BY <1>8, <2>2 DEF GrownBy, Yields, Rep
    <3> QED BY <1>2, <1>3, <1>8, <2>2, <3>1, <3>2, GrownFits
  <2>6. /\ m.h \in Heaps /\ m.h.brk = Extent(b, k) /\ m.h.brk <= Top
    <3>1. LET d == Abstract!MallocAt(c, t, n)
          IN  Yields(g, c, m.h, d, c.used) /\ d.brk = c.brk
      BY <2>5, GiveSound
    <3>2. m.h \in Heaps /\ m.h.brk = c.brk
      BY <3>1 DEF Yields, Rep, Sound, Marked
    <3> QED BY <1>8, <2>5, <3>2 DEF GrownBy
  <2>7. m.h = [w.h EXCEPT !.TOH = (t + w.size) % SizeMod]
    BY <2>5 DEF MallocFit, AboveTop
  <2>8. w.size \in Nat
    <3>1. w.size \in {n, c.size[t]} /\ c.size[t] \in Nat
      <4>1. Marked(g, c) /\ t \in DOMAIN c.size
        BY <2>5 DEF Rep, Sound, Frees
      <4> HIDE DEF c
      <4>2. c.size[t] \in Nat
        BY <4>1, BlockWords DEF Marked
      <4> QED BY <2>5, <4>1, <4>2, PlaceCases
    <3> QED BY <3>1
  <2> HIDE DEF c, m, w
  <2>9. v \in Heaps /\ v.brk = m.h.brk
    <3>1. (toh + w.size) % SizeMod \in Nat
      BY <1>1, <2>8, Sizing
    <3>2. v = [m.h EXCEPT !.TOH = (toh + w.size) % SizeMod]
      BY <2>7
    <3> HIDE DEF v
    <3> QED BY <2>6, <3>1, <3>2 DEF Heaps
  <2>10. r.p = b.brk /\ r.p + n <= v.brk
    <3>1. r.p = toh
      BY <1>4, <1>10 DEF PlaceTop, AboveTop
    <3>2. toh + n <= Extent(b, k)
      BY <1>1, <1>8, <2>5, ExtentFacts
    <3> QED BY <1>1, <2>6, <2>9, <3>1, <3>2
  <2> HIDE DEF v
  <2> QED BY <1>9, <2>2, <2>3, <2>4, <2>6, <2>9, <2>10 DEF SameBrk, MovedOn
<1>11. CASE ~grown.ok
  <2>1. r.p = NULL /\ r.h = [g EXCEPT !.fault = "oom"] /\ pos > Extent(b, k) - 9
        /\ Extent(b, k) + Page > Top
    BY <1>4, <1>8, <1>11 DEF PlaceTop
  <2>2. CASE k = 0
    <3>1. Extent(b, k) = b.brk /\ g = h
      BY <1>1, <1>8, <2>2, ExtentFacts DEF GrownBy
    <3>2. Kept(h, b, h, b, b.used)
      BY <1>1 DEF Kept, Tiles
    <3>3. 0 \in Abstract!Growths
      <4>1. 0 * Page = 0 /\ 0 \in 0 .. (HeapLo + MaxHeap) \div Page
        <5>1. HeapLo = 16 /\ MaxHeap \in Nat /\ Page \in Nat /\ Page > 0
          BY Sizing
        <5>2. (16 + MaxHeap) \div Page \in Nat
          BY <5>1
        <5> QED BY <5>1, <5>2, Pages
      <4> QED BY <4>1 DEF Abstract!Growths
    <3>4. b.brk + 0 + Page > Top /\ b.brk + 0 <= Top /\ b.TOH + n >= b.brk + 0
      BY <1>1, <1>3, <2>1, <3>1, Sizing
    <3>5. Yields(h, b, h, b, b.used) /\ r.h = [h EXCEPT !.fault = "oom"]
      BY <2>1, <3>1, <3>2 DEF Yields
    <3>6. Exhausted(h, b, r, b, n, 0)
      BY <2>1, <3>3, <3>4, <3>5 DEF Exhausted
    <3> QED BY <3>6
  <2>3. CASE k # 0
    <3>1. SameBrk(g, r.h)
      BY <2>1, BrkBasics
    <3>2. r.h.fault = "oom"
      <4>1. g \in Heaps
        BY <1>8, <2>3 DEF GrownBy, Yields, Rep, Sound, Marked
      <4> QED BY <2>1, <4>1 DEF Heaps
    <3> QED BY <1>9, <2>3, <3>1, <3>2 DEF SameBrk, MovedOn
  <2> QED BY <2>2, <2>3
<1> QED BY <1>10, <1>11

\* malloc gives a block, or dies for want of a page, or a stranded heap grows
\* (mm.c:145-215).
THEOREM MallocSound ==
  ASSUME NEW h, NEW b, Rep(h, b), NEW size, Modest(size), NEW n, n = BlockSize(size),
         NEW r, r = malloc(h, size)
  PROVE  \/ Abstract!Stranded(b) /\ MovedOn(b, r, n)
         \/ \E c : Gave(h, b, r, c, n)
         \/ \E c, more : Exhausted(h, b, r, c, n, more)
<1>1. /\ n \in Nat /\ n >= 32 /\ n % 16 = 0 /\ size # 0
      /\ \A x \in Nat : x <= Top => (x + n) % SizeMod = x + n
  BY BlockSizes DEF Modest
<1>2. Sound(h, b) /\ h.TOH = b.TOH
  BY DEF Rep
<1>3. (b.TOH + n) % SizeMod = b.TOH + n
  <2>1. Tiles(b) /\ TopFits(b)
    BY DEF Rep, Sound, Marked
  <2>2. b.brk \in Nat /\ b.brk <= Top /\ Top \in Nat
    BY <2>1, EdgeWords, Sizing
  <2>3. b.TOH \in Nat /\ b.TOH <= b.brk
    <3>1. CASE b.TOH = b.brk
      BY <2>2, <3>1
    <3>2. CASE b.TOH \in Frees(b)
      <4>1. b.TOH \in DOMAIN b.size
        BY <3>2 DEF Frees
      <4> QED BY <2>1, <2>2, <4>1, BlockWords
    <3> QED BY <2>1, <3>1, <3>2 DEF TopFits
  <2>4. b.TOH \in Nat /\ b.TOH <= Top
    BY <2>2, <2>3
  <2> QED BY ONLY <1>1, <2>4
<1>4. CASE find_fit(h, n) \in Frees(b) /\ b.size[find_fit(h, n)] > n
  <2>1. find_fit(h, n) # NULL
    BY <1>2, <1>4, BlockWords DEF Sound, Marked, Frees
  <2>2. r = MallocFit(h, find_fit(h, n), n)
    BY <1>1, <2>1 DEF malloc
  <2> QED BY <1>1, <1>4, <2>2, FitGives
<1>5. CASE find_fit(h, n) = NULL /\ Abstract!NoFit(b, n)
  <2>1. r = MallocTop(h, n)
    BY <1>1, <1>5 DEF malloc
  <2>2. CASE Abstract!Stranded(b)
    BY <1>1, <1>3, <1>5, <2>1, <2>2, StrandedGrows
  <2>3. CASE ~Abstract!Stranded(b)
    BY <1>1, <1>3, <1>5, <2>1, <2>3, TopGives
  <2> QED BY <2>2, <2>3
<1> QED BY <1>1, <1>2, <1>4, <1>5, FitFound

(***************************************************************************)
(* Stores into a payload.                                                  *)
(***************************************************************************)
\* The m words of w are stored from p on.
Stored(h, p, m, w, g) ==
  /\ Alike(h, g)
  /\ \A a \in Words : g.mem[a] = IF p <= a /\ a < p + 8 * m THEN w[(a - p) \div 8] ELSE h.mem[a]

\* Which words store writes.
LEMMA StoreEffect ==
  ASSUME NEW h \in Heaps, h.brk <= Top, NEW p \in Nat, p % 8 = 0, p >= 16, NEW m \in Nat,
         p + 8 * m <= h.brk, NEW w \in [0 .. m - 1 -> Word]
  PROVE  Stored(h, p, m, w, store(h, p, w))
<1>1. SizeMod \in Nat /\ Top \in Nat /\ Top + Top < SizeMod /\ h.brk \in Nat
  BY Sizing DEF Heaps
<1>2. DOMAIN w = 0 .. m - 1
  OBVIOUS
<1> DEFINE index(a) == ((a - p) % SizeMod) \div 8
<1>3. ASSUME NEW i \in 0 .. m - 1
      PROVE  (p + 8 * i) % SizeMod = p + 8 * i /\ p + 8 * i \in Words /\ p + 8 * i < h.brk
  <2>1. i \in Nat /\ p + 8 * i \in Nat /\ p + 8 * i + 8 <= h.brk /\ (p + 8 * i) % 8 = 0
    BY <1>1
  <2>2. p + 8 * i < SizeMod
    BY <1>1, <2>1
  <2>3. (p + 8 * i) % SizeMod = p + 8 * i
    BY <1>1, <2>1, <2>2, Remainder
  <2>4. p + 8 * i \in Words
    BY <1>1, <2>1, WordRange
  <2> QED BY <1>1, <2>1, <2>3, <2>4
<1>4. ASSUME NEW a \in Words, a < h.brk
      PROVE  IF p <= a /\ a < p + 8 * m THEN index(a) = (a - p) \div 8 /\ index(a) \in 0 .. m - 1
             ELSE index(a) \notin 0 .. m - 1
  <2>1. a \in Nat /\ a >= 16
    BY WordRange
  <2>2. CASE p <= a
    <3>1. a - p \in Nat /\ a - p < SizeMod
      BY <1>1, <1>4, <2>1, <2>2
    <3>2. index(a) = (a - p) \div 8
      BY <1>1, <3>1, Remainder
    <3>3. (a - p) \div 8 \in 0 .. m - 1 <=> a - p < 8 * m
      BY <3>1
    <3>4. a - p < 8 * m <=> a < p + 8 * m
      BY <2>1
    <3> QED BY <2>2, <3>2, <3>3, <3>4
  <2>3. CASE ~(p <= a)
    <3>1. a < p
      BY <2>1, <2>3
    <3>2. (a - p) % SizeMod = SizeMod + a - p
      <4> DEFINE z == SizeMod + a - p
      <4>1. z \in Nat /\ z < SizeMod /\ a - p = z - SizeMod
        BY <1>1, <2>1, <3>1
      <4> HIDE DEF z
      <4>2. (z - SizeMod) % SizeMod = z
        BY <1>1, <4>1
      <4> QED BY <4>1, <4>2 DEF z
    <3>3. SizeMod + a - p >= 8 * m /\ SizeMod + a - p \in Nat
      BY <1>1, <2>1, <3>1
    <3>4. (SizeMod + a - p) \div 8 >= m
      BY <3>3
    <3>5. (SizeMod + a - p) \div 8 \in Nat
      BY <3>3
    <3>6. index(a) \notin 0 .. m - 1
      BY <3>2, <3>4, <3>5
    <3> QED BY <2>3, <3>6
  <2> QED BY <2>2, <2>3
<1>5. \A i \in DOMAIN w : (p + 8 * i) % SizeMod \in Words /\ (p + 8 * i) % SizeMod < h.brk
  BY <1>2, <1>3
<1> DEFINE mem == [a \in Words |-> IF a < h.brk /\ index(a) \in DOMAIN w
                                   THEN w[index(a)] ELSE h.mem[a]]
<1>6. store(h, p, w) = [h EXCEPT !.mem = mem, !.fault = h.fault]
  BY <1>5 DEF store
<1>7. h.mem \in [Words -> Word]
  BY DEF Heaps
<1>8. mem \in [Words -> Word]
  <2>1. ASSUME NEW a \in Words
        PROVE  (IF a < h.brk /\ index(a) \in DOMAIN w THEN w[index(a)] ELSE h.mem[a]) \in Word
    <3> HIDE DEF index
    <3> QED BY <1>2, <1>7
  <2> QED BY <2>1
<1>9. ASSUME NEW a \in Words
      PROVE  mem[a] = IF p <= a /\ a < p + 8 * m THEN w[(a - p) \div 8] ELSE h.mem[a]
  <2>1. a \in Nat
    BY WordRange
  <2>2. mem[a] = IF a < h.brk /\ index(a) \in DOMAIN w THEN w[index(a)] ELSE h.mem[a]
    OBVIOUS
  <2> HIDE DEF mem
  <2>3. CASE a < h.brk
    <3>1. IF p <= a /\ a < p + 8 * m THEN index(a) = (a - p) \div 8 /\ index(a) \in 0 .. m - 1
             ELSE index(a) \notin 0 .. m - 1
      BY <1>4, <2>3
    <3> HIDE DEF index
    <3> QED BY <1>2, <2>2, <2>3, <3>1
  <2>4. CASE ~(a < h.brk)
    <3>1. ~(a < p + 8 * m)
      BY <1>1, <2>1, <2>4
    <3> QED BY <2>2, <2>4, <3>1
  <2> QED BY <2>3, <2>4
<1> HIDE DEF mem, index
<1>10. Alike(h, [h EXCEPT !.mem = mem, !.fault = h.fault])
  BY <1>8 DEF Alike, Heaps
<1>11. [h EXCEPT !.mem = mem, !.fault = h.fault].mem = mem
  BY DEF Heaps
<1> QED BY <1>6, <1>9, <1>10, <1>11 DEF Stored

\* The words of w are in the payload of p, from q on, and nothing else changed.
Wrote(h, b, p, q, m, w, g) ==
  /\ Yields(h, b, g, b, b.used \ {p})
  /\ \A i \in 0 .. m - 1 : g.mem[q + 8 * i] = w[i]
  /\ \A a \in Words : a < q \/ q + 8 * m <= a => g.mem[a] = h.mem[a]

\* A store into the payload of one live block changes nothing else.
LEMMA BodyStore ==
  ASSUME NEW h, NEW b, Rep(h, b), NEW p \in b.used, NEW q \in Nat, q % 8 = 0, p <= q,
         NEW m \in Nat, q + 8 * m <= End(b, p) - 16, NEW w \in [0 .. m - 1 -> Word],
         NEW g, g = store(h, q, w)
  PROVE  Wrote(h, b, p, q, m, w, g)
<1>1. h \in Heaps /\ Tiles(b) /\ h.brk = b.brk /\ Marked(h, b) /\ p \in DOMAIN b.size
  BY DEF Rep, Sound, Marked, Tiles
<1>2. /\ p \in Nat /\ 48 <= p /\ End(b, p) \in Nat /\ End(b, p) <= b.brk /\ b.brk \in Nat
      /\ b.brk <= Top
  BY <1>1, BlockWords, EdgeWords
<1>3. h.brk <= Top /\ q >= 16 /\ q + 8 * m <= h.brk
  BY <1>1, <1>2
<1>4. /\ Alike(h, g)
      /\ \A a \in Words : g.mem[a] = IF q <= a /\ a < q + 8 * m THEN w[(a - q) \div 8] ELSE h.mem[a]
  BY <1>1, <1>3, StoreEffect DEF Stored
<1>5. ASSUME NEW i \in 0 .. m - 1 PROVE g.mem[q + 8 * i] = w[i]
  <2>1. q + 8 * i \in Words
    <3>1. i \in Nat /\ q + 8 * i \in Nat /\ 16 <= q + 8 * i
      BY <1>3
    <3>2. (q + 8 * i) % 8 = 0
      OBVIOUS
    <3>3. q + 8 * i + 8 <= Top
      <4>1. i + 1 <= m /\ h.brk \in Nat /\ Top \in Nat
        BY <1>1, <1>2, Sizing
      <4>2. q + 8 * i + 8 <= q + 8 * m
        BY <4>1
      <4> QED BY <1>3, <3>1, <4>1, <4>2
    <3> QED BY <3>1, <3>2, <3>3, WordRange
  <2>2. q <= q + 8 * i /\ q + 8 * i < q + 8 * m /\ ((q + 8 * i) - q) \div 8 = i
    OBVIOUS
  <2> QED BY <1>4, <2>1, <2>2
<1>6. ASSUME NEW a \in Words, a < q \/ q + 8 * m <= a PROVE g.mem[a] = h.mem[a]
  <2>1. a \in Nat
    BY WordRange
  <2>2. ~(q <= a /\ a < q + 8 * m)
    BY <1>6, <2>1
  <2> QED BY <1>4, <2>2
<1>7. ASSUME NEW a \in Words, ~InBody(b, p, a) PROVE g.mem[a] = h.mem[a]
  <2>1. a \in Nat
    BY WordRange
  <2>2. a < q \/ q + 8 * m <= a
    BY <1>2, <1>7, <2>1 DEF InBody
  <2> QED BY <1>6, <2>2
<1>9. \A a \in Words : InTag(b, a) => g.mem[a] = h.mem[a]
  <2>1. \A a \in Words : a \in Int
    BY WordRange
  <2> QED BY <1>1, <1>7, <2>1, BodyApart
<1>10. Marked(g, b)
  <2>1. 24 \in Words /\ 32 \in Words /\ b.brk - 8 \in Words
    BY <1>1, EdgeWords
  <2>2. \A x \in DOMAIN b.size : x - 8 \in Words /\ End(b, x) - 16 \in Words
    BY <1>1, BlockWords
  <2>3. \A x \in DOMAIN b.size : g.mem[x - 8] = h.mem[x - 8]
                                 /\ g.mem[End(b, x) - 16] = h.mem[End(b, x) - 16]
    BY <1>9, <2>2 DEF InTag
  <2>4. g.mem[24] = h.mem[24] /\ g.mem[32] = h.mem[32] /\ g.mem[b.brk - 8] = h.mem[b.brk - 8]
    BY <1>9, <2>1 DEF InTag
  <2>5. Tagged(g, b)
    BY <1>1, <2>3, <2>4 DEF Marked, Tagged
  <2> QED BY <1>1, <1>4, <2>5 DEF Marked, Alike
<1>11. \A x \in DOMAIN b.size \ {p} : \A a \in Words : InBody(b, x, a) => g.mem[a] = h.mem[a]
  <2>1. \A a \in Words : a \in Int
    BY WordRange
  <2>2. \A x \in DOMAIN b.size \ {p} : \A a \in Int : InBody(b, x, a) => ~InBody(b, p, a)
    <3> TAKE x \in DOMAIN b.size \ {p}
    <3>1. x \in DOMAIN b.size /\ p \in DOMAIN b.size \ {x}
      BY <1>1
    <3> QED BY <1>1, <3>1, BodyApart
  <2> QED BY <1>7, <2>1, <2>2
<1>12. Listed(g, Frees(b))
  <2>1. \A x \in Frees(b) : g.mem[x] = h.mem[x] /\ g.mem[x + 8] = h.mem[x + 8]
    <3> TAKE x \in Frees(b)
    <3>1. x \in DOMAIN b.size \ {p}
      BY DEF Frees
    <3>2. x \in Words /\ x + 8 \in Words /\ InBody(b, x, x) /\ InBody(b, x, x + 8)
      BY <1>1, <3>1, BlockWords, BodyApart
    <3> QED BY <1>11, <3>1, <3>2
  <2>2. g.free_root = h.free_root
    BY <1>4 DEF Alike
  <2> QED BY <2>1, <2>2 DEF Rep, Sound, Listed
<1>13. Rep(g, b) /\ g.fault = h.fault
  BY <1>4, <1>10, <1>12 DEF Rep, Sound, Alike
<1>14. Kept(h, b, g, b, b.used \ {p})
  BY <1>1, <1>11 DEF Kept, Tiles
<1> QED BY <1>5, <1>6, <1>13, <1>14 DEF Yields, Wrote

(***************************************************************************)
(* What the client holds.                                                  *)
(***************************************************************************)
Slot == [p : Nat, size : Nat]

\* x is an allocated block with room for its bytes, which are the client's.
Owned(h, b, x) ==
  /\ x.p \in b.used /\ Modest(x.size) /\ x.size + 16 <= b.size[x.p]
  /\ \A i \in 0 .. x.size \div 8 - 1 : h.mem[x.p + 8 * i] = Fill

\* The client holds each allocated block once.
Holds(h, b, f) ==
  /\ f \in [Ids -> Slot]
  /\ \A id \in Ids : f[id] # Nothing => Owned(h, b, f[id])
  /\ \A i, j \in Ids : f[i] # Nothing /\ f[j] # Nothing /\ f[i].p = f[j].p => i = j
  /\ \A p \in b.used : \E id \in Ids : f[id] # Nothing /\ f[id].p = p

\* The words of a payload are in the body of its block.
LEMMA PayloadWords ==
  ASSUME NEW b, Tiles(b), NEW p \in DOMAIN b.size, NEW size \in Nat, size % 8 = 0,
         size + 16 <= b.size[p], NEW i \in 0 .. size \div 8 - 1
  PROVE  p + 8 * i \in Words /\ InBody(b, p, p + 8 * i) /\ i \in Nat
<1>1. /\ p \in Nat /\ p % 16 = 0 /\ 48 <= p /\ b.size[p] \in Nat /\ End(b, p) = p + b.size[p]
      /\ End(b, p) <= b.brk /\ b.brk \in Nat /\ b.brk <= Top /\ Top \in Nat
  BY BlockWords, EdgeWords, Sizing
<1>2. i \in Nat /\ 8 * i + 8 <= size
  OBVIOUS
<1>3. p + 8 * i \in Nat /\ p + 8 * i + 24 <= End(b, p) /\ 16 <= p + 8 * i
  BY <1>1, <1>2
<1>4. (p + 8 * i) % 8 = 0
  BY <1>1, <1>2
<1>5. p + 8 * i + 8 <= Top
  BY <1>1, <1>3
<1> QED BY <1>1, <1>2, <1>3, <1>4, <1>5, WordRange DEF InBody

\* What is kept is still owned.
LEMMA OwnedKept ==
  ASSUME NEW h, NEW b, Tiles(b), NEW g, NEW c, NEW K, Kept(h, b, g, c, K), NEW x,
         Owned(h, b, x), x.p \in K, x.p \in c.used
  PROVE  Owned(g, c, x)
<1> DEFINE p == x.p
           size == x.size
<1>1. p \in DOMAIN b.size /\ size \in Nat /\ size % 8 = 0 /\ size + 16 <= b.size[p]
  BY DEF Owned, Modest, Tiles
<1>2. c.size[p] = b.size[p] /\ \A a \in Words : InBody(b, p, a) => g.mem[a] = h.mem[a]
  BY DEF Kept
<1>3. \A i \in 0 .. size \div 8 - 1 : h.mem[p + 8 * i] = Fill
  BY DEF Owned
<1>4. ASSUME NEW i \in 0 .. size \div 8 - 1 PROVE g.mem[p + 8 * i] = Fill
  <2> HIDE DEF p, size
  <2>1. p + 8 * i \in Words /\ InBody(b, p, p + 8 * i)
    BY <1>1, PayloadWords
  <2> QED BY <1>2, <1>3, <2>1
<1> QED BY <1>1, <1>2, <1>4 DEF Owned

\* The client's own blocks are not NULL.
LEMMA HeldFacts ==
  ASSUME NEW h, NEW b, Tiles(b), NEW f, Holds(h, b, f), NEW id \in Ids
  PROVE  /\ f[id].p \in Nat /\ f[id].size \in Nat
         /\ f[id] # Nothing => f[id].p # NULL /\ f[id].p \in b.used /\ f[id].p \in DOMAIN b.size
         /\ f[id] = Nothing => f[id].p = NULL /\ f[id].size = 0 /\ f[id].p \notin b.used
         /\ \A i \in Ids \ {id} : f[i] # Nothing => f[i].p \in b.used \ {f[id].p}
<1>1. f[id] \in Slot
  BY DEF Holds
<1>2. f[id].p \in Nat /\ f[id].size \in Nat
  BY <1>1 DEF Slot
<1>3. NULL \notin DOMAIN b.size /\ b.used \subseteq DOMAIN b.size
  BY BlockWords DEF Tiles
<1>4. \A i \in Ids : f[i] # Nothing => f[i].p \in b.used
  BY DEF Holds, Owned
<1>5. f[id] = Nothing => f[id].p = NULL /\ f[id].size = 0
  BY DEF Nothing
<1>6. ASSUME NEW i \in Ids \ {id}, f[i] # Nothing PROVE f[i].p # f[id].p
  <2>1. CASE f[id] = Nothing
    BY <1>3, <1>4, <1>5, <1>6, <2>1
  <2>2. CASE f[id] # Nothing
    BY <1>6, <2>2 DEF Holds
  <2> QED BY <2>1, <2>2
<1> QED BY <1>2, <1>3, <1>4, <1>5, <1>6

\* c has the block p for the size bytes id is to have, in place of what it held; its first
\* bytes are the client's already.
Hands(h, b, f, id, g, c, p, size, from) ==
  /\ Yields(h, b, g, c, b.used \ {f[id].p})
  /\ p \notin b.used \ {f[id].p} /\ c.used = (b.used \ {f[id].p}) \cup {p}
  /\ size + 16 <= c.size[p]
  /\ \A i \in 0 .. from \div 8 - 1 : g.mem[p + 8 * i] = Fill

\* The client writes the other bytes, and holds the block.
LEMMA GiveHolds ==
  ASSUME NEW h, NEW b, Rep(h, b), NEW f, Holds(h, b, f), NEW id \in Ids,
         NEW g, NEW c, NEW p, NEW size, Modest(size), NEW from \in Nat, from % 8 = 0, from <= size,
         Hands(h, b, f, id, g, c, p, size, from), NEW k, k = Scribble(g, p, from, size)
  PROVE  /\ Rep(k, c) /\ Holds(k, c, [f EXCEPT ![id] = [p |-> p, size |-> size]])
         /\ k.fault = h.fault
<1> DEFINE m == (size - from) \div 8
           w == [i \in 0 .. m - 1 |-> Fill]
           q == p + from
           K == b.used \ {f[id].p}
           new == [p |-> p, size |-> size]
           e == [f EXCEPT ![id] = new]
<1>15. /\ Yields(h, b, g, c, K) /\ p \notin K /\ c.used = K \cup {p} /\ size + 16 <= c.size[p]
       /\ \A i \in 0 .. from \div 8 - 1 : g.mem[p + 8 * i] = Fill
  BY DEF Hands
<1>1. Tiles(b) /\ Rep(g, c) /\ Tiles(c) /\ Kept(h, b, g, c, K) /\ g.fault = h.fault
      /\ p \in c.used /\ p \in DOMAIN c.size /\ c.used = K \cup {p} /\ p \notin K
  BY <1>15 DEF Yields, Rep, Sound, Marked, Tiles
<1>2. /\ p \in Nat /\ p % 16 = 0 /\ c.size[p] \in Nat /\ End(c, p) = p + c.size[p]
      /\ size \in Nat /\ size % 8 = 0
  BY <1>1, BlockWords DEF Modest
<1>3. m \in Nat /\ 8 * m = size - from
  BY <1>2
<1>4. q \in Nat /\ q % 8 = 0 /\ p <= q /\ q + 8 * m <= End(c, p) - 16
  <2>2. p % 8 = 0 /\ p \in Nat
    BY <1>2
  <2>1. q \in Nat /\ q % 8 = 0 /\ p <= q
    BY ONLY <2>2, from \in Nat, from % 8 = 0
  <2> QED BY <1>2, <1>3, <1>15, <2>1
<1>5. w \in [0 .. m - 1 -> Word]
  BY ClientAssumption, FillAssumption DEF Word
<1>6. k = store(g, q, w)
  BY DEF Scribble
<1>7. /\ Yields(g, c, k, c, c.used \ {p})
      /\ \A i \in 0 .. m - 1 : k.mem[q + 8 * i] = w[i]
      /\ \A a \in Words : a < q \/ q + 8 * m <= a => k.mem[a] = g.mem[a]
  <2>1. Rep(g, c) /\ p \in c.used /\ m \in Nat
    BY <1>1, <1>3
  <2> HIDE DEF m, w, q
  <2>2. Wrote(g, c, p, q, m, w, k)
    BY ONLY <1>4, <1>5, <1>6, <2>1, BodyStore
  <2> QED BY <2>2 DEF Wrote
<1>8. Owned(k, c, new)
  <2>1. ASSUME NEW i \in 0 .. size \div 8 - 1 PROVE k.mem[p + 8 * i] = Fill
    <3>1. i \in Nat /\ p + 8 * i \in Words
      BY <1>1, <1>2, <1>15, PayloadWords
    <3>2. CASE i \in 0 .. from \div 8 - 1
      <4>1. p + 8 * i < q
        BY <1>2, <3>2
      <4> HIDE DEF q
      <4> QED BY <1>7, <1>15, <3>1, <3>2, <4>1
    <3>3. CASE i \notin 0 .. from \div 8 - 1
      <4> DEFINE j == i - from \div 8
      <4>1. j \in 0 .. m - 1 /\ q + 8 * j = p + 8 * i
        <5>1. from \div 8 \in Nat /\ 8 * (from \div 8) = from /\ size \div 8 \in Nat
              /\ 8 * (size \div 8) = size
          BY <1>2
        <5>2. i >= from \div 8 /\ i < size \div 8
          BY <3>1, <3>3, <5>1
        <5> DEFINE u == from \div 8
                   v == size \div 8
        <5>3. u \in Nat /\ v \in Nat /\ 8 * u = from /\ 8 * v = size /\ u <= i /\ i < v
          BY <5>1, <5>2
        <5> HIDE DEF u, v
        <5> HIDE DEF m
        <5>4. m = v - u
          BY ONLY <1>3, <5>3
        <5>5. i - u \in 0 .. m - 1 /\ p + from + 8 * (i - u) = p + 8 * i
          BY <1>2, <3>1, <5>3, <5>4
        <5> QED BY <5>5 DEF u
      <4>2. w[j] = Fill
        BY <4>1
      <4> HIDE DEF j, w, m, q
      <4> QED BY <1>7, <4>1, <4>2
    <3> QED BY <3>2, <3>3
  <2> HIDE DEF m, w, q
  <2> QED BY <1>1, <1>15, <2>1 DEF Owned
<1>9. ASSUME NEW i \in Ids, i # id, f[i] # Nothing PROVE Owned(k, c, f[i]) /\ f[i].p \in K
  <2>1. f[i].p \in K
    BY <1>1, <1>9, HeldFacts
  <2>2. Owned(h, b, f[i])
    BY <1>9 DEF Holds
  <2>3. Owned(g, c, f[i])
    BY <1>1, <2>1, <2>2, OwnedKept
  <2>4. Kept(g, c, k, c, c.used \ {p})
    BY <1>7 DEF Yields
  <2>5. f[i].p \in c.used \ {p}
    BY <1>1, <2>1
  <2> HIDE DEF K
  <2>6. Owned(k, c, f[i])
    BY <1>1, <2>3, <2>4, <2>5, OwnedKept
  <2> QED BY <2>1, <2>6
<1>10. f \in [Ids -> Slot] /\ new \in Slot /\ new # Nothing
  <2>1. p # 0
    BY <1>1, BlockWords, Sizing
  <2> QED BY <1>2, <2>1, Sizing DEF Holds, Slot, Nothing
<1>11. e \in [Ids -> Slot] /\ e[id] = new /\ \A i \in Ids : i # id => e[i] = f[i]
  <2> HIDE DEF new
  <2> QED BY <1>10
<1>12. new.p = p
  OBVIOUS
<1>13. Holds(k, c, e)
  <2> HIDE DEF new, e, K, m, w, q
  <2>1. \A i \in Ids : e[i] # Nothing => Owned(k, c, e[i])
    BY <1>8, <1>9, <1>11
  <2>2. \A i, j \in Ids : e[i] # Nothing /\ e[j] # Nothing /\ e[i].p = e[j].p => i = j
    <3> SUFFICES ASSUME NEW i \in Ids, NEW j \in Ids, e[i] # Nothing, e[j] # Nothing,
                        e[i].p = e[j].p
                 PROVE  i = j
      OBVIOUS
    <3>1. CASE i # id /\ j # id
      BY <1>11, <3>1 DEF Holds
    <3>2. CASE i = id /\ j # id
      BY <1>1, <1>9, <1>11, <1>12, <3>2
    <3>3. CASE i # id /\ j = id
      BY <1>1, <1>9, <1>11, <1>12, <3>3
    <3> QED BY <3>1, <3>2, <3>3
  <2>3. \A x \in c.used : \E i \in Ids : e[i] # Nothing /\ e[i].p = x
    <3> TAKE x \in c.used
    <3>1. CASE x = p
      BY <1>10, <1>11, <1>12, <3>1
    <3>2. CASE x \in K
      <4>1. PICK i \in Ids : f[i] # Nothing /\ f[i].p = x
        BY <3>2 DEF Holds, K
      <4>2. i # id
        BY <3>2, <4>1 DEF K
      <4> QED BY <1>11, <4>1, <4>2
    <3> QED BY <1>1, <3>1, <3>2
  <2> QED BY <1>11, <2>1, <2>2, <2>3 DEF Holds
<1>14. Rep(k, c) /\ k.fault = h.fault
  BY <1>1, <1>7 DEF Yields
<1> QED BY <1>13, <1>14

\* A block is taken back from id.
LEMMA DropHolds ==
  ASSUME NEW h, NEW b, Rep(h, b), NEW f, Holds(h, b, f), NEW id \in Ids,
         NEW g, NEW c, Yields(h, b, g, c, b.used \ {f[id].p}), c.used = b.used \ {f[id].p}
  PROVE  Holds(g, c, [f EXCEPT ![id] = Nothing])
<1> DEFINE e == [f EXCEPT ![id] = Nothing]
<1>1. Tiles(b) /\ Kept(h, b, g, c, c.used)
  BY DEF Yields, Rep, Sound, Marked
<1>2. ASSUME NEW i \in Ids, i # id, f[i] # Nothing PROVE Owned(g, c, f[i])
  <2>1. f[i].p \in c.used
    BY <1>1, <1>2, HeldFacts
  <2>2. Owned(h, b, f[i])
    BY <1>2 DEF Holds
  <2> QED BY <1>1, <2>1, <2>2, OwnedKept
<1>3. f \in [Ids -> Slot] /\ Nothing \in Slot
  BY Sizing DEF Holds, Slot, Nothing
<1>4. e \in [Ids -> Slot] /\ e[id] = Nothing /\ \A i \in Ids : i # id => e[i] = f[i]
  BY <1>3
<1> HIDE DEF e
<1>5. \A i, j \in Ids : e[i] # Nothing /\ e[j] # Nothing /\ e[i].p = e[j].p => i = j
  BY <1>4 DEF Holds
<1>6. \A x \in c.used : \E i \in Ids : e[i] # Nothing /\ e[i].p = x
  <2> TAKE x \in c.used
  <2>1. PICK i \in Ids : f[i] # Nothing /\ f[i].p = x
    BY DEF Holds
  <2>2. i # id
    BY <2>1
  <2> QED BY <1>4, <2>1, <2>2
<1>7. Holds(g, c, e)
  BY <1>2, <1>4, <1>5, <1>6 DEF Holds
<1> QED BY <1>7 DEF e

(***************************************************************************)
(* realloc and calloc.                                                     *)
(***************************************************************************)
\* realloc keeps the block as it is.
LEMMA InPlaceSound ==
  ASSUME NEW h, NEW b, Rep(h, b), NEW p \in b.used,
         NEW g, g = tag(h, p, get_size(h, GHA(p)), 1)
  PROVE  /\ Yields(h, b, g, b, b.used)
         /\ \A a \in Words : InBody(b, p, a) => g.mem[a] = h.mem[a]
<1>1. Marked(h, b) /\ Tiles(b) /\ p \in DOMAIN b.size /\ Unmerged(b) /\ Listed(h, Frees(b))
      /\ b.used \subseteq DOMAIN b.size
  BY DEF Rep, Sound, Marked, Tiles
<1>2. g = tag(h, p, b.size[p], 1)
  BY <1>1, Reads
<1> DEFINE c == Abstract!Heap(b.size, b.used \cup {p}, b.brk, b.TOH)
<1>3. c = b
  <2>1. b.used \cup {p} = b.used
    OBVIOUS
  <2> QED BY <1>1, <2>1 DEF Tiles, Shaped
<1>4. Marked(g, b) /\ OnlyTags(h, g, b) /\ Alike(h, g)
  <2>1. c = Abstract!Heap(b.size, IF 1 = 1 THEN b.used \cup {p} ELSE b.used \ {p}, b.brk, b.TOH)
        /\ 1 \in {0, 1}
    OBVIOUS
  <2> HIDE DEF c
  <2>2. Marked(g, c) /\ OnlyTags(h, g, b) /\ Alike(h, g)
    BY <1>1, <1>2, <2>1, Retag
  <2> QED BY <1>3, <2>2
<1>5. Kept(h, b, g, b, DOMAIN b.size)
  BY <1>1, <1>4, TagsKeepBodies
<1>6. Listed(g, Frees(b))
  <2>1. Frees(b) \subseteq DOMAIN b.size
    BY DEF Frees
  <2> QED BY <1>1, <1>4, <2>1, TagsKeepLists
<1>7. Rep(g, b) /\ g.fault = h.fault
  BY <1>1, <1>4, <1>6 DEF Rep, Sound, Alike
<1>8. Kept(h, b, g, b, b.used)
  BY <1>1, <1>5 DEF Kept
<1> QED BY <1>1, <1>5, <1>7, <1>8 DEF Yields, Kept

\* r and d are h and b with the block at p cut to n bytes that are as they were.
Shrunk(h, b, p, n, r, d) ==
  /\ Yields(h, b, r, d, b.used \ {p}) /\ d.used = b.used /\ d.size[p] = n
  /\ \A a \in Words : p <= a /\ a < p + n - 16 => r.mem[a] = h.mem[a]

\* realloc cuts the block, and frees the rest.
LEMMA ShrinkSound ==
  ASSUME NEW h, NEW b, Rep(h, b), NEW p \in b.used, NEW n \in Nat, n >= 32, n % 16 = 0,
         b.size[p] - n > 32, NEW r, r = ReallocShrink(h, p, n),
         NEW d, d = Abstract!Shrink(b, p, n)
  PROVE  Shrunk(h, b, p, n, r, d)
<1>1. Marked(h, b) /\ Tiles(b) /\ p \in DOMAIN b.size /\ Unmerged(b) /\ Listed(h, Frees(b))
      /\ b.used \subseteq DOMAIN b.size
  BY DEF Rep, Sound, Marked, Tiles
<1>2. /\ p \in Nat /\ b.size[p] \in Nat /\ b.size[p] % 16 = 0 /\ End(b, p) = p + b.size[p]
      /\ End(b, p) <= b.brk /\ b.brk \in Nat /\ b.brk <= Top /\ Top < SizeMod /\ SizeMod \in Nat
      /\ Top \in Nat
  BY <1>1, BlockWords, EdgeWords, Sizing
<1>3. (b.size[p] - n) % SizeMod = b.size[p] - n /\ b.size[p] - n >= 32
  <2>1. b.size[p] - n \in Nat /\ b.size[p] - n < SizeMod
    BY <1>2
  <2> QED BY <1>2, <2>1, Remainder
<1> DEFINE s == Abstract!Split(b, p, n)
           c == Abstract!Use(s, p + n)
           g == tag(tag(h, p, n, 1), p + n, b.size[p] - n, 1)
<1>4. r = free(g, p + n) /\ d = Abstract!free(c, p + n)
  <2>1. Cut(h, p, n, 1) = g /\ next_blk(g, p) = p + n
    <3>1. 1 \in {0, 1} /\ b.size[p] - n >= 32
      BY <1>3
    <3> QED BY <1>1, <3>1, CutTags
  <2> HIDE DEF g
  <2>2. r = free(g, p + n)
    BY <2>1 DEF ReallocShrink
  <2> QED BY <2>2 DEF Abstract!Shrink
<1>5. /\ Tiles(s) /\ DOMAIN s.size = DOMAIN b.size \cup {p + n} /\ p + n \notin DOMAIN b.size
      /\ s.size[p] = n /\ End(s, p) = p + n
      /\ \A x \in DOMAIN b.size \ {p} : s.size[x] = b.size[x] /\ End(s, x) = End(b, x)
      /\ s.used = b.used /\ s.brk = b.brk /\ s.TOH = b.TOH
  <2>1. s = Abstract!Split(b, p, n)
    OBVIOUS
  <2> HIDE DEF s
  <2> QED BY <1>1, <1>3, <2>1, SplitTiles
<1>6. c = Abstract!Heap(s.size, b.used \cup {p, p + n}, b.brk, b.TOH)
  <2>1. s.used \cup {p + n} = b.used \cup {p, p + n}
    BY <1>5
  <2> HIDE DEF s
  <2> QED BY <1>5, <2>1 DEF Abstract!Use
<1>7. Marked(g, c) /\ OnlyTags(h, g, c) /\ Alike(h, g) /\ Kept(h, b, g, c, DOMAIN b.size \ {p})
  <2>1. s = Abstract!Split(b, p, n) /\ g = tag(tag(h, p, n, 1), p + n, b.size[p] - n, 1)
    OBVIOUS
  <2>2. c = Abstract!Heap(s.size, IF 1 = 1 THEN b.used \cup {p, p + n} ELSE b.used \cup {p},
                          b.brk, b.TOH) /\ 1 \in {0, 1}
    BY <1>6
  <2> HIDE DEF s, c, g
  <2> QED BY <1>1, <1>3, <2>1, <2>2, SplitMarked
<1>8. c.size = s.size /\ c.used = b.used \cup {p + n} /\ c.brk = b.brk /\ c.TOH = b.TOH
      /\ Tiles(c)
  <2> HIDE DEF s
  <2>1. Tiles(c)
    BY <1>7 DEF Marked
  <2> QED BY <1>5, <2>1 DEF Abstract!Use, Abstract!Heap
<1> HIDE DEF s, c, g
<1>9. Frees(c) = Frees(b)
  BY <1>5, <1>8 DEF Frees
<1>10. \A x \in Frees(b) : End(c, x) = End(b, x) /\ x \in DOMAIN c.size
  <2> TAKE x \in Frees(b)
  <2>1. x \in DOMAIN b.size \ {p}
    BY DEF Frees
  <2> QED BY <1>5, <1>8, <2>1 DEF End
<1>11. Rep(g, c)
  <2>1. Listed(g, Frees(c))
    BY <1>1, <1>7, <1>8, <1>9, <1>10, TagsKeepLists
  <2>2. Unmerged(c)
    BY <1>1, <1>9, <1>10 DEF Unmerged
  <2>3. TopFits(c)
    BY <1>8, <1>9, <1>10 DEF Rep, TopFits
  <2> QED BY <1>7, <1>8, <2>1, <2>2, <2>3 DEF Rep, Sound, Alike
<1>12. p + n \in c.used /\ c.used \ {p + n} = b.used /\ p \in DOMAIN c.size /\ p # p + n
  BY <1>1, <1>5, <1>8
<1>13. Yields(g, c, r, d, b.used) /\ d.used = b.used
  <2> DEFINE e == p + n
  <2>1. Rep(g, c) /\ e \in c.used /\ c.used \ {e} = b.used
    BY <1>11, <1>12
  <2>2. r = free(g, e) /\ d = Abstract!free(c, e)
    BY <1>4
  <2> HIDE DEF e
  <2>3. /\ Yields(g, c, free(g, e), Abstract!free(c, e), c.used \ {e})
        /\ Abstract!free(c, e).used = c.used \ {e}
    BY <2>1, FreeSound
  <2> QED BY <2>1, <2>2, <2>3
<1>14. Kept(h, b, g, c, b.used \ {p}) /\ g.fault = h.fault
  BY <1>1, <1>7 DEF Kept, Alike
<1>15. Yields(h, b, r, d, b.used \ {p})
  <2>1. Kept(g, c, r, d, b.used \ {p})
    BY <1>13 DEF Yields, Kept
  <2> QED BY <1>13, <1>14, <2>1, KeptAgain DEF Yields
<1>16. d.size[p] = n
  BY <1>5, <1>8, <1>13 DEF Yields, Kept
<1>17. ASSUME NEW a \in Words, p <= a, a < p + n - 16 PROVE r.mem[a] = h.mem[a]
  <2>1. InBody(c, p, a)
    <3>1. End(c, p) - 16 = p + n - 16
      BY <1>2, <1>5, <1>8 DEF End
    <3> QED BY <1>17, <3>1 DEF InBody
  <2>2. r.mem[a] = g.mem[a]
    BY <1>13, <2>1 DEF Yields, Kept
  <2>3. Kept(h, c, g, c, DOMAIN c.size)
    BY <1>7, <1>8, TagsKeepBodies
  <2>4. g.mem[a] = h.mem[a]
    BY <1>12, <2>1, <2>3 DEF Kept
  <2> QED BY <2>2, <2>4
<1> QED BY <1>13, <1>15, <1>16, <1>17 DEF Shrunk

\* r and d are h and b with the block at p moved to the block r0.p of n bytes.
Relocated(h, b, p, n, r0, r, d) ==
  /\ r.p = r0.p /\ Yields(h, b, r.h, d, b.used \ {p})
  /\ d.used = (b.used \ {p}) \cup {r.p} /\ r.p \notin b.used /\ d.size[r.p] >= n
  /\ \A i \in 0 .. b.size[p] \div 8 - 1 :
       InBody(b, p, p + 8 * i) => r.h.mem[r.p + 8 * i] = h.mem[p + 8 * i]

\* realloc has a larger block, copies what the old one holds, and frees that.
LEMMA MoveSound ==
  ASSUME NEW h, NEW b, Rep(h, b), NEW p \in b.used, NEW n \in Nat, n % 16 = 0, b.size[p] < n,
         NEW r0, NEW c, Gave(h, b, r0, c, n), h.fault = "none",
         NEW r, r = Moved(r0, p, b.size[p]), NEW d, d = Abstract!free(c, p)
  PROVE  Relocated(h, b, p, n, r0, r, d)
<1> DEFINE q == r0.p
           m == b.size[p] \div 8
           w == [i \in 0 .. m - 1 |-> get(r0.h, p + 8 * i)]
           k == store(r0.h, q, w)
<1>1. Tiles(b) /\ p \in DOMAIN b.size
  BY DEF Rep, Sound, Marked, Tiles
<1>2. /\ Yields(h, b, r0.h, c, b.used) /\ q \notin b.used /\ c.used = b.used \cup {q}
      /\ c.size[q] >= n
  BY DEF Gave
<1>3. Rep(r0.h, c) /\ Tiles(c) /\ r0.h.fault = "none" /\ q \in c.used /\ p \in c.used /\ p # q
      /\ q \in DOMAIN c.size /\ r0.h \in Heaps
  BY <1>2 DEF Yields, Rep, Sound, Marked, Tiles
<1>4. /\ p \in Nat /\ b.size[p] \in Nat /\ b.size[p] % 16 = 0
      /\ q \in Nat /\ q % 16 = 0 /\ c.size[q] \in Nat /\ End(c, q) = q + c.size[q]
  BY <1>1, <1>3, BlockWords
<1>5. m \in Nat /\ 8 * m = b.size[p] /\ q + 8 * m <= End(c, q) - 16 /\ q % 8 = 0
  <2>1. m \in Nat /\ 8 * m = b.size[p] /\ q % 8 = 0
    BY <1>4
  <2>2. b.size[p] + 16 <= n
    BY <1>4
  <2> HIDE DEF m
  <2>3. c.size[q] >= n /\ q \in Nat /\ c.size[q] \in Nat /\ End(c, q) = q + c.size[q]
        /\ b.size[p] \in Nat
    BY <1>2, <1>4
  <2>4. q + 8 * m <= End(c, q) - 16
    BY ONLY <2>1, <2>2, <2>3, n \in Nat
  <2> QED BY <2>1, <2>4
<1>6. w \in [0 .. m - 1 -> Word]
  <2>1. \A a : get(r0.h, a) \in Word
    <3>1. r0.h.mem \in [Words -> Word]
      BY <1>3 DEF Heaps
    <3>2. 0 \in Word
      BY DEF Word
    <3> QED BY <3>1, <3>2 DEF get
  <2> QED BY <2>1
<1>7. r = [p |-> q, h |-> free(k, p)]
  <2>1. 0 .. m - 1 = 0 .. b.size[p] \div 8 - 1
    OBVIOUS
  <2> QED BY <1>3 DEF Moved, Copy
<1>8. m = b.size[p] \div 8 /\ \A i \in 0 .. m - 1 : w[i] = get(r0.h, p + 8 * i)
  OBVIOUS
<1>9. k = store(r0.h, q, w)
  OBVIOUS
<1> HIDE DEF q, m, w, k
<1>10. Wrote(r0.h, c, q, q, m, w, k)
  <2>1. Rep(r0.h, c) /\ q \in c.used /\ q \in Nat /\ q % 8 = 0 /\ q <= q /\ m \in Nat
    BY <1>3, <1>4, <1>5
  <2>2. q + 8 * m <= End(c, q) - 16
    BY <1>5
  <2> QED BY ONLY <1>6, <1>9, <2>1, <2>2, BodyStore
<1>11. Yields(r0.h, c, k, c, c.used \ {q}) /\ c.used \ {q} = b.used
  BY <1>2, <1>10 DEF Wrote
<1>12. Yields(k, c, r.h, d, c.used \ {p}) /\ d.used = c.used \ {p} /\ r.p = q
  <2>1. Rep(k, c)
    BY <1>11 DEF Yields
  <2> QED BY <1>3, <1>7, <2>1, FreeSound
<1>13. Yields(h, b, r.h, d, b.used \ {p})
  <2> DEFINE K == b.used \ {p}
  <2>1. Kept(h, b, r0.h, c, K) /\ Kept(r0.h, c, k, c, K) /\ Kept(k, c, r.h, d, K)
    BY <1>2, <1>11, <1>12 DEF Yields, Kept
  <2> HIDE DEF K
  <2>2. Kept(h, b, k, c, K)
    BY <2>1, KeptAgain
  <2>3. Kept(h, b, r.h, d, K)
    BY <2>1, <2>2, KeptAgain
  <2> QED BY <1>2, <1>11, <1>12, <2>3 DEF Yields, K
<1>14. q \in c.used \ {p} /\ d.used = (b.used \ {p}) \cup {q}
  BY <1>2, <1>3, <1>12
<1>15. d.size[q] = c.size[q] /\ \A a \in Words : InBody(c, q, a) => r.h.mem[a] = k.mem[a]
  BY <1>12, <1>14 DEF Yields, Kept
<1>16. ASSUME NEW i \in 0 .. m - 1, InBody(b, p, p + 8 * i)
       PROVE  r.h.mem[q + 8 * i] = h.mem[p + 8 * i]
  <2>1. k.mem[q + 8 * i] = w[i]
    BY <1>10 DEF Wrote
  <2>2. q + 8 * i \in Words /\ InBody(c, q, q + 8 * i)
    <3> DEFINE size == 8 * m
    <3>1. size \in Nat /\ size % 8 = 0 /\ size \div 8 = m
      BY <1>5
    <3>2. size + 16 <= c.size[q]
      BY <1>4, <1>5
    <3> HIDE DEF size
    <3> QED BY <1>3, <3>1, <3>2, PayloadWords
  <2>3. r.h.mem[q + 8 * i] = w[i]
    BY <1>15, <2>1, <2>2
  <2>4. p + 8 * i \in Words
    <3>1. i \in Nat /\ p + 8 * i \in Nat /\ p + 8 * i < End(b, p) - 16 /\ 48 <= p
          /\ End(b, p) <= b.brk /\ b.brk <= Top /\ Top \in Nat /\ b.brk \in Nat /\ End(b, p) \in Nat
          /\ p % 16 = 0
      BY <1>1, <1>4, <1>16, BlockWords, EdgeWords, Sizing DEF InBody
    <3>2. (p + 8 * i) % 8 = 0
      BY <1>4, <3>1
    <3> DEFINE a == p + 8 * i
               e == End(b, p)
    <3>3. a \in Nat /\ e \in Nat /\ a < e - 16 /\ 48 <= p /\ p <= a /\ e <= Top
      BY <1>4, <3>1
    <3>4. a % 8 = 0
      BY <3>2
    <3> HIDE DEF a, e
    <3>5. 16 <= a /\ a + 8 <= Top
      BY <1>4, <3>1, <3>3
    <3>6. a \in Words
      BY <3>3, <3>4, <3>5, WordRange
    <3> QED BY <3>6 DEF a
  <2>5. w[i] = h.mem[p + 8 * i]
    <3>1. w[i] = r0.h.mem[p + 8 * i]
      BY <1>3, <1>8, <2>4, GetWord
    <3>2. r0.h.mem[p + 8 * i] = h.mem[p + 8 * i]
      BY <1>2, <1>16, <2>4 DEF Yields, Kept
    <3> QED BY <3>1, <3>2
  <2> QED BY <2>3, <2>5
<1>17. \A i \in 0 .. b.size[p] \div 8 - 1 :
         InBody(b, p, p + 8 * i) => r.h.mem[q + 8 * i] = h.mem[p + 8 * i]
  BY <1>8, <1>16
<1>18. q = r0.p
  BY DEF q
<1> QED BY <1>2, <1>12, <1>13, <1>14, <1>15, <1>17, <1>18 DEF Relocated

\* The words that calloc stores are read as zeros.
LEMMA ZerosRead ==
  ASSUME NEW h \in Heaps, h.brk <= Top, NEW p \in Nat, p % 8 = 0, p >= 16,
         NEW size \in Nat, size % 8 = 0, p + size <= h.brk,
         NEW g, g = store(h, p, [i \in 0 .. size \div 8 - 1 |-> 0])
  PROVE  \A i \in 0 .. size \div 8 - 1 : get(g, p + 8 * i) = 0
<1> DEFINE m == size \div 8
           w == [i \in 0 .. m - 1 |-> 0]
<1>1. m \in Nat /\ 8 * m = size
  OBVIOUS
<1>2. w \in [0 .. m - 1 -> Word]
  BY DEF Word
<1>3. g = store(h, p, w) /\ \A i \in 0 .. m - 1 : w[i] = 0
  OBVIOUS
<1> HIDE DEF m, w
<1>4. /\ Alike(h, g)
      /\ \A a \in Words : g.mem[a] = IF p <= a /\ a < p + 8 * m THEN w[(a - p) \div 8] ELSE h.mem[a]
  <2>1. Stored(h, p, m, w, g)
    BY <1>1, <1>2, <1>3, StoreEffect
  <2> QED BY <2>1 DEF Stored
<1>5. ASSUME NEW i \in 0 .. m - 1 PROVE get(g, p + 8 * i) = 0
  <2>1. p + 8 * i \in Words
    <3>1. i \in Nat /\ p + 8 * i \in Nat /\ 16 <= p + 8 * i /\ (p + 8 * i) % 8 = 0
      BY <1>1
    <3>2. p + 8 * i + 8 <= Top
      <4>1. i + 1 <= m /\ h.brk \in Nat /\ Top \in Nat
        BY <1>1, Sizing DEF Heaps
      <4>2. p + 8 * i + 8 <= p + 8 * m
        BY <1>1, <4>1
      <4> QED BY <1>1, <3>1, <4>1, <4>2
    <3> QED BY <3>1, <3>2, WordRange
  <2>2. p <= p + 8 * i /\ p + 8 * i < p + 8 * m /\ ((p + 8 * i) - p) \div 8 = i
    BY <1>1
  <2>3. g.mem[p + 8 * i] = 0
    BY <1>3, <1>4, <2>1, <2>2
  <2> QED BY <1>4, <2>1, <2>3, GetWord DEF Alike
<1> QED BY <1>5 DEF m

\* What malloc returns has two fields.
LEMMA MallocResult ==
  ASSUME NEW h, NEW size, NEW r, r = malloc(h, size)
  PROVE  r = [p |-> r.p, h |-> r.h]
<1>1. \A n, toh, x : AboveTop(x, toh) = [p |-> AboveTop(x, toh).p, h |-> AboveTop(x, toh).h]
  BY DEF AboveTop
<1>2. \A p, n : MallocFit(h, p, n) = [p |-> MallocFit(h, p, n).p, h |-> MallocFit(h, p, n).h]
  BY <1>1 DEF MallocFit
<1>3. \A x, toh, n : PlaceTop(x, toh, n) = [p |-> PlaceTop(x, toh, n).p, h |-> PlaceTop(x, toh, n).h]
  BY <1>1 DEF PlaceTop
<1> DEFINE n == BlockSize(size)
<1>4. r \in {[p |-> NULL, h |-> h], MallocFit(h, find_fit(h, n), n),
            PlaceTop(GrowTo(h, (h.TOH + n) % SizeMod), h.TOH, n)}
  BY DEF malloc, MallocTop
<1> HIDE DEF n
<1> QED BY <1>2, <1>3, <1>4

\* calloc clears the block that malloc gave, and nothing else.
LEMMA ClearSound ==
  ASSUME NEW h, NEW b, Rep(h, b), NEW n, NEW r0, NEW c, Gave(h, b, r0, c, n), n \in Nat,
         NEW size \in Nat, size % 8 = 0, size + 16 <= n, NEW r, r = Clear(r0, size),
         r0 = [p |-> r0.p, h |-> r0.h]
  PROVE  r.p = r0.p /\ Yields(h, b, r.h, c, b.used) /\ r.p # NULL
<1> DEFINE q == r0.p
           m == size \div 8
           w == [i \in 0 .. m - 1 |-> 0]
<1>1. /\ Yields(h, b, r0.h, c, b.used) /\ q \notin b.used /\ c.used = b.used \cup {q}
      /\ c.size[q] >= n
  BY DEF Gave
<1>2. Rep(r0.h, c) /\ Tiles(c) /\ q \in c.used /\ q \in DOMAIN c.size /\ c.used \ {q} = b.used
  BY <1>1 DEF Yields, Rep, Sound, Marked, Tiles
<1>3. q \in Nat /\ q % 16 = 0 /\ c.size[q] \in Nat /\ End(c, q) = q + c.size[q] /\ q # NULL
  BY <1>2, BlockWords
<1>4. m \in Nat /\ 8 * m = size /\ q + 8 * m <= End(c, q) - 16 /\ q % 8 = 0
  <2>1. m \in Nat /\ 8 * m = size /\ q % 8 = 0
    <3>1. \A x \in Nat : x % 16 = 0 => x % 8 = 0
      OBVIOUS
    <3>2. size \div 8 \in Nat /\ 8 * (size \div 8) = size
      BY ONLY size \in Nat, size % 8 = 0
    <3> HIDE DEF q
    <3> QED BY ONLY <1>3, <3>1, <3>2
  <2> HIDE DEF m
  <2>2. c.size[q] >= n /\ q \in Nat /\ c.size[q] \in Nat /\ End(c, q) = q + c.size[q]
    BY <1>1, <1>3
  <2>3. q + 8 * m <= End(c, q) - 16
    BY ONLY <2>1, <2>2, n \in Nat, size + 16 <= n
  <2> QED BY <2>1, <2>3
<1>5. w \in [0 .. m - 1 -> Word]
  BY DEF Word
<1>6. r = [r0 EXCEPT !.h = store(r0.h, q, w)]
  BY <1>3 DEF Clear
<1> DEFINE k == store(r0.h, q, w)
<1>7. k = store(r0.h, q, w)
  OBVIOUS
<1> HIDE DEF q, m, w, k
<1>8. Wrote(r0.h, c, q, q, m, w, k)
  <2>1. Rep(r0.h, c) /\ q \in c.used /\ q \in Nat /\ q % 8 = 0 /\ q <= q /\ m \in Nat
    BY <1>2, <1>3, <1>4
  <2>2. q + 8 * m <= End(c, q) - 16
    BY <1>4
  <2> QED BY ONLY <1>5, <1>7, <2>1, <2>2, BodyStore
<1>9. Yields(h, b, k, c, b.used)
  <2>1. Kept(h, b, k, c, b.used)
    <3>1. Kept(h, b, r0.h, c, b.used) /\ Kept(r0.h, c, k, c, b.used)
      BY <1>1, <1>2, <1>8 DEF Wrote, Yields
    <3> QED BY <3>1, KeptAgain
  <2> QED BY <1>1, <1>2, <1>8, <2>1 DEF Wrote, Yields
<1> QED BY <1>3, <1>6, <1>7, <1>9 DEF q

(***************************************************************************)
(* Initialisation.                                                         *)
(***************************************************************************)
\* The heap of the prologue and the epilogue, without a block.
Bare == Abstract!Heap([x \in {} |-> 0], {}, FirstBlk, NULL)

\* There is no block, and no list.
LEMMA BareFacts ==
  /\ Tiles(Bare) /\ Frees(Bare) = {} /\ Unmerged(Bare) /\ TopOf(Bare, FirstBlk)
  /\ Bare.used = {} /\ Bare.brk = 48 /\ DOMAIN Bare.size = {}
  /\ \A h : Listed(h, {}) <=> \E P, S : Chained({}, h.free_root, P, S)
  /\ \E P, S : Chained({}, NULL, P, S)
<1>1. DOMAIN Bare.size = {} /\ Bare.used = {} /\ Bare.brk = 48
      /\ Bare.size = [x \in {} |-> 0] /\ Bare.TOH = NULL
  BY Sizing DEF Bare, Abstract!Heap
<1>2. Tiles(Bare)
  <2>1. Bare = Abstract!Heap(Bare.size, Bare.used, Bare.brk, Bare.TOH)
    BY DEF Bare, Abstract!Heap
  <2>2. Bare.size = [p \in DOMAIN Bare.size |-> Bare.size[p]]
    BY <1>1
  <2> QED BY <1>1, <2>1, <2>2, Sizing DEF Tiles, Shaped, Follows
<1>3. Frees(Bare) = {}
  BY <1>1 DEF Frees
<1>4. Unmerged(Bare) /\ TopOf(Bare, FirstBlk)
  BY <1>1, <1>3, Sizing DEF Unmerged, TopOf
<1>5. \A h : Listed(h, {}) <=> \E P, S : Chained({}, h.free_root, P, S)
  BY DEF Listed
<1>6. \E P, S : Chained({}, NULL, P, S)
  <2> DEFINE P == [x \in {} |-> NULL]
  <2>1. IsFiniteSet({}) /\ Cardinality({}) = 0
    BY FS_EmptySet
  <2>2. Linked({}, NULL, P, P)
    BY <2>1 DEF Linked
  <2>3. Ranked({}, NULL, P, P)
    BY <2>1 DEF Ranked
  <2> QED BY <2>2, <2>3 DEF Chained
<1> QED BY <1>1, <1>2, <1>3, <1>4, <1>5, <1>6

\* Initialisation of memory in which no word is -1.
LEMMA BootClean ==
  ASSUME NEW h \in Heaps, NEW g, g = Boot(h)
  PROVE  Rep(g, Abstract!InitHeap) /\ g.fault = h.fault
<1> DEFINE h1 == [mem_reset_brk(h) EXCEPT !.free_root = NULL, !.TOH = NULL, !.brk = 48]
           h2 == store(h1, 16, Prologue)
           r  == allocate_page(h2, InitPage)
<1>1. /\ h1 \in Heaps /\ h1.mem = h.mem /\ h1.brk = 48 /\ h1.free_root = NULL /\ h1.TOH = NULL
      /\ h1.fault = h.fault
  BY Sizing DEF Heaps, mem_reset_brk
<1>2. /\ 16 \in Words /\ 24 \in Words /\ 32 \in Words /\ 40 \in Words /\ 48 <= Top /\ Top \in Nat
      /\ InitPage \in Nat /\ InitPage >= 32 /\ InitPage % 16 = 0 /\ 48 + InitPage <= Top
  <2>1. 48 <= Top /\ Top \in Nat /\ InitPage \in Nat /\ InitPage >= 32 /\ InitPage % 16 = 0
        /\ 48 + InitPage <= Top
    BY Sizing
  <2> QED BY <2>1, WordRange
<1>3. get(h1, 16) # -1
  BY <1>1, <1>2, GetWord DEF Word
<1>4. mm_init(mem_reset_brk(h)) = r
  <2>1. mem_reset_brk(h).brk = 16
    BY Sizing DEF mem_reset_brk, Heaps
  <2>2. [mem_reset_brk(h) EXCEPT !.free_root = NULL, !.TOH = NULL, !.brk = 16 + 32] = h1
    OBVIOUS
  <2> HIDE DEF h1
  <2> QED BY <1>3, <2>1, <2>2 DEF mm_init
<1> HIDE DEF h1
<1>5. /\ DOMAIN Prologue = 0 .. 3
      /\ Prologue[0] = 0 /\ Prologue[1] = 17 /\ Prologue[2] = 17 /\ Prologue[3] = 1
  BY DEF Prologue, pack
<1>6. Prologue \in [0 .. 4 - 1 -> Word]
  <2>1. \A i \in 0 .. 3 : Prologue[i] \in Word
    BY <1>5 DEF Word
  <2>2. Prologue = [i \in 0 .. 3 |-> Prologue[i]]
    BY DEF Prologue
  <2> HIDE DEF Prologue
  <2>3. 0 .. 4 - 1 = 0 .. 3
    OBVIOUS
  <2> QED BY <2>1, <2>2, <2>3
<1>7. /\ Alike(h1, h2)
      /\ \A a \in Words : h2.mem[a] = IF 16 <= a /\ a < 16 + 8 * 4 THEN Prologue[(a - 16) \div 8]
                                      ELSE h1.mem[a]
  <2>1. 16 + 8 * 4 <= h1.brk /\ h1.brk <= Top /\ 16 % 8 = 0
    BY <1>1, <1>2
  <2>2. 16 \in Nat /\ 16 >= 16 /\ 4 \in Nat
    OBVIOUS
  <2>3. Stored(h1, 16, 4, Prologue, store(h1, 16, Prologue))
    BY ONLY <1>1, <1>6, <2>1, <2>2, StoreEffect
  <2> QED BY <2>3 DEF Stored
<1>8. h2.mem[24] = 17 /\ h2.mem[32] = 17 /\ h2.mem[40] = 1
  <2>1. (24 - 16) \div 8 = 1 /\ (32 - 16) \div 8 = 2 /\ (40 - 16) \div 8 = 3
    OBVIOUS
  <2> QED BY <1>2, <1>5, <1>7, <2>1
<1>9. Sound(h2, Bare)
  <2>1. Bare.brk = 48 /\ DOMAIN Bare.size = {} /\ Tiles(Bare) /\ Frees(Bare) = {} /\ Unmerged(Bare)
    BY BareFacts
  <2>2. Marked(h2, Bare)
    <3>1. Bare.brk - 8 = 40
      BY <2>1
    <3> QED BY <1>1, <1>7, <1>8, <2>1, <3>1 DEF Marked, Tagged, Alike
  <2>3. Listed(h2, {})
    <3>1. h2.free_root = NULL
      BY <1>1, <1>7 DEF Alike
    <3> QED BY <3>1, BareFacts
  <2> QED BY <2>1, <2>2, <2>3 DEF Sound
<1> DEFINE c == Stretch(Bare, FirstBlk, InitPage)
<1>10. r.ok /\ Yields(h2, Bare, r.h, c, Bare.used)
  <2>1. Bare.brk + InitPage <= Top /\ TopOf(Bare, FirstBlk)
    BY <1>2, BareFacts
  <2> QED BY <1>2, <1>9, <2>1, PageSound
<1>11. c = Abstract!InitHeap
  <2>1. DOMAIN Bare.size \cup {FirstBlk} = {FirstBlk} /\ Bare.brk = FirstBlk /\ Bare.used = {}
        /\ FirstBlk \in Nat /\ FirstBlk + InitPage - FirstBlk = InitPage
    BY <1>2, BareFacts, Sizing
  <2>2. [x \in DOMAIN Bare.size \cup {FirstBlk} |->
           IF x = FirstBlk THEN Bare.brk + InitPage - FirstBlk ELSE Bare.size[x]]
        = [x \in {FirstBlk} |-> InitPage]
    BY <2>1
  <2> QED BY <2>1, <2>2 DEF Stretch, Abstract!InitHeap, Abstract!Heap
<1>12. g = r.h
  BY <1>4, <1>10 DEF Boot, Booted
<1>13. h2.fault = h.fault
  BY <1>1, <1>7 DEF Alike
<1> HIDE DEF c, r, h2
<1> QED BY <1>10, <1>11, <1>12, <1>13 DEF Yields

\* Memory that may hold anything, before mm_init
Memories == [mem : [Words -> Int], brk : Nat, free_root : Nat, TOH : Nat, fault : {"none"}]

\* g is h but for its words, whatever they are.
AlikeAny(h, g) == /\ g \in Memories /\ g.brk = h.brk /\ g.free_root = h.free_root
                  /\ g.TOH = h.TOH

\* A word is read, or written below the break.
LEMMA AnyWord ==
  ASSUME NEW h \in Memories, NEW a \in Words
  PROVE  /\ get(h, a) = h.mem[a] /\ h.mem[a] \in Int
         /\ \A v \in Int : a < h.brk =>
              /\ AlikeAny(h, put(h, a, v))
              /\ \A x \in Words : put(h, a, v).mem[x] = IF x = a THEN v ELSE h.mem[x]
<1>1. a % SizeMod = a /\ h.mem \in [Words -> Int]
  BY WordRange DEF Memories
<1>2. get(h, a) = h.mem[a] /\ h.mem[a] \in Int
  BY <1>1 DEF get
<1>3. ASSUME NEW v \in Int, a < h.brk
      PROVE  /\ AlikeAny(h, put(h, a, v))
             /\ \A x \in Words : put(h, a, v).mem[x] = IF x = a THEN v ELSE h.mem[x]
  <2>1. put(h, a, v) = [h EXCEPT !.mem[a] = v]
    BY <1>1, <1>3 DEF put
  <2>2. [h EXCEPT !.mem[a] = v] \in Memories
    BY <1>1, <1>3 DEF Memories
  <2> QED BY <1>1, <2>1, <2>2 DEF AlikeAny, Memories
<1> QED BY <1>2, <1>3

\* The words of h describe the blocks of b and the list of the free ones; what else is
\* in the memory does not matter.
Represents(h, b) ==
  /\ h.brk = b.brk /\ h.TOH = b.TOH /\ Tiles(b) /\ Unmerged(b) /\ TopFits(b)
  /\ Tagged(h, b) /\ Listed(h, Frees(b))

\* The words that initialisation leaves, in a heap that ends at top
Fresh(g, top) ==
  /\ g.brk = top /\ g.free_root = 48 /\ g.TOH = 48 /\ g.fault = "none"
  /\ g.mem[24] = 17 /\ g.mem[32] = 17 /\ g.mem[40] = InitPage /\ g.mem[48] = NULL
  /\ g.mem[56] = NULL /\ g.mem[top - 16] = InitPage /\ g.mem[top - 8] = 1

\* The prologue is stored below the first block.
LEMMA PrologueStored ==
  ASSUME NEW h \in Memories, h.brk = 48, NEW g, g = store(h, 16, Prologue)
  PROVE  /\ AlikeAny(h, g) /\ g.mem[24] = 17 /\ g.mem[32] = 17
         /\ \A a \in Words : a >= 48 => g.mem[a] = h.mem[a]
<1> DEFINE index(a) == ((a - 16) % SizeMod) \div 8
<1>1. /\ DOMAIN Prologue = 0 .. 3
      /\ Prologue[0] = 0 /\ Prologue[1] = 17 /\ Prologue[2] = 17 /\ Prologue[3] = 1
  BY DEF Prologue, pack
<1>2. SizeMod \in Nat /\ Top \in Nat /\ 80 <= Top /\ Top + Top < SizeMod
      /\ 16 \in Words /\ 24 \in Words /\ 32 \in Words /\ 40 \in Words
  <2>1. SizeMod \in Nat /\ Top \in Nat /\ 80 <= Top /\ Top + Top < SizeMod
    BY Sizing
  <2> QED BY <2>1, WordRange
<1>3. \A i \in 0 .. 3 : (16 + 8 * i) % SizeMod \in Words /\ (16 + 8 * i) % SizeMod < h.brk
  BY <1>2
<1> DEFINE words == [a \in Words |-> IF a < 48 /\ index(a) \in 0 .. 3
                                   THEN Prologue[index(a)] ELSE h.mem[a]]
<1>4. g = [h EXCEPT !.mem = words, !.fault = h.fault]
  BY <1>1, <1>3 DEF store
<1>5. \A a \in Words : words[a] = IF a < 48 /\ index(a) \in 0 .. 3
                                 THEN Prologue[index(a)] ELSE h.mem[a]
  OBVIOUS
<1>6. words \in [Words -> Int]
  <2>1. \A i \in 0 .. 3 : Prologue[i] \in Int
    BY <1>1
  <2>2. h.mem \in [Words -> Int]
    BY DEF Memories
  <2> HIDE DEF index
  <2> QED BY <2>1, <2>2
<1> HIDE DEF words
<1>7. g \in Memories /\ AlikeAny(h, g) /\ g.mem = words
  <2>1. /\ g.mem = words /\ g.brk = h.brk /\ g.free_root = h.free_root /\ g.TOH = h.TOH
        /\ g.fault = h.fault
        /\ g = [mem |-> g.mem, brk |-> g.brk, free_root |-> g.free_root, TOH |-> g.TOH,
                fault |-> g.fault]
    BY <1>4 DEF Memories
  <2>2. h.brk \in Nat /\ h.free_root \in Nat /\ h.TOH \in Nat /\ h.fault = "none"
    BY DEF Memories
  <2>3. g \in Memories
    BY ONLY <1>6, <2>1, <2>2 DEF Memories
  <2> QED BY <2>1, <2>3 DEF AlikeAny
<1>8. index(24) = 1 /\ index(32) = 2
  BY <1>2
<1>9. \A a \in Words : a >= 48 => ~(a < 48)
  BY WordRange
<1> HIDE DEF index
<1> QED BY <1>1, <1>2, <1>5, <1>7, <1>8, <1>9

\* The first page, whatever was in it but for -1 in its first word.
LEMMA FirstPageFresh ==
  ASSUME NEW h \in Memories, h.brk = 48, h.free_root = NULL, h.mem[24] = 17, h.mem[32] = 17,
         NEW r, r = allocate_page(h, InitPage)
  PROVE  /\ h.mem[48] = -1 => ~r.ok /\ r.h = [h EXCEPT !.brk = 48 + InitPage]
         /\ h.mem[48] # -1 => r.ok /\ Fresh(r.h, 48 + InitPage)
<1> DEFINE n == InitPage
           t == 48 + n
           g == [h EXCEPT !.brk = t]
           k == put(g, 40, n)
           l == put(k, t - 16, n)
           m == put(l, t - 8, 1)
           u == put(m, 48, NULL)
           v == put(u, 56, NULL)
<1>1. /\ n \in Nat /\ n >= 32 /\ n % 16 = 0 /\ 16 * (n \div 16) = n /\ t \in Nat /\ t >= 80
      /\ t % 16 = 0 /\ HeapLo + MaxHeap = Top /\ t <= Top /\ Top \in Nat
  BY Sizing DEF Top
<1>2. /\ 24 \in Words /\ 32 \in Words /\ 40 \in Words /\ 48 \in Words /\ 56 \in Words
      /\ t - 16 \in Words /\ t - 8 \in Words
      /\ t - 16 >= 64 /\ t - 8 >= 72 /\ t - 16 < t /\ t - 8 < t /\ t - 16 # t - 8
  BY <1>1, WordRange
<1>8. r = IF t > HeapLo + MaxHeap THEN [ok |-> FALSE, h |-> [h EXCEPT !.fault = "oom"]]
          ELSE IF get(g, 48) = -1 THEN [ok |-> FALSE, h |-> g]
          ELSE LET f == tag(g, 48, n, 0)
               IN  [ok |-> TRUE,
                    h  |-> TopAt(coalesce(put(f, GHA(next_blk(f, 48)), pack(0, 1)), 48))]
  <2> DEFINE result(p, j) ==
               LET f == tag(j, p, InitPage, 0)
               IN  IF p + InitPage > HeapLo + MaxHeap
                   THEN [ok |-> FALSE, h |-> [h EXCEPT !.fault = "oom"]]
                   ELSE IF get(j, p) = -1 THEN [ok |-> FALSE, h |-> j]
                   ELSE [ok |-> TRUE,
                         h  |-> TopAt(coalesce(put(f, GHA(next_blk(f, p)), pack(0, 1)), p))]
  <2>1. r = result(h.brk, [h EXCEPT !.brk = h.brk + InitPage])
    BY DEF allocate_page
  <2>2. g = [h EXCEPT !.brk = h.brk + InitPage]
    OBVIOUS
  <2> HIDE DEF result, g
  <2>3. r = result(48, g)
    BY <2>1, <2>2
  <2> QED BY <2>3 DEF result
<1> HIDE DEF n, t
<1>3. g \in Memories /\ g.brk = t /\ g.mem = h.mem /\ g.free_root = NULL
  BY <1>1 DEF Memories
<1> HIDE DEF g
<1>4. get(g, 48) = h.mem[48]
  BY <1>2, <1>3, AnyWord
<1>5. CASE h.mem[48] = -1
  <2>1. r = [ok |-> FALSE, h |-> g]
    BY <1>1, <1>4, <1>5, <1>8
  <2> QED BY <1>5, <2>1 DEF n, t, g
<1>6. CASE h.mem[48] # -1
  <2>1. AlikeAny(g, k) /\ \A x \in Words : k.mem[x] = IF x = 40 THEN n ELSE h.mem[x]
    BY <1>1, <1>2, <1>3, AnyWord
  <2> HIDE DEF k
  <2>2. AlikeAny(k, l) /\ \A x \in Words : l.mem[x] = IF x = t - 16 THEN n ELSE k.mem[x]
    BY <1>1, <1>2, <1>3, <2>1, AnyWord DEF AlikeAny
  <2> HIDE DEF l
  <2>3. AlikeAny(l, m) /\ \A x \in Words : m.mem[x] = IF x = t - 8 THEN 1 ELSE l.mem[x]
    BY <1>1, <1>2, <1>3, <2>1, <2>2, AnyWord DEF AlikeAny
  <2> HIDE DEF m
  <2>4. AlikeAny(m, u) /\ \A x \in Words : u.mem[x] = IF x = 48 THEN NULL ELSE m.mem[x]
    BY <1>1, <1>2, <1>3, <2>1, <2>2, <2>3, Sizing, AnyWord DEF AlikeAny
  <2> HIDE DEF u
  <2>5. AlikeAny(u, v) /\ \A x \in Words : v.mem[x] = IF x = 56 THEN NULL ELSE u.mem[x]
    BY <1>1, <1>2, <1>3, <2>1, <2>2, <2>3, <2>4, Sizing, AnyWord DEF AlikeAny
  <2> HIDE DEF v
  <2>6. k.mem[40] = n /\ l.mem[40] = n /\ m.mem[40] = n /\ m.mem[24] = 17 /\ m.mem[32] = 17
        /\ m.mem[t - 8] = 1
    BY <1>1, <1>2, <2>1, <2>2, <2>3
  <2>7. /\ k \in Memories /\ l \in Memories /\ m \in Memories /\ m.free_root = NULL
        /\ v \in Memories /\ v.brk = t
    BY <1>3, <2>1, <2>2, <2>3, <2>4, <2>5 DEF AlikeAny
  <2>8. GFA(k, 48) = t - 16 /\ next_blk(l, 48) = t /\ next_blk(m, 48) = t
    <3>1. get(k, 40) = n /\ get(l, 40) = n /\ get(m, 40) = n
      BY <1>2, <2>6, <2>7, AnyWord
    <3>2. 48 - 8 = 40 /\ t = 48 + n
      BY DEF t
    <3> QED BY <1>1, <3>1, <3>2 DEF GFA, GHA, next_blk, get_size
  <2>9. tag(g, 48, n, 0) = l
    <3>1. pack(n, 0) = n /\ GHA(48) = 40
      BY <1>1 DEF pack, GHA
    <3> QED BY <2>8, <3>1 DEF tag, k, l
  <2>10. put(l, GHA(next_blk(l, 48)), pack(0, 1)) = m
    BY <2>8 DEF m, GHA, pack
  <2>11. coalesce(m, 48) = [h |-> [v EXCEPT !.free_root = 48], p |-> 48]
    <3>1. get(m, 24) = 17 /\ get(m, 32) = 17 /\ get(m, t - 8) = 1
      BY <1>2, <2>6, <2>7, AnyWord
    <3>2. prev_blk(m, 48) = 32 /\ GFA(m, 32) = 32
      BY <3>1 DEF prev_blk, GFA, GHA, get_size
    <3>3. get_alloc(m, GFA(m, prev_blk(m, 48))) = 1 /\ get_alloc(m, GHA(next_blk(m, 48))) = 1
      BY <2>8, <3>1, <3>2 DEF get_alloc, GHA
    <3>4. coalesce(m, 48) = [h |-> CoalesceNone(m, 48), p |-> 48]
      BY <3>3 DEF coalesce
    <3>5. CoalesceNone(m, 48) = [v EXCEPT !.free_root = 48]
      BY <2>7 DEF CoalesceNone, Begin, u, v
    <3> QED BY <3>4, <3>5
  <2>12. r = [ok |-> TRUE, h |-> [[v EXCEPT !.free_root = 48] EXCEPT !.TOH = 48]]
    <3>1. r = [ok |-> TRUE, h |-> TopAt(coalesce(m, 48))]
      <4>1. ~(t > HeapLo + MaxHeap)
        BY <1>1
      <4>2. get(g, 48) # -1
        BY <1>4, <1>6
      <4> QED BY <1>8, <2>9, <2>10, <4>1, <4>2, Zenon
    <3>2. coalesce(m, 48).h = [v EXCEPT !.free_root = 48] /\ coalesce(m, 48).p = 48
      BY <2>11
    <3> QED BY <3>1, <3>2 DEF TopAt
  <2>13. /\ v.mem[24] = 17 /\ v.mem[32] = 17 /\ v.mem[40] = n /\ v.mem[48] = NULL
         /\ v.mem[56] = NULL /\ v.mem[t - 16] = n /\ v.mem[t - 8] = 1
    BY <1>1, <1>2, <2>1, <2>2, <2>3, <2>4, <2>5
  <2>14. r.ok /\ r.h.mem = v.mem /\ r.h.brk = t /\ r.h.free_root = 48 /\ r.h.TOH = 48
         /\ r.h.fault = "none"
    <3> DEFINE w == [v EXCEPT !.free_root = 48]
               x == [w EXCEPT !.TOH = 48]
    <3>1. /\ w.mem = v.mem /\ w.brk = t /\ w.free_root = 48 /\ w.fault = "none"
          /\ DOMAIN w = {"mem", "brk", "free_root", "TOH", "fault"}
      BY <2>7 DEF Memories
    <3> HIDE DEF w
    <3>2. x.mem = v.mem /\ x.brk = t /\ x.free_root = 48 /\ x.TOH = 48 /\ x.fault = "none"
      BY <3>1
    <3>3. r = [ok |-> TRUE, h |-> x]
      BY <2>12 DEF w
    <3> HIDE DEF x
    <3> QED BY <3>2, <3>3
  <2>15. Fresh(r.h, t)
    BY <2>13, <2>14 DEF Fresh, n
  <2> QED BY <1>6, <2>14, <2>15 DEF t, n
<1> QED BY <1>5, <1>6

\* Initialisation fails when one of the two words it tests is -1, and only then.
LEMMA BootWords ==
  ASSUME NEW h \in Memories, NEW g, g = Boot(h)
  PROVE  IF h.mem[HeapLo] = -1 \/ h.mem[FirstBlk] = -1 THEN g.fault = "init"
         ELSE Fresh(g, 48 + InitPage)
<1> DEFINE h0 == mem_reset_brk(h)
           h1 == [h0 EXCEPT !.free_root = NULL, !.TOH = NULL, !.brk = 48]
           h2 == store(h1, 16, Prologue)
           r  == allocate_page(h2, InitPage)
<1>1. /\ h1 \in Memories /\ h1.mem = h.mem /\ h1.brk = 48 /\ h1.free_root = NULL
      /\ h0.brk = 16
  BY Sizing DEF Memories, mem_reset_brk
<1>2. HeapLo = 16 /\ FirstBlk = 48 /\ 16 \in Words /\ 48 \in Words
  <2>1. Top \in Nat /\ 80 <= Top
    BY Sizing
  <2> QED BY <2>1, Sizing, WordRange
<1>3. mm_init(h0) = IF h.mem[16] = -1 THEN [ok |-> FALSE, h |-> h1] ELSE r
  <2> DEFINE result(lo, j) == IF get(j, lo) = -1 THEN [ok |-> FALSE, h |-> j]
                              ELSE allocate_page(store(j, lo, Prologue), InitPage)
  <2>1. mm_init(h0) = result(h0.brk, [h0 EXCEPT !.free_root = NULL, !.TOH = NULL,
                                                !.brk = h0.brk + 32])
    BY DEF mm_init
  <2>2. [h0 EXCEPT !.free_root = NULL, !.TOH = NULL, !.brk = 16 + 32] = h1
    OBVIOUS
  <2> HIDE DEF h0, h1, result
  <2>3. mm_init(h0) = result(16, h1)
    BY <1>1, <2>1, <2>2
  <2>4. get(h1, 16) = h.mem[16]
    BY <1>1, <1>2, AnyWord
  <2> QED BY <2>3, <2>4 DEF result
<1>4. g = Booted(mm_init(h0))
  BY DEF Boot
<1> HIDE DEF h0, h1
<1>5. CASE h.mem[16] = -1
  <2>1. g = [h1 EXCEPT !.fault = "init"]
    BY <1>1, <1>3, <1>4, <1>5 DEF Booted, Memories
  <2> QED BY <1>1, <1>2, <1>5, <2>1 DEF Memories
<1>6. CASE h.mem[16] # -1
  <2>1. /\ h2 \in Memories /\ h2.brk = 48 /\ h2.free_root = NULL /\ h2.mem[24] = 17
        /\ h2.mem[32] = 17 /\ h2.mem[48] = h.mem[48]
    BY <1>1, <1>2, PrologueStored DEF AlikeAny
  <2> HIDE DEF h2
  <2>2. /\ h2.mem[48] = -1 => ~r.ok /\ r.h = [h2 EXCEPT !.brk = 48 + InitPage]
        /\ h2.mem[48] # -1 => r.ok /\ Fresh(r.h, 48 + InitPage)
    BY <2>1, FirstPageFresh
  <2> HIDE DEF r
  <2>3. g = Booted(r)
    BY <1>3, <1>4, <1>6
  <2>4. CASE h.mem[48] = -1
    <3>1. r.h = [h2 EXCEPT !.brk = 48 + InitPage] /\ ~r.ok
      BY <2>1, <2>2, <2>4
    <3>2. g = [[h2 EXCEPT !.brk = 48 + InitPage] EXCEPT !.fault = "init"]
      BY <2>1, <2>3, <3>1 DEF Booted, Memories
    <3> QED BY <1>2, <2>1, <2>4, <3>2 DEF Memories
  <2>5. CASE h.mem[48] # -1
    BY <1>2, <1>6, <2>1, <2>2, <2>3, <2>5 DEF Booted
  <2> QED BY <2>4, <2>5
<1> QED BY <1>5, <1>6

\* On any memory, mm_init fails exactly when one of the two words that it takes for the
\* result of mem_sbrk is stale and -1 (mm.c:121, 418); otherwise the tags and the links
\* describe one free block of the first page (mm.c:109-139).
THEOREM BootSound ==
  ASSUME NEW h \in Memories, NEW g, g = Boot(h)
  PROVE  /\ g.fault = IF h.mem[HeapLo] = -1 \/ h.mem[FirstBlk] = -1 THEN "init" ELSE "none"
         /\ g.fault = "none" => Represents(g, Abstract!InitHeap)
<1> DEFINE b == Abstract!InitHeap
           z == [mem |-> [a \in Words |-> 0], brk |-> HeapLo, free_root |-> NULL, TOH |-> NULL,
                 fault |-> "none"]
           k == Boot(z)
<1>1. z \in Memories /\ z \in Heaps
  BY Sizing DEF Memories, Heaps, Word
<1>2. z.mem[HeapLo] # -1 /\ z.mem[FirstBlk] # -1
  <2>1. Top \in Nat /\ 80 <= Top /\ HeapLo = 16 /\ FirstBlk = 48
    BY Sizing
  <2>2. HeapLo \in Words /\ FirstBlk \in Words
    BY <2>1, WordRange
  <2> QED BY <2>2
<1> HIDE DEF z
<1>3. Rep(k, b) /\ Fresh(k, 48 + InitPage)
  BY <1>1, <1>2, BootClean, BootWords
<1> HIDE DEF k
<1>4. ASSUME Fresh(g, 48 + InitPage) PROVE Represents(g, b)
  <2>1. Frees(b) = {48} /\ DOMAIN b.size = {48} /\ b.brk = 48 + InitPage /\ b.used = {}
        /\ b.size[48] = InitPage
    BY Sizing DEF Abstract!InitHeap, Abstract!Heap, Frees
  <2>2. Tiles(b) /\ Unmerged(b) /\ TopFits(b) /\ k.TOH = b.TOH /\ Listed(k, Frees(b))
    BY <1>3 DEF Rep, Sound, Marked
  <2> HIDE DEF b
  <2>3. Tagged(g, b)
    <3>1. End(b, 48) - 16 = (48 + InitPage) - 16 /\ Bit(b, 48) = 0 /\ InitPage + 0 = InitPage
          /\ 48 - 8 = 40
      BY <2>1, Sizing DEF End, Bit
    <3> QED BY <1>4, <2>1, <3>1 DEF Tagged, Fresh
  <2>4. Listed(g, Frees(b))
    <3>1. k.free_root = g.free_root /\ k.mem[48] = g.mem[48] /\ k.mem[48 + 8] = g.mem[48 + 8]
      BY <1>3, <1>4 DEF Fresh
    <3>2. PICK P, S : /\ Chained(Frees(b), k.free_root, P, S)
                      /\ \A x \in Frees(b) : k.mem[x] = P[x] /\ k.mem[x + 8] = S[x]
      BY <2>2 DEF Listed
    <3>3. \A x \in Frees(b) : g.mem[x] = P[x] /\ g.mem[x + 8] = S[x]
      BY <2>1, <3>1, <3>2
    <3> QED BY <3>1, <3>2, <3>3 DEF Listed
  <2>5. g.TOH = b.TOH /\ g.brk = b.brk
    BY <1>3, <1>4, <2>1, <2>2 DEF Fresh
  <2> QED BY <2>2, <2>3, <2>4, <2>5 DEF Represents
<1>5. Fresh(g, 48 + InitPage) => g.fault = "none"
  BY DEF Fresh
<1> QED BY <1>4, <1>5, BootWords

(***************************************************************************)
(* The calls.                                                              *)
(***************************************************************************)
\* The requests of the client, as BlockHeap counts them
Requested == (Sizes \cup {3 * n : n \in Sizes}) \ {0}

\* c is what BlockHeap may make of b when size bytes at q take the place of x.
Given(b, x, q, size, c) ==
  LET n == BlockSize(size)
  IN  \/ x = Nothing /\ [h |-> c, p |-> q] \in Abstract!Mallocs(b, n)
      \/ x # Nothing /\ q = x.p /\ c = b /\ b.size[q] - n \in 0 .. 32
      \/ x # Nothing /\ q = x.p /\ c = Abstract!Shrink(b, q, n) /\ b.size[q] - n > 32
      \/ /\ x # Nothing /\ b.size[x.p] < n
         /\ \E d : [h |-> d, p |-> q] \in Abstract!Mallocs(b, n) /\ c = Abstract!free(d, x.p)

\* c is b with the pages that could be added, when size bytes were asked for.
Died(b, size, c) ==
  LET n == BlockSize(size)
  IN  \E more \in Abstract!Growths :
        /\ c = IF more = 0 THEN b ELSE Abstract!Extend(b, more)
        /\ Abstract!NoFit(b, n)
        /\ b.brk + more + Page > Top /\ b.brk + more <= Top /\ b.TOH + n >= b.brk + more
        /\ more > 0 => ~Abstract!Stranded(b)

\* A call makes g and e of h and f, which represent c and b.
Turn(h, b, f, g, c, e) ==
  /\ Rep(g, c) /\ Holds(g, c, e)
  /\ \/ g = h /\ e = f /\ c = b
     \/ \E id \in Ids, size \in Requested, q \in Nat :
          /\ g.fault = "none" /\ e = [f EXCEPT ![id] = [p |-> q, size |-> size]]
          /\ Given(b, f[id], q, size, c)
     \/ \E id \in Ids :
          /\ g.fault = "none" /\ f[id] # Nothing /\ e = [f EXCEPT ![id] = Nothing]
          /\ c = Abstract!free(b, f[id].p)
     \/ g.fault = "oom" /\ e = f /\ \E size \in Requested : Died(b, size, c)

\* What malloc, calloc or realloc returns for id: the break of a stranded heap moved, or
\* a block in which the client's first bytes are there, or the process died.
Handed(h, b, f, id, size, from, r) ==
  \/ Abstract!Stranded(b) /\ "brk" \in DOMAIN r.h /\ "fault" \in DOMAIN r.h /\ r.h.brk # b.brk
  \/ \E c : /\ r.p # NULL /\ r.h.fault = "none"
            /\ Hands(h, b, f, id, r.h, c, r.p, size, from) /\ Given(b, f[id], r.p, size, c)
  \/ \E c : /\ r.p = NULL /\ Died(b, size, c) /\ c.used = b.used
            /\ \E g : Yields(h, b, g, c, b.used) /\ r.h = [g EXCEPT !.fault = "oom"]

\* The requests are modest.
LEMMA RequestsModest ==
  /\ \A size \in Requested : Modest(size)
  /\ \A size \in Sizes : /\ size \in Nat /\ size % 8 = 0 /\ (size # 0 => size \in Requested)
                         /\ (size # 0 => 3 * size \in Requested)
                         /\ (3 * size) % SizeMod = 3 * size
<1>1. \A n \in Sizes : n \in Nat /\ n % 8 = 0 /\ 6 * n + 64 <= SizeMod
  BY ClientAssumption, RoomAssumption, Sizing
<1>2. ASSUME NEW size \in Requested PROVE Modest(size)
  <2>1. CASE size \in Sizes
    BY <1>1, <2>1, Sizing DEF Modest, Requested
  <2>2. ASSUME NEW n \in Sizes, size = 3 * n PROVE Modest(size)
    <3>1. n \in Nat /\ n % 8 = 0 /\ 6 * n + 64 <= SizeMod /\ SizeMod \in Nat
      BY <1>1, Sizing
    <3>2. 3 * n \in Nat /\ (3 * n) % 8 = 0 /\ 2 * (3 * n) + 64 <= SizeMod
      BY <3>1
    <3>3. size # 0
      BY DEF Requested
    <3> QED BY <2>2, <3>2, <3>3 DEF Modest
  <2> QED BY <2>1, <2>2 DEF Requested
<1>3. ASSUME NEW size \in Sizes
      PROVE  /\ size \in Nat /\ size % 8 = 0 /\ (size # 0 => size \in Requested)
             /\ (size # 0 => 3 * size \in Requested)
             /\ (3 * size) % SizeMod = 3 * size
  <2>1. size \in Nat /\ size % 8 = 0 /\ 6 * size + 64 <= SizeMod /\ SizeMod \in Nat
    BY <1>1, Sizing
  <2>2. 3 * size \in Nat /\ 3 * size < SizeMod /\ (size # 0 => 3 * size # 0)
    BY <2>1
  <2>3. (3 * size) % SizeMod = 3 * size
    BY <2>1, <2>2, Remainder
  <2> QED BY <2>1, <2>2, <2>3 DEF Requested
<1> QED BY <1>2, <1>3

\* The fault is a word of its own.
LEMMA FaultApart ==
  ASSUME NEW h, NEW b, NEW f, Rep(h, b), Holds(h, b, f), NEW g, g = [h EXCEPT !.fault = "oom"]
  PROVE  Rep(g, b) /\ Holds(g, b, f) /\ g.fault = "oom" /\ g.brk = h.brk
<1>1. h \in Heaps
  BY DEF Rep, Sound, Marked
<1>2. /\ g \in Heaps /\ g.mem = h.mem /\ g.brk = h.brk /\ g.free_root = h.free_root
      /\ g.TOH = h.TOH /\ g.fault = "oom"
  BY <1>1 DEF Heaps
<1>3. Marked(g, b)
  BY <1>2 DEF Rep, Sound, Marked, Tagged
<1>4. Listed(g, Frees(b))
  BY <1>2 DEF Rep, Sound, Listed
<1>5. Holds(g, b, f)
  BY <1>2 DEF Holds, Owned
<1> QED BY <1>2, <1>3, <1>4, <1>5 DEF Rep, Sound

\* Blocks that are kept are still held.
LEMMA HoldsKept ==
  ASSUME NEW h, NEW b, Tiles(b), NEW f, Holds(h, b, f), NEW g, NEW c, Kept(h, b, g, c, b.used),
         c.used = b.used
  PROVE  Holds(g, c, f)
<1>1. ASSUME NEW id \in Ids, f[id] # Nothing PROVE Owned(g, c, f[id])
  <2>1. Owned(h, b, f[id]) /\ f[id].p \in b.used
    BY <1>1 DEF Holds, Owned
  <2> QED BY <2>1, OwnedKept
<1> QED BY <1>1 DEF Holds

\* What the client makes of what it is handed; what it asked for is what it died of.
LEMMA GiveTurn ==
  ASSUME NEW b, Rep(heap, b), Holds(heap, b, blocks), heap.fault = "none", NEW id \in Ids,
         NEW size \in Requested, NEW from \in Nat, from % 8 = 0, from <= size, NEW r,
         Handed(heap, b, blocks, id, size, from, r), Give(id, r, from, size),
         Abstract!Stranded(b) => heap'.brk = b.brk
  PROVE  \E c : /\ Turn(heap, b, blocks, heap', c, blocks')
                /\ heap'.fault = "oom" => Died(b, size, c)
<1>1. Modest(size) /\ size \in Nat /\ Tiles(b)
  BY RequestsModest DEF Modest, Rep, Sound, Marked
<1>2. CASE Abstract!Stranded(b) /\ "brk" \in DOMAIN r.h /\ "fault" \in DOMAIN r.h /\ r.h.brk # b.brk
  <2>1. heap' = r.h \/ heap' = Scribble(r.h, r.p, from, size)
    BY DEF Give, Die
  <2>2. SameBrk(r.h, Scribble(r.h, r.p, from, size))
    BY BrkBasics DEF Scribble
  <2>3. heap'.brk = r.h.brk
    BY <1>2, <2>1, <2>2 DEF SameBrk
  <2> QED BY <1>2, <2>3
<1>3. ASSUME NEW c,
             r.p # NULL, r.h.fault = "none",
             Hands(heap, b, blocks, id, r.h, c, r.p, size, from),
             Given(b, blocks[id], r.p, size, c)
      PROVE  Turn(heap, b, blocks, heap', c, blocks') /\ heap'.fault # "oom"
  <2>1. heap' = Scribble(r.h, r.p, from, size)
        /\ blocks' = [blocks EXCEPT ![id] = [p |-> r.p, size |-> size]]
    BY <1>3 DEF Give
  <2> DEFINE g == r.h
             p == r.p
             k == Scribble(g, p, from, size)
             e == [blocks EXCEPT ![id] = [p |-> p, size |-> size]]
  <2>2. k = Scribble(g, p, from, size)
    OBVIOUS
  <2>3. Rep(k, c) /\ Holds(k, c, e) /\ k.fault = heap.fault
    <3>1. Hands(heap, b, blocks, id, g, c, p, size, from)
      BY <1>3
    <3> HIDE DEF g, p, k
    <3> QED BY <1>1, <2>2, <3>1, GiveHolds
  <2>4. p \in Nat
    <3>1. p \in DOMAIN c.size /\ Tiles(c)
      BY <1>3 DEF Hands, Yields, Rep, Sound, Marked, Tiles
    <3> QED BY <3>1, BlockWords
  <2>5. heap' = k /\ blocks' = e
    BY <2>1
  <2>6. Given(b, blocks[id], p, size, c)
    BY <1>3
  <2>7. k.fault = "none" /\ e = [blocks EXCEPT ![id] = [p |-> p, size |-> size]]
    BY <2>3
  <2> HIDE DEF k, e, p, g
  <2>8. Turn(heap, b, blocks, k, c, e)
    BY <2>3, <2>4, <2>6, <2>7 DEF Turn
  <2> QED BY <2>5, <2>7, <2>8
<1>4. ASSUME NEW c, NEW g, r.p = NULL, Died(b, size, c), c.used = b.used,
             Yields(heap, b, g, c, b.used), r.h = [g EXCEPT !.fault = "oom"]
      PROVE  Turn(heap, b, blocks, heap', c, blocks')
  <2>1. heap' = r.h /\ blocks' = blocks
    BY <1>4 DEF Give, Die
  <2>2. Rep(g, c) /\ Kept(heap, b, g, c, b.used)
    BY <1>4 DEF Yields
  <2>3. Holds(g, c, blocks)
    BY <1>1, <1>4, <2>2, HoldsKept
  <2>4. Rep(r.h, c) /\ Holds(r.h, c, blocks) /\ r.h.fault = "oom"
    BY <1>4, <2>2, <2>3, FaultApart
  <2>5. Turn(heap, b, blocks, r.h, c, blocks)
    BY <1>4, <2>4 DEF Turn
  <2> QED BY <2>1, <2>5
<1> QED BY <1>2, <1>3, <1>4 DEF Handed

\* A block for n bytes that malloc gave is handed to an id that holds none.
LEMMA GaveHanded ==
  ASSUME NEW h, NEW b, Rep(h, b), NEW f, Holds(h, b, f), h.fault = "none", NEW id \in Ids,
         f[id] = Nothing, NEW size, Modest(size), NEW n, n = BlockSize(size),
         NEW r, NEW g, NEW c, Gave(h, b, [p |-> r.p, h |-> g], c, n),
         Yields(h, b, r.h, c, b.used)
  PROVE  Handed(h, b, f, id, size, 0, r)
<1> DEFINE q == r.p
           k == r.h
<1>1. Tiles(b) /\ Yields(h, b, k, c, b.used) /\ q \notin b.used
      /\ c.used = b.used \cup {q} /\ c.size[q] >= n /\ [h |-> c, p |-> q] \in Abstract!Mallocs(b, n)
  BY DEF Gave, Rep, Sound, Marked
<1>2. f[id].p \notin b.used
  BY <1>1, HeldFacts
<1>3. b.used \ {f[id].p} = b.used
  BY <1>2
<1>4. n \in Nat /\ size + 16 <= n /\ size \in Nat
  BY BlockSizes DEF Modest
<1>5. q # NULL /\ k.fault = "none" /\ c.size[q] \in Nat
  <2>1. q \in DOMAIN c.size /\ Tiles(c)
    BY <1>1 DEF Yields, Rep, Sound, Marked, Tiles
  <2>2. q # NULL /\ c.size[q] \in Nat
    BY <2>1, BlockWords
  <2> QED BY <1>1, <2>2 DEF Yields
<1>6. 0 .. 0 \div 8 - 1 = {}
  OBVIOUS
<1>7. size + 16 <= c.size[q]
  BY <1>1, <1>4, <1>5
<1> HIDE DEF q, k
<1>8. Hands(h, b, f, id, k, c, q, size, 0)
  BY <1>1, <1>3, <1>6, <1>7 DEF Hands
<1>9. Given(b, f[id], q, size, c)
  BY <1>1 DEF Given
<1> QED BY <1>5, <1>8, <1>9 DEF Handed, q, k

\* The process dies of malloc.
LEMMA ExhaustedHanded ==
  ASSUME NEW h, NEW b, NEW f, NEW id, NEW size, NEW from, NEW r, NEW c, NEW more,
         Exhausted(h, b, r, c, BlockSize(size), more)
  PROVE  Handed(h, b, f, id, size, from, r)
<1>1. Died(b, size, c)
  BY DEF Exhausted, Died
<1> QED BY <1>1 DEF Exhausted, Handed

\* malloc
LEMMA MallocHanded ==
  ASSUME NEW h, NEW b, Rep(h, b), NEW f, Holds(h, b, f), h.fault = "none", NEW id \in Ids,
         f[id] = Nothing, NEW size, Modest(size), NEW r, r = malloc(h, size)
  PROVE  Handed(h, b, f, id, size, 0, r)
<1> DEFINE n == BlockSize(size)
<1>1. n = BlockSize(size)
  OBVIOUS
<1> HIDE DEF n
<1>2. \/ Abstract!Stranded(b) /\ MovedOn(b, r, n)
      \/ \E c : Gave(h, b, r, c, n)
      \/ \E c, more : Exhausted(h, b, r, c, n, more)
  BY <1>1, MallocSound
<1>3. CASE Abstract!Stranded(b) /\ MovedOn(b, r, n)
  BY <1>3 DEF MovedOn, Handed
<1>4. ASSUME NEW c, Gave(h, b, r, c, n) PROVE Handed(h, b, f, id, size, 0, r)
  <2>1. Yields(h, b, r.h, c, b.used) /\ Gave(h, b, [p |-> r.p, h |-> r.h], c, n)
    BY <1>4 DEF Gave
  <2> QED BY <1>1, <2>1, GaveHanded
<1>5. ASSUME NEW c, NEW more, Exhausted(h, b, r, c, n, more)
      PROVE  Handed(h, b, f, id, size, 0, r)
  BY <1>1, <1>5, ExhaustedHanded
<1> QED BY <1>2, <1>3, <1>4, <1>5

\* calloc
LEMMA CallocHanded ==
  ASSUME NEW h, NEW b, Rep(h, b), NEW f, Holds(h, b, f), h.fault = "none", NEW id \in Ids,
         f[id] = Nothing, NEW size, Modest(size), NEW r, r = Clear(malloc(h, size), size)
  PROVE  Handed(h, b, f, id, size, 0, r)
<1> DEFINE n == BlockSize(size)
           r0 == malloc(h, size)
<1>1. n = BlockSize(size) /\ r0 = malloc(h, size) /\ r = Clear(r0, size)
  OBVIOUS
<1> HIDE DEF n, r0
<1>6. r0 = [p |-> r0.p, h |-> r0.h]
  BY <1>1, MallocResult
<1>2. \/ Abstract!Stranded(b) /\ MovedOn(b, r0, n)
      \/ \E c : Gave(h, b, r0, c, n)
      \/ \E c, more : Exhausted(h, b, r0, c, n, more)
  BY <1>1, MallocSound
<1>3. CASE Abstract!Stranded(b) /\ MovedOn(b, r0, n)
  <2> DEFINE k == store(r0.h, r0.p, [i \in 0 .. size \div 8 - 1 |-> 0])
  <2>1. SameBrk(r0.h, k)
    BY BrkBasics
  <2>2. r.h \in {r0.h, k}
    <3> HIDE DEF k
    <3>1. r = r0 \/ r = [r0 EXCEPT !.h = k]
      BY <1>1 DEF Clear, k
    <3>2. [r0 EXCEPT !.h = k].h = k
      BY <1>6
    <3> QED BY <3>1, <3>2
  <2> HIDE DEF k
  <2>3. "brk" \in DOMAIN r.h /\ "fault" \in DOMAIN r.h /\ r.h.brk # b.brk
    BY <1>3, <2>1, <2>2 DEF SameBrk, MovedOn
  <2> QED BY <1>3, <2>3 DEF Handed
<1>4. ASSUME NEW c, Gave(h, b, r0, c, n) PROVE Handed(h, b, f, id, size, 0, r)
  <2>1. n \in Nat /\ size \in Nat /\ size % 8 = 0 /\ size + 16 <= n
    BY <1>1, BlockSizes DEF Modest
  <2>2. r.p = r0.p /\ Yields(h, b, r.h, c, b.used)
    BY <1>1, <1>4, <1>6, <2>1, ClearSound
  <2>3. Gave(h, b, [p |-> r.p, h |-> r0.h], c, n)
    BY <1>4, <2>2 DEF Gave
  <2> QED BY <1>1, <2>2, <2>3, GaveHanded
<1>5. ASSUME NEW c, NEW more, Exhausted(h, b, r0, c, n, more)
      PROVE  Handed(h, b, f, id, size, 0, r)
  <2>1. r = r0
    BY <1>1, <1>5 DEF Clear, Exhausted
  <2> QED BY <1>1, <1>5, <2>1, ExhaustedHanded
<1> QED BY <1>2, <1>3, <1>4, <1>5

\* realloc of a block that is held
LEMMA ReallocHanded ==
  ASSUME NEW h, NEW b, Rep(h, b), NEW f, Holds(h, b, f), h.fault = "none", NEW id \in Ids,
         f[id] # Nothing, NEW size, Modest(size), NEW r, r = realloc(h, f[id].p, size)
  PROVE  Handed(h, b, f, id, size, Least(f[id].size, size), r)
<1> DEFINE n == BlockSize(size)
           p == f[id].p
           old == f[id].size
           from == Least(old, size)
           K == b.used \ {p}
<1>1. Tiles(b) /\ Marked(h, b) /\ p # NULL /\ p \in b.used /\ p \in DOMAIN b.size /\ Owned(h, b, f[id])
  <2>1. Tiles(b) /\ Marked(h, b)
    BY DEF Rep, Sound, Marked
  <2>2. p # NULL /\ p \in b.used /\ p \in DOMAIN b.size
    BY <2>1, HeldFacts
  <2>3. Owned(h, b, f[id])
    BY DEF Holds
  <2> QED BY <2>1, <2>2, <2>3
<1>2. n \in Nat /\ n >= 32 /\ n % 16 = 0 /\ size + 16 <= n /\ 2 * n < SizeMod /\ size \in Nat
      /\ size # 0 /\ SizeMod \in Nat /\ size % 8 = 0
  <2>1. n = BlockSize(size)
    OBVIOUS
  <2> HIDE DEF n
  <2>2. n \in Nat /\ n >= 32 /\ n % 16 = 0 /\ size + 16 <= n /\ 2 * n < SizeMod
    BY <2>1, BlockSizes
  <2> QED BY <2>2, Sizing DEF Modest
<1>3. /\ get_size(h, GHA(p)) = b.size[p] /\ get_alloc(h, GHA(p)) = 1
      /\ b.size[p] \in Nat /\ b.size[p] % 16 = 0 /\ p \in Nat /\ p % 16 = 0
      /\ End(b, p) = p + b.size[p]
  BY <1>1, Reads, BlockWords DEF Bit
<1>4. int64_t(n) = n
  BY <1>2 DEF int64_t
<1>5. old \in Nat /\ old % 8 = 0 /\ old + 16 <= b.size[p]
      /\ \A i \in 0 .. old \div 8 - 1 : h.mem[p + 8 * i] = Fill
  BY <1>1 DEF Owned, Modest
<1>6. from \in Nat /\ from <= old /\ from <= size /\ from % 8 = 0
  BY <1>2, <1>5 DEF Least
<1>7. r = IF b.size[p] - n > 32 THEN [p |-> p, h |-> ReallocShrink(h, p, n)]
          ELSE IF b.size[p] - n >= 0 THEN [p |-> p, h |-> tag(h, p, get_size(h, GHA(p)), 1)]
          ELSE ReallocMove(h, p, size)
  BY <1>1, <1>2, <1>3, <1>4 DEF realloc
<1> HIDE DEF n, p, from, old
<1>8. ASSUME NEW i \in 0 .. from \div 8 - 1
      PROVE  /\ i \in 0 .. old \div 8 - 1 /\ h.mem[p + 8 * i] = Fill /\ p + 8 * i \in Words
             /\ InBody(b, p, p + 8 * i) /\ p <= p + 8 * i /\ p + 8 * i < p + n - 16
             /\ i \in 0 .. b.size[p] \div 8 - 1
  <2>1. i \in 0 .. old \div 8 - 1 /\ i \in Nat /\ 8 * i + 8 <= from /\ i \in 0 .. b.size[p] \div 8 - 1
    BY <1>3, <1>5, <1>6
  <2>2. p + 8 * i \in Words /\ InBody(b, p, p + 8 * i)
    BY <1>1, <1>5, <2>1, PayloadWords
  <2>3. p <= p + 8 * i /\ p + 8 * i < p + n - 16
    BY <1>2, <1>3, <1>6, <2>1
  <2> QED BY <1>5, <2>1, <2>2, <2>3
<1>9. K \cup {p} = b.used /\ p \notin K /\ b.used \ {f[id].p} = K
  BY <1>1 DEF p
<1>10. CASE b.size[p] - n > 32
  <2> DEFINE g == ReallocShrink(h, p, n)
             d == Abstract!Shrink(b, p, n)
  <2>1. /\ Yields(h, b, g, d, K) /\ d.used = b.used /\ d.size[p] = n
        /\ \A a \in Words : p <= a /\ a < p + n - 16 => g.mem[a] = h.mem[a]
    <3>1. Rep(h, b) /\ p \in b.used /\ n \in Nat /\ n >= 32 /\ n % 16 = 0 /\ b.size[p] - n > 32
      BY <1>1, <1>2, <1>10
    <3>2. g = ReallocShrink(h, p, n) /\ d = Abstract!Shrink(b, p, n) /\ K = b.used \ {p}
      OBVIOUS
    <3> HIDE DEF g, d, K
    <3>3. Shrunk(h, b, p, n, g, d)
      BY <3>1, <3>2, ShrinkSound
    <3> QED BY <3>2, <3>3 DEF Shrunk
  <2>2. r.p = p /\ r.h = g
    BY <1>7, <1>10
  <2> HIDE DEF g, d, K
  <2>3. \A i \in 0 .. from \div 8 - 1 : g.mem[p + 8 * i] = Fill
    BY <1>8, <2>1
  <2>4. Hands(h, b, f, id, g, d, p, size, from)
    BY <1>2, <1>9, <2>1, <2>3 DEF Hands
  <2>5. Given(b, f[id], p, size, d)
    BY <1>10 DEF Given, d, n, p
  <2>6. g.fault = "none"
    BY <2>1 DEF Yields
  <2> QED BY <1>1, <2>2, <2>4, <2>5, <2>6 DEF Handed, from, old
<1>11. CASE ~(b.size[p] - n > 32) /\ b.size[p] - n >= 0
  <2> DEFINE g == tag(h, p, get_size(h, GHA(p)), 1)
  <2>1. Yields(h, b, g, b, b.used) /\ \A a \in Words : InBody(b, p, a) => g.mem[a] = h.mem[a]
    BY <1>1, InPlaceSound
  <2>2. r.p = p /\ r.h = g
    BY <1>7, <1>11
  <2>3. Yields(h, b, g, b, K)
    BY <2>1 DEF Yields, Kept
  <2> HIDE DEF g, K
  <2>4. \A i \in 0 .. from \div 8 - 1 : g.mem[p + 8 * i] = Fill
    BY <1>8, <2>1
  <2>5. size + 16 <= b.size[p] /\ b.size[p] - n \in 0 .. 32
    BY <1>2, <1>3, <1>11
  <2>6. Hands(h, b, f, id, g, b, p, size, from)
    BY <1>9, <2>3, <2>4, <2>5 DEF Hands
  <2>7. Given(b, f[id], p, size, b)
    BY <2>5 DEF Given, n, p
  <2>8. g.fault = "none"
    BY <2>1 DEF Yields
  <2> QED BY <1>1, <2>2, <2>6, <2>7, <2>8 DEF Handed, from, old
<1>12. CASE ~(b.size[p] - n >= 0)
  <2> DEFINE r0 == malloc(h, size)
  <2>1. r0 = malloc(h, size) /\ r = Moved(r0, p, b.size[p])
    <3>1. ~(b.size[p] - n > 32)
      BY <1>2, <1>3, <1>12
    <3> QED BY <1>3, <1>7, <1>12, <3>1 DEF ReallocMove
  <2> HIDE DEF r0
  <2>2. b.size[p] < n
    BY <1>2, <1>3, <1>12
  <2>3. \/ Abstract!Stranded(b) /\ MovedOn(b, r0, n)
        \/ \E c : Gave(h, b, r0, c, n)
        \/ \E c, more : Exhausted(h, b, r0, c, n, more)
    <3>1. n = BlockSize(size)
      BY DEF n
    <3> QED BY <2>1, <3>1, MallocSound
  <2>4. CASE Abstract!Stranded(b) /\ MovedOn(b, r0, n)
    <3> DEFINE k == Copy(r0.h, r0.p, p, b.size[p])
               l == free(k, p)
    <3>1. SameBrk(r0.h, k) /\ SameBrk(k, l)
      BY BrkBasics, FreeBrk DEF Copy
    <3>2. r.h \in {r0.h, l}
      BY <2>1 DEF Moved
    <3> HIDE DEF k, l
    <3>3. "brk" \in DOMAIN r.h /\ "fault" \in DOMAIN r.h /\ r.h.brk # b.brk
      BY <2>4, <3>1, <3>2 DEF SameBrk, MovedOn
    <3> QED BY <2>4, <3>3 DEF Handed
  <2>5. ASSUME NEW c, Gave(h, b, r0, c, n) PROVE Handed(h, b, f, id, size, from, r)
    <3> DEFINE d == Abstract!free(c, p)
               q == r.p
    <3>1. d = Abstract!free(c, p)
      OBVIOUS
    <3> HIDE DEF d
    <3>2. /\ r.p = r0.p /\ Yields(h, b, r.h, d, b.used \ {p})
          /\ d.used = (b.used \ {p}) \cup {r.p} /\ r.p \notin b.used /\ d.size[r.p] >= n
          /\ \A i \in 0 .. b.size[p] \div 8 - 1 :
               InBody(b, p, p + 8 * i) => r.h.mem[r.p + 8 * i] = h.mem[p + 8 * i]
      <4>1. Rep(h, b) /\ p \in b.used /\ n \in Nat /\ n % 16 = 0 /\ b.size[p] < n
            /\ Gave(h, b, r0, c, n) /\ h.fault = "none" /\ r = Moved(r0, p, b.size[p])
        BY <1>1, <1>2, <2>1, <2>2, <2>5
      <4>2. Relocated(h, b, p, n, r0, r, d)
        BY <3>1, <4>1, MoveSound
      <4> QED BY <4>2 DEF Relocated
    <3>3. r.p # NULL /\ d.size[r.p] \in Nat
      <4>1. r.p \in DOMAIN d.size /\ Tiles(d)
        BY <3>2 DEF Yields, Rep, Sound, Marked, Tiles
      <4> QED BY <4>1, BlockWords
    <3>4. \A i \in 0 .. from \div 8 - 1 : r.h.mem[r.p + 8 * i] = Fill
      BY <1>8, <3>2
    <3>5. size + 16 <= d.size[r.p]
      BY <1>2, <3>2, <3>3
    <3>6. Hands(h, b, f, id, r.h, d, r.p, size, from)
      BY <1>9, <3>2, <3>4, <3>5 DEF Hands
    <3>7. Given(b, f[id], r.p, size, d)
      <4>1. [h |-> c, p |-> r.p] \in Abstract!Mallocs(b, n) /\ b.size[f[id].p] < n
            /\ d = Abstract!free(c, f[id].p)
        BY <2>2, <2>5, <3>1, <3>2 DEF Gave, p
      <4>2. [h |-> c, p |-> r.p] \in Abstract!Mallocs(b, BlockSize(size))
            /\ b.size[f[id].p] < BlockSize(size)
        BY <4>1 DEF n
      <4> QED BY <4>1, <4>2 DEF Given
    <3>8. r.h.fault = "none"
      BY <3>2 DEF Yields
    <3> QED BY <3>3, <3>6, <3>7, <3>8 DEF Handed
  <2>6. ASSUME NEW c, NEW more, Exhausted(h, b, r0, c, n, more)
        PROVE  Handed(h, b, f, id, size, from, r)
    <3>1. r0.h.fault = "oom"
      <4>1. PICK g : Yields(h, b, g, c, b.used) /\ r0.h = [g EXCEPT !.fault = "oom"]
        BY <2>6 DEF Exhausted
      <4>2. g \in Heaps
        BY <4>1 DEF Yields, Rep, Sound, Marked
      <4> QED BY <4>1, <4>2 DEF Heaps
    <3>2. r = r0
      BY <2>1, <3>1 DEF Moved
    <3>3. Exhausted(h, b, r, c, BlockSize(size), more)
      BY <2>6, <3>2 DEF n
    <3> QED BY <3>3, ExhaustedHanded
  <2> QED BY <2>3, <2>4, <2>5, <2>6 DEF from, old
<1> QED BY <1>2, <1>3, <1>10, <1>11, <1>12

(***************************************************************************)
(* The actions.                                                            *)
(***************************************************************************)
\* What care means for the blocks.
LEMMA CareStays ==
  ASSUME NEW b, Rep(heap, b), Careful, inits' = inits
  PROVE  Abstract!Stranded(b) => heap'.brk = b.brk
<1>1. Sound(heap, b) /\ heap.TOH = b.TOH /\ heap.brk = b.brk
  BY DEF Rep, Sound, Marked
<1>2. Stranded(heap) <=> Abstract!Stranded(b)
  BY <1>1, StrandedReads
<1> QED BY <1>1, <1>2 DEF Careful

\* A call that does nothing.
LEMMA StayTurn ==
  ASSUME NEW b, Rep(heap, b), Holds(heap, b, blocks), heap.fault = "none",
         heap' = heap, blocks' = blocks
  PROVE  \E c : Turn(heap, b, blocks, heap', c, blocks') /\ heap'.fault # "oom"
BY DEF Turn

\* A malloc of no bytes.
LEMMA MallocNothing ==
  \A h : malloc(h, 0) = [p |-> NULL, h |-> h]
BY DEF malloc

\* malloc, by the client
LEMMA MallocTurn ==
  ASSUME NEW b, Rep(heap, b), Holds(heap, b, blocks), heap.fault = "none", NEW id \in Ids,
         NEW size \in Sizes, Malloc(id, size), Careful
  PROVE  \E c : /\ Turn(heap, b, blocks, heap', c, blocks')
                /\ heap'.fault = "oom" => size # 0 /\ Died(b, size, c)
<1> DEFINE r == malloc(heap, size)
<1>1. blocks[id] = Nothing /\ Give(id, r, 0, size) /\ inits' = inits
  BY DEF Malloc, Give, Die
<1>2. r = malloc(heap, size)
  OBVIOUS
<1> HIDE DEF r
<1>3. CASE size = 0
  <2>1. r = [p |-> NULL, h |-> heap]
    BY <1>2, <1>3, MallocNothing
  <2>2. heap' = heap /\ blocks' = blocks
    BY <1>1, <2>1 DEF Give, Die
  <2> QED BY <2>2, StayTurn
<1>4. CASE size # 0
  <2>1. size \in Requested /\ Modest(size) /\ size \in Nat
    BY <1>4, RequestsModest
  <2>2. Handed(heap, b, blocks, id, size, 0, r)
    BY <1>1, <1>2, <2>1, MallocHanded
  <2>3. Abstract!Stranded(b) => heap'.brk = b.brk
    BY <1>1, CareStays
  <2>4. 0 \in Nat /\ 0 % 8 = 0 /\ 0 <= size
    BY <2>1
  <2> QED BY <1>1, <1>4, <2>1, <2>2, <2>3, <2>4, GiveTurn
<1> QED BY <1>3, <1>4

\* calloc, by the client
LEMMA CallocTurn ==
  ASSUME NEW b, Rep(heap, b), Holds(heap, b, blocks), heap.fault = "none", NEW id \in Ids,
         NEW size \in Sizes, Calloc(id, 3, size), Careful
  PROVE  \E c : /\ Turn(heap, b, blocks, heap', c, blocks')
                /\ heap'.fault = "oom" => size # 0 /\ Died(b, 3 * size, c)
<1> DEFINE bytes == 3 * size
           r     == Clear(malloc(heap, bytes), bytes)
<1>1. bytes \in Nat /\ (size = 0 => bytes = 0) /\ (3 * size) % SizeMod = bytes
      /\ (size # 0 => bytes \in Requested)
  BY RequestsModest
<1>2. calloc(heap, 3, size) = r
  BY <1>1 DEF calloc
<1>3. blocks[id] = Nothing /\ Give(id, r, 0, bytes) /\ inits' = inits
  BY <1>2 DEF Calloc, Give, Die
<1>4. r = Clear(malloc(heap, bytes), bytes) /\ bytes = 3 * size
  OBVIOUS
<1> HIDE DEF r, bytes
<1>5. CASE size = 0
  <2>1. malloc(heap, bytes) = [p |-> NULL, h |-> heap]
    BY <1>1, <1>5, MallocNothing
  <2>2. r = [p |-> NULL, h |-> heap]
    BY <1>4, <2>1 DEF Clear
  <2>3. heap' = heap /\ blocks' = blocks
    BY <1>3, <2>2 DEF Give, Die
  <2> QED BY <2>3, StayTurn
<1>6. CASE size # 0
  <2>1. bytes \in Requested /\ Modest(bytes)
    BY <1>1, <1>6, RequestsModest
  <2>2. Handed(heap, b, blocks, id, bytes, 0, r)
    BY <1>3, <1>4, <2>1, CallocHanded
  <2>3. Abstract!Stranded(b) => heap'.brk = b.brk
    BY <1>3, CareStays
  <2>4. 0 \in Nat /\ 0 % 8 = 0 /\ 0 <= bytes
    BY <1>1
  <2> QED BY <1>3, <1>4, <1>6, <2>1, <2>2, <2>3, <2>4, GiveTurn
<1> QED BY <1>5, <1>6

\* What the free of a block that is held leaves.
LEMMA FreeTurn ==
  ASSUME NEW b, Rep(heap, b), Holds(heap, b, blocks), heap.fault = "none", NEW id \in Ids,
         blocks[id] # Nothing, heap' = free(heap, blocks[id].p),
         blocks' = [blocks EXCEPT ![id] = Nothing]
  PROVE  \E c : Turn(heap, b, blocks, heap', c, blocks') /\ heap'.fault # "oom"
<1> DEFINE p == blocks[id].p
           c == Abstract!free(b, p)
<1>1. Tiles(b)
  BY DEF Rep, Sound, Marked
<1>2. p \in b.used
  BY <1>1, HeldFacts
<1>3. heap' = free(heap, p) /\ c = Abstract!free(b, p) /\ p = blocks[id].p
  OBVIOUS
<1> HIDE DEF p, c
<1>4. Yields(heap, b, heap', c, b.used \ {p}) /\ c.used = b.used \ {p}
  BY <1>2, <1>3, FreeSound
<1>5. Holds(heap', c, blocks')
  BY <1>3, <1>4, DropHolds
<1>6. Rep(heap', c) /\ heap'.fault = "none"
  BY <1>4 DEF Yields
<1> QED BY <1>3, <1>5, <1>6 DEF Turn

\* realloc, by the client
LEMMA ReallocTurn ==
  ASSUME NEW b, Rep(heap, b), Holds(heap, b, blocks), heap.fault = "none", NEW id \in Ids,
         NEW size \in Sizes, Realloc(id, size), Careful
  PROVE  \E c : /\ Turn(heap, b, blocks, heap', c, blocks')
                /\ heap'.fault = "oom" => size # 0 /\ Died(b, size, c)
<1> DEFINE p == blocks[id].p
           r == realloc(heap, p, size)
<1>1. Tiles(b)
  BY DEF Rep, Sound, Marked
<1>2. blocks \in [Ids -> Slot]
  BY DEF Holds
<1>3. CASE size = 0 /\ blocks[id] = Nothing
  <2>1. p = NULL
    BY <1>3 DEF Nothing
  <2>2. r = [p |-> NULL, h |-> heap]
    BY <1>3, <2>1, MallocNothing DEF realloc
  <2>3. heap' = r.h /\ blocks' = [blocks EXCEPT ![id] = Nothing]
    BY <1>3 DEF Realloc
  <2>4. heap' = heap
    BY <2>2, <2>3
  <2>5. blocks' = blocks
    BY <1>2, <1>3, <2>3
  <2> QED BY <2>4, <2>5, StayTurn
<1>4. CASE size = 0 /\ blocks[id] # Nothing
  <2>1. p # NULL
    BY <1>1, <1>4, HeldFacts
  <2>2. r = [p |-> NULL, h |-> free(heap, p)]
    BY <1>4, <2>1 DEF realloc
  <2>3. heap' = r.h /\ blocks' = [blocks EXCEPT ![id] = Nothing]
    BY <1>4 DEF Realloc
  <2>4. heap' = free(heap, blocks[id].p)
    BY <2>2, <2>3
  <2> QED BY <1>4, <2>3, <2>4, FreeTurn
<1>5. CASE size # 0
  <2> DEFINE from == Least(blocks[id].size, size)
  <2>1. size \in Requested /\ Modest(size) /\ size \in Nat /\ size % 8 = 0
    BY <1>5, RequestsModest
  <2>2. Give(id, r, from, size) /\ inits' = inits
    BY <1>5 DEF Realloc, Give, Die
  <2>3. Abstract!Stranded(b) => heap'.brk = b.brk
    BY <2>2, CareStays
  <2>4. CASE blocks[id] = Nothing
    <3>1. p = NULL /\ blocks[id].size = 0
      BY <2>4 DEF Nothing
    <3>2. r = malloc(heap, size)
      BY <3>1 DEF realloc
    <3>3. from = 0
      BY <2>1, <3>1 DEF Least
    <3> HIDE DEF r, from
    <3>4. Handed(heap, b, blocks, id, size, 0, r)
      BY <2>1, <2>4, <3>2, MallocHanded
    <3>5. 0 \in Nat /\ 0 % 8 = 0 /\ 0 <= size /\ Give(id, r, 0, size)
      BY <2>1, <2>2, <3>3
    <3> QED BY <1>5, <2>1, <2>3, <3>4, <3>5, GiveTurn
  <2>5. CASE blocks[id] # Nothing
    <3>1. r = realloc(heap, blocks[id].p, size) /\ from = Least(blocks[id].size, size)
      OBVIOUS
    <3>2. blocks[id].size \in Nat /\ blocks[id].size % 8 = 0
      BY <2>5 DEF Holds, Owned, Modest
    <3>3. from \in Nat /\ from % 8 = 0 /\ from <= size
      BY <2>1, <3>1, <3>2 DEF Least
    <3> HIDE DEF r, from
    <3>4. Handed(heap, b, blocks, id, size, Least(blocks[id].size, size), r)
      BY <2>1, <2>5, <3>1, ReallocHanded
    <3>5. Handed(heap, b, blocks, id, size, from, r)
      BY <3>1, <3>4
    <3> QED BY <1>5, <2>1, <2>2, <2>3, <3>3, <3>5, GiveTurn
  <2> QED BY <2>4, <2>5
<1> QED BY <1>3, <1>4, <1>5

\* There is nothing to hold after an initialisation.
LEMMA ResetHolds ==
  ASSUME NEW g, Rep(g, Abstract!InitHeap)
  PROVE  Holds(g, Abstract!InitHeap, [id \in Ids |-> Nothing])
<1>1. Abstract!InitHeap.used = {}
  BY DEF Abstract!InitHeap, Abstract!Heap
<1>2. Nothing \in Slot
  BY Sizing DEF Nothing, Slot
<1> QED BY <1>1, <1>2 DEF Holds

(***************************************************************************)
(* The invariant.                                                          *)
(***************************************************************************)
\* The blocks that the tags describe are there, with the list of the free ones, and the
\* client holds each of the others once.
Consistent ==
  /\ heap.fault \in {"none", "oom"} /\ inits \in 1 .. MaxInits
  /\ Rep(heap, ReadHeap(heap)) /\ Holds(heap, ReadHeap(heap), blocks)

\* The blocks represented are the blocks read.
LEMMA RepRead ==
  ASSUME NEW h, NEW b, Rep(h, b)
  PROVE  ReadHeap(h) = b
<1>1. Marked(h, b) /\ Tiles(b) /\ Shaped(b) /\ h.brk = b.brk /\ h.TOH = b.TOH
  BY DEF Rep, Sound, Marked, Tiles
<1>2. Blks(h) = DOMAIN b.size /\ FreeBlks(h) = Frees(b)
  BY <1>1, BlocksRead
<1>3. [p \in Blks(h) |-> get_size(h, GHA(p))] = b.size
  <2>1. \A p \in DOMAIN b.size : get_size(h, GHA(p)) = b.size[p]
    BY <1>1, Reads
  <2>2. b.size = [p \in DOMAIN b.size |-> b.size[p]]
    BY <1>1 DEF Shaped
  <2> QED BY <1>2, <2>1, <2>2
<1>4. Blks(h) \ FreeBlks(h) = b.used
  BY <1>1, <1>2 DEF Tiles, Frees
<1>5. b = [size |-> b.size, used |-> b.used, brk |-> b.brk, TOH |-> b.TOH]
  BY <1>1 DEF Shaped, Abstract!Heap
<1> QED BY <1>1, <1>3, <1>4, <1>5 DEF ReadHeap

\* The blocks of an initialisation, whatever was in the memory.
LEMMA BootConsistent ==
  ASSUME NEW h \in Heaps, h.fault = "none", NEW g, g = Boot(h)
  PROVE  /\ g.fault = "none" /\ Rep(g, ReadHeap(g)) /\ ReadHeap(g) = Abstract!InitHeap
         /\ Holds(g, ReadHeap(g), [id \in Ids |-> Nothing])
<1>1. Rep(g, Abstract!InitHeap) /\ g.fault = "none"
  BY BootClean
<1>2. ReadHeap(g) = Abstract!InitHeap
  BY <1>1, RepRead
<1> QED BY <1>1, <1>2, ResetHolds

\* The first initialisation.
LEMMA InitConsistent ==
  Init => Consistent /\ ReadHeap(heap) = Abstract!InitHeap
<1> DEFINE h == [mem |-> [a \in Words |-> 0], brk |-> HeapLo, free_root |-> NULL, TOH |-> NULL,
                 fault |-> "none"]
<1>1. h \in Heaps /\ h.fault = "none"
  BY Sizing DEF Heaps, Word
<1> HIDE DEF h
<1>2. SUFFICES ASSUME heap = Boot(h), blocks = [id \in Ids |-> Nothing], inits = 1
               PROVE  Consistent /\ ReadHeap(heap) = Abstract!InitHeap
  BY DEF Init, h
<1>3. 1 \in 1 .. MaxInits
  BY ClientAssumption
<1>4. /\ heap.fault = "none" /\ Rep(heap, ReadHeap(heap)) /\ ReadHeap(heap) = Abstract!InitHeap
      /\ Holds(heap, ReadHeap(heap), [id \in Ids |-> Nothing])
  BY <1>1, <1>2, BootConsistent
<1> QED BY <1>2, <1>3, <1>4 DEF Consistent

\* Every call of a careful client is a turn, or an initialisation.
LEMMA StepTurn ==
  ASSUME Consistent, SafeNext
  PROVE  \/ \E c : Turn(heap, ReadHeap(heap), blocks, heap', c, blocks') /\ inits' = inits
         \/ /\ Reset /\ heap'.fault = "none" /\ Rep(heap', ReadHeap(heap'))
            /\ ReadHeap(heap') = Abstract!InitHeap /\ Holds(heap', ReadHeap(heap'), blocks')
<1> DEFINE b == ReadHeap(heap)
<1>1. Rep(heap, b) /\ Holds(heap, b, blocks) /\ heap.fault = "none" /\ Careful
  BY DEF Consistent, SafeNext, Next
<1>2. ASSUME NEW id \in Ids, NEW size \in Sizes, Malloc(id, size)
      PROVE  (\E c : Turn(heap, b, blocks, heap', c, blocks')) /\ inits' = inits
  <2> HIDE DEF b
  <2>1. PICK c : /\ Turn(heap, b, blocks, heap', c, blocks')
                 /\ heap'.fault = "oom" => size # 0 /\ Died(b, size, c)
    BY <1>1, <1>2, MallocTurn
  <2> QED BY <1>2, <2>1 DEF Malloc, Give, Die
<1>3. ASSUME NEW id \in Ids, NEW size \in Sizes, Realloc(id, size)
      PROVE  (\E c : Turn(heap, b, blocks, heap', c, blocks')) /\ inits' = inits
  <2> HIDE DEF b
  <2>1. PICK c : /\ Turn(heap, b, blocks, heap', c, blocks')
                 /\ heap'.fault = "oom" => size # 0 /\ Died(b, size, c)
    BY <1>1, <1>3, ReallocTurn
  <2> QED BY <1>3, <2>1 DEF Realloc, Give, Die
<1>4. ASSUME NEW id \in Ids, NEW size \in Sizes, Calloc(id, 3, size)
      PROVE  (\E c : Turn(heap, b, blocks, heap', c, blocks')) /\ inits' = inits
  <2> HIDE DEF b
  <2>1. PICK c : /\ Turn(heap, b, blocks, heap', c, blocks')
                 /\ heap'.fault = "oom" => size # 0 /\ Died(b, 3 * size, c)
    BY <1>1, <1>4, CallocTurn
  <2> QED BY <1>4, <2>1 DEF Calloc, Give, Die
<1>5. ASSUME NEW id \in Ids, Free(id)
      PROVE  (\E c : Turn(heap, b, blocks, heap', c, blocks')) /\ inits' = inits
  <2> HIDE DEF b
  <2>1. blocks[id] # Nothing /\ heap' = free(heap, blocks[id].p) /\ inits' = inits
        /\ blocks' = [blocks EXCEPT ![id] = Nothing]
    BY <1>5 DEF Free
  <2>2. \E c : Turn(heap, b, blocks, heap', c, blocks')
    BY <1>1, <2>1, FreeTurn
  <2> QED BY <2>1, <2>2
<1>6. CASE Reset
  <2>1. heap \in Heaps
    BY <1>1 DEF Rep, Sound, Marked
  <2>2. heap' = Boot(heap) /\ blocks' = [id \in Ids |-> Nothing]
    BY <1>6 DEF Reset
  <2> QED BY <1>1, <1>6, <2>1, <2>2, BootConsistent
<1> QED BY <1>2, <1>3, <1>4, <1>5, <1>6 DEF SafeNext, Next

\* A turn keeps the invariant.
LEMMA TurnConsistent ==
  ASSUME Consistent, NEW b, NEW c, Turn(heap, b, blocks, heap', c, blocks'), inits' = inits
  PROVE  Consistent' /\ ReadHeap(heap') = c
<1>1. Rep(heap', c) /\ Holds(heap', c, blocks') /\ heap'.fault \in {"none", "oom"}
  BY DEF Turn, Consistent
<1>2. ReadHeap(heap') = c
  BY <1>1, RepRead
<1> QED BY <1>1, <1>2 DEF Consistent

\* Every call of a careful client keeps the invariant.
LEMMA StepConsistent ==
  Consistent /\ [SafeNext]_vars => Consistent'
<1>1. ASSUME Consistent, SafeNext PROVE Consistent'
  <2>1. CASE \E c : Turn(heap, ReadHeap(heap), blocks, heap', c, blocks') /\ inits' = inits
    BY <1>1, <2>1, TurnConsistent
  <2>2. CASE Reset /\ heap'.fault = "none" /\ Rep(heap', ReadHeap(heap'))
             /\ Holds(heap', ReadHeap(heap'), blocks')
    <3>1. inits' \in 1 .. MaxInits
      BY <1>1, <2>2, ClientAssumption DEF Consistent, Reset
    <3> QED BY <2>2, <3>1 DEF Consistent
  <2> QED BY <1>1, <2>1, <2>2, StepTurn
<1>2. ASSUME Consistent, UNCHANGED vars PROVE Consistent'
  BY <1>2 DEF Consistent, vars
<1> QED BY <1>1, <1>2

\* The invariant holds throughout.
LEMMA Invariance == SafeSpec => []Consistent
BY InitConsistent, StepConsistent, PTL DEF SafeSpec

(***************************************************************************)
(* What the invariant says of each property.                               *)
(***************************************************************************)
\* What is read from a heap that represents b, and from what the client holds of it.
LEMMA ConsistentReads ==
  ASSUME Consistent, NEW b, b = ReadHeap(heap)
  PROVE  /\ Rep(heap, b) /\ Holds(heap, b, blocks) /\ Sound(heap, b) /\ Marked(heap, b) /\ Tiles(b)
         /\ heap \in Heaps /\ heap.brk = b.brk /\ heap.TOH = b.TOH
         /\ Blks(heap) = DOMAIN b.size /\ FreeBlks(heap) = Frees(b)
         /\ DOMAIN b.size \ Frees(b) = b.used
         /\ \A p \in DOMAIN b.size : /\ get_size(heap, GHA(p)) = b.size[p]
                                     /\ next_blk(heap, p) = End(b, p)
<1>1. Rep(heap, b) /\ Holds(heap, b, blocks) /\ Sound(heap, b) /\ Marked(heap, b) /\ Tiles(b)
      /\ heap \in Heaps /\ heap.brk = b.brk /\ heap.TOH = b.TOH
  BY DEF Consistent, Rep, Sound, Marked
<1>2. DOMAIN b.size \ Frees(b) = b.used
  BY <1>1 DEF Frees, Tiles
<1> QED BY <1>1, <1>2, BlocksRead, Reads

\* The variables have their types.
THEOREM TypeAlwaysOK == SafeSpec => []TypeOK
<1>1. Consistent => TypeOK
  <2> SUFFICES ASSUME Consistent PROVE TypeOK
    OBVIOUS
  <2> DEFINE b == ReadHeap(heap)
             Addrs == {a \in HeapLo .. heap.brk : a % 16 = 0}
  <2>1. b = ReadHeap(heap)
    OBVIOUS
  <2> HIDE DEF b
  <2>2. /\ Rep(heap, b) /\ Holds(heap, b, blocks) /\ Sound(heap, b) /\ Tiles(b) /\ heap \in Heaps
        /\ heap.brk = b.brk /\ heap.TOH = b.TOH
    BY <2>1, ConsistentReads
  <2>3. /\ b.brk \in Nat /\ b.brk % 16 = 0 /\ 48 <= b.brk /\ b.brk <= Top /\ Top \in Nat
        /\ HeapLo = 16 /\ Top = HeapLo + MaxHeap /\ MaxHeap \in Nat
    BY <2>2, EdgeWords, Sizing DEF Top
  <2>4. heap.brk \in {a \in HeapLo + 32 .. HeapLo + MaxHeap : a % 16 = 0}
    BY <2>2, <2>3
  <2>5. \A p \in DOMAIN b.size : p \in Addrs
    <3> TAKE p \in DOMAIN b.size
    <3>1. /\ p \in Nat /\ p % 16 = 0 /\ 48 <= p /\ p + 32 <= End(b, p) /\ End(b, p) <= b.brk
          /\ End(b, p) \in Nat
      BY <2>2, BlockWords
    <3> QED BY <2>2, <2>3, <3>1
  <2>6. heap.brk \in Addrs
    BY <2>2, <2>3
  <2> HIDE DEF Addrs
  <2>7. heap.free_root \in Addrs \cup {NULL}
    <3>1. heap.free_root \in Frees(b) \cup {NULL}
      BY <2>2 DEF Sound, Listed, Chained, Linked
    <3> QED BY <2>5, <3>1 DEF Frees
  <2>8. heap.TOH \in Addrs \cup {NULL}
    <3>1. b.TOH = b.brk \/ b.TOH \in DOMAIN b.size
      BY <2>2 DEF Rep, TopFits, Frees
    <3> QED BY <2>2, <2>5, <2>6, <3>1
  <2>9. heap.mem \in [Words -> Int]
    BY <2>2 DEF Heaps, Word
  <2>10. ASSUME NEW id \in Ids PROVE blocks[id].p \in Addrs \cup {NULL}
    BY <2>2, <2>5, HeldFacts
  <2> QED BY <2>4, <2>7, <2>8, <2>9, <2>10 DEF TypeOK, Consistent, Addrs
<1> QED BY <1>1, Invariance, PTL

\* Header and footer of every block agree, and the blocks tile the heap exactly up to the
\* epilogue, for every size of heap, of page and of request (mm.c:129-134, 423-428).
THEOREM HeapAlwaysWellFormed == SafeSpec => []HeapWellFormed
<1>1. Consistent => HeapWellFormed
  <2> SUFFICES ASSUME Consistent PROVE HeapWellFormed
    OBVIOUS
  <2> DEFINE b == ReadHeap(heap)
  <2>1. b = ReadHeap(heap)
    OBVIOUS
  <2> HIDE DEF b
  <2>2. /\ Marked(heap, b) /\ Tagged(heap, b) /\ Tiles(b) /\ heap \in Heaps /\ heap.brk = b.brk
        /\ Blks(heap) = DOMAIN b.size
    BY <2>1, ConsistentReads DEF Marked
  <2>3. heap.brk \in BlkSet(heap)
    BY <2>2, BlocksRead
  <2>4. /\ get(heap, 24) = 17 /\ get(heap, 32) = 17 /\ get(heap, heap.brk - 8) = 1
        /\ HeapLo + 8 = 24 /\ HeapLo + 16 = 32
    BY <2>2, EdgeWords, GetWord, Sizing DEF Tagged
  <2>5. pack(16, 1) = 17 /\ pack(0, 1) = 1
    BY DEF pack
  <2>6. ASSUME NEW p \in Blks(heap)
        PROVE  get_size(heap, GHA(p)) >= 32 /\ get(heap, GHA(p)) = get(heap, GFA(heap, p))
    <3>1. p \in DOMAIN b.size
      BY <2>2, <2>6
    <3>2. /\ p - 8 \in Words /\ End(b, p) - 16 \in Words /\ b.size[p] >= 32
          /\ get_size(heap, GHA(p)) = b.size[p] /\ GFA(heap, p) = End(b, p) - 16
      BY <2>2, <3>1, BlockWords, Reads
    <3>3. get(heap, p - 8) = heap.mem[p - 8] /\ get(heap, End(b, p) - 16) = heap.mem[End(b, p) - 16]
      BY <2>2, <3>2, GetWord
    <3> QED BY <2>2, <3>1, <3>2, <3>3 DEF Tagged, GHA
  <2> QED BY <2>3, <2>4, <2>5, <2>6 DEF HeapWellFormed
<1> QED BY <1>1, Invariance, PTL

\* No two neighbouring blocks are both free after any call, whichever blocks were freed
\* and in whichever order (mm.c:17-18, 533-680).
THEOREM AlwaysFullyCoalesced == SafeSpec => []FullyCoalesced
<1>1. Consistent => FullyCoalesced
  <2> SUFFICES ASSUME Consistent PROVE FullyCoalesced
    OBVIOUS
  <2> DEFINE b == ReadHeap(heap)
  <2>1. b = ReadHeap(heap)
    OBVIOUS
  <2> HIDE DEF b
  <2>2. /\ Unmerged(b) /\ FreeBlks(heap) = Frees(b)
        /\ \A p \in DOMAIN b.size : next_blk(heap, p) = End(b, p)
    BY <2>1, ConsistentReads DEF Sound
  <2> QED BY <2>2 DEF FullyCoalesced, Unmerged, Frees
<1> QED BY <1>1, Invariance, PTL

\* The list from free_root is doubly linked and visits every free block exactly once and
\* nothing else, through any sequence of pushes, splits and merges (mm.c:98, 533-680).
THEOREM FreeListAlwaysExact == SafeSpec => []FreeListExact
<1>1. Consistent => FreeListExact
  <2> SUFFICES ASSUME Consistent PROVE FreeListExact
    OBVIOUS
  <2> DEFINE b == ReadHeap(heap)
             chain == FreeChain(heap)
             on == {n \in 1 .. MaxBlocks : chain[n] # NULL}
  <2>1. b = ReadHeap(heap) /\ chain = FreeChain(heap)
    OBVIOUS
  <2> HIDE DEF b, chain
  <2>2. Marked(heap, b) /\ Listed(heap, Frees(b)) /\ Tiles(b) /\ FreeBlks(heap) = Frees(b)
    BY <2>1, ConsistentReads DEF Sound
  <2>3. PICK K : Places(heap, b, chain, K)
    BY <2>1, <2>2, ChainPlaces
  <2>4. \A x \in Frees(b) : x # NULL
    BY <2>2, BlockWords DEF Frees
  <2>5. /\ \A x \in Frees(b) : K[x] \in on /\ chain[K[x]] = x
        /\ \A n \in on : chain[n] \in Frees(b) /\ K[chain[n]] = n
    BY <2>3, <2>4 DEF Places
  <2>6. {chain[n] : n \in on} = Frees(b)
    BY <2>5
  <2>7. Cardinality(on) = Cardinality(Frees(b))
    <3> DEFINE f == [x \in Frees(b) |-> K[x]]
    <3>1. f \in Bijection(Frees(b), on)
      <4>1. f \in [Frees(b) -> on] /\ \A x, y \in Frees(b) : f[x] = f[y] => x = y
        BY <2>5
      <4>2. \A n \in on : \E x \in Frees(b) : f[x] = n
        BY <2>5
      <4> HIDE DEF f, on
      <4> QED BY <4>1, <4>2 DEF Bijection, Injection, IsInjective, Surjection
    <3>2. ExistsBijection(Frees(b), on)
      BY <3>1 DEF ExistsBijection
    <3>3. IsFiniteSet(Frees(b))
      BY <2>2, FreesBounded
    <3> QED BY <3>2, <3>3, FS_Bijection
  <2>8. \A n \in on : pred(heap, chain[n]) = IF n = 1 THEN NULL ELSE chain[n - 1]
    BY <2>3 DEF Places
  <2>9. heap.fault # "stray"
    BY DEF Consistent
  <2> QED BY <2>1, <2>2, <2>6, <2>7, <2>8, <2>9 DEF FreeListExact
<1> QED BY <1>1, Invariance, PTL

\* What the client holds is exactly what is allocated: no block is lost, none is held
\* twice, and each is large enough (mdriver.c:1082-1083).
THEOREM LiveAlwaysAllocated == SafeSpec => []LiveAreAllocated
<1>1. Consistent => LiveAreAllocated
  <2> SUFFICES ASSUME Consistent PROVE LiveAreAllocated
    OBVIOUS
  <2> DEFINE b == ReadHeap(heap)
             live == {id \in Ids : blocks[id] # Nothing}
  <2>1. b = ReadHeap(heap)
    OBVIOUS
  <2> HIDE DEF b
  <2>2. /\ Holds(heap, b, blocks) /\ Tiles(b) /\ Blks(heap) \ FreeBlks(heap) = b.used
        /\ \A p \in DOMAIN b.size : get_size(heap, GHA(p)) = b.size[p]
    BY <2>1, ConsistentReads
  <2>3. \A id \in live : Owned(heap, b, blocks[id]) /\ blocks[id].p \in b.used
    BY <2>2 DEF Holds, Owned
  <2>4. {blocks[id].p : id \in live} = b.used
    BY <2>2, <2>3 DEF Holds
  <2>5. \A x, y \in live : x # y => blocks[x].p # blocks[y].p
    BY <2>2 DEF Holds
  <2>6. \A id \in live : blocks[id].size + 16 <= get_size(heap, GHA(blocks[id].p))
    BY <2>2, <2>3 DEF Owned, Tiles
  <2> QED BY <2>2, <2>4, <2>5, <2>6 DEF LiveAreAllocated
<1> QED BY <1>1, Invariance, PTL

\* No call writes a tag or a link into what the client holds, and realloc carries the old
\* bytes to the new place (mdriver.c:1124-1134).
THEOREM ContentAlwaysIntact == SafeSpec => []ContentIntact
<1>1. Consistent => ContentIntact
  <2> SUFFICES ASSUME Consistent, NEW id \in Ids, NEW i \in 0 .. blocks[id].size \div 8 - 1
               PROVE  get(heap, blocks[id].p + 8 * i) = Fill
    BY DEF ContentIntact
  <2> DEFINE b == ReadHeap(heap)
             p == blocks[id].p
             size == blocks[id].size
  <2>1. b = ReadHeap(heap)
    OBVIOUS
  <2> HIDE DEF b
  <2>2. Holds(heap, b, blocks) /\ Tiles(b) /\ heap \in Heaps
    BY <2>1, ConsistentReads
  <2>3. blocks[id] # Nothing
    <3>1. 0 .. 0 \div 8 - 1 = {}
      OBVIOUS
    <3> QED BY <3>1 DEF Nothing
  <2>4. Owned(heap, b, blocks[id])
    BY <2>2, <2>3 DEF Holds
  <2>5. p \in DOMAIN b.size /\ size \in Nat /\ size % 8 = 0 /\ size + 16 <= b.size[p]
        /\ heap.mem[p + 8 * i] = Fill
    BY <2>2, <2>4 DEF Owned, Modest, Tiles
  <2>6. i \in 0 .. size \div 8 - 1
    OBVIOUS
  <2> HIDE DEF p, size
  <2>7. p + 8 * i \in Words
    BY <2>2, <2>5, <2>6, PayloadWords
  <2>8. get(heap, p + 8 * i) = Fill
    BY <2>2, <2>5, <2>7, GetWord
  <2> QED BY <2>8 DEF p
<1> QED BY <1>1, Invariance, PTL

(***************************************************************************)
(* calloc.                                                                 *)
(***************************************************************************)
\* The bytes that calloc clears are read as zeros, when there is room for them.
LEMMA ClearZeros ==
  ASSUME NEW r0, r0 = [p |-> r0.p, h |-> r0.h], r0.h \in Heaps, r0.h.brk <= Top,
         r0.p \in Nat, r0.p >= 16, r0.p % 8 = 0, NEW size \in Nat, size % 8 = 0,
         r0.p + size <= r0.h.brk, NEW r, r = Clear(r0, size), NULL = 0
  PROVE  \A i \in 0 .. size \div 8 - 1 : get(r.h, r.p + 8 * i) = 0
<1> DEFINE h == r0.h
           p == r0.p
           g == store(h, p, [i \in 0 .. size \div 8 - 1 |-> 0])
<1>1. p # NULL
  BY Sizing
<1>2. r.h = g /\ r.p = p
  <2> HIDE DEF g
  <2>1. r = [r0 EXCEPT !.h = g]
    BY <1>1 DEF Clear, g
  <2>2. [r0 EXCEPT !.h = g].h = g /\ [r0 EXCEPT !.h = g].p = r0.p
    BY ONLY r0 = [p |-> r0.p, h |-> r0.h]
  <2> QED BY <2>1, <2>2
<1>3. g = store(h, p, [i \in 0 .. size \div 8 - 1 |-> 0])
  OBVIOUS
<1>4. h \in Heaps /\ h.brk <= Top /\ p \in Nat /\ p >= 16 /\ p % 8 = 0 /\ p + size <= h.brk
  OBVIOUS
<1> HIDE DEF g, h, p
<1>5. \A i \in 0 .. size \div 8 - 1 : get(g, p + 8 * i) = 0
  BY ONLY <1>3, <1>4, size \in Nat, size % 8 = 0, ZerosRead
<1> QED BY <1>2, <1>5

\* A fault stays.
LEMMA ClearFault ==
  ASSUME NEW r0, r0 = [p |-> r0.p, h |-> r0.h], "fault" \in DOMAIN r0.h, NEW size,
         NEW r, r = Clear(r0, size), r.h.fault = "none"
  PROVE  r0.h.fault = "none" /\ r.p = r0.p
<1>1. CASE r0.p = NULL
  BY <1>1 DEF Clear
<1>2. CASE r0.p # NULL
  <2> DEFINE w == [i \in 0 .. size \div 8 - 1 |-> 0]
             g == store(r0.h, r0.p, w)
  <2>1. g.fault \in {r0.h.fault, "stray"}
    <3> HIDE DEF w
    <3> QED BY DEF store
  <2> HIDE DEF g
  <2>2. r = [r0 EXCEPT !.h = g]
    BY <1>2 DEF Clear, g
  <2>3. [r0 EXCEPT !.h = g].h = g /\ [r0 EXCEPT !.h = g].p = r0.p
    BY ONLY r0 = [p |-> r0.p, h |-> r0.h]
  <2> QED BY <2>1, <2>2, <2>3
<1> QED BY <1>1, <1>2

\* A heap that malloc leaves alive has room for the request where its pointer says.
Roomy(r, n) ==
  /\ r.h \in Heaps /\ r.h.brk <= Top /\ r.p \in Nat /\ r.p >= 16 /\ r.p % 8 = 0
  /\ r.p + n <= r.h.brk

\* malloc's pointer has the room asked for, whether or not the client is careful.
LEMMA MallocRoomy ==
  ASSUME NEW h, NEW b, Rep(h, b), NEW size, Modest(size), NEW r, r = malloc(h, size),
         r.p # NULL
  PROVE  "fault" \in DOMAIN r.h /\ (r.h.fault = "none" => Roomy(r, size))
<1> DEFINE n == BlockSize(size)
<1>1. n = BlockSize(size)
  OBVIOUS
<1> HIDE DEF n
<1>2. n \in Nat /\ size + 16 <= n /\ size \in Nat
  BY <1>1, BlockSizes DEF Modest
<1>3. Tiles(b) /\ b.brk \in Nat /\ b.brk % 16 = 0 /\ 48 <= b.brk
  BY EdgeWords DEF Rep, Sound, Marked
<1>4. CASE Abstract!Stranded(b) /\ MovedOn(b, r, n)
  <2>1. "fault" \in DOMAIN r.h
    BY <1>4 DEF MovedOn
  <2>2. ASSUME r.h.fault = "none" PROVE Roomy(r, size)
    <3>1. r.h \in Heaps /\ r.h.brk <= Top /\ r.p = b.brk /\ r.p + n <= r.h.brk
      BY <1>4, <2>2 DEF MovedOn
    <3>2. r.h.brk \in Nat
      BY <3>1 DEF Heaps
    <3>3. b.brk % 8 = 0 /\ b.brk >= 16
      BY <1>3
    <3>4. r.p + size <= r.h.brk
      BY <1>2, <1>3, <3>1, <3>2
    <3> QED BY <1>3, <3>1, <3>3, <3>4 DEF Roomy
  <2> QED BY <2>1, <2>2
<1>5. ASSUME NEW c, Gave(h, b, r, c, n)
      PROVE  "fault" \in DOMAIN r.h /\ (r.h.fault = "none" => Roomy(r, size))
  <2>1. /\ Tiles(c) /\ r.h \in Heaps /\ r.h.brk = c.brk /\ r.p \in DOMAIN c.size
        /\ c.size[r.p] >= n
    BY <1>5 DEF Gave, Yields, Rep, Sound, Marked, Tiles
  <2>2. /\ r.p \in Nat /\ r.p % 16 = 0 /\ 48 <= r.p /\ c.size[r.p] \in Nat
        /\ End(c, r.p) = r.p + c.size[r.p] /\ End(c, r.p) <= c.brk
        /\ c.brk \in Nat /\ c.brk <= Top
    BY <2>1, BlockWords, EdgeWords
  <2>3. r.p % 8 = 0 /\ r.p >= 16
    BY <2>2
  <2>4. r.p + size <= c.brk
    BY <1>2, <2>1, <2>2
  <2>5. "fault" \in DOMAIN r.h
    BY <2>1 DEF Heaps
  <2> QED BY <2>1, <2>2, <2>3, <2>4, <2>5 DEF Roomy
<1>6. ASSUME NEW c, NEW more, Exhausted(h, b, r, c, n, more) PROVE FALSE
  BY <1>6 DEF Exhausted
<1> QED BY <1>1, <1>4, <1>5, <1>6, MallocSound

\* calloc returns zeroed bytes from every heap a careful client can bring about, even if
\* that call were not a careful one, and although mem_reset_brk and free keep the old
\* bytes (mm.c:312-321, memlib.c:101-104).
THEOREM CallocAlwaysZeroes == SafeSpec => []CallocZeroes
<1>1. Consistent => CallocZeroes
  <2> SUFFICES ASSUME Consistent, NEW size \in Sizes, NEW r, r = calloc(heap, 3, size),
                      r.h.fault = "none", r.p # NULL
               PROVE  \A i \in 0 .. (3 * size) \div 8 - 1 : get(r.h, r.p + 8 * i) = 0
    BY DEF CallocZeroes
  <2> DEFINE bytes == 3 * size
             r0 == malloc(heap, bytes)
             b == ReadHeap(heap)
  <2>1. /\ bytes \in Nat /\ (size = 0 => bytes = 0) /\ (3 * size) % SizeMod = bytes
        /\ (size # 0 => bytes \in Requested)
    BY RequestsModest
  <2>2. r = Clear(r0, bytes)
    BY <2>1 DEF calloc
  <2>3. b = ReadHeap(heap) /\ r0 = malloc(heap, bytes) /\ bytes = 3 * size
    OBVIOUS
  <2> HIDE DEF bytes, r0, b
  <2>4. r0.p # NULL
    BY <2>2 DEF Clear
  <2>5. bytes # 0
    BY <2>3, <2>4, MallocNothing
  <2>6. Modest(bytes) /\ bytes % 8 = 0
    BY <2>1, <2>3, <2>5, RequestsModest DEF Modest
  <2>7. Rep(heap, b)
    BY <2>3, ConsistentReads
  <2>8. r0 = [p |-> r0.p, h |-> r0.h]
    BY <2>3, MallocResult
  <2>9. "fault" \in DOMAIN r0.h /\ (r0.h.fault = "none" => Roomy(r0, bytes))
    BY <2>3, <2>4, <2>6, <2>7, MallocRoomy
  <2>10. r0.h.fault = "none"
    BY <2>2, <2>8, <2>9, ClearFault
  <2>11. \A i \in 0 .. bytes \div 8 - 1 : get(r.h, r.p + 8 * i) = 0
    <3>1. /\ r0.h \in Heaps /\ r0.h.brk <= Top /\ r0.p \in Nat /\ r0.p >= 16 /\ r0.p % 8 = 0
          /\ r0.p + bytes <= r0.h.brk /\ NULL = 0
      BY <2>9, <2>10, Sizing DEF Roomy
    <3> QED BY <2>1, <2>2, <2>6, <2>8, <3>1, ClearZeros
  <2> QED BY <2>3, <2>11
<1> QED BY <1>1, Invariance, PTL

(***************************************************************************)
(* The refinement of BlockHeap.                                            *)
(***************************************************************************)
\* R has the size of each pointer that f holds, and nothing else.
Counts(f, R) ==
  LET holders == {x \in Ids : f[x] # Nothing}
  IN  /\ R = [p \in DOMAIN R |-> R[p]]
      /\ DOMAIN R = {f[x].p : x \in holders}
      /\ \A x \in holders : R[f[x].p] = f[x].size

\* No two ids hold one pointer.
Injective(f) == \A i, j \in Ids : f[i] # Nothing /\ f[j] # Nothing /\ f[i].p = f[j].p => i = j

\* What is read of the requests counts them, and nothing else does.
LEMMA RequestsCount ==
  ASSUME NEW f, Injective(f)
  PROVE  Counts(f, ReadRequests(f)) /\ \A R : Counts(f, R) => ReadRequests(f) = R
<1> DEFINE holders == {x \in Ids : f[x] # Nothing}
           D == {f[x].p : x \in holders}
           R0 == [p \in D |-> f[CHOOSE x \in holders : f[x].p = p].size]
<1>1. ReadRequests(f) = R0
  BY DEF ReadRequests
<1>2. ASSUME NEW x \in holders PROVE R0[f[x].p] = f[x].size
  <2> DEFINE y == CHOOSE z \in holders : f[z].p = f[x].p
  <2>1. y \in holders /\ f[y].p = f[x].p
    OBVIOUS
  <2>2. R0[f[x].p] = f[y].size
    OBVIOUS
  <2> HIDE DEF y
  <2>3. y = x
    BY <2>1 DEF Injective
  <2> QED BY <2>2, <2>3
<1>3. Counts(f, R0)
  BY <1>2 DEF Counts
<1>4. ASSUME NEW R, Counts(f, R) PROVE R0 = R
  <2>1. DOMAIN R0 = D /\ R0 = [p \in D |-> R0[p]]
    OBVIOUS
  <2>2. DOMAIN R = D /\ R = [p \in D |-> R[p]]
    BY <1>4 DEF Counts
  <2>3. \A p \in D : R0[p] = R[p]
    <3> TAKE p \in D
    <3>1. PICK x \in holders : p = f[x].p
      OBVIOUS
    <3> QED BY <1>2, <1>4, <3>1 DEF Counts
  <2> HIDE DEF R0, D
  <2> QED BY <2>1, <2>2, <2>3
<1> QED BY <1>1, <1>3, <1>4

\* The requests in e are those in f, with size at q for what id had.
Credited(f, id, q, size, e) ==
  /\ f[id] = Nothing => ReadRequests(e) = Abstract!Hold(ReadRequests(f), q, size)
  /\ f[id] # Nothing =>
       ReadRequests(e) = Abstract!Hold(Abstract!Drop(ReadRequests(f), f[id].p), q, size)

\* A pointer is given to id, in place of what it held.
LEMMA RequestsHold ==
  ASSUME NEW f \in [Ids -> Slot], Injective(f), NEW id \in Ids, NEW q \in Nat, NEW size \in Nat,
         size # 0, NEW e, e = [f EXCEPT ![id] = [p |-> q, size |-> size]], Injective(e)
  PROVE  Credited(f, id, q, size, e)
<1> DEFINE R == ReadRequests(f)
           new == [p |-> q, size |-> size]
<1>1. Counts(f, R)
  BY RequestsCount
<1>2. /\ new # Nothing /\ new.p = q /\ new.size = size
      /\ e[id] = new /\ \A x \in Ids \ {id} : e[x] = f[x]
  BY DEF Nothing
<1> HIDE DEF R, new
<1>3. CASE f[id] = Nothing
  <2> DEFINE T == Abstract!Hold(R, q, size)
  <2>1. DOMAIN T = DOMAIN R \cup {q} /\ T = [x \in DOMAIN R \cup {q} |-> T[x]]
        /\ \A x \in DOMAIN R \cup {q} : T[x] = IF x = q THEN size ELSE R[x]
    BY DEF Abstract!Hold
  <2> HIDE DEF T
  <2>2. \A x \in Ids \ {id} : f[x] # Nothing => f[x].p # q
    <3> TAKE x \in Ids \ {id}
    <3>1. e[x] = f[x] /\ e[id] # Nothing /\ e[id].p = q
      BY <1>2
    <3> QED BY <3>1 DEF Injective
  <2>3. Counts(e, T)
    <3>1. DOMAIN T = {e[x].p : x \in {x \in Ids : e[x] # Nothing}}
      BY <1>1, <1>2, <1>3, <2>1 DEF Counts
    <3>2. ASSUME NEW x \in Ids, e[x] # Nothing PROVE T[e[x].p] = e[x].size
      <4>1. CASE x = id
        BY <1>2, <2>1, <4>1
      <4>2. CASE x # id
        <5>1. f[x] # Nothing /\ e[x] = f[x] /\ f[x].p # q
          BY <1>2, <2>2, <3>2, <4>2
        <5>2. R[f[x].p] = f[x].size /\ f[x].p \in DOMAIN R
          BY <1>1, <5>1 DEF Counts
        <5> QED BY <2>1, <5>1, <5>2
      <4> QED BY <4>1, <4>2
    <3> QED BY <2>1, <3>1, <3>2 DEF Counts
  <2>4. ReadRequests(e) = T
    BY <2>3, RequestsCount
  <2> QED BY <1>3, <2>4 DEF Credited, T, R
<1>4. CASE f[id] # Nothing
  <2> DEFINE p == f[id].p
             T == Abstract!Hold(Abstract!Drop(R, p), q, size)
             D == DOMAIN R \ {p}
  <2>1. DOMAIN T = D \cup {q} /\ T = [x \in D \cup {q} |-> T[x]]
        /\ \A x \in D \cup {q} : T[x] = IF x = q THEN size ELSE R[x]
    BY DEF Abstract!Hold, Abstract!Drop
  <2> HIDE DEF T
  <2>2. \A x \in Ids \ {id} : f[x] # Nothing => f[x].p # q /\ f[x].p # p
    <3> TAKE x \in Ids \ {id}
    <3>1. e[x] = f[x] /\ e[id] # Nothing /\ e[id].p = q
      BY <1>2
    <3> QED BY <1>4, <3>1 DEF Injective
  <2>3. D = {f[x].p : x \in {x \in Ids \ {id} : f[x] # Nothing}}
    <3>1. DOMAIN R = {f[x].p : x \in {x \in Ids : f[x] # Nothing}}
      BY <1>1 DEF Counts
    <3> QED BY <1>4, <2>2, <3>1
  <2>4. Counts(e, T)
    <3>1. DOMAIN T = {e[x].p : x \in {x \in Ids : e[x] # Nothing}}
      BY <1>2, <2>1, <2>3
    <3>2. ASSUME NEW x \in Ids, e[x] # Nothing PROVE T[e[x].p] = e[x].size
      <4>1. CASE x = id
        BY <1>2, <2>1, <4>1
      <4>2. CASE x # id
        <5>1. f[x] # Nothing /\ e[x] = f[x] /\ f[x].p # q /\ f[x].p \in D
          BY <1>2, <2>2, <2>3, <3>2, <4>2
        <5>2. R[f[x].p] = f[x].size
          BY <1>1, <5>1 DEF Counts
        <5> QED BY <2>1, <5>1, <5>2
      <4> QED BY <4>1, <4>2
    <3> QED BY <2>1, <3>1, <3>2 DEF Counts
  <2>5. ReadRequests(e) = T
    BY <2>4, RequestsCount
  <2> QED BY <1>4, <2>5 DEF Credited, T, R
<1> QED BY <1>3, <1>4

\* A pointer is taken back from id.
LEMMA RequestsDrop ==
  ASSUME NEW f \in [Ids -> Slot], Injective(f), NEW id \in Ids, f[id] # Nothing,
         NEW e, e = [f EXCEPT ![id] = Nothing]
  PROVE  ReadRequests(e) = Abstract!Drop(ReadRequests(f), f[id].p) /\ f[id].p \in DOMAIN ReadRequests(f)
<1> DEFINE R == ReadRequests(f)
           p == f[id].p
           T == Abstract!Drop(R, p)
           D == DOMAIN R \ {p}
<1>1. Counts(f, R)
  BY RequestsCount
<1>2. e[id] = Nothing /\ \A x \in Ids \ {id} : e[x] = f[x]
  OBVIOUS
<1> HIDE DEF R
<1>3. DOMAIN T = D /\ T = [x \in D |-> T[x]] /\ \A x \in D : T[x] = R[x]
  BY DEF Abstract!Drop
<1> HIDE DEF T
<1>4. DOMAIN R = {f[x].p : x \in {x \in Ids : f[x] # Nothing}} /\ p \in DOMAIN R
  BY <1>1 DEF Counts
<1>5. \A x \in Ids \ {id} : f[x] # Nothing => f[x].p # p
  BY DEF Injective
<1>6. Injective(e)
  BY <1>2 DEF Injective
<1>7. DOMAIN T = {e[x].p : x \in {x \in Ids : e[x] # Nothing}}
  BY <1>2, <1>3, <1>4, <1>5
<1>8. \A x \in Ids : e[x] # Nothing => T[e[x].p] = e[x].size
  BY <1>1, <1>2, <1>3, <1>4, <1>5 DEF Counts
<1>9. Counts(e, T)
  BY <1>3, <1>7, <1>8 DEF Counts
<1> QED BY <1>4, <1>6, <1>9, RequestsCount DEF T, R

\* The initial blocks are those of BlockHeap.
LEMMA ImplementsInit == ReadInit => Abstract!Init
<1> SUFFICES ASSUME ReadInit PROVE Abstract!Init
  OBVIOUS
<1>1. tiling = Abstract!InitHeap
  BY InitConsistent DEF ReadInit
<1>2. asked = Abstract!NoReqs
  <2>1. \A x \in Ids : blocks[x] = Nothing
    BY DEF ReadInit, Init
  <2>2. {x \in Ids : blocks[x] # Nothing} = {}
    BY <2>1
  <2>3. ReadRequests(blocks) = [p \in {} |-> 0]
    BY <2>2 DEF ReadRequests
  <2> QED BY <2>3 DEF ReadInit, Abstract!NoReqs
<1> QED BY <1>1, <1>2 DEF Abstract!Init

\* What the two history variables say.
Reading == tiling = ReadHeap(heap) /\ asked = ReadRequests(blocks)

\* A turn is a step of BlockHeap.
LEMMA TurnImplements ==
  ASSUME Consistent, Reading, NEW c, Turn(heap, tiling, blocks, heap', c, blocks'),
         tiling' = c, asked' = ReadRequests(blocks')
  PROVE  [Abstract!Next]_(Abstract!vars)
<1>1. blocks \in [Ids -> Slot] /\ Injective(blocks)
  BY DEF Consistent, Holds, Injective
<1>2. Injective(blocks')
  BY DEF Turn, Holds, Injective
<1>3. CASE heap' = heap /\ blocks' = blocks /\ c = tiling
  BY <1>3 DEF Abstract!vars, Reading
<1>4. ASSUME NEW id \in Ids, NEW size \in Requested, NEW q \in Nat,
             blocks' = [blocks EXCEPT ![id] = [p |-> q, size |-> size]],
             Given(tiling, blocks[id], q, size, c)
      PROVE  Abstract!Next
  <2> DEFINE n == BlockSize(size)
             p == blocks[id].p
  <2>1. size \in Nat /\ size # 0 /\ Modest(size)
    BY RequestsModest DEF Modest
  <2>2. Abstract!BlockSize(size) = n
    BY <2>1, BlockSizes
  <2>3. /\ blocks[id] = Nothing => asked' = Abstract!Hold(asked, q, size)
        /\ blocks[id] # Nothing => asked' = Abstract!Hold(Abstract!Drop(asked, p), q, size)
    <3> DEFINE f == blocks
               e == [f EXCEPT ![id] = [p |-> q, size |-> size]]
    <3>1. blocks' = e /\ Injective(e) /\ blocks = f
      BY <1>2, <1>4
    <3>2. f \in [Ids -> Slot] /\ Injective(f) /\ e = [f EXCEPT ![id] = [p |-> q, size |-> size]]
      BY <1>1
    <3> HIDE DEF e, f, n
    <3>3. Credited(f, id, q, size, e)
      BY <2>1, <3>1, <3>2, RequestsHold
    <3> QED BY <3>1, <3>3 DEF Credited, Reading
  <2>4. blocks[id] # Nothing => p \in DOMAIN asked
    BY <1>1, RequestsDrop DEF Reading
  <2>5. Abstract!Hold(Abstract!Drop(asked, p), p, size) = Abstract!Hold(asked, p, size)
    BY DEF Abstract!Hold, Abstract!Drop
  <2> HIDE DEF n, p
  <2>6. CASE blocks[id] = Nothing /\ [h |-> c, p |-> q] \in Abstract!Mallocs(tiling, n)
    <3> DEFINE r == [h |-> c, p |-> q]
    <3>1. r \in Abstract!Mallocs(tiling, Abstract!BlockSize(size)) /\ r.p = q /\ r.h = c
      BY <2>2, <2>6
    <3> HIDE DEF r
    <3>2. Abstract!Malloc(size)
      BY <2>3, <2>6, <3>1 DEF Abstract!Malloc
    <3> QED BY <3>2 DEF Abstract!Next, Requested
  <2>7. CASE blocks[id] # Nothing /\ q = p /\ c = tiling /\ tiling.size[q] - n \in 0 .. 32
    <3>1. Abstract!ReallocInPlace(p, size)
      BY <2>2, <2>3, <2>5, <2>7 DEF Abstract!ReallocInPlace
    <3> QED BY <2>4, <2>7, <3>1 DEF Abstract!Next, Requested
  <2>8. CASE blocks[id] # Nothing /\ q = p /\ c = Abstract!Shrink(tiling, q, n)
             /\ tiling.size[q] - n > 32
    <3>1. Abstract!ReallocShrink(p, size)
      BY <2>2, <2>3, <2>5, <2>8 DEF Abstract!ReallocShrink
    <3> QED BY <2>4, <2>8, <3>1 DEF Abstract!Next, Requested
  <2>9. ASSUME blocks[id] # Nothing, tiling.size[p] < n,
               NEW d, [h |-> d, p |-> q] \in Abstract!Mallocs(tiling, n), c = Abstract!free(d, p)
        PROVE  Abstract!Next
    <3> DEFINE r == [h |-> d, p |-> q]
    <3>1. r \in Abstract!Mallocs(tiling, Abstract!BlockSize(size)) /\ r.p = q /\ r.h = d
      BY <2>2, <2>9
    <3> HIDE DEF r
    <3>2. Abstract!ReallocMove(p, size)
      BY <2>2, <2>3, <2>9, <3>1 DEF Abstract!ReallocMove
    <3> QED BY <2>4, <2>9, <3>2 DEF Abstract!Next, Requested
  <2> QED BY <1>4, <2>6, <2>7, <2>8, <2>9 DEF Given, n, p
<1>5. ASSUME NEW id \in Ids, blocks[id] # Nothing, blocks' = [blocks EXCEPT ![id] = Nothing],
             c = Abstract!free(tiling, blocks[id].p)
      PROVE  Abstract!Next
  <2>1. asked' = Abstract!Drop(asked, blocks[id].p) /\ blocks[id].p \in DOMAIN asked
    BY <1>1, <1>5, RequestsDrop DEF Reading
  <2>2. Abstract!Free(blocks[id].p)
    BY <1>5, <2>1 DEF Abstract!Free
  <2> QED BY <2>1, <2>2 DEF Abstract!Next
<1>6. ASSUME blocks' = blocks, NEW size \in Requested, Died(tiling, size, c)
      PROVE  Abstract!Next
  <2>1. asked' = asked
    BY <1>6 DEF Reading
  <2>2. Abstract!BlockSize(size) = BlockSize(size)
    BY RequestsModest, BlockSizes
  <2>3. PICK more \in Abstract!Growths :
          /\ c = IF more = 0 THEN tiling ELSE Abstract!Extend(tiling, more)
          /\ Abstract!NoFit(tiling, BlockSize(size))
          /\ tiling.brk + more + Page > Top /\ tiling.brk + more <= Top
          /\ tiling.TOH + BlockSize(size) >= tiling.brk + more
          /\ more > 0 => ~Abstract!Stranded(tiling)
    BY <1>6 DEF Died
  <2>4. Abstract!Exhaust(size, more)
    BY <2>1, <2>2, <2>3 DEF Abstract!Exhaust, Top
  <2> QED BY <2>4 DEF Abstract!Next, Requested
<1> QED BY <1>3, <1>4, <1>5, <1>6 DEF Turn

\* A call of a careful client is a step of BlockHeap, or none.
LEMMA ImplementsStep ==
  Consistent /\ Reading /\ [ReadNext]_<<vars, tiling, asked>> => [Abstract!Next]_(Abstract!vars)
<1>1. ASSUME Consistent, Reading, ReadNext PROVE [Abstract!Next]_(Abstract!vars)
  <2>1. SafeNext /\ tiling' = ReadHeap(heap') /\ asked' = ReadRequests(blocks')
    BY <1>1 DEF ReadNext
  <2>2. ASSUME NEW c, Turn(heap, ReadHeap(heap), blocks, heap', c, blocks'), inits' = inits
        PROVE  [Abstract!Next]_(Abstract!vars)
    <3>1. Turn(heap, tiling, blocks, heap', c, blocks')
      BY <1>1, <2>2 DEF Reading
    <3>2. ReadHeap(heap') = c
      BY <1>1, <2>2, TurnConsistent
    <3> QED BY <1>1, <2>1, <3>1, <3>2, TurnImplements
  <2>3. CASE Reset /\ ReadHeap(heap') = Abstract!InitHeap
    <3>1. \A x \in Ids : blocks'[x] = Nothing
      BY <2>3 DEF Reset
    <3>2. {x \in Ids : blocks'[x] # Nothing} = {}
      BY <3>1
    <3>3. ReadRequests(blocks') = [p \in {} |-> 0]
      BY <3>2 DEF ReadRequests
    <3> QED BY <2>1, <2>3, <3>3 DEF Abstract!Reset, Abstract!NoReqs, Abstract!Next
  <2> QED BY <1>1, <2>1, <2>2, <2>3, StepTurn
<1>2. ASSUME UNCHANGED <<vars, tiling, asked>> PROVE [Abstract!Next]_(Abstract!vars)
  BY <1>2 DEF Abstract!vars
<1> QED BY <1>1, <1>2

\* The history variables are what is read.
LEMMA ReadingStep ==
  Reading /\ [ReadNext]_<<vars, tiling, asked>> => Reading'
<1>1. ASSUME ReadNext PROVE Reading'
  BY <1>1 DEF ReadNext, Reading
<1>2. ASSUME Reading, UNCHANGED <<vars, tiling, asked>> PROVE Reading'
  BY <1>2 DEF vars, Reading
<1> QED BY <1>1, <1>2

\* Every call of mm.c does to the boundary tags and the list what BlockHeap does to the
\* blocks, whatever the sizes of heap, pages and requests: the words implement the blocks.
THEOREM WordsImplementBlocks == ReadSpec => ImplementsBlockHeap
<1>1. ReadInit => Consistent /\ Reading
  BY InitConsistent DEF ReadInit, Reading
<1>2. Consistent /\ [ReadNext]_<<vars, tiling, asked>> => Consistent'
  <2>1. [ReadNext]_<<vars, tiling, asked>> => [SafeNext]_vars
    BY DEF ReadNext
  <2> QED BY <2>1, StepConsistent
<1> QED BY <1>1, <1>2, ImplementsInit, ImplementsStep, ReadingStep, PTL
        DEF ReadSpec, ImplementsBlockHeap, Abstract!Spec

(***************************************************************************)
(* What a careful client can rely on.                                      *)
(***************************************************************************)
\* What the three runs refute of a careless client, of requests near the largest
\* size_t and of a Fill of -1 holds of a client that avoids all three: payloads
\* are disjoint, blocks have room for what was asked, and an initialisation never
\* fails while its page fits (mm.c:109, 158-159; mdriver.c:1081-1083).
CarefulClient == PayloadsDisjoint /\ RoomForRequest /\ InitFailsOnlyOnError

THEOREM CarefulClientServed == SafeSpec => []CarefulClient
<1>1. Consistent => CarefulClient
  <2> SUFFICES ASSUME Consistent PROVE CarefulClient
    OBVIOUS
  <2> DEFINE b == ReadHeap(heap)
  <2>1. b = ReadHeap(heap)
    OBVIOUS
  <2> HIDE DEF b
  <2>2. /\ Holds(heap, b, blocks) /\ Tiles(b)
        /\ \A p \in DOMAIN b.size : get_size(heap, GHA(p)) = b.size[p]
    BY <2>1, ConsistentReads
  <2>3. ASSUME NEW id \in Ids, blocks[id] # Nothing
        PROVE  /\ blocks[id].p \in DOMAIN b.size /\ blocks[id].p \in Nat /\ blocks[id].size \in Nat
               /\ b.size[blocks[id].p] \in Nat /\ blocks[id].size + 16 <= b.size[blocks[id].p]
               /\ End(b, blocks[id].p) = blocks[id].p + b.size[blocks[id].p]
    <3>1. blocks[id].p \in DOMAIN b.size /\ blocks[id].p \in Nat /\ blocks[id].size \in Nat
      BY <2>2, <2>3, HeldFacts
    <3>2. blocks[id].size + 16 <= b.size[blocks[id].p]
      BY <2>2, <2>3 DEF Holds, Owned
    <3> QED BY <2>2, <3>1, <3>2, BlockWords
  <2>4. PayloadsDisjoint
    <3> SUFFICES ASSUME NEW x \in Ids, NEW y \in Ids, x # y, blocks[x] # Nothing, blocks[y] # Nothing
                 PROVE  \/ blocks[x].p + blocks[x].size <= blocks[y].p
                        \/ blocks[y].p + blocks[y].size <= blocks[x].p
      BY DEF PayloadsDisjoint
    <3> DEFINE p == blocks[x].p
               q == blocks[y].p
    <3>1. p # q
      BY <2>2 DEF Holds
    <3>2. End(b, p) <= q \/ End(b, q) <= p
      BY <2>2, <2>3, <3>1, BlocksApart
    <3> QED BY <2>3, <3>2
  <2>5. RoomForRequest
    BY <2>2, <2>3 DEF RoomForRequest
  <2>6. InitFailsOnlyOnError
    BY DEF Consistent, InitFailsOnlyOnError
  <2> QED BY <2>4, <2>5, <2>6 DEF CarefulClient
<1> QED BY <1>1, Invariance, PTL

(***************************************************************************)
(* The break.                                                              *)
(***************************************************************************)
\* Only pages move the break of the blocks.
LEMMA BlocksBrk ==
  /\ \A b, p : Abstract!free(b, p).brk = b.brk
  /\ \A b, p, n : Abstract!MallocAt(b, p, n).brk = b.brk
  /\ \A b, p, n : Abstract!Shrink(b, p, n).brk = b.brk
  /\ \A b, m : Abstract!Extend(b, m).brk = b.brk + m
<1>1. \A b, p : Abstract!coalesce(b, p).brk = b.brk
  <2>1. \A b, p : Abstract!Join(b, p).brk = b.brk
    BY DEF Abstract!Join, Abstract!Heap
  <2> QED BY <2>1 DEF Abstract!coalesce, Abstract!JoinNext
<1>2. \A b, t : Abstract!SetTOH(b, t).brk = b.brk
  BY DEF Abstract!SetTOH, Abstract!Heap
<1>3. \A b, p : Abstract!Release(b, p).brk = b.brk /\ Abstract!Use(b, p).brk = b.brk
  BY DEF Abstract!Release, Abstract!Use, Abstract!Heap
<1>4. \A b, p, n : Abstract!Split(b, p, n).brk = b.brk
  BY DEF Abstract!Split, Abstract!Heap
<1>5. \A b, p : Abstract!free(b, p).brk = b.brk
  BY <1>1, <1>2, <1>3 DEF Abstract!free
<1>6. \A b, p, n : Abstract!MallocAt(b, p, n).brk = b.brk
  BY <1>2, <1>3, <1>4 DEF Abstract!MallocAt, Abstract!place
<1>7. \A b, p, n : Abstract!Shrink(b, p, n).brk = b.brk
  BY <1>3, <1>4, <1>5 DEF Abstract!Shrink
<1>8. \A b, m : Abstract!Extend(b, m).brk = b.brk + m
  <2>1. \A b, m : Abstract!AddBlock(b, m).brk = b.brk + m
    BY DEF Abstract!AddBlock, Abstract!Heap
  <2> QED BY <1>1, <1>2, <2>1 DEF Abstract!Extend
<1> QED BY <1>5, <1>6, <1>7, <1>8

\* The pages that may be added are a number of bytes.
LEMMA GrowthsInt == \A more \in Abstract!Growths : more \in Int
<1> TAKE more \in Abstract!Growths
<1>1. PICK k \in 0 .. Top \div Page : more = k * Page
  BY DEF Abstract!Growths, Top
<1>2. k \in Int /\ Page \in Int
  BY <1>1, Sizing
<1> QED BY <1>1, <1>2

\* n bytes needed the last page that was added, and no free block held them.
Needed(b, n, brk) == Abstract!NoFit(b, n) /\ b.TOH + n >= brk - Page

\* A block given moves the break only if it has to.
LEMMA GivenNeeds ==
  ASSUME NEW b, b.brk \in Nat, NEW x, NEW q, NEW size, NEW c, Given(b, x, q, size, c), c.brk > b.brk
  PROVE  Needed(b, BlockSize(size), c.brk)
<1> DEFINE n == BlockSize(size)
<1>1. ASSUME NEW d, [h |-> d, p |-> q] \in Abstract!Mallocs(b, n), d.brk > b.brk
      PROVE  Needed(b, n, d.brk)
  <2> HIDE DEF n
  <2>1. CASE \E p : d = Abstract!MallocAt(b, p, n)
    <3>1. d.brk = b.brk
      BY <2>1, BlocksBrk
    <3> QED BY <1>1, <3>1
  <2>2. ASSUME NEW more \in Abstract!Growths, Abstract!NoFit(b, n), b.TOH + n >= b.brk + more - Page,
               d = Abstract!MallocAt(Abstract!Extend(b, more), b.TOH, n)
        PROVE  Needed(b, n, d.brk)
    <3>1. d.brk = b.brk + more
      BY <2>2, BlocksBrk
    <3>2. more \in Int /\ Page \in Int
      BY GrowthsInt, Sizing
    <3>3. b.brk + more - Page = d.brk - Page
      BY <3>1, <3>2
    <3> QED BY <2>2, <3>3 DEF Needed
  <2> QED BY <1>1, <2>1, <2>2 DEF Abstract!Mallocs
<1>2. CASE \E d : [h |-> d, p |-> q] \in Abstract!Mallocs(b, n) /\ c = Abstract!free(d, x.p)
  <2>1. PICK d : [h |-> d, p |-> q] \in Abstract!Mallocs(b, n) /\ c = Abstract!free(d, x.p)
    BY <1>2
  <2>2. c.brk = d.brk
    BY <2>1, BlocksBrk
  <2> HIDE DEF n
  <2>3. Needed(b, n, d.brk)
    BY <1>1, <2>1, <2>2
  <2> QED BY <2>2, <2>3 DEF n
<1>3. CASE c = b \/ c = Abstract!Shrink(b, q, n)
  BY <1>3, BlocksBrk
<1> QED BY <1>1, <1>2, <1>3 DEF Given

\* A call that died of a failed mem_sbrk had asked for more than the mapping holds.
LEMMA DiedExhausted ==
  ASSUME Consistent, SafeNext, NEW b, b = ReadHeap(heap), NEW size \in Requested, NEW c,
         Turn(heap, b, blocks, heap', c, blocks'), Died(b, size, c)
  PROVE  ExhaustedBy(size)
<1>1. /\ Tiles(b) /\ heap.brk = b.brk /\ heap.TOH = b.TOH /\ FreeBlks(heap) = Frees(b)
      /\ b.brk \in Nat /\ \A p \in Frees(b) : get_size(heap, GHA(p)) = b.size[p]
  BY ConsistentReads, EdgeWords DEF Frees
<1>2. heap'.brk = c.brk
  BY DEF Turn, Rep, Sound, Marked
<1>3. Abstract!NoFit(b, BlockSize(size)) => NoFit(size)
  BY <1>1 DEF NoFit, Abstract!NoFit, Abstract!FreeBlocks, Frees
<1>4. PICK more \in Abstract!Growths :
        /\ c = IF more = 0 THEN b ELSE Abstract!Extend(b, more)
        /\ Abstract!NoFit(b, BlockSize(size))
        /\ b.brk + more + Page > Top /\ b.TOH + BlockSize(size) >= b.brk + more
  BY DEF Died
<1>5. c.brk = b.brk + more
  BY <1>1, <1>4, BlocksBrk
<1>6. more \in Int /\ BlockSize(size) \in Nat /\ b.TOH \in Nat
  <2>1. BlockSize(size) \in Nat
    BY RequestsModest, BlockSizes
  <2>2. b.TOH \in Nat
    BY <1>1, ConsistentReads DEF Heaps
  <2>3. more \in Int
    BY GrowthsInt
  <2> QED BY <2>1, <2>2, <2>3
<1>7. heap.TOH + BlockSize(size) >= heap'.brk - 8 /\ heap'.brk + Page > HeapLo + MaxHeap
  BY <1>1, <1>2, <1>4, <1>5, <1>6 DEF Top
<1> QED BY <1>3, <1>4, <1>7 DEF ExhaustedBy

\* Whatever call a step is, if the process died of it, it asked for more than the mapping
\* holds; and the step is one of those calls.
LEMMA DiedOfRequest ==
  ASSUME Consistent, SafeNext, heap'.fault = "oom"
  PROVE  /\ \E id \in Ids, size \in Sizes :
              Malloc(id, size) \/ Realloc(id, size) \/ Calloc(id, 3, size)
         /\ \A id \in Ids, size \in Sizes :
              /\ Malloc(id, size) \/ Realloc(id, size) => ExhaustedBy(size)
              /\ Calloc(id, 3, size) => ExhaustedBy(3 * size)
<1> DEFINE b == ReadHeap(heap)
<1>1. Rep(heap, b) /\ Holds(heap, b, blocks) /\ heap.fault = "none" /\ Careful /\ b = ReadHeap(heap)
  BY DEF Consistent, SafeNext, Next
<1> HIDE DEF b
<1>2. ~\E id \in Ids : Free(id)
  <2> SUFFICES ASSUME NEW id \in Ids, Free(id) PROVE FALSE
    OBVIOUS
  <2>1. blocks[id] # Nothing /\ heap' = free(heap, blocks[id].p)
        /\ blocks' = [blocks EXCEPT ![id] = Nothing]
    BY DEF Free
  <2>2. PICK c : Turn(heap, b, blocks, heap', c, blocks') /\ heap'.fault # "oom"
    BY <1>1, <2>1, FreeTurn
  <2> QED BY <2>2
<1>3. ~Reset
  <2> SUFFICES ASSUME Reset PROVE FALSE
    OBVIOUS
  <2>1. heap' = Boot(heap) /\ blocks' = [id \in Ids |-> Nothing]
    BY DEF Reset
  <2>2. heap \in Heaps
    BY <1>1 DEF Rep, Sound, Marked
  <2> QED BY <1>1, <2>1, <2>2, BootConsistent
<1>4. ASSUME NEW size \in Sizes, NEW c, size # 0, Turn(heap, b, blocks, heap', c, blocks')
      PROVE  /\ Died(b, size, c) => ExhaustedBy(size)
             /\ Died(b, 3 * size, c) => ExhaustedBy(3 * size)
  <2>1. size \in Requested /\ 3 * size \in Requested
    BY <1>4, RequestsModest
  <2> QED BY <1>1, <1>4, <2>1, DiedExhausted
<1>5. ASSUME NEW id \in Ids, NEW size \in Sizes, Malloc(id, size) PROVE ExhaustedBy(size)
  <2>1. PICK c : /\ Turn(heap, b, blocks, heap', c, blocks')
                 /\ heap'.fault = "oom" => size # 0 /\ Died(b, size, c)
    BY <1>1, <1>5, MallocTurn
  <2> QED BY <1>4, <2>1
<1>6. ASSUME NEW id \in Ids, NEW size \in Sizes, Realloc(id, size) PROVE ExhaustedBy(size)
  <2>1. PICK c : /\ Turn(heap, b, blocks, heap', c, blocks')
                 /\ heap'.fault = "oom" => size # 0 /\ Died(b, size, c)
    BY <1>1, <1>6, ReallocTurn
  <2> QED BY <1>4, <2>1
<1>7. ASSUME NEW id \in Ids, NEW size \in Sizes, Calloc(id, 3, size) PROVE ExhaustedBy(3 * size)
  <2>1. PICK c : /\ Turn(heap, b, blocks, heap', c, blocks')
                 /\ heap'.fault = "oom" => size # 0 /\ Died(b, 3 * size, c)
    BY <1>1, <1>7, CallocTurn
  <2> QED BY <1>4, <2>1
<1> QED BY <1>2, <1>3, <1>5, <1>6, <1>7 DEF SafeNext, Next

\* Adding pages is always for a request that no free block exceeds, no page is more than
\* it takes, and a call dies of a failed mem_sbrk only when the bytes it asks for need a
\* page more than the mapping holds, for every page size and request (mm.c:14-15, 178-197,
\* 418).
THEOREM GrowsOnlyAsNeededAlways == SafeSpec => GrowsOnlyAsNeeded
<1> DEFINE Asked ==
      /\ heap'.brk > heap.brk /\ inits' = inits /\ blocks' # blocks =>
           \E id \in Ids : blocks'[id] # blocks[id] /\ GrewFor(blocks'[id].size)
      /\ heap'.fault = "oom" =>
           /\ \E id \in Ids, size \in Sizes :
                 Malloc(id, size) \/ Realloc(id, size) \/ Calloc(id, 3, size)
           /\ \A id \in Ids, size \in Sizes :
                 /\ Malloc(id, size) \/ Realloc(id, size) => ExhaustedBy(size)
                 /\ Calloc(id, 3, size) => ExhaustedBy(3 * size)
<1>1. ASSUME Consistent, SafeNext PROVE Asked
  <2> DEFINE b == ReadHeap(heap)
  <2>1. b = ReadHeap(heap)
    OBVIOUS
  <2>2. CASE Reset /\ heap'.fault = "none"
    BY <2>2, ClientAssumption, <1>1 DEF Reset, Consistent
  <2>3. ASSUME NEW c, Turn(heap, b, blocks, heap', c, blocks') PROVE Asked
    <3> HIDE DEF b
    <3>1. /\ Tiles(b) /\ heap.brk = b.brk /\ heap.TOH = b.TOH /\ FreeBlks(heap) = Frees(b)
          /\ b.brk \in Nat /\ heap.fault = "none" /\ blocks \in [Ids -> Slot]
          /\ \A p \in Frees(b) : get_size(heap, GHA(p)) = b.size[p]
      BY <1>1, <2>1, ConsistentReads, EdgeWords DEF SafeNext, Next, Frees, Holds
    <3>2. heap'.brk = c.brk
      BY <2>3 DEF Turn, Rep, Sound, Marked
    <3>3. \A size : Abstract!NoFit(b, BlockSize(size)) => NoFit(size)
      BY <3>1 DEF NoFit, Abstract!NoFit, Abstract!FreeBlocks, Frees
    <3>4. CASE heap' = heap /\ blocks' = blocks
      BY <3>1, <3>4
    <3>5. ASSUME NEW id \in Ids, NEW size \in Requested, NEW q \in Nat, heap'.fault = "none",
                 blocks' = [blocks EXCEPT ![id] = [p |-> q, size |-> size]],
                 Given(b, blocks[id], q, size, c)
          PROVE  Asked
      <4>1. ASSUME heap'.brk > heap.brk, blocks' # blocks
            PROVE  blocks'[id] # blocks[id] /\ GrewFor(blocks'[id].size)
        <5>1. blocks'[id].size = size /\ blocks'[id] # blocks[id]
          BY <3>1, <3>5, <4>1
        <5>2. Needed(b, BlockSize(size), c.brk)
          BY <3>1, <3>2, <3>5, <4>1, GivenNeeds
        <5> QED BY <3>1, <3>2, <3>3, <5>1, <5>2 DEF Needed, GrewFor
      <4> QED BY <3>5, <4>1
    <3>6. ASSUME NEW id \in Ids, heap'.fault = "none", c = Abstract!free(b, blocks[id].p) PROVE Asked
      BY <3>1, <3>2, <3>6, BlocksBrk
    <3>7. CASE heap'.fault = "oom" /\ blocks' = blocks
      BY <1>1, <3>7, DiedOfRequest
    <3> QED BY <2>3, <3>4, <3>5, <3>6, <3>7 DEF Turn
  <2> QED BY <1>1, <2>2, <2>3, StepTurn
<1>2. Consistent /\ [SafeNext]_vars => [Asked]_vars
  BY <1>1
<1> QED BY <1>2, Invariance, PTL DEF SafeSpec, GrowsOnlyAsNeeded

(***************************************************************************)
(* Blocks of which every size is a multiple of 32.                         *)
(***************************************************************************)
\* Pages and blocks for requests are multiples of 32 bytes.
Coarse == /\ InitPage % 32 = 0 /\ Page % 32 = 0
          /\ \A size \in Requested : BlockSize(size) % 32 = 0

\* Every block is a multiple of 32 bytes, and TOH is below the break.
Fine(b) ==
  /\ b.brk \in Nat /\ b.TOH \in Nat /\ b.TOH < b.brk
  /\ \A p \in DOMAIN b.size : /\ p \in Nat /\ b.size[p] \in Nat
                              /\ b.size[p] % 32 = 0 /\ b.size[p] > 0 /\ p + b.size[p] <= b.brk

\* Two blocks are made one.
LEMMA FineJoin ==
  ASSUME NEW b, Fine(b), NEW p \in DOMAIN b.size, p + b.size[p] \in DOMAIN b.size
  PROVE  /\ Fine(Abstract!Join(b, p))
         /\ DOMAIN Abstract!Join(b, p).size = DOMAIN b.size \ {p + b.size[p]}
         /\ \A x \in DOMAIN b.size \ {p, p + b.size[p]} : Abstract!Join(b, p).size[x] = b.size[x]
<1> DEFINE e == p + b.size[p]
           c == Abstract!Join(b, p)
<1>1. /\ c.brk = b.brk /\ c.TOH = b.TOH
      /\ c.size = [x \in DOMAIN b.size \ {e} |-> IF x = p THEN b.size[p] + b.size[e] ELSE b.size[x]]
  BY DEF Abstract!Join, Abstract!Heap, Abstract!Blocks, Abstract!End
<1>2. /\ b.size[p] + b.size[e] \in Nat /\ (b.size[p] + b.size[e]) % 32 = 0
      /\ b.size[p] + b.size[e] > 0 /\ p + (b.size[p] + b.size[e]) <= b.brk
  <2>1. /\ b.size[p] \in Nat /\ b.size[e] \in Nat /\ b.size[p] % 32 = 0 /\ b.size[e] % 32 = 0
        /\ b.size[p] > 0 /\ e + b.size[e] <= b.brk /\ p \in Nat /\ b.brk \in Nat
    BY DEF Fine
  <2> QED BY <2>1
<1> HIDE DEF c
<1>3. Fine(c)
  BY <1>1, <1>2 DEF Fine
<1> QED BY <1>1, <1>3 DEF c

\* A block is freed.
LEMMA FineFree ==
  ASSUME NEW b, Fine(b), NEW p \in DOMAIN b.size
  PROVE  Fine(Abstract!free(b, p))
<1> DEFINE g == Abstract!Release(b, p)
           k == Abstract!JoinNext(g, p)
           q == Abstract!Merged(g, p)
           c == Abstract!coalesce(g, p)
<1>1. g.size = b.size /\ g.brk = b.brk /\ g.TOH = b.TOH /\ Fine(g)
  BY DEF Abstract!Release, Abstract!Heap, Fine
<1> HIDE DEF g
<1>2. p \in Nat /\ b.size[p] \in Nat /\ b.size[p] > 0
  BY DEF Fine
<1>3. /\ Fine(k) /\ p \in DOMAIN k.size
      /\ \A x \in DOMAIN b.size \ {p, p + b.size[p]} : x \in DOMAIN k.size /\ k.size[x] = b.size[x]
  <2>1. CASE p + b.size[p] \in Abstract!FreeBlocks(g)
    <3>1. p + b.size[p] \in DOMAIN b.size /\ k = Abstract!Join(g, p) /\ p # p + b.size[p]
      BY <1>1, <1>2, <2>1 DEF Abstract!JoinNext, Abstract!FreeBlocks, Abstract!End
    <3> HIDE DEF k
    <3> QED BY <1>1, <3>1, FineJoin
  <2>2. CASE p + b.size[p] \notin Abstract!FreeBlocks(g)
    <3>1. k = g
      BY <1>1, <2>2 DEF Abstract!JoinNext, Abstract!End
    <3> QED BY <1>1, <3>1
  <2> QED BY <2>1, <2>2
<1>4. q = p \/ (q \in DOMAIN b.size /\ q + b.size[q] = p)
  <2>1. Abstract!FreeBefore(g, p) # {} => q \in Abstract!FreeBefore(g, p)
    BY DEF Abstract!Merged
  <2>2. Abstract!FreeBefore(g, p) = {} => q = p
    BY DEF Abstract!Merged
  <2> HIDE DEF q
  <2> QED BY <1>1, <2>1, <2>2 DEF Abstract!FreeBefore, Abstract!FreeBlocks, Abstract!End
<1>5. q \in Nat /\ q < b.brk
  <2>1. q \in DOMAIN b.size /\ b.brk \in Nat
    BY <1>4 DEF Fine
  <2>2. q \in Nat /\ b.size[q] \in Nat /\ b.size[q] > 0 /\ q + b.size[q] <= b.brk
    BY <2>1 DEF Fine
  <2> HIDE DEF q
  <2> QED BY <2>1, <2>2
<1>6. Fine(c)
  <2>1. CASE Abstract!FreeBefore(g, p) = {}
    BY <1>3, <2>1 DEF Abstract!coalesce
  <2>2. CASE Abstract!FreeBefore(g, p) # {}
    <3>1. c = Abstract!Join(k, q)
      BY <2>2 DEF Abstract!coalesce
    <3>2. q \in DOMAIN b.size /\ q + b.size[q] = p
      <4>1. q \in Abstract!FreeBefore(g, p)
        BY <2>2 DEF Abstract!Merged
      <4> HIDE DEF q
      <4> QED BY <1>1, <4>1 DEF Abstract!FreeBefore, Abstract!FreeBlocks, Abstract!End
    <3> HIDE DEF k, q, c
    <3>3. b.size[q] \in Nat /\ b.size[q] > 0
      BY <3>2 DEF Fine
    <3>4. q # p /\ q # p + b.size[p]
      BY <1>2, <1>5, <3>2, <3>3
    <3>5. q \in DOMAIN k.size /\ k.size[q] = b.size[q]
      BY <1>3, <3>2, <3>4
    <3> QED BY <1>3, <3>1, <3>2, <3>5, FineJoin
  <2> QED BY <2>1, <2>2
<1>7. c.brk = b.brk
  <2>1. \A d, x : Abstract!Join(d, x).brk = d.brk
    BY DEF Abstract!Join, Abstract!Heap
  <2> HIDE DEF g
  <2> QED BY <1>1, <2>1 DEF Abstract!coalesce, Abstract!JoinNext
<1>8. Abstract!free(b, p) \in {c, Abstract!SetTOH(c, q)}
  BY DEF Abstract!free, g
<1> HIDE DEF c, q
<1>9. Fine(Abstract!SetTOH(c, q))
  BY <1>5, <1>6, <1>7 DEF Fine, Abstract!SetTOH, Abstract!Heap
<1> QED BY <1>6, <1>8, <1>9

\* A block is cut.
LEMMA FineSplit ==
  ASSUME NEW b, Fine(b), NEW p \in DOMAIN b.size,
         NEW n \in Nat, n > 0, n % 32 = 0, b.size[p] > n
  PROVE  /\ Fine(Abstract!Split(b, p, n))
         /\ DOMAIN Abstract!Split(b, p, n).size = DOMAIN b.size \cup {p + n}
<1> DEFINE c == Abstract!Split(b, p, n)
<1>1. /\ c.brk = b.brk /\ c.TOH = b.TOH
      /\ c.size = [x \in DOMAIN b.size \cup {p + n} |->
                     IF x = p THEN n ELSE IF x = p + n THEN b.size[p] - n ELSE b.size[x]]
  BY DEF Abstract!Split, Abstract!Heap, Abstract!Blocks
<1>2. /\ b.size[p] - n \in Nat /\ (b.size[p] - n) % 32 = 0 /\ b.size[p] - n > 0 /\ p \in Nat
      /\ p + n \in Nat /\ (p + n) + (b.size[p] - n) <= b.brk /\ p + n <= b.brk /\ p + n # p
  <2>1. b.size[p] \in Nat /\ b.size[p] % 32 = 0 /\ p \in Nat /\ b.brk \in Nat /\ p + b.size[p] <= b.brk
    BY DEF Fine
  <2> QED BY <2>1
<1> HIDE DEF c
<1>3. ASSUME NEW x \in DOMAIN c.size
      PROVE  x \in Nat /\ c.size[x] \in Nat /\ c.size[x] % 32 = 0 /\ c.size[x] > 0 /\ x + c.size[x] <= b.brk
  <2>1. x \in DOMAIN b.size \cup {p + n}
    BY <1>1
  <2>2. CASE x = p
    BY <1>1, <1>2, <2>1, <2>2
  <2>3. CASE x = p + n
    BY <1>1, <1>2, <2>1, <2>3
  <2>4. CASE x # p /\ x # p + n
    <3>1. x \in DOMAIN b.size /\ c.size[x] = b.size[x]
      BY <1>1, <2>1, <2>4
    <3> QED BY <3>1 DEF Fine
  <2> QED BY <2>2, <2>3, <2>4
<1>4. Fine(c)
  BY <1>1, <1>3 DEF Fine
<1> QED BY <1>1, <1>4 DEF c

\* A block is used: a free block that is larger is never taken whole.
LEMMA FineMallocAt ==
  ASSUME NEW b, Fine(b), NEW p \in DOMAIN b.size,
         NEW n \in Nat, n > 0, n % 32 = 0, b.size[p] > n
  PROVE  /\ Fine(Abstract!MallocAt(b, p, n))
         /\ DOMAIN b.size \subseteq DOMAIN Abstract!MallocAt(b, p, n).size
<1> DEFINE c == Abstract!Split(b, p, n)
           d == Abstract!Use(c, p)
<1>1. Fine(c) /\ DOMAIN c.size = DOMAIN b.size \cup {p + n}
  BY FineSplit
<1>2. c.brk = b.brk
  BY DEF Abstract!Split, Abstract!Heap
<1>3. d.size = c.size /\ d.brk = c.brk /\ d.TOH = c.TOH
  BY DEF Abstract!Use, Abstract!Heap
<1>4. /\ b.size[p] \in Nat /\ b.size[p] % 32 = 0 /\ p \in Nat /\ b.brk \in Nat
      /\ p + b.size[p] <= b.brk
  BY DEF Fine
<1>5. ~Abstract!Whole(b, p, n) /\ p + n \in Nat /\ p + n < b.brk
  <2>1. b.size[p] - n >= 32 /\ p + n \in Nat /\ p + n < b.brk
    BY <1>4
  <2> QED BY <1>4, <2>1 DEF Abstract!Whole
<1>6. Abstract!place(b, p, n) = d /\ Abstract!Allocated(b, p, n) = n
  BY <1>5 DEF Abstract!place, Abstract!Allocated
<1>7. Abstract!MallocAt(b, p, n) \in {d, Abstract!SetTOH(d, p + n)}
  BY <1>6 DEF Abstract!MallocAt
<1> HIDE DEF c, d
<1>8. Fine(d)
  BY <1>1, <1>3 DEF Fine
<1>9. /\ Abstract!SetTOH(d, p + n).size = d.size /\ Abstract!SetTOH(d, p + n).brk = d.brk
      /\ Abstract!SetTOH(d, p + n).TOH = p + n
  BY DEF Abstract!SetTOH, Abstract!Heap
<1>10. Fine(Abstract!SetTOH(d, p + n))
  BY <1>2, <1>3, <1>5, <1>8, <1>9 DEF Fine
<1> QED BY <1>1, <1>3, <1>7, <1>8, <1>9, <1>10

\* What multiples of 32 the client and the pages come to.
LEMMA CoarseGrowths ==
  ASSUME Coarse
  PROVE  \A more \in Abstract!Growths :
           more \in Nat /\ more % 16 = 0 /\ more % 32 = 0 /\ (more # 0 => more >= 32)
<1>1. Page \in Nat /\ Page % 32 = 0
  BY Sizing DEF Coarse
<1>2. \A k \in Nat : (k * Page) % 32 = 0
  <2> DEFINE I == {k \in Nat : (k * Page) % 32 = 0}
  <2>1. 0 \in I
    BY <1>1
  <2>2. ASSUME NEW k \in Nat, k \in I PROVE k + 1 \in I
    <3> DEFINE x == k * Page
    <3>1. x \in Nat /\ x % 32 = 0 /\ (k + 1) * Page = x + Page
      BY <2>2, Pages
    <3> HIDE DEF x
    <3>2. (x + Page) % 32 = 0
      BY <1>1, <3>1
    <3> QED BY <3>1, <3>2
  <2>3. \A k \in Nat : k \in I
    <3> HIDE DEF I
    <3> QED BY <2>1, <2>2, Induction
  <2> QED BY <2>3
<1> TAKE more \in Abstract!Growths
<1>3. PICK k \in 0 .. Top \div Page : more = k * Page
  BY DEF Abstract!Growths, Top
<1>4. k \in Nat
  BY <1>3
<1>5. k = 0 \/ k >= 1
  BY <1>4
<1> QED BY <1>2, <1>3, <1>4, <1>5, Pages

\* Pages lengthen the block at the top, which TOH names.
LEMMA FineExtend ==
  ASSUME NEW b, Tiles(b), TopFits(b), Fine(b),
         NEW more \in Nat, more % 16 = 0, more % 32 = 0, more >= 32, b.brk + more <= Top
  PROVE  /\ Fine(Abstract!Extend(b, more)) /\ DOMAIN Abstract!Extend(b, more).size = DOMAIN b.size
         /\ b.TOH \in DOMAIN b.size /\ Abstract!Extend(b, more).size[b.TOH] = b.brk + more - b.TOH
<1> DEFINE t == b.TOH
           c == Stretch(b, t, more)
<1>1. t \in Nat /\ b.brk \in Nat /\ t < b.brk
  BY DEF Fine
<1>2. t \in Frees(b) /\ End(b, t) = b.brk /\ t \in DOMAIN b.size
  BY <1>1 DEF TopFits, Frees
<1>3. TopOf(b, t)
  BY <1>2 DEF TopOf
<1>4. Abstract!Extend(b, more) = c
  BY <1>3, ExtendStretches
<1>5. /\ c.brk = b.brk + more /\ c.TOH = t
      /\ c.size = [x \in DOMAIN b.size |-> IF x = t THEN b.brk + more - t ELSE b.size[x]]
  <2>1. DOMAIN b.size \cup {t} = DOMAIN b.size
    BY <1>2
  <2> QED BY <2>1 DEF Stretch, Abstract!Heap
<1>6. /\ b.brk + more - t \in Nat /\ (b.brk + more - t) % 32 = 0 /\ b.brk + more - t > 0
      /\ t + (b.brk + more - t) <= b.brk + more /\ b.brk + more \in Nat /\ t < b.brk + more
  <2>1. b.size[t] \in Nat /\ b.size[t] % 32 = 0 /\ t + b.size[t] = b.brk
    BY <1>2 DEF Fine, End
  <2> HIDE DEF t
  <2> QED BY <1>1, <2>1
<1> HIDE DEF c, t
<1>7. ASSUME NEW x \in DOMAIN b.size
      PROVE  /\ x \in Nat /\ c.size[x] \in Nat /\ c.size[x] % 32 = 0 /\ c.size[x] > 0
             /\ x + c.size[x] <= b.brk + more
  <2>1. /\ x \in Nat /\ b.size[x] \in Nat /\ b.size[x] % 32 = 0 /\ b.size[x] > 0
        /\ x + b.size[x] <= b.brk
    BY DEF Fine
  <2>2. CASE x = t
    BY <1>2, <1>5, <1>6, <2>1, <2>2
  <2>3. CASE x # t
    <3>1. c.size[x] = b.size[x]
      BY <1>5, <2>3
    <3> QED BY <1>1, <2>1, <3>1
  <2> QED BY <2>2, <2>3
<1>8. Fine(c)
  BY <1>1, <1>5, <1>6, <1>7 DEF Fine
<1> QED BY <1>2, <1>4, <1>5, <1>8 DEF t

\* What malloc makes.
LEMMA FineMalloc ==
  ASSUME NEW b, Tiles(b), TopFits(b), Fine(b), Coarse,
         NEW n \in Nat, n > 0, n % 32 = 0, NEW d, NEW q, [h |-> d, p |-> q] \in Abstract!Mallocs(b, n)
  PROVE  Fine(d) /\ DOMAIN b.size \subseteq DOMAIN d.size
<1>1. CASE \E p \in Abstract!FreeBlocks(b) : b.size[p] > n /\ d = Abstract!MallocAt(b, p, n)
  <2>1. PICK p \in DOMAIN b.size : b.size[p] > n /\ d = Abstract!MallocAt(b, p, n)
    BY <1>1 DEF Abstract!FreeBlocks
  <2> QED BY <2>1, FineMallocAt
<1>2. CASE \E more \in Abstract!Growths :
             /\ d = Abstract!MallocAt(Abstract!Extend(b, more), b.TOH, n) /\ Abstract!NoFit(b, n)
             /\ b.brk + more <= Top /\ b.TOH + n < b.brk + more
  <2>1. PICK more \in Abstract!Growths :
             /\ d = Abstract!MallocAt(Abstract!Extend(b, more), b.TOH, n) /\ Abstract!NoFit(b, n)
             /\ b.brk + more <= Top /\ b.TOH + n < b.brk + more
    BY <1>2
  <2>2. more \in Nat /\ more % 16 = 0 /\ more % 32 = 0 /\ (more # 0 => more >= 32)
    BY CoarseGrowths
  <2>3. b.TOH \in Nat /\ b.brk \in Nat /\ b.TOH < b.brk
    BY DEF Fine
  <2>4. more # 0
    <3>1. b.TOH \in Abstract!FreeBlocks(b) /\ b.TOH + b.size[b.TOH] = b.brk
      BY <2>3 DEF TopFits, Frees, End, Abstract!FreeBlocks
    <3>2. b.size[b.TOH] <= n /\ b.size[b.TOH] \in Nat
      BY <2>1, <3>1 DEF Abstract!NoFit, Abstract!FreeBlocks, Fine
    <3> QED BY <2>1, <2>2, <2>3, <3>1, <3>2
  <2> DEFINE c == Abstract!Extend(b, more)
  <2>5. /\ Fine(c) /\ DOMAIN c.size = DOMAIN b.size
        /\ b.TOH \in DOMAIN b.size /\ c.size[b.TOH] = b.brk + more - b.TOH
    BY <2>1, <2>2, <2>4, FineExtend
  <2> HIDE DEF c
  <2>6. c.size[b.TOH] > n
    BY <2>1, <2>2, <2>3, <2>5
  <2>7. d = Abstract!MallocAt(c, b.TOH, n)
    BY <2>1 DEF c
  <2> QED BY <2>5, <2>6, <2>7, FineMallocAt
<1> QED BY <1>1, <1>2 DEF Abstract!Mallocs, Top

\* Every call of any client keeps the blocks multiples of 32.
LEMMA FineTurn ==
  ASSUME NEW b, Tiles(b), TopFits(b), Fine(b), Coarse, NEW h, NEW f, Holds(h, b, f),
         NEW g, NEW c, NEW e, Turn(h, b, f, g, c, e)
  PROVE  Fine(c)
<1>1. ASSUME NEW id \in Ids, f[id] # Nothing PROVE f[id].p \in DOMAIN b.size
  BY <1>1, HeldFacts
<1>2. ASSUME NEW id \in Ids, NEW size \in Requested, NEW q, Given(b, f[id], q, size, c)
      PROVE  Fine(c)
  <2> DEFINE n == BlockSize(size)
  <2>1. n \in Nat /\ n > 0 /\ n % 32 = 0
    BY RequestsModest, BlockSizes DEF Coarse
  <2>2. n = BlockSize(size)
    OBVIOUS
  <2> HIDE DEF n
  <2>3. ASSUME [h |-> c, p |-> q] \in Abstract!Mallocs(b, n) PROVE Fine(c)
    BY <2>1, <2>3, FineMalloc
  <2>4. ASSUME f[id] # Nothing, q = f[id].p, c = Abstract!Shrink(b, q, n), b.size[q] - n > 32
        PROVE  Fine(c)
    <3> DEFINE s == Abstract!Split(b, q, n)
               u == Abstract!Use(s, q + n)
    <3>1. q \in DOMAIN b.size
      BY <1>1, <2>4
    <3>2. b.size[q] \in Nat /\ b.size[q] > n
      BY <2>1, <2>4, <3>1 DEF Fine
    <3>3. Fine(s) /\ q + n \in DOMAIN s.size
      BY <2>1, <3>1, <3>2, FineSplit
    <3>4. u.size = s.size /\ u.brk = s.brk /\ u.TOH = s.TOH
      BY DEF Abstract!Use, Abstract!Heap
    <3>5. c = Abstract!free(u, q + n)
      BY <2>4 DEF Abstract!Shrink
    <3> HIDE DEF s, u
    <3>6. Fine(u) /\ q + n \in DOMAIN u.size
      BY <3>3, <3>4 DEF Fine
    <3> QED BY <3>5, <3>6, FineFree
  <2>5. ASSUME f[id] # Nothing, NEW d, [h |-> d, p |-> q] \in Abstract!Mallocs(b, n),
               c = Abstract!free(d, f[id].p)
        PROVE  Fine(c)
    <3>1. Fine(d) /\ f[id].p \in DOMAIN d.size
      BY <1>1, <2>1, <2>5, FineMalloc
    <3> QED BY <2>5, <3>1, FineFree
  <2> QED BY <1>2, <2>2, <2>3, <2>4, <2>5 DEF Given
<1>3. ASSUME NEW size \in Requested, Died(b, size, c) PROVE Fine(c)
  <2>1. PICK more \in Abstract!Growths :
          c = (IF more = 0 THEN b ELSE Abstract!Extend(b, more)) /\ b.brk + more <= Top
    BY <1>3 DEF Died
  <2>2. more \in Nat /\ more % 16 = 0 /\ more % 32 = 0 /\ (more # 0 => more >= 32)
    BY CoarseGrowths
  <2>3. CASE more = 0
    BY <2>1, <2>3
  <2>4. CASE more # 0
    BY <2>1, <2>2, <2>4, FineExtend
  <2> QED BY <2>3, <2>4
<1>4. ASSUME NEW id \in Ids, f[id] # Nothing, c = Abstract!free(b, f[id].p) PROVE Fine(c)
  BY <1>1, <1>4, FineFree
<1> QED BY <1>2, <1>3, <1>4 DEF Turn

\* The invariant, and the blocks multiples of 32.
CoarselyConsistent == Consistent /\ Fine(ReadHeap(heap))

\* The blocks of an initialisation.
LEMMA FineInit == Coarse => Fine(Abstract!InitHeap)
<1> SUFFICES ASSUME Coarse PROVE Fine(Abstract!InitHeap)
  OBVIOUS
<1> DEFINE c == Abstract!InitHeap
<1>1. /\ c.size = [x \in {FirstBlk} |-> InitPage] /\ c.brk = FirstBlk + InitPage /\ c.TOH = FirstBlk
  BY DEF Abstract!InitHeap, Abstract!Heap
<1>2. FirstBlk \in Nat /\ InitPage \in Nat /\ InitPage >= 32 /\ InitPage % 32 = 0
  BY Sizing DEF Coarse
<1> HIDE DEF c
<1>3. c.brk \in Nat /\ c.TOH \in Nat /\ c.TOH < c.brk
  BY <1>1, <1>2
<1>4. ASSUME NEW x \in DOMAIN c.size
      PROVE  /\ x \in Nat /\ c.size[x] \in Nat /\ c.size[x] % 32 = 0 /\ c.size[x] > 0
             /\ x + c.size[x] <= c.brk
  BY <1>1, <1>2
<1>5. Fine(c)
  BY <1>3, <1>4 DEF Fine
<1> QED BY <1>5 DEF c

\* No heap of such blocks is stranded.
LEMMA FineApart == CoarselyConsistent => heap.TOH # heap.brk /\ ~Stranded(heap)
<1>1. ASSUME CoarselyConsistent PROVE heap.TOH # heap.brk
  <2> DEFINE b == ReadHeap(heap)
  <2>1. Consistent /\ Fine(b) /\ b = ReadHeap(heap)
    BY <1>1 DEF CoarselyConsistent
  <2> HIDE DEF b
  <2>2. heap.brk = b.brk /\ heap.TOH = b.TOH
    BY <2>1, ConsistentReads
  <2>3. b.TOH \in Nat /\ b.brk \in Nat /\ b.TOH < b.brk
    BY <2>1 DEF Fine
  <2> QED BY <2>2, <2>3
<1> QED BY <1>1 DEF Stranded

\* Every call of any client keeps the invariant.
LEMMA CoarseStep ==
  ASSUME Coarse, CoarselyConsistent, Next
  PROVE  SafeNext /\ CoarselyConsistent'
<1> DEFINE b == ReadHeap(heap)
<1>1. Consistent /\ Fine(b) /\ b = ReadHeap(heap)
  BY DEF CoarselyConsistent
<1> HIDE DEF b
<1>2. SafeNext
  BY FineApart DEF SafeNext, Careful
<1>3. Tiles(b) /\ TopFits(b) /\ Holds(heap, b, blocks)
  BY <1>1, ConsistentReads DEF Rep
<1>4. Consistent'
  BY <1>1, <1>2, StepConsistent
<1>5. ASSUME NEW c, Turn(heap, b, blocks, heap', c, blocks'), inits' = inits
      PROVE  Fine(ReadHeap(heap'))
  <2>1. Fine(c)
    BY <1>1, <1>3, <1>5, FineTurn
  <2>2. ReadHeap(heap') = c
    BY <1>1, <1>5, TurnConsistent
  <2> QED BY <2>1, <2>2
<1>6. ASSUME ReadHeap(heap') = Abstract!InitHeap PROVE Fine(ReadHeap(heap'))
  BY <1>6, FineInit
<1>7. Fine(ReadHeap(heap'))
  BY <1>1, <1>2, <1>5, <1>6, StepTurn
<1> QED BY <1>2, <1>4, <1>7 DEF CoarselyConsistent

\* A client whose requests make blocks that are multiples of 32, with pages that are
\* multiples of 32 too, is careful whatever it calls: no heap of its is ever stranded,
\* because no free block is ever taken whole (mm.c:205-208, 236-238, 753).
THEOREM CoarseNeverStranded ==
  ASSUME Coarse
  PROVE  Spec => SafeSpec /\ []NeverStranded
<1>1. Init => CoarselyConsistent
  BY InitConsistent, FineInit DEF CoarselyConsistent
<1>2. CoarselyConsistent /\ [Next]_vars => CoarselyConsistent' /\ [SafeNext]_vars
  <2>1. ASSUME CoarselyConsistent, UNCHANGED vars PROVE CoarselyConsistent'
    BY <2>1 DEF CoarselyConsistent, Consistent, vars
  <2> QED BY <2>1, CoarseStep
<1>3. CoarselyConsistent => NeverStranded
  BY FineApart DEF NeverStranded
<1> QED BY <1>1, <1>2, <1>3, PTL DEF Spec, SafeSpec
=============================================================================
