--------------------------- MODULE RunTestsProofs ---------------------------
(***************************************************************************)
(* The main loop, for every number of traces, whichever of them hang and   *)
(* whatever the timer reads: with an alarm that arrives in an evaluation   *)
(* each trace begins clean and nothing is freed twice, the timer keeps the *)
(* best samples, and a score is only given to traces that were measured.   *)
(***************************************************************************)
EXTENDS RunTests, Iteration, FiniteSetTheorems, SequenceTheorems

(***************************************************************************)
(* The sampler.                                                            *)
(***************************************************************************)
\* The first n values are in order.
InOrder(v, n) == \A j, k \in 1 .. n : j < k => v[j] <= v[k]

\* rank leaves out none of the samples.
Complete(s, n, rank) == \A m \in DOMAIN s : \E k \in 1 .. n : rank[k] = m

Full(s) == IF Len(s) < kbest THEN Len(s) ELSE kbest

\* The samples that rank leaves out are not below val.
Above(s, n, rank, val) ==
  \A m \in DOMAIN s : (\A k \in 1 .. n : rank[k] # m) => val <= s[m]

\* The first n values are the best of the samples s, or all of them.
Ranked(v, s, n) == \E rank \in [1 .. n -> DOMAIN s] : Timer!Ranks(v, s, n, rank)

AllRanked(v, s, n) ==
  \E rank \in [1 .. n -> DOMAIN s] : Timer!Ranks(v, s, n, rank) /\ Complete(s, n, rank)

\* v holds the best of the samples s; as long as there is room, all of them.
Best(v, s) ==
  /\ InOrder(v, Full(s)) /\ Ranked(v, s, Full(s))
  /\ Len(s) < kbest => AllRanked(v, s, Full(s))

\* The insertion sort stops at a place, and moves the values above it up by one.
LEMMA SortedPlace ==
  ASSUME NEW v \in [1 .. kbest -> Int], NEW pos \in 1 .. kbest, NEW val \in Int
  PROVE  \E at \in 1 .. pos :
           /\ Timer!Settles(v, pos, val, at)
           /\ Timer!Sorted(v, pos, val) = Timer!Moved(v, pos, val, at)
<1> DEFINE S == {k \in 1 .. pos : k = 1 \/ v[k - 1] <= val}
           P(k) == Timer!Settles(v, pos, val, k)
           at == CHOOSE k \in 1 .. pos : P(k)
<1>0. kbest \in Nat
  BY TimerAssumption
<1>1. PICK x \in S : \A y \in S : y <= x
  <2>1. pos \in Nat /\ S \subseteq 0 .. pos /\ 1 \in S
    BY <1>0
  <2> HIDE DEF S
  <2> QED BY <2>1, GreatestExists
<1>2. P(x)
  <2>1. ASSUME NEW j \in x .. pos - 1 PROVE v[j] > val
    <3>1. j + 1 \in 1 .. pos /\ j + 1 > x /\ (j + 1) - 1 = j /\ j \in 1 .. kbest /\ v[j] \in Int
      BY <1>0
    <3>2. j + 1 \notin S
      BY <1>1, <3>1
    <3> QED BY <3>1, <3>2
  <2> QED BY <1>1, <2>1 DEF Timer!Settles
<1>3. at \in 1 .. pos /\ P(at)
  <2>1. \E k \in 1 .. pos : P(k)
    BY <1>2
  <2> HIDE DEF P
  <2> QED BY ONLY <2>1
<1>4. Timer!Sorted(v, pos, val) = Timer!Moved(v, pos, val, at)
  BY DEF Timer!Sorted
<1> HIDE DEF at
<1> QED BY <1>3, <1>4

\* A sample sorted into the first values takes its rank among them.
LEMMA SortedRanks ==
  ASSUME NEW v \in [1 .. kbest -> Int], NEW s \in Seq(Int), NEW pos \in 1 .. kbest,
         NEW val \in Int, NEW rank \in [1 .. pos - 1 -> DOMAIN s],
         InOrder(v, pos - 1), Timer!Ranks(v, s, pos - 1, rank),
         Above(s, pos - 1, rank, val),
         NEW w, w = Timer!Sorted(v, pos, val), NEW s2, s2 = Append(s, val)
  PROVE  /\ w \in [1 .. kbest -> Int] /\ InOrder(w, pos)
         /\ Ranked(w, s2, pos) /\ (Complete(s, pos - 1, rank) => AllRanked(w, s2, pos))
<1>1. PICK at \in 1 .. pos :
           /\ Timer!Settles(v, pos, val, at)
           /\ w = Timer!Moved(v, pos, val, at)
  BY SortedPlace
<1>2. /\ at \in 1 .. pos /\ val \in Int /\ pos \in Nat
      /\ at = 1 \/ v[at - 1] <= val
      /\ \A j \in at .. pos - 1 : v[j] > val
  BY <1>1, TimerAssumption DEF Timer!Settles
<1>3. kbest \in Nat /\ Len(s) \in Nat /\ DOMAIN s = 1 .. Len(s) /\ \A m \in DOMAIN s : s[m] \in Int
  BY TimerAssumption, LenProperties
<1>4. /\ DOMAIN s2 = 1 .. Len(s) + 1 /\ s2[Len(s) + 1] = val
      /\ \A m \in DOMAIN s : s2[m] = s[m] /\ m # Len(s) + 1
  BY <1>3, AppendProperties
<1>5. \A j \in 1 .. pos : w[j] = IF j < at THEN v[j] ELSE IF j = at THEN val ELSE v[j - 1]
  BY <1>1, <1>3 DEF Timer!Moved
<1>6. w \in [1 .. kbest -> Int]
  <2>1. ASSUME NEW j \in 1 .. kbest
        PROVE  (IF j < at \/ j > pos THEN v[j] ELSE IF j = at THEN val ELSE v[j - 1]) \in Int
    BY <1>3
  <2> QED BY <1>1, <2>1 DEF Timer!Moved
<1>7b. \A x, y \in 1 .. pos - 1 : x < y \/ x = y => v[x] <= v[y]
  <2>1. \A x \in 1 .. pos - 1 : v[x] \in Int
    BY <1>3
  <2> QED BY <2>1 DEF InOrder
<1>7. \A j \in 1 .. pos - 1 : v[j] \in Int /\ (j < at => v[j] <= val) /\ (j >= at => val <= v[j])
  <2> SUFFICES ASSUME NEW j \in 1 .. pos - 1
               PROVE  v[j] \in Int /\ (j < at => v[j] <= val) /\ (j >= at => val <= v[j])
    OBVIOUS
  <2>1. v[j] \in Int
    BY <1>3
  <2>2. ASSUME j < at PROVE v[j] <= val
    <3>1. at # 1 /\ at - 1 \in 1 .. pos - 1 /\ v[at - 1] \in Int /\ v[at - 1] <= val
      BY <1>2, <1>3, <2>2
    <3>2. j = at - 1 \/ j < at - 1
      BY <2>2
    <3>3. v[j] <= v[at - 1]
      BY <1>2, <1>7b, <2>1, <3>1, <3>2
    <3> QED BY ONLY <1>2, <2>1, <3>1, <3>3
  <2>3. ASSUME j >= at PROVE val <= v[j]
    BY <1>2, <2>1, <2>3
  <2> QED BY <2>1, <2>2, <2>3
<1>8. InOrder(w, pos)
  <2> SUFFICES ASSUME NEW j \in 1 .. pos, NEW k \in 1 .. pos, j < k PROVE w[j] <= w[k]
    BY DEF InOrder
  <2>1. /\ j \in 1 .. pos - 1
        /\ k < at => k \in 1 .. pos - 1
        /\ k > at => k - 1 \in 1 .. pos - 1
        /\ j > at => j - 1 \in 1 .. pos - 1 /\ j - 1 < k - 1
    OBVIOUS
  <2>3. w[j] = IF j < at THEN v[j] ELSE IF j = at THEN val ELSE v[j - 1]
    BY <1>5
  <2>4. w[k] = IF k < at THEN v[k] ELSE IF k = at THEN val ELSE v[k - 1]
    BY <1>5
  <2>5. CASE k < at
    BY <1>7b, <2>1, <2>3, <2>4, <2>5
  <2>6. CASE k = at
    BY <1>7, <2>1, <2>3, <2>4, <2>6
  <2>7. CASE k > at
    <3>1. k - 1 \in 1 .. pos - 1 /\ w[k] = v[k - 1] /\ j \in 1 .. pos - 1
      BY <2>1, <2>4, <2>7
    <3>2. CASE j < at
      BY <1>2, <1>7b, <2>3, <2>7, <3>1, <3>2
    <3>3. CASE j = at
      BY <1>2, <1>7, <2>3, <2>7, <3>1, <3>3
    <3>4. CASE j > at
      BY <1>2, <1>7b, <2>1, <2>3, <3>1, <3>4
    <3> QED BY <1>2, <3>2, <3>3, <3>4
  <2> QED BY <1>2, <2>5, <2>6, <2>7
<1> DEFINE new == Len(s) + 1
           r2 == [j \in 1 .. pos |-> IF j < at THEN rank[j] ELSE IF j = at THEN new ELSE rank[j - 1]]
<1>9. r2 \in [1 .. pos -> DOMAIN s2]
  <2>1. ASSUME NEW j \in 1 .. pos
        PROVE  (IF j < at THEN rank[j] ELSE IF j = at THEN new ELSE rank[j - 1]) \in DOMAIN s2
    BY <1>3, <1>4
  <2> QED BY <2>1
<1>10. \A j \in 1 .. pos : r2[j] = IF j < at THEN rank[j] ELSE IF j = at THEN new ELSE rank[j - 1]
  OBVIOUS
<1>11. \A j \in 1 .. pos - 1 : rank[j] \in DOMAIN s /\ rank[j] # new /\ v[j] = s[rank[j]]
  BY <1>3 DEF Timer!Ranks
<1> HIDE DEF r2, new
<1>12. \A j, k \in 1 .. pos : r2[j] = r2[k] => j = k
  <2>1. ASSUME NEW j \in 1 .. pos
        PROVE  IF j = at THEN r2[j] = new
               ELSE \E x \in 1 .. pos - 1 : /\ r2[j] = rank[x] /\ rank[x] # new
                                           /\ j = IF x < at THEN x ELSE x + 1
    <3>1. r2[j] = IF j < at THEN rank[j] ELSE IF j = at THEN new ELSE rank[j - 1]
      BY <1>10
    <3>2. CASE j < at
      <4>1. j \in 1 .. pos - 1
        BY <1>2, <3>2
      <4> QED BY <1>11, <3>1, <3>2, <4>1
    <3>3. CASE j > at
      <4>1. j - 1 \in 1 .. pos - 1 /\ ~ (j - 1 < at) /\ (j - 1) + 1 = j
        BY <1>2, <3>3
      <4>2. r2[j] = rank[j - 1] /\ rank[j - 1] # new /\ j # at
        BY <1>2, <1>11, <3>1, <3>3, <4>1
      <4> QED BY <4>1, <4>2
    <3> QED BY ONLY <1>2, <3>1, <3>2, <3>3, j \in 1 .. pos
  <2>2. \A x, y \in 1 .. pos - 1 : rank[x] = rank[y] => x = y
    BY DEF Timer!Ranks
  <2> SUFFICES ASSUME NEW j \in 1 .. pos, NEW k \in 1 .. pos, r2[j] = r2[k] PROVE j = k
    OBVIOUS
  <2>3. j = at \/ \E x \in 1 .. pos - 1 : /\ r2[j] = rank[x] /\ rank[x] # new
                                          /\ j = IF x < at THEN x ELSE x + 1
    BY ONLY <2>1, j \in 1 .. pos
  <2>4. k = at \/ \E x \in 1 .. pos - 1 : /\ r2[k] = rank[x] /\ rank[x] # new
                                          /\ k = IF x < at THEN x ELSE x + 1
    BY ONLY <2>1, k \in 1 .. pos
  <2>5. (j = at => r2[j] = new) /\ (k = at => r2[k] = new)
    BY ONLY <2>1, j \in 1 .. pos, k \in 1 .. pos
  <2>6. r2[j] = r2[k]
    OBVIOUS
  <2> QED BY ONLY <2>2, <2>3, <2>4, <2>5, <2>6
<1>13. ASSUME NEW k \in 1 .. pos PROVE w[k] = s2[r2[k]]
  <2>1. /\ k < at => k \in 1 .. pos - 1
        /\ k > at => k - 1 \in 1 .. pos - 1
    OBVIOUS
  <2>2. r2[k] = IF k < at THEN rank[k] ELSE IF k = at THEN new ELSE rank[k - 1]
    BY <1>10
  <2>3. w[k] = IF k < at THEN v[k] ELSE IF k = at THEN val ELSE v[k - 1]
    BY <1>5
  <2>4. CASE k < at
    BY <1>4, <1>11, <2>1, <2>2, <2>3, <2>4
  <2>5. CASE k = at
    BY <1>4, <2>2, <2>3, <2>5 DEF new
  <2>6. CASE k > at
    BY <1>4, <1>11, <2>1, <2>2, <2>3, <2>6
  <2> QED BY ONLY <1>2, <2>4, <2>5, <2>6, k \in 1 .. pos
<1>14. ASSUME NEW m \in DOMAIN s2, \A k \in 1 .. pos : r2[k] # m
       PROVE  \A k \in 1 .. pos : w[k] <= s2[m]
  <2>1. m # new
    <3>1. r2[at] = new
      <4>1. ~ (at < at)
        BY ONLY <1>2
      <4> QED BY ONLY <1>2, <1>10, <4>1
    <3>2. r2[at] # m
      BY ONLY <1>2, <1>14
    <3> QED BY ONLY <3>1, <3>2
  <2>2. m \in DOMAIN s /\ s2[m] = s[m] /\ s[m] \in Int
    BY <1>3, <1>4, <2>1 DEF new
  <2>3. ASSUME NEW j \in 1 .. pos - 1 PROVE rank[j] # m
    <3>1. j \in 1 .. pos /\ j + 1 \in 1 .. pos /\ (j + 1) - 1 = j
      OBVIOUS
    <3>2. r2[j] # m /\ r2[j + 1] # m
      BY <1>14, <3>1
    <3>3. j < at => r2[j] = rank[j]
      BY <1>2, <1>10, <3>1
    <3>4. j >= at => r2[j + 1] = rank[j]
      BY <1>2, <1>10, <3>1
    <3> QED BY <3>2, <3>3, <3>4
  <2>4. val <= s[m] /\ \A j \in 1 .. pos - 1 : v[j] <= s[m]
    BY <2>2, <2>3 DEF Timer!Ranks, Above
  <2>5. TAKE k \in 1 .. pos
  <2>6. /\ k < at => k \in 1 .. pos - 1
        /\ k > at => k - 1 \in 1 .. pos - 1
    OBVIOUS
  <2>7. w[k] = IF k < at THEN v[k] ELSE IF k = at THEN val ELSE v[k - 1]
    BY <1>5
  <2> QED BY ONLY <1>2, <2>2, <2>4, <2>6, <2>7, k \in 1 .. pos
<1>15. Timer!Ranks(w, s2, pos, r2)
  BY <1>12, <1>13, <1>14 DEF Timer!Ranks
<1>16. ASSUME Complete(s, pos - 1, rank) PROVE Complete(s2, pos, r2)
  <2> SUFFICES ASSUME NEW m \in DOMAIN s2 PROVE \E k \in 1 .. pos : r2[k] = m
    BY DEF Complete
  <2>1. CASE m = new
    BY ONLY <1>2, <1>10, <2>1
  <2>2. CASE m # new
    <3>1. m \in DOMAIN s
      BY ONLY <1>3, <1>4, <2>2, m \in DOMAIN s2 DEF new
    <3>2. PICK j \in 1 .. pos - 1 : rank[j] = m
      BY <1>16, <3>1 DEF Complete
    <3>3. j \in 1 .. pos /\ j + 1 \in 1 .. pos /\ (j + 1) - 1 = j
      OBVIOUS
    <3>4. CASE j < at
      BY <1>2, <1>10, <3>2, <3>3, <3>4
    <3>5. CASE j >= at
      <4>1. r2[j + 1] = rank[j]
        BY <1>2, <1>10, <3>3, <3>5
      <4> QED BY <3>2, <3>3, <4>1
    <3> QED BY <3>4, <3>5
  <2> QED BY <2>1, <2>2
<1> QED BY <1>6, <1>8, <1>9, <1>15, <1>16 DEF Ranked, AllRanked

\* A new sample leaves the best of all samples in the array.
LEMMA InsertBest ==
  ASSUME NEW v \in [1 .. kbest -> Int], NEW s \in Seq(Int), Best(v, s), NEW val \in Int,
         NEW r, r = [values |-> v, samplecount |-> Len(s)],
         NEW w, w = Timer!Insert(r, val), NEW s2, s2 = Append(s, val)
  PROVE  w \in [1 .. kbest -> Int] /\ Best(w, s2)
<1>1. /\ kbest \in Nat \ {0} /\ Len(s) \in Nat /\ DOMAIN s = 1 .. Len(s)
      /\ \A m \in DOMAIN s : s[m] \in Int
  BY TimerAssumption, LenProperties
<1>2. /\ Len(s2) = Len(s) + 1 /\ DOMAIN s2 = 1 .. Len(s) + 1 /\ s2[Len(s) + 1] = val
      /\ \A m \in DOMAIN s : s2[m] = s[m] /\ m \in DOMAIN s2
  BY <1>1, AppendProperties
<1>3. PICK rank \in [1 .. Full(s) -> DOMAIN s] :
        /\ Timer!Ranks(v, s, Full(s), rank)
        /\ Len(s) < kbest => Complete(s, Full(s), rank)
  BY DEF Best, Ranked, AllRanked
<1>4. InOrder(v, Full(s))
  BY DEF Best
<1>5. CASE Len(s) < kbest
  <2> DEFINE pos == Len(s) + 1
  <2>1. pos \in 1 .. kbest /\ pos - 1 = Len(s) /\ Full(s) = pos - 1 /\ Full(s2) = pos
    BY <1>1, <1>2, <1>5 DEF Full
  <2>2. w = Timer!Sorted(v, pos, val)
    BY <1>5 DEF Timer!Insert
  <2>3. rank \in [1 .. pos - 1 -> DOMAIN s] /\ InOrder(v, pos - 1) /\ Timer!Ranks(v, s, pos - 1, rank)
    BY <1>3, <1>4, <2>1
  <2>4. Complete(s, pos - 1, rank)
    BY <1>3, <1>5, <2>1
  <2>5. Above(s, pos - 1, rank, val)
    BY <2>4 DEF Complete, Above
  <2> HIDE DEF pos
  <2>6. /\ w \in [1 .. kbest -> Int] /\ InOrder(w, pos)
        /\ Ranked(w, s2, pos) /\ (Complete(s, pos - 1, rank) => AllRanked(w, s2, pos))
    BY <2>1, <2>2, <2>3, <2>5, SortedRanks
  <2> QED BY <2>1, <2>4, <2>6 DEF Best
<1>6. CASE Len(s) >= kbest /\ val < v[kbest]
  <2> DEFINE r1 == [k \in 1 .. kbest - 1 |-> rank[k]]
  <2>1. /\ Full(s) = kbest /\ Full(s2) = kbest /\ ~ (Len(s2) < kbest) /\ kbest \in 1 .. kbest
        /\ 1 .. kbest - 1 \subseteq 1 .. kbest /\ v[kbest] \in Int
        /\ \A k \in 1 .. kbest : k = kbest \/ k \in 1 .. kbest - 1
    BY <1>1, <1>2, <1>6 DEF Full
  <2>2. w = Timer!Sorted(v, kbest, val)
    BY <1>1, <1>6 DEF Timer!Insert
  <2>3. r1 \in [1 .. kbest - 1 -> DOMAIN s] /\ \A k \in 1 .. kbest - 1 : r1[k] = rank[k]
    BY <2>1
  <2>4. InOrder(v, kbest - 1) /\ \A k \in 1 .. kbest - 1 : v[k] <= v[kbest] /\ v[k] \in Int
    BY <1>1, <1>4, <2>1 DEF InOrder
  <2> HIDE DEF r1
  <2>5. ASSUME NEW m \in DOMAIN s, \A k \in 1 .. kbest - 1 : r1[k] # m
        PROVE  v[kbest] <= s[m]
    <3>1. CASE rank[kbest] = m
      BY <1>3, <2>1, <3>1 DEF Timer!Ranks
    <3>2. CASE rank[kbest] # m
      <4>1. \A k \in 1 .. kbest : rank[k] # m
        BY <2>1, <2>3, <2>5, <3>2
      <4> QED BY <1>3, <2>1, <4>1 DEF Timer!Ranks
    <3> QED BY <3>1, <3>2
  <2>6. Timer!Ranks(v, s, kbest - 1, r1)
    <3>1. \A j, k \in 1 .. kbest - 1 : r1[j] = r1[k] => j = k
      BY <1>3, <2>1, <2>3 DEF Timer!Ranks
    <3>2. \A k \in 1 .. kbest - 1 : v[k] = s[r1[k]]
      BY <1>3, <2>1, <2>3 DEF Timer!Ranks
    <3>3. ASSUME NEW m \in DOMAIN s, \A k \in 1 .. kbest - 1 : r1[k] # m, NEW k \in 1 .. kbest - 1
          PROVE  v[k] <= s[m]
      <4>1. s[m] \in Int /\ v[kbest] <= s[m] /\ v[k] <= v[kbest] /\ v[k] \in Int
        BY <1>1, <2>4, <2>5, <3>3
      <4> QED BY ONLY <2>1, <4>1
    <3> QED BY <3>1, <3>2, <3>3 DEF Timer!Ranks
  <2>7. Above(s, kbest - 1, r1, val)
    <3>1. ASSUME NEW m \in DOMAIN s, \A k \in 1 .. kbest - 1 : r1[k] # m PROVE val <= s[m]
      <4>1. s[m] \in Int /\ v[kbest] <= s[m] /\ val \in Int
        BY <1>1, <2>5, <3>1
      <4> QED BY ONLY <1>6, <2>1, <4>1
    <3> QED BY <3>1 DEF Above
  <2>8. /\ w \in [1 .. kbest -> Int] /\ InOrder(w, kbest)
        /\ Ranked(w, s2, kbest)
    BY <2>1, <2>2, <2>3, <2>4, <2>6, <2>7, SortedRanks
  <2> QED BY <2>1, <2>8 DEF Best
<1>7. CASE Len(s) >= kbest /\ ~ (val < v[kbest])
  <2>1. /\ Full(s) = kbest /\ Full(s2) = kbest /\ ~ (Len(s2) < kbest) /\ kbest \in 1 .. kbest
        /\ v[kbest] \in Int
    BY <1>1, <1>2, <1>7 DEF Full
  <2>2. w = v
    BY <1>1, <1>7 DEF Timer!Insert
  <2>3. rank \in [1 .. kbest -> DOMAIN s2]
    BY <1>2, <1>3, <2>1
  <2>4. /\ \A j, k \in 1 .. kbest : rank[j] = rank[k] => j = k
        /\ \A k \in 1 .. kbest : v[k] = s2[rank[k]]
    BY <1>2, <1>3, <2>1 DEF Timer!Ranks
  <2>5. ASSUME NEW m \in DOMAIN s2, \A k \in 1 .. kbest : rank[k] # m, NEW k \in 1 .. kbest
        PROVE  v[k] <= s2[m]
    <3>1. CASE m \in DOMAIN s
      BY <1>2, <1>3, <2>1, <2>5, <3>1 DEF Timer!Ranks
    <3>2. CASE m \notin DOMAIN s
      <4>1. s2[m] = val
        BY <1>1, <1>2, <3>2
      <4>2. v[k] <= v[kbest] /\ v[k] \in Int
        BY <1>1, <1>4, <2>1 DEF InOrder
      <4> QED BY <1>7, <2>1, <4>1, <4>2
    <3> QED BY <3>1, <3>2
  <2>6. Timer!Ranks(v, s2, kbest, rank)
    BY <2>4, <2>5 DEF Timer!Ranks
  <2> QED BY <1>4, <2>1, <2>2, <2>3, <2>6 DEF Best, Ranked
<1> QED BY <1>1, <1>5, <1>6, <1>7

\* The first value is the fastest sample.
LEMMA BestFirst ==
  ASSUME NEW v \in [1 .. kbest -> Int], NEW s \in Seq(Int), Best(v, s), s # <<>>
  PROVE  (\E k \in DOMAIN s : s[k] = v[1]) /\ \A k \in DOMAIN s : s[k] >= v[1]
<1>1. /\ kbest \in Nat \ {0} /\ Len(s) \in Nat \ {0} /\ DOMAIN s = 1 .. Len(s)
      /\ \A m \in DOMAIN s : s[m] \in Int
  BY TimerAssumption, LenProperties, EmptySeq
<1>2. PICK rank \in [1 .. Full(s) -> DOMAIN s] : Timer!Ranks(v, s, Full(s), rank)
  BY DEF Best, Ranked
<1>3. /\ Full(s) \in Nat \ {0} /\ 1 \in 1 .. Full(s)
      /\ \A k \in 1 .. Full(s) : v[k] \in Int
  <2>1. Full(s) \in Nat \ {0} /\ Full(s) <= kbest
    BY ONLY <1>1 DEF Full
  <2>2. \A k \in 1 .. Full(s) : k \in 1 .. kbest
    BY ONLY <1>1, <2>1
  <2> QED BY <2>1, <2>2
<1>4. ASSUME NEW k \in 1 .. Full(s) PROVE v[1] <= v[k]
  <2>1. k = 1 \/ 1 < k
    BY <1>3
  <2>2. v[1] \in Int
    BY <1>3
  <2> QED BY <1>3, <2>1, <2>2 DEF Best, InOrder
<1>5. \E k \in DOMAIN s : s[k] = v[1]
  BY <1>2, <1>3 DEF Timer!Ranks
<1>6. ASSUME NEW m \in DOMAIN s PROVE s[m] >= v[1]
  <2>1. CASE \E k \in 1 .. Full(s) : rank[k] = m
    BY <1>1, <1>2, <1>3, <1>4, <2>1 DEF Timer!Ranks
  <2>2. CASE \A k \in 1 .. Full(s) : rank[k] # m
    <3>1. v[1] <= s[m] /\ v[1] \in Int
      BY <1>2, <1>3, <2>2 DEF Timer!Ranks
    <3> QED BY <1>1, <3>1
  <2> QED BY <2>1, <2>2
<1> QED BY <1>5, <1>6

\* The module Fcyc counts as this one does.
LEMMA SameCardinality == \A S : Timer!Cardinality(S) = Cardinality(S)
BY DEF Timer!Cardinality, Cardinality

\* When the last of the kbest values is within epsilon of the first, so are kbest of
\* the samples.
LEMMA ConvergedAgree ==
  ASSUME NEW v \in [1 .. kbest -> Int], NEW s \in Seq(Int), Best(v, s), Len(s) >= kbest,
         (100 + percent) * v[1] >= 100 * v[kbest]
  PROVE  Cardinality(Timer!Agreeing(s, v[1])) >= kbest
<1> DEFINE A == Timer!Agreeing(s, v[1])
<1>1. /\ kbest \in Nat \ {0} /\ percent \in Nat /\ Len(s) \in Nat /\ DOMAIN s = 1 .. Len(s)
      /\ \A m \in DOMAIN s : s[m] \in Int
  BY TimerAssumption, LenProperties
<1>2. Full(s) = kbest
  <2>1. ~ (Len(s) < kbest)
    BY <1>1
  <2> QED BY ONLY <2>1 DEF Full
<1>3. PICK rank \in [1 .. kbest -> DOMAIN s] : Timer!Ranks(v, s, kbest, rank)
  BY <1>2 DEF Best, Ranked
<1>4. ASSUME NEW k \in 1 .. kbest PROVE rank[k] \in A
  <2>1. v[k] <= v[kbest] /\ v[k] \in Int /\ v[kbest] \in Int /\ v[1] \in Int
    <3>1. k \in 1 .. kbest /\ kbest \in 1 .. kbest /\ 1 \in 1 .. kbest /\ (k = kbest \/ k < kbest)
      BY ONLY <1>1, k \in 1 .. kbest
    <3>2. v[k] \in Int /\ v[kbest] \in Int /\ v[1] \in Int
      BY <3>1
    <3>3. k < kbest => v[k] <= v[kbest]
      BY <1>2, <3>1 DEF Best, InOrder
    <3> QED BY ONLY <3>1, <3>2, <3>3
  <2>2. s[rank[k]] = v[k]
    BY <1>3 DEF Timer!Ranks
  <2> DEFINE bound == (100 + percent) * v[1]
  <2>3. bound \in Int /\ bound >= 100 * v[kbest]
    <3>1. \A a, b \in Int : (100 + a) * b \in Int
      OBVIOUS
    <3>2. percent \in Int /\ v[1] \in Int
      BY <1>1, <2>1
    <3> QED BY ONLY <3>1, <3>2, (100 + percent) * v[1] >= 100 * v[kbest]
  <2> HIDE DEF bound
  <2>4. 100 * v[k] <= bound
    BY <2>1, <2>3
  <2> QED BY <2>2, <2>4 DEF bound, Timer!Agreeing
<1>5. IsFiniteSet(A)
  <2>1. IsFiniteSet(1 .. Len(s))
    BY <1>1, FS_Interval
  <2> QED BY <1>1, <2>1, FS_Subset DEF Timer!Agreeing
<1> HIDE DEF A
<1>6. rank \in [1 .. kbest -> A]
  BY <1>3, <1>4
<1>7. Cardinality(1 .. kbest) = kbest /\ IsFiniteSet(1 .. kbest)
  BY <1>1, FS_Interval
<1>8. Cardinality(A) \in Nat
  BY <1>5, FS_CardinalityType
<1>9. ~ (Cardinality(A) < kbest)
  <2> SUFFICES ASSUME Cardinality(A) < kbest PROVE FALSE
    OBVIOUS
  <2>1. \E x, y \in 1 .. kbest : x # y /\ rank[x] = rank[y]
    <3>1. Cardinality(A) < Cardinality(1 .. kbest)
      BY <1>7
    <3> QED BY <1>5, <1>6, <1>7, <3>1, FS_PigeonHole
  <2> QED BY <1>3, <2>1 DEF Timer!Ranks
<1> QED BY <1>1, <1>8, <1>9 DEF A

(***************************************************************************)
(* The timer.                                                              *)
(***************************************************************************)
Arrays == [1 .. kbest -> Int]

\* While it samples, the timer holds the best of this measurement's samples.
Sampling ==
  /\ sampler.values \in Arrays
  /\ sampler.samplecount = Len(samples) /\ sampler.samplecount < maxsamples
  /\ Best(sampler.values, samples)

TimerInv ==
  /\ tpc \in {"idle", "calibrate", "sample"} /\ reps \in Nat /\ result \in Int
  /\ sampler \in [values : Arrays \cup {<<>>}, samplecount : 0 .. maxsamples]
  /\ arrays = IF sampler.values = <<>> THEN 0 ELSE 1
  /\ samples \in Seq(Int) /\ \A k \in DOMAIN samples : samples[k] > 0
  /\ tpc = "sample" => Sampling

\* The array of a timer in use is not the null pointer.
LEMMA ArrayNotNull == \A v \in Arrays : v # <<>>
<1> SUFFICES ASSUME NEW v \in Arrays, v = <<>> PROVE FALSE
  OBVIOUS
<1>1. 1 \in DOMAIN v
  BY TimerAssumption DEF Arrays
<1> QED BY <1>1

\* What a reading makes of the sampler: the best of all samples, this one among them.
LEMMA ReadingBest ==
  ASSUME TimerInv, tpc = "sample", NEW sec \in Int, NEW s,
         s = (IF sec > 0 THEN Timer!add_sample(sampler, sec) ELSE sampler),
         NEW taken, taken = (IF sec > 0 THEN Append(samples, sec) ELSE samples)
  PROVE  /\ s \in [values : Arrays, samplecount : 0 .. maxsamples]
         /\ s.samplecount = Len(taken) /\ Best(s.values, taken)
         /\ taken \in Seq(Int) /\ \A k \in DOMAIN taken : taken[k] > 0
<1>1. /\ Sampling /\ samples \in Seq(Int) /\ \A k \in DOMAIN samples : samples[k] > 0
      /\ Len(samples) \in Nat /\ DOMAIN samples = 1 .. Len(samples) /\ maxsamples \in Nat \ {0}
      /\ sampler \in [values : Arrays \cup {<<>>}, samplecount : 0 .. maxsamples]
  BY TimerAssumption, LenProperties DEF TimerInv
<1>2. CASE ~ (sec > 0)
  BY <1>1, <1>2 DEF Sampling
<1>3. CASE sec > 0
  <2> DEFINE v == sampler.values
             w == Timer!Insert(sampler, sec)
  <2>1. v \in Arrays /\ Best(v, samples) /\ sampler = [values |-> v, samplecount |-> Len(samples)]
    BY <1>1 DEF Sampling
  <2>2. taken = Append(samples, sec) /\ s = [values |-> w, samplecount |-> Len(samples) + 1]
    BY <1>1, <1>3 DEF Timer!add_sample, Sampling
  <2> HIDE DEF v
  <2>3. w \in Arrays /\ Best(w, taken)
    <3> HIDE DEF w
    <3>1. w = Timer!Insert(sampler, sec)
      BY DEF w
    <3> QED BY <1>1, <2>1, <2>2, <3>1, InsertBest DEF Arrays
  <2>4. /\ taken \in Seq(Int) /\ Len(taken) = Len(samples) + 1
        /\ taken[Len(samples) + 1] = sec /\ \A k \in DOMAIN samples : taken[k] = samples[k]
        /\ DOMAIN taken = 1 .. Len(samples) + 1
    BY <1>1, <2>2, AppendProperties, LenProperties
  <2>5. \A k \in DOMAIN taken : taken[k] > 0
    BY <1>1, <1>3, <2>4
  <2>6. Len(samples) + 1 \in 0 .. maxsamples
    BY <1>1 DEF Sampling
  <2> HIDE DEF w
  <2> QED BY <2>2, <2>3, <2>4, <2>5, <2>6
<1> QED BY <1>2, <1>3

\* A reading keeps the timer's invariant, and what it ends is a measurement.
LEMMA SampleStep ==
  ASSUME TimerInv, NEW sec \in Int, Timer!Sample(sec)
  PROVE  /\ TimerInv' /\ Timer!Justified
         /\ tpc' = "idle" => result' \in Nat \ {0}
<1> DEFINE s == IF sec > 0 THEN Timer!add_sample(sampler, sec) ELSE sampler
           taken == IF sec > 0 THEN Append(samples, sec) ELSE samples
           v == s.values
<1> DEFINE stops == Timer!has_converged(s) \/ s.samplecount >= maxsamples
<1>1. tpc = "sample" /\ samples' = taken
  BY DEF Timer!Sample
<1>2. stops => /\ tpc' = "idle" /\ reps' = 0 /\ result' = s.values[1]
               /\ sampler' = [s EXCEPT !.values = <<>>] /\ arrays' = arrays - 1
  BY DEF Timer!Sample, Timer!NULL
<1>3. ~ stops => sampler' = s /\ UNCHANGED <<tpc, reps, result, arrays>>
  BY DEF Timer!Sample
<1>4. /\ s \in [values : Arrays, samplecount : 0 .. maxsamples]
      /\ s.samplecount = Len(taken) /\ Best(s.values, taken)
      /\ taken \in Seq(Int) /\ \A k \in DOMAIN taken : taken[k] > 0
  <2> HIDE DEF s, taken
  <2>1. /\ s = (IF sec > 0 THEN Timer!add_sample(sampler, sec) ELSE sampler)
        /\ taken = (IF sec > 0 THEN Append(samples, sec) ELSE samples)
    BY DEF s, taken
  <2> QED BY <1>1, <2>1, ReadingBest
<1>5. /\ stops <=> (/\ s.samplecount >= kbest
                    /\ (100 + percent) * s.values[1] >= 100 * s.values[kbest])
                   \/ s.samplecount >= maxsamples
  BY DEF Timer!has_converged
<1>6. Sampling /\ arrays = 1 /\ reps \in Nat /\ result \in Int
  BY <1>1, ArrayNotNull DEF TimerInv, Sampling
<1>7. kbest \in Nat \ {0} /\ maxsamples \in Nat \ {0} /\ Len(taken) \in Nat
  BY <1>4, TimerAssumption, LenProperties
<1> HIDE DEF s, taken, stops
<1>8. CASE stops
  <2>1. /\ tpc' = "idle" /\ reps' = 0 /\ result' = v[1] /\ samples' = taken /\ arrays' = 0
        /\ sampler' \in [values : {<<>>}, samplecount : 0 .. maxsamples]
    BY <1>1, <1>2, <1>4, <1>6, <1>8
  <2>2. Len(taken) >= 1
    BY <1>4, <1>5, <1>7, <1>8
  <2>3. v \in Arrays /\ Best(v, taken) /\ taken # <<>>
    BY <1>4, <2>2, EmptySeq
  <2> HIDE DEF v
  <2>4. (\E k \in DOMAIN taken : taken[k] = v[1]) /\ \A k \in DOMAIN taken : taken[k] >= v[1]
    BY <1>4, <2>3, BestFirst DEF Arrays
  <2>5. v[1] \in Int /\ v[1] > 0
    <3>1. 1 \in 1 .. kbest
      BY <1>7
    <3> QED BY <1>4, <2>3, <2>4, <3>1 DEF Arrays
  <2>6. Cardinality(Timer!Agreeing(taken, v[1])) >= kbest \/ Len(taken) = maxsamples
    <3>1. CASE Len(taken) >= kbest /\ (100 + percent) * v[1] >= 100 * v[kbest]
      BY <1>4, <2>3, <3>1, ConvergedAgree DEF Arrays
    <3>2. CASE Len(taken) >= maxsamples
      BY <1>4, <1>7, <3>2
    <3> QED BY <1>4, <1>5, <1>8, <3>1, <3>2 DEF v
  <2>7. Timer!Justified
    <3>1. /\ \E k \in DOMAIN samples' : samples'[k] = result'
          /\ \A k \in DOMAIN samples' : samples'[k] >= result'
      BY <2>1, <2>4
    <3>2. Cardinality(Timer!Agreeing(samples', result')) >= kbest \/ Len(samples') = maxsamples
      BY <2>1, <2>6
    <3> QED BY <3>1, <3>2, SameCardinality DEF Timer!Justified
  <2>8. TimerInv'
    BY <1>4, <2>1, <2>5 DEF TimerInv
  <2> QED BY <2>1, <2>5, <2>7, <2>8
<1>9. CASE ~ stops
  <2>1. /\ sampler' = s /\ samples' = taken /\ UNCHANGED <<tpc, reps, result, arrays>>
        /\ tpc = "sample"
    BY <1>1, <1>3, <1>9
  <2>2. s.samplecount < maxsamples
    BY <1>4, <1>5, <1>7, <1>9
  <2>3. Sampling'
    BY <1>4, <2>1, <2>2 DEF Sampling
  <2>4. TimerInv'
    BY <1>4, <1>6, <2>1, <2>3, ArrayNotNull DEF TimerInv
  <2> QED BY <2>1, <2>4 DEF Timer!Justified
<1> QED BY <1>8, <1>9

\* A step of the timer within the driver, or the alarm, keeps the timer's invariant.
LEMMA TimerStep == TimerInv /\ [TimelyNext]_vars => TimerInv' /\ [Timer!Justified]_(Timer!vars)
<1> SUFFICES ASSUME TimerInv, [TimelyNext]_vars
             PROVE  TimerInv' /\ [Timer!Justified]_(Timer!vars)
  OBVIOUS
<1> USE DEF timer
<1>1. ASSUME UNCHANGED timer, UNCHANGED alarm \/ tpc = "idle" PROVE TimerInv' /\ Timer!Justified
  <2>1. UNCHANGED <<tpc, reps, sampler, arrays, samples, result>>
    BY <1>1
  <2>2. TimerInv'
    BY <2>1 DEF TimerInv, Sampling
  <2> QED BY <1>1, <2>1, <2>2 DEF Timer!Justified
<1>2. ASSUME NEW values, values \subseteq Readings, SpeedSample(values)
      PROVE  TimerInv' /\ Timer!Justified
  <2>1. PICK sec \in values : Timer!Sample(sec)
    BY <1>2 DEF SpeedSample, Speed
  <2> QED BY <1>2, <2>1, SampleStep, TimerAssumption
<1>3. CASE SpeedCall
  <2>1. Timer!Call
    BY <1>3 DEF SpeedCall, Speed
  <2>2. /\ tpc = "idle" /\ tpc' = "calibrate" /\ reps' = min_reps
        /\ UNCHANGED <<sampler, arrays, samples, result>>
    BY <2>1 DEF Timer!Call
  <2> QED BY <2>2, TimerAssumption DEF TimerInv, Timer!Justified
<1>4. CASE SpeedCalibrate
  <2>1. PICK cost \in Costs : Timer!Calibrate(cost)
    BY <1>4 DEF SpeedCalibrate, Speed
  <2>2. tpc = "calibrate" /\ UNCHANGED result
    BY <2>1 DEF Timer!Calibrate
  <2>3. CASE reps * cost < min_time
    <3>1. reps' = reps + reps /\ UNCHANGED <<tpc, sampler, arrays, samples>>
      BY <2>1, <2>3 DEF Timer!Calibrate
    <3> QED BY <2>2, <3>1 DEF TimerInv, Timer!Justified
  <2>4. CASE ~ (reps * cost < min_time)
    <3>1. /\ tpc' = "sample" /\ samples' = <<>> /\ UNCHANGED reps
          /\ sampler' = [values |-> [k \in 1 .. kbest |-> 0], samplecount |-> 0]
          /\ arrays' = (IF sampler.values = <<>> THEN arrays ELSE arrays - 1) + 1
      BY <2>1, <2>4 DEF Timer!Calibrate, Timer!init_sampler, Timer!Empty, Timer!NULL
    <3> DEFINE v == [k \in 1 .. kbest |-> 0]
    <3>2. v \in Arrays /\ Len(<<>>) = 0 /\ <<>> \in Seq(Int) /\ maxsamples \in Nat \ {0}
      BY TimerAssumption DEF Arrays
    <3>3. Best(v, <<>>)
      <4>1. Full(<<>>) = 0 /\ kbest > 0
        BY TimerAssumption, <3>2 DEF Full
      <4> DEFINE none == [k \in 1 .. 0 |-> 0]
      <4>2. none \in [1 .. 0 -> DOMAIN <<>>] /\ DOMAIN <<>> = {} /\ 1 .. 0 = {}
        OBVIOUS
      <4> HIDE DEF v, none
      <4>3. Timer!Ranks(v, <<>>, 0, none) /\ Complete(<<>>, 0, none)
        BY <4>2 DEF Timer!Ranks, Complete
      <4>4. InOrder(v, 0)
        BY <4>2 DEF InOrder
      <4> QED BY <4>1, <4>2, <4>3, <4>4 DEF Best, Ranked, AllRanked
    <3> HIDE DEF v
    <3>4. sampler' = [values |-> v, samplecount |-> 0] /\ arrays' = 1
      BY <3>1 DEF TimerInv, v
    <3>5. Sampling'
      <4>1. /\ sampler'.values = v /\ sampler'.samplecount = 0 /\ samples' = <<>>
            /\ Len(samples') = 0
        BY <3>1, <3>2, <3>4
      <4>2. Best(sampler'.values, samples')
        BY ONLY <3>3, <4>1
      <4>3. sampler'.values \in Arrays /\ 0 < maxsamples
        BY <3>2, <4>1
      <4> QED BY ONLY <4>1, <4>2, <4>3 DEF Sampling
    <3>6. TimerInv'
      <4>1. sampler' \in [values : Arrays \cup {<<>>}, samplecount : 0 .. maxsamples]
        BY <3>2, <3>4
      <4>2. sampler'.values # <<>>
        BY <3>2, <3>4, ArrayNotNull
      <4>3. samples' \in Seq(Int) /\ \A k \in DOMAIN samples' : samples'[k] > 0
        BY <3>1
      <4> QED BY <2>2, <3>1, <3>4, <3>5, <4>1, <4>2, <4>3 DEF TimerInv
    <3> QED BY <2>2, <3>6 DEF Timer!Justified
  <2> QED BY <2>3, <2>4
<1>5. CASE Evaluating /\ TimedOut
  <2>1. CASE tpc = "idle"
    BY <1>1, <1>5, <2>1 DEF TimedOut, Arrives
  <2>2. CASE tpc # "idle"
    <3>1. /\ tpc' = "idle" /\ reps' = 0 /\ UNCHANGED <<sampler, arrays, samples, result>>
          /\ (alarm = "armed") /\ (alarm' = "fired")
      BY <1>5, <2>2 DEF TimedOut, Arrives, Timer!Timeout
    <3> QED BY <3>1 DEF TimerInv, Timer!Justified
  <2> QED BY <2>1, <2>2
<1>6. CASE \/ Reference \/ MemInit \/ NewRangeSet \/ ReadTrace \/ SetJmp \/ Valid1 \/ Valid2 \/ Util
           \/ FreeTrace("free_trace", "free_range_set") \/ FreeTrace("onetime", "report")
           \/ FreeRangeSet \/ MemDeinit \/ Report \/ (\E at : AppError(at))
  <2>1. UNCHANGED timer /\ UNCHANGED alarm
    BY <1>6 DEF Reference, MemInit, NewRangeSet, ReadTrace, SetJmp, Valid1, Valid2, Util, FreeTrace,
                FreeRangeSet, MemDeinit, Report, AppError, Goto, signal
  <2> QED BY <1>1, <2>1
<1>7. CASE UNCHANGED vars
  <2>1. UNCHANGED timer /\ UNCHANGED alarm
    BY <1>7 DEF vars, signal
  <2> QED BY <1>1, <2>1
<1>8. CASE TimelyNext
  <2>1. /\ {sec \in Readings : sec > 0} \subseteq Readings
        /\ {sec \in Readings : sec <= 0} \subseteq Readings
    OBVIOUS
  <2> QED BY <1>2, <1>3, <1>4, <1>5, <1>6, <1>8, <2>1 DEF TimelyNext, Step, Proceed
<1> QED BY <1>7, <1>8

\* The timer begins idle.
LEMMA TimerBegins == Init => TimerInv
BY TimerAssumption DEF Init, Timer!Init, Timer!NULL, TimerInv

(***************************************************************************)
(* The score.                                                              *)
(***************************************************************************)
Weights == {WNONE, WALL, WUTIL, WPERF}

Stats == [Traces -> [weight : Weights, valid : BOOLEAN, util : Nat, secs : Nat]]

\* The traces are as many as there are.
LEMMA TraceCount == Cardinality(Traces) = NumTraces /\ IsFiniteSet(Traces) /\ NumTraces \in Nat \ {0}
BY TracesAssumption, FS_Interval DEF Traces

\* The averages are numbers, and zeros of zeros.
LEMMA AverageFacts ==
  ASSUME NEW mm \in Stats, NEW errs \in Nat, NEW avg, avg = averages(mm, errs)
  PROVE  /\ avg.util \in Int /\ avg.tput \in Int
         /\ (\A t \in Traces : mm[t].util = 0 /\ mm[t].secs = 0) => avg.util = 0 /\ avg.tput = 0
<1> DEFINE D == DOMAIN mm
           U == ForUtil(mm, D)
           P == ForPerf(mm, D)
           util == [t \in D |-> IF t \in U THEN mm[t].util ELSE 0]
           secs == [t \in D |-> IF t \in P THEN mm[t].secs ELSE 0]
           Zero == \A t \in Traces : mm[t].util = 0 /\ mm[t].secs = 0
<1>1. D = 1 .. NumTraces /\ NumTraces \in Nat \ {0} /\ Cardinality(D) = NumTraces /\ IsFiniteSet(D)
  BY TraceCount DEF Stats, Traces
<1>2. U \subseteq D /\ P \subseteq D
  BY DEF ForUtil, ForPerf
<1>3. Cardinality(U) \in Nat /\ Cardinality(P) \in Nat /\ (U # {} => Cardinality(U) # 0)
  <2> HIDE DEF D, U, P
  <2>1. IsFiniteSet(U) /\ IsFiniteSet(P)
    BY <1>1, <1>2, FS_Subset
  <2> QED BY <2>1, FS_CardinalityType, FS_EmptySet
<1>4. \A t \in 1 .. NumTraces : util[t] \in Nat /\ secs[t] \in Nat
  BY <1>1 DEF Stats, Traces
<1>5. Zero => \A t \in 1 .. NumTraces : util[t] = 0 /\ secs[t] = 0
  BY <1>1 DEF Traces
<1> HIDE DEF util, secs
<1>6. Total(util, NumTraces) \in Nat /\ Total(secs, NumTraces) \in Nat
  <2>1. NumTraces \in Nat /\ NumTraces \in 0 .. NumTraces
    BY <1>1
  <2>2. \A m \in 0 .. NumTraces : Total(util, m) \in Nat
    BY <1>4, <2>1, TotalSteps
  <2>3. \A m \in 0 .. NumTraces : Total(secs, m) \in Nat
    BY <1>4, <2>1, TotalSteps
  <2> QED BY <2>1, <2>2, <2>3
<1>7. Zero => Total(util, NumTraces) = 0 /\ Total(secs, NumTraces) = 0
  <2> HIDE DEF Zero
  <2> SUFFICES ASSUME Zero PROVE Total(util, NumTraces) = 0 /\ Total(secs, NumTraces) = 0
    OBVIOUS
  <2> QED BY <1>1, <1>5, TotalZero
<1>8. /\ AvgUtil(mm, D) = IF U = {} THEN 0 ELSE Total(util, NumTraces) \div Cardinality(U)
      /\ AvgThroughput(mm, D) = IF Total(secs, NumTraces) = 0 THEN 0
                                ELSE (ops * Cardinality(P)) \div Total(secs, NumTraces)
  BY <1>1 DEF AvgUtil, AvgThroughput, Sum, util, secs
<1> HIDE DEF D, U, P, Zero
<1>9. AvgUtil(mm, D) \in Int /\ (Zero => AvgUtil(mm, D) = 0)
  <2>1. CASE U = {}
    BY <1>8, <2>1
  <2>2. CASE U # {}
    <3> DEFINE n == Total(util, NumTraces)
               d == Cardinality(U)
    <3>1. n \in Nat /\ d \in Nat \ {0} /\ AvgUtil(mm, D) = n \div d /\ (Zero => n = 0)
      BY <1>3, <1>6, <1>7, <1>8, <2>2
    <3> HIDE DEF n, d
    <3>2. n \div d \in Int /\ 0 \div d = 0
      BY <3>1
    <3> QED BY <3>1, <3>2
  <2> QED BY <2>1, <2>2
<1>10. AvgThroughput(mm, D) \in Int /\ (Zero => AvgThroughput(mm, D) = 0)
  <2>1. CASE Total(secs, NumTraces) = 0
    BY <1>8, <2>1
  <2>2. CASE Total(secs, NumTraces) # 0
    <3> DEFINE n == ops * Cardinality(P)
               d == Total(secs, NumTraces)
    <3>1. d \in Nat \ {0} /\ AvgThroughput(mm, D) = n \div d /\ ~ Zero
      BY <1>6, <1>7, <1>8, <2>2
    <3>2. n \in Int
      BY <1>3, OpsAssumption
    <3> HIDE DEF n, d
    <3>3. n \div d \in Int
      BY <3>1, <3>2
    <3> QED BY <3>1, <3>3
  <2> QED BY <2>1, <2>2
<1>11. avg = IF errs # 0 THEN NoAverages ELSE [util |-> AvgUtil(mm, D), tput |-> AvgThroughput(mm, D)]
  BY DEF averages, D
<1> QED BY <1>9, <1>10, <1>11 DEF NoAverages, Zero

\* A component of the score is a number unless its two bounds are the same.
LEMMA ComponentFacts ==
  ASSUME NEW x \in Int, NEW lo \in Nat, NEW hi \in Nat, lo <= hi
  PROVE  /\ score_component(x, lo, hi) \in Nat \/ (score_component(x, lo, hi) = NaN /\ lo = hi)
         /\ x < lo => score_component(x, lo, hi) = 0
<1> DEFINE c == score_component(x, lo, hi)
<1>1. CASE x < lo
  BY <1>1 DEF score_component
<1>2. CASE x > hi
  BY <1>2 DEF score_component
<1>3. CASE x = lo /\ x = hi
  BY <1>3 DEF score_component
<1>4. CASE ~ (x < lo) /\ ~ (x > hi) /\ ~ (x = lo /\ x = hi)
  <2>1. c = (100 * (x - lo)) \div (hi - lo)
    BY <1>4 DEF score_component
  <2>2. 100 * (x - lo) \in Nat /\ hi - lo \in Nat \ {0}
    BY <1>4
  <2> QED BY <1>4, <2>1, <2>2
<1> QED BY <1>1, <1>2, <1>3, <1>4

\* The index is not a number only if the reference ran at no speed, and it is not
\* above zero if nothing was measured.
LEMMA IndexFacts ==
  ASSUME NEW avg, avg.util \in Int, avg.tput \in Int, NEW ref \in Nat
  PROVE  /\ perfindex(avg, ref) = NaN => ref = 0
         /\ avg.util = 0 /\ avg.tput = 0 => ~ (perfindex(avg, ref) > 0)
<1> DEFINE p1 == score_component(avg.util, 40, 63)
           p2 == score_component(100 * avg.tput, 30 * ref, 35 * ref)
<1>1. p1 \in Nat /\ (avg.util = 0 => p1 = 0)
  BY ComponentFacts
<1>2. /\ p2 \in Nat \/ (p2 = NaN /\ 30 * ref = 35 * ref)
      /\ 100 * avg.tput < 30 * ref => p2 = 0
  <2> DEFINE x == 100 * avg.tput
             lo == 30 * ref
             hi == 35 * ref
  <2>1. x \in Int /\ lo \in Nat /\ hi \in Nat /\ lo <= hi
    OBVIOUS
  <2>2. p2 = score_component(x, lo, hi)
    OBVIOUS
  <2> HIDE DEF x, lo, hi, p2
  <2>3. /\ p2 \in Nat \/ (p2 = NaN /\ lo = hi)
        /\ x < lo => p2 = 0
    BY <2>1, <2>2, ComponentFacts
  <2> QED BY <2>3 DEF x, lo, hi
<1>3. perfindex(avg, ref) = IF p2 = NaN THEN NaN ELSE (60 * p1 + 40 * p2) \div 100
  BY DEF perfindex
<1> HIDE DEF p1, p2
<1>4. p2 \in Nat => p2 # NaN
  BY DEF NaN
<1>5. CASE p2 = NaN
  <2>1. ref = 0
    BY <1>2, <1>4, <1>5
  <2> QED BY <1>3, <1>5, <2>1 DEF NaN
<1>6. CASE p2 # NaN
  <2>1. p2 \in Nat /\ 60 * p1 + 40 * p2 \in Nat
    BY <1>1, <1>2, <1>6
  <2>2. perfindex(avg, ref) = (60 * p1 + 40 * p2) \div 100
    BY <1>3, <1>6
  <2>3. (60 * p1 + 40 * p2) \div 100 \in Nat
    BY <2>1
  <2>4. ASSUME avg.util = 0, avg.tput = 0, ref # 0 PROVE perfindex(avg, ref) = 0
    <3>1. p1 = 0 /\ p2 = 0
      BY <1>1, <1>2, <2>4
    <3> QED BY <2>2, <3>1
  <2>5. perfindex(avg, ref) # NaN
    BY <2>2, <2>3 DEF NaN
  <2>6. ASSUME avg.util = 0, avg.tput = 0, ref = 0 PROVE FALSE
    <3>1. p2 = NaN
      BY <2>6 DEF p2, score_component
    <3> QED BY <1>6, <3>1
  <2> QED BY <2>4, <2>5, <2>6
<1> QED BY <1>5, <1>6

\* What is allocated, and which locals point to it, at each statement of an
\* iteration.  From setjmp on the locals are what setjmp saved, so that it does
\* not matter which of the two a jump leaves in them.
Clean == traces = {} /\ sets = {} /\ mapped = {}

Mapped == heap = i /\ mapped = {i}
Ranged == Mapped /\ ranges = i /\ sets = {i}
Traced == Ranged /\ trace = i /\ traces = {i}
Saved  == Traced /\ jmpbuf = [set |-> TRUE, trace |-> i, ranges |-> i]

Owned ==
  /\ pc \in {"reference", "mem_init"} => Clean
  /\ pc = "new_range_set" => Mapped /\ traces = {} /\ sets = {}
  /\ pc = "read_trace" => Ranged /\ traces = {}
  /\ pc \in {"setjmp", "free_trace", "onetime"} => Traced
  /\ Evaluating => Saved
  /\ pc = "free_range_set" => Ranged /\ traces = {}
  /\ pc = "mem_deinit" => Mapped /\ traces = {} /\ sets = {}

IInv == Owned /\ fault = "none"

\* Nothing is allocated before the loop.
LEMMA InitIInv == Init => IInv
BY DEF Init, IInv, Owned, Clean, Evaluating

\* Every step of the driver and every alarm in an evaluation keeps it.
LEMMA NextIInv == IInv /\ [TimelyNext]_vars => IInv'
<1> SUFFICES ASSUME IInv, [TimelyNext]_vars PROVE IInv'
  OBVIOUS
<1> USE DEF IInv, Owned, Clean, Mapped, Ranged, Traced, Saved, Evaluating,
            locals, owned, stats, signal
<1>1. CASE Reference
  BY <1>1 DEF Reference, At
<1>2. CASE MemInit
  BY <1>2 DEF MemInit, Goto, At
<1>3. CASE NewRangeSet
  BY <1>3 DEF NewRangeSet, Goto, At
<1>4. CASE ReadTrace
  BY <1>4 DEF ReadTrace, Goto, At
<1>5. CASE SetJmp
  BY <1>5 DEF SetJmp, Goto, At
<1>6. CASE Valid1 \/ Valid2
  BY <1>6 DEF Valid1, Valid2, Goto, At
<1>7. CASE Util
  BY <1>7 DEF Util, Goto, At
<1>8. ASSUME NEW at, AppError(at) PROVE IInv'
  BY <1>8 DEF AppError, Goto, At
<1>9. CASE SpeedCall \/ SpeedCalibrate \/ \E values : SpeedSample(values)
  <2>1. /\ pc = "speed" /\ pc' \in {"speed", "free_trace"}
        /\ UNCHANGED <<locals, owned, signal, fault>>
    BY <1>9 DEF SpeedCall, SpeedCalibrate, SpeedSample, Speed, At
  <2> QED BY <2>1
<1>10. CASE FreeTrace("free_trace", "free_range_set")
  BY <1>10 DEF FreeTrace, Goto, At
<1>11. CASE FreeTrace("onetime", "report")
  BY <1>11 DEF FreeTrace, Goto, At
<1>12. CASE FreeRangeSet
  BY <1>12 DEF FreeRangeSet, Goto, At
<1>13. CASE MemDeinit
  BY <1>13 DEF MemDeinit, Goto, At
<1>14. CASE Report
  BY <1>14 DEF Report, At
<1>15. CASE Evaluating /\ TimedOut
  BY <1>15 DEF TimedOut, Arrives
<1>16. CASE UNCHANGED vars
  BY <1>16 DEF vars
<1>17. TimelyNext =>
         \/ Reference \/ MemInit \/ NewRangeSet \/ ReadTrace \/ SetJmp \/ Valid1 \/ Valid2 \/ Util
         \/ SpeedCall \/ SpeedCalibrate \/ (\E values : SpeedSample(values))
         \/ FreeTrace("free_trace", "free_range_set") \/ FreeTrace("onetime", "report")
         \/ FreeRangeSet \/ MemDeinit \/ Report
         \/ (\E at : AppError(at)) \/ (Evaluating /\ TimedOut)
  BY DEF TimelyNext, Step, Proceed
<1> QED
  BY <1>1, <1>2, <1>3, <1>4, <1>5, <1>6, <1>7, <1>8, <1>9, <1>10, <1>11, <1>12, <1>13,
     <1>14, <1>15, <1>16, <1>17

(***************************************************************************)
(* Types.  An iteration counts at most one error, and only before its      *)
(* verdict, so that errors does not run ahead of i.                        *)
(***************************************************************************)
Undecided == {"reference", "mem_init", "new_range_set", "read_trace", "setjmp", "valid1", "valid2"}

Typed ==
  /\ pc \in Undecided \cup {"util", "speed", "free_trace", "onetime", "free_range_set",
                            "mem_deinit", "report"} \cup Ended
  /\ i \in Traces /\ {trace, ranges, heap} \subseteq Traces \cup {0}
  /\ traces \subseteq Traces /\ sets \subseteq Traces /\ mapped \subseteq Traces
  /\ jmpbuf \in [set : BOOLEAN, trace : Traces \cup {0}, ranges : Traces \cup {0}]
  /\ alarm \in {"off", "armed", "fired"}
  /\ mm_stats \in Stats
  /\ errors \in Nat /\ errors <= i /\ (pc \in Undecided => errors < i)
  /\ fault \in {"none", "double free", "bad jump"}
  /\ hanging \subseteq Traces /\ onetime \in BOOLEAN

\* What a step of the measurement does to the driver.
LEMMA SpeedSteps ==
  ASSUME TimerInv, NEW values, values \subseteq Readings,
         SpeedCall \/ SpeedCalibrate \/ SpeedSample(values)
  PROVE  /\ pc = "speed" /\ UNCHANGED <<locals, owned, errors, signal, fault, score, hanging, onetime>>
         /\ \/ pc' = "speed" /\ UNCHANGED mm_stats
            \/ /\ pc' = "free_trace" /\ result' \in Nat \ {0}
               /\ mm_stats' = [mm_stats EXCEPT ![i].secs = result']
<1>1. CASE SpeedCall
  BY <1>1 DEF SpeedCall, Speed, At, Timer!Call
<1>2. CASE SpeedCalibrate
  <2>1. PICK cost \in Costs : Speed(Timer!Calibrate(cost)) /\ pc = "speed"
    BY <1>2 DEF SpeedCalibrate
  <2>2. tpc' # "idle"
    BY <2>1 DEF Speed, Timer!Calibrate
  <2> QED BY <2>1, <2>2 DEF Speed, At
<1>3. CASE SpeedSample(values)
  <2>1. PICK sec \in values : Speed(Timer!Sample(sec)) /\ pc = "speed"
    BY <1>3 DEF SpeedSample
  <2>2. sec \in Int /\ Timer!Sample(sec)
    BY <2>1, TimerAssumption DEF Speed
  <2>3. tpc' = "idle" => result' \in Nat \ {0}
    BY <2>2, SampleStep
  <2> QED BY <2>1, <2>3 DEF Speed, At
<1> QED BY <1>1, <1>2, <1>3

\* The results of a trace are set within their types.
LEMMA StatsTyped ==
  ASSUME mm_stats \in Stats, i \in Traces
  PROVE  /\ \A w \in Weights : [mm_stats EXCEPT ![i].weight = w] \in Stats
         /\ \A b \in BOOLEAN : [mm_stats EXCEPT ![i].valid = b] \in Stats
         /\ \A n \in Nat : [mm_stats EXCEPT ![i].util = n] \in Stats
         /\ \A n \in Nat : [mm_stats EXCEPT ![i].secs = n] \in Stats
BY DEF Stats

\* Nothing has run yet.
LEMMA InitTyped == Init => Typed
BY TracesAssumption DEF Init, Typed, Undecided, Unset, Traces, Stats, Weights, Ended

\* Every step keeps the types.
LEMMA NextTyped == Typed /\ TimerInv /\ [TimelyNext]_vars => Typed'
<1> SUFFICES ASSUME Typed, TimerInv, [TimelyNext]_vars PROVE Typed'
  OBVIOUS
<1> USE DEF locals, owned, stats, signal
<1>0. /\ i \in Traces /\ i \in 1 .. NumTraces /\ NumTraces \in Nat /\ mm_stats \in Stats /\ errors \in Nat
      /\ errors <= i
  BY TracesAssumption DEF Typed, Traces
<1>1. CASE Reference
  BY <1>1 DEF Reference, At, Typed, Undecided
<1>2. CASE MemInit
  BY <1>2 DEF MemInit, Goto, At, Typed, Undecided
<1>3. CASE NewRangeSet
  BY <1>3 DEF NewRangeSet, Goto, At, Typed, Undecided
<1>4. CASE ReadTrace
  <2>1. weights[i] \in Weights
    BY <1>0, TracesAssumption DEF Weights
  <2>2. mm_stats' \in Stats
    BY <1>0, <1>4, <2>1, StatsTyped DEF ReadTrace
  <2> QED BY <1>4, <2>2 DEF ReadTrace, Goto, At, Typed, Undecided
<1>5. CASE SetJmp
  BY <1>5 DEF SetJmp, Goto, At, Typed, Undecided
<1>6. CASE Valid1 \/ Valid2
  <2>1. mm_stats' \in Stats
    BY <1>0, <1>6, StatsTyped DEF Valid1, Valid2, Invalid
  <2>2. errors' \in Nat /\ errors' <= i /\ (pc' \in Undecided => errors' = errors)
    <3>1. errors < i
      BY <1>6 DEF Valid1, Valid2, Goto, At, Typed, Undecided
    <3>2. \/ UNCHANGED errors
          \/ errors' = errors + 1 /\ pc' \in {"onetime", "free_trace"}
      BY <1>6 DEF Valid1, Valid2, Invalid, Goto, At
    <3> QED BY <1>0, <3>1, <3>2 DEF Undecided
  <2> QED BY <1>6, <2>1, <2>2 DEF Valid1, Valid2, Goto, At, Typed, Undecided
<1>7. CASE Util
  <2>1. mm_stats' \in Stats
    BY <1>0, <1>7, StatsTyped, ResultsAssumption DEF Util
  <2> QED BY <1>7, <2>1 DEF Util, Goto, At, Typed, Undecided
<1>8. ASSUME NEW at, AppError(at) PROVE Typed'
  BY <1>8 DEF AppError, Goto, At, Typed, Undecided, Ended
<1>9. ASSUME NEW values, values \subseteq Readings, SpeedCall \/ SpeedCalibrate \/ SpeedSample(values)
      PROVE  Typed'
  <2>1. /\ pc = "speed" /\ UNCHANGED <<locals, owned, errors, signal, fault, hanging, onetime>>
        /\ \/ pc' = "speed" /\ UNCHANGED mm_stats
           \/ /\ pc' = "free_trace" /\ result' \in Nat \ {0}
              /\ mm_stats' = [mm_stats EXCEPT ![i].secs = result']
    BY <1>9, SpeedSteps
  <2>2. mm_stats' \in Stats
    BY <1>0, <2>1, StatsTyped
  <2> QED BY <2>1, <2>2 DEF Typed, Undecided
<1>10. CASE FreeTrace("free_trace", "free_range_set") \/ FreeTrace("onetime", "report")
  BY <1>10 DEF FreeTrace, Goto, At, Typed, Undecided, Ended
<1>11. CASE FreeRangeSet
  BY <1>11 DEF FreeRangeSet, Goto, At, Typed, Undecided, Ended
<1>12. CASE MemDeinit
  <2>1. i' \in Traces /\ errors' \in Nat /\ errors' <= i' /\ (pc' \in Undecided => errors' < i')
    BY <1>0, <1>12 DEF MemDeinit, Goto, At, Traces, Undecided
  <2> QED BY <1>12, <2>1 DEF MemDeinit, Goto, At, Typed, Undecided
<1>13. CASE Report
  BY <1>13 DEF Report, At, Typed, Undecided, Ended
<1>14. CASE Evaluating /\ TimedOut
  <2>1. mm_stats' \in Stats
    BY <1>0, <1>14, StatsTyped DEF TimedOut
  <2>2. errors' \in Nat /\ errors' <= i
    BY <1>0, <1>14 DEF TimedOut, Arrives
  <2> QED BY <1>14, <2>1, <2>2 DEF TimedOut, Arrives, Typed, Undecided
<1>15. CASE UNCHANGED vars
  BY <1>15 DEF vars, Typed
<1>16. CASE TimelyNext
  <2>1. /\ {sec \in Readings : sec > 0} \subseteq Readings
        /\ {sec \in Readings : sec <= 0} \subseteq Readings
    OBVIOUS
  <2> QED BY <1>1, <1>2, <1>3, <1>4, <1>5, <1>6, <1>7, <1>8, <1>9, <1>10, <1>11, <1>12, <1>13, <1>14,
             <1>16, <2>1 DEF TimelyNext, Step, Proceed
<1> QED BY <1>15, <1>16

(***************************************************************************)
(* The score: as long as no error is counted, the traces behind the loop   *)
(* have their results.                                                     *)
(***************************************************************************)
Done(t) == mm_stats[t].valid /\ mm_stats[t].util > 0 /\ mm_stats[t].secs > 0

Nothing(t) == mm_stats[t].util = 0 /\ mm_stats[t].secs = 0

\* The statements at which the results of trace i are complete.
Decided == {"free_trace", "free_range_set", "mem_deinit", "report"}

Scored ==
  /\ pc = "reference" => score = [ref |-> 0, table |-> NoAverages, avg |-> NoAverages,
                                  perf |-> 0, correct |-> 0]
  /\ score.ref \in Nat
  /\ onetime => pc \notin {"util", "speed"} /\ \A t \in Traces : Nothing(t)
  /\ ~onetime => pc # "onetime"
  /\ ~onetime /\ pc = "report" => i = NumTraces
  /\ ~onetime /\ errors = 0 =>
       /\ \A t \in Traces : t < i => Done(t)
       /\ pc \in Decided => Done(i)
       /\ pc \in {"util", "speed"} => mm_stats[i].valid
       /\ pc = "speed" => mm_stats[i].util > 0
  /\ ScoreHonest

\* Nothing is scored yet.
LEMMA InitScored == Init => Scored
BY TracesAssumption DEF Init, Scored, ScoreHonest, Nothing, Done, Traces, Decided

\* What main prints is honest.
LEMMA ReportHonest ==
  ASSUME Typed, Scored, Report
  PROVE  ScoreHonest'
<1> DEFINE avg == averages(mm_stats, errors)
<1>1. /\ mm_stats \in Stats /\ errors \in Nat /\ score.ref \in Nat /\ pc = "report"
      /\ UNCHANGED <<mm_stats, errors, onetime>>
  BY DEF Report, Typed, Scored, At, stats
<1>2. /\ avg.util \in Int /\ avg.tput \in Int
      /\ (\A t \in Traces : mm_stats[t].util = 0 /\ mm_stats[t].secs = 0) => avg.util = 0 /\ avg.tput = 0
  <2> HIDE DEF avg
  <2>1. avg = averages(mm_stats, errors)
    BY DEF avg
  <2> QED BY <1>1, <2>1, AverageFacts
<1>3. /\ score'.ref = score.ref /\ score'.avg = avg
      /\ score'.table = IF onetime THEN NoAverages ELSE printresults(mm_stats, errors)
      /\ score'.perf = IF errors = 0 THEN perfindex(avg, score.ref) ELSE 0
      /\ score'.correct = correctindex(mm_stats)
  BY DEF Report
<1> HIDE DEF avg
<1>4. /\ perfindex(avg, score.ref) = NaN => score.ref = 0
      /\ avg.util = 0 /\ avg.tput = 0 => ~ (perfindex(avg, score.ref) > 0)
  BY <1>1, <1>2, IndexFacts
<1>5. score'.perf = NaN => score'.ref = 0
  BY <1>3, <1>4 DEF NaN
<1>6. ASSUME score'.perf > 0
      PROVE  /\ ~onetime /\ score'.correct = 50 /\ score'.table = score'.avg
             /\ \A t \in Traces : Done(t)
  <2>1. errors = 0 /\ perfindex(avg, score.ref) > 0
    BY <1>3, <1>6
  <2>2. ~onetime
    BY <1>2, <1>4, <2>1 DEF Scored, Nothing
  <2>3. \A t \in Traces : Done(t)
    <3>1. i = NumTraces /\ Done(i) /\ \A t \in Traces : t < i => Done(t)
      BY <1>1, <2>1, <2>2 DEF Scored, Decided
    <3>2. \A t \in Traces : t < NumTraces \/ t = NumTraces
      BY TracesAssumption DEF Traces
    <3> QED BY <3>1, <3>2
  <2>4. DOMAIN mm_stats = Traces /\ Valid(mm_stats) = Traces
    BY <1>1, <2>3 DEF Valid, Done, Stats
  <2>5. score'.table = score'.avg
    BY <1>3, <2>1, <2>2, <2>4 DEF printresults, averages, avg
  <2>6. score'.correct = 50
    <3>1. correctindex(mm_stats) = (50 * NumTraces) \div NumTraces
      BY <2>4, TraceCount DEF correctindex
    <3> QED BY <1>3, <3>1, TracesAssumption
  <2> QED BY <2>2, <2>3, <2>5, <2>6
<1> QED BY <1>1, <1>5, <1>6 DEF ScoreHonest, Done

\* A step that leaves the results and the score alone keeps what is known of them.
LEMMA ScoreUnmoved ==
  ASSUME Typed, Scored, pc \notin Ended, pc # "reference",
         UNCHANGED <<i, mm_stats, errors, onetime, score>>,
         pc' \notin {"reference", "exit", "util", "speed"},
         pc' = "report" => pc = "report" \/ onetime,
         pc' = "onetime" => pc = "onetime",
         pc' \in Decided => pc \in Decided \/ onetime
  PROVE  Scored'
<1>1. \A t \in Traces : (Done(t) => Done(t)') /\ (Nothing(t) => Nothing(t)')
  BY DEF Done, Nothing
<1>2. Done(i) => Done(i)'
  BY DEF Done
<1> QED BY <1>1, <1>2 DEF Scored, ScoreHonest

\* Every step keeps it.
LEMMA NextScored == Scored /\ Typed /\ TimerInv /\ [TimelyNext]_vars => Scored'
<1> SUFFICES ASSUME Scored, Typed, TimerInv, [TimelyNext]_vars PROVE Scored'
  OBVIOUS
<1> USE DEF locals, owned, stats
<1>0. /\ i \in Traces /\ i \in 1 .. NumTraces /\ NumTraces \in Nat /\ mm_stats \in Stats /\ errors \in Nat
      /\ \A t \in Traces : t \in Int
      /\ onetime \in BOOLEAN
  <2>1. i \in Traces /\ mm_stats \in Stats /\ errors \in Nat /\ onetime \in BOOLEAN
    BY DEF Typed
  <2>2. Traces = 1 .. NumTraces /\ NumTraces \in Nat /\ \A t \in Traces : t \in Int
    BY TracesAssumption DEF Traces
  <2> QED BY <2>1, <2>2
<1>1. CASE Reference
  <2>1. PICK t \in RefThroughputs : score' = [score EXCEPT !.ref = t]
    BY <1>1 DEF Reference
  <2>2. score'.ref = t /\ t \in Nat /\ pc' = "mem_init" /\ UNCHANGED <<i, mm_stats, errors, onetime>>
    BY <1>1, <2>1, ResultsAssumption DEF Reference, At, Scored
  <2> QED BY <1>1, <2>2 DEF Reference, At, Scored, Done, Nothing, ScoreHonest, Decided
<1>2. CASE MemInit
  BY <1>2, ScoreUnmoved DEF MemInit, Goto, At, Decided, Ended
<1>3. CASE NewRangeSet
  BY <1>3, ScoreUnmoved DEF NewRangeSet, Goto, At, Decided, Ended
<1>4. CASE ReadTrace
  <2>1. /\ pc' = "setjmp" /\ UNCHANGED <<i, errors, onetime, score>>
        /\ mm_stats' = [mm_stats EXCEPT ![i].weight = weights[i]]
    BY <1>4 DEF ReadTrace, Goto, At
  <2>2. \A t \in Traces : UNCHANGED <<mm_stats[t].valid, mm_stats[t].util, mm_stats[t].secs>>
    BY <1>0, <2>1 DEF Stats
  <2> QED BY <2>1, <2>2 DEF Scored, Done, Nothing, ScoreHonest, Decided
<1>5. CASE SetJmp
  BY <1>5, ScoreUnmoved DEF SetJmp, Goto, At, Decided, Ended
<1>6. CASE Valid1 \/ Valid2
  <2>1. ASSUME Invalid, pc' \in {"onetime", "free_trace"}, pc' = "onetime" => onetime,
               UNCHANGED <<i, onetime, score>>
        PROVE  Scored'
    <3>1. \A t \in Traces : UNCHANGED <<mm_stats[t].util, mm_stats[t].secs>>
      BY <1>0, <2>1 DEF Invalid, Stats
    <3>2. errors' # 0
      BY <1>0, <2>1 DEF Invalid
    <3> QED BY <2>1, <3>1, <3>2 DEF Scored, Nothing, ScoreHonest
  <2>2. CASE pc = "valid1" /\ pc' = "valid2" /\ UNCHANGED <<i, stats, onetime, score>>
    BY <2>2, ScoreUnmoved DEF Decided, Ended
  <2>3. CASE /\ pc = "valid2" /\ pc' = (IF onetime THEN "onetime" ELSE "util")
             /\ mm_stats' = [mm_stats EXCEPT ![i].valid = TRUE] /\ UNCHANGED <<i, errors, onetime, score>>
    <3>1. /\ \A t \in Traces : UNCHANGED <<mm_stats[t].util, mm_stats[t].secs>>
          /\ mm_stats'[i].valid
          /\ \A t \in Traces : t # i => mm_stats'[t] = mm_stats[t]
      BY <1>0, <2>3 DEF Stats
    <3>2. CASE onetime
      BY <2>3, <3>1, <3>2 DEF Scored, Nothing, ScoreHonest
    <3>3. CASE ~onetime
      <4>1. \A t \in Traces : t < i => (Done(t) => Done(t)')
        BY <1>0, <3>1 DEF Done
      <4> QED BY <2>3, <3>1, <3>3, <4>1 DEF Scored, ScoreHonest, Decided
    <3> QED BY <3>2, <3>3
  <2> QED BY <1>6, <2>1, <2>2, <2>3 DEF Valid1, Valid2, Goto, At
<1>7. CASE Util
  <2>1. PICK u \in Utils : mm_stats' = [mm_stats EXCEPT ![i].util = u]
    BY <1>7 DEF Util
  <2>2. pc = "util" /\ pc' = "speed" /\ UNCHANGED <<i, errors, onetime, score>> /\ u > 0
    BY <1>7, ResultsAssumption DEF Util, Goto, At
  <2>3. /\ mm_stats'[i].valid = mm_stats[i].valid /\ mm_stats'[i].util > 0
        /\ \A t \in Traces : t # i => mm_stats'[t] = mm_stats[t]
    BY <1>0, <2>1, <2>2 DEF Stats
  <2>4. ASSUME NEW t \in Traces, t < i, Done(t) PROVE Done(t)'
    <3>1. mm_stats'[t] = mm_stats[t]
      BY <1>0, <2>3, <2>4
    <3> QED BY <2>4, <3>1 DEF Done
  <2> QED BY <2>2, <2>3, <2>4 DEF Scored, ScoreHonest, Decided
<1>8. ASSUME NEW at, AppError(at) PROVE Scored'
  <2>1. pc' = "aborted" /\ UNCHANGED <<i, mm_stats, errors, onetime, score>>
    BY <1>8 DEF AppError, Goto, At
  <2> QED BY <2>1 DEF Scored, Done, Nothing, ScoreHonest, Decided
<1>9. ASSUME NEW values, values \subseteq Readings, SpeedCall \/ SpeedCalibrate \/ SpeedSample(values)
      PROVE  Scored'
  <2>1. /\ pc = "speed" /\ UNCHANGED <<i, errors, onetime, score>>
        /\ \/ pc' = "speed" /\ UNCHANGED mm_stats
           \/ /\ pc' = "free_trace" /\ result' \in Nat \ {0}
              /\ mm_stats' = [mm_stats EXCEPT ![i].secs = result']
    BY <1>9, SpeedSteps
  <2>2. CASE pc' = "speed" /\ UNCHANGED mm_stats
    BY <2>1, <2>2 DEF Scored, Done, Nothing, ScoreHonest, Decided
  <2>3. CASE /\ pc' = "free_trace" /\ result' \in Nat \ {0}
             /\ mm_stats' = [mm_stats EXCEPT ![i].secs = result']
    <3>1. /\ mm_stats'[i].valid = mm_stats[i].valid /\ mm_stats'[i].util = mm_stats[i].util
          /\ mm_stats'[i].secs > 0
          /\ \A t \in Traces : t # i => mm_stats'[t] = mm_stats[t]
      BY <1>0, <2>3 DEF Stats
    <3>2. \A t \in Traces : t < i => (Done(t) => Done(t)')
      BY <1>0, <3>1 DEF Done
    <3>3. ~onetime
      BY <2>1 DEF Scored
    <3>4. errors = 0 => Done(i)'
      BY <2>1, <3>1, <3>3 DEF Scored, Done
    <3> QED BY <2>1, <2>3, <3>2, <3>3, <3>4 DEF Scored, ScoreHonest
  <2> QED BY <2>1, <2>2, <2>3
<1>10. CASE FreeTrace("free_trace", "free_range_set") \/ FreeTrace("onetime", "report")
  <2>1. pc = "onetime" => onetime
    BY <1>0 DEF Scored
  <2> QED BY <1>10, <2>1, ScoreUnmoved DEF FreeTrace, Goto, At, Decided, Ended
<1>11. CASE FreeRangeSet
  BY <1>11, ScoreUnmoved DEF FreeRangeSet, Goto, At, Decided, Ended
<1>12. CASE MemDeinit
  <2>1. /\ pc = "mem_deinit" /\ UNCHANGED <<mm_stats, errors, onetime, score>>
        /\ \/ i < NumTraces /\ i' = i + 1 /\ pc' = "mem_init"
           \/ i = NumTraces /\ i' = i /\ pc' = "report"
    BY <1>0, <1>12 DEF MemDeinit, Goto, At
  <2>2. \A t \in Traces : Done(t) <=> Done(t)'
    BY <2>1 DEF Done
  <2>3. \A t \in Traces : t < i' => t < i \/ t = i
    BY <1>0, <2>1
  <2>4. ~onetime /\ errors' = 0 => \A t \in Traces : t < i' => Done(t)'
    BY <1>0, <2>1, <2>2, <2>3 DEF Scored, Decided
  <2>5. ~onetime /\ errors' = 0 => (pc' \in Decided => Done(i)')
    BY <2>1 DEF Scored, Decided, Done
  <2> QED BY <1>0, <2>1, <2>4, <2>5 DEF Scored, Nothing, ScoreHonest
<1>13. CASE Report
  <2>1. ScoreHonest'
    BY <1>13, ReportHonest
  <2>2. /\ pc' = "exit" /\ UNCHANGED <<i, mm_stats, errors, onetime>> /\ score'.ref = score.ref
        /\ pc = "report"
    BY <1>13 DEF Report, At
  <2> QED BY <2>1, <2>2 DEF Scored, Done, Nothing, Decided
<1>14. CASE Evaluating /\ TimedOut
  <2>1. /\ pc' = "free_trace" /\ errors' = 1 /\ UNCHANGED <<i, onetime, score>>
        /\ mm_stats' = [mm_stats EXCEPT ![i].valid = FALSE]
    BY <1>14 DEF TimedOut, Arrives
  <2>2. \A t \in Traces : UNCHANGED <<mm_stats[t].util, mm_stats[t].secs>>
    BY <1>0, <2>1 DEF Stats
  <2> QED BY <2>1, <2>2 DEF Scored, Nothing, ScoreHonest
<1>15. CASE UNCHANGED vars
  BY <1>15 DEF vars, Scored, Done, Nothing, ScoreHonest
<1>16. CASE TimelyNext
  <2>1. /\ {sec \in Readings : sec > 0} \subseteq Readings
        /\ {sec \in Readings : sec <= 0} \subseteq Readings
    OBVIOUS
  <2> QED BY <1>1, <1>2, <1>3, <1>4, <1>5, <1>6, <1>7, <1>8, <1>9, <1>10, <1>11, <1>12, <1>13, <1>14,
             <1>16, <2>1 DEF TimelyNext, Step, Proceed
<1> QED BY <1>15, <1>16

\* The invariant of the storage holds of every run.
LEMMA Invariance == TimelySpec => []IInv
BY InitIInv, NextIInv, PTL DEF TimelySpec

\* Nothing of an earlier trace is allocated when one begins, wherever in its
\* evaluation the alarm gave one up (mdriver.c:255-256).
THEOREM AlwaysCleanStart == TimelySpec => []CleanStart
<1>1. IInv => CleanStart
  BY DEF IInv, Owned, Clean, CleanStart
<1> QED BY <1>1, Invariance, PTL

\* No storage is freed a second time: the jump repeats the clean-up of the trace it
\* left, of which nothing had been freed.
THEOREM NothingFreedTwice == TimelySpec => []FreedOnce
<1>1. IInv => FreedOnce
  BY DEF IInv, FreedOnce
<1> QED BY <1>1, Invariance, PTL

\* The invariants of the driver, its types, its timer and its results together.
LEMMA DriverInvariance == TimelySpec => [](TimerInv /\ Typed /\ Scored)
<1>1. Init => TimerInv /\ Typed /\ Scored
  BY TimerBegins, InitTyped, InitScored
<1>2. (TimerInv /\ Typed /\ Scored) /\ [TimelyNext]_vars => (TimerInv /\ Typed /\ Scored)'
  BY TimerStep, NextTyped, NextScored
<1> QED BY <1>1, <1>2, PTL DEF TimelySpec

\* The variables have their types: no more errors are counted than there are traces,
\* the timer's sampler counts the samples of its measurement and no others, and one
\* array of samples at most is allocated, also after the alarm left a measurement
\* (fcyc.c:46-83).
THEOREM TypesAlwaysRight == TimelySpec => []TypeOK
<1>1. TimerInv /\ Typed => TypeOK
  <2> SUFFICES ASSUME TimerInv, Typed PROVE TypeOK
    OBVIOUS
  <2>1. Timer!TypeOK
    BY DEF TimerInv, Sampling, Timer!TypeOK, Timer!NULL
  <2>2. errors \in 0 .. NumTraces
    <3>1. errors \in Nat /\ errors <= i /\ i \in 1 .. NumTraces
      BY DEF Typed, Traces
    <3> QED BY <3>1, TracesAssumption
  <2>3. \A t \in Traces : mm_stats[t].weight \in {WNONE, WALL, WUTIL, WPERF} /\ mm_stats[t].valid \in BOOLEAN
    BY DEF Typed, Stats, Weights
  <2>4. pc \in {"reference", "mem_init", "new_range_set", "read_trace", "setjmp",
                "valid1", "valid2", "util", "speed", "free_trace", "onetime",
                "free_range_set", "mem_deinit", "report"} \cup Ended
    BY DEF Typed, Undecided
  <2> QED BY <2>1, <2>2, <2>3, <2>4 DEF Typed, TypeOK
<1> QED BY <1>1, DriverInvariance, PTL

\* A performance index above zero is given only if every trace was found valid and
\* measured, and the index is not a number only where the reference ran at no speed,
\* for every set of weights and of results (mdriver.c:307-316, 543-584).
THEOREM ScoreAlwaysHonest == TimelySpec => []ScoreHonest
<1>1. Scored => ScoreHonest
  BY DEF Scored
<1> QED BY <1>1, DriverInvariance, PTL

\* The timer keeps the smallest of all the samples it took, in order, for every kbest
\* and every sequence of readings (add_sample, fcyc.c:62-83).
THEOREM BestAlwaysKept == TimelySpec => []BestKept
<1>1. TimerInv => BestKept
  <2> SUFFICES ASSUME TimerInv, tpc = "sample" PROVE BestKept
    BY DEF BestKept, Timer!BestKept
  <2>1. Timer!Kept = Full(samples)
    BY DEF Timer!Kept, Full
  <2>2. Best(sampler.values, samples)
    BY DEF TimerInv, Sampling
  <2> QED BY <2>1, <2>2 DEF Best, InOrder, Ranked, BestKept, Timer!BestKept
<1> QED BY <1>1, DriverInvariance, PTL

\* A measurement ends with its fastest sample, and with kbest samples that agree
\* within epsilon, or with all it may take (fcyc.c:85-91, 181-193).
THEOREM ResultsAlwaysJustified == TimelySpec => ResultJustified
<1>1. TimerInv /\ [TimelyNext]_vars => [Timer!Justified]_(Timer!vars)
  BY TimerStep
<1> QED BY <1>1, DriverInvariance, PTL DEF TimelySpec, ResultJustified, Timer!ResultJustified
=============================================================================
