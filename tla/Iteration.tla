------------------------------ MODULE Iteration ------------------------------
(***************************************************************************)
(* Induction and recursion over the naturals, stated with sets and         *)
(* functions: what the proofs about loops, searches and sums of this       *)
(* project rest on.                                                        *)
(***************************************************************************)
EXTENDS Sums, TLAPS, WellFoundedInduction

Below == {ss \in Nat \X Nat : ss[1] < ss[2]}

\* The order of the naturals has no descending chain.
LEMMA BelowWellFounded == IsWellFoundedOn(Below, Nat)
BY NatLessThanWellFounded DEF OpToRel, Below

\* A non-empty set of naturals has a least one.
LEMMA LeastExists ==
  ASSUME NEW S \in SUBSET Nat, S # {}
  PROVE  \E x \in S : \A y \in S : x <= y
<1>1. PICK x \in S : \A y \in S : ~ (<<y, x>> \in Below)
  BY BelowWellFounded, WFMin
<1>2. ASSUME NEW y \in S PROVE x <= y
  <2>1. ~ (<<y, x>> \in Below) /\ x \in Nat /\ y \in Nat
    BY <1>1
  <2>2. ~ (y < x)
    BY <2>1 DEF Below
  <2> QED BY <2>1, <2>2
<1> QED BY <1>2

\* A non-empty set of numbers up to n has a greatest one.
LEMMA GreatestExists ==
  ASSUME NEW n \in Nat, NEW S, S \subseteq 0 .. n, S # {}
  PROVE  \E x \in S : \A y \in S : y <= x
<1> DEFINE T == {n - s : s \in S}
<1>1. \A s \in S : n - s \in Nat /\ n - s \in T
  OBVIOUS
<1>2. T \subseteq Nat /\ T # {}
  BY <1>1
<1>3. PICK t \in T : \A u \in T : ~ (<<u, t>> \in Below)
  <2> HIDE DEF T
  <2> QED BY <1>2, BelowWellFounded, WFMin
<1>4. PICK s \in S : t = n - s
  BY <1>3
<1>5. ASSUME NEW y \in S PROVE y <= s
  <2>1. n - y \in Nat /\ n - s \in Nat /\ ~ (<<n - y, n - s>> \in Below)
    BY <1>1, <1>3, <1>4
  <2>2. ~ (n - y < n - s)
    BY <2>1 DEF Below
  <2> QED BY <2>2
<1> QED BY <1>5

\* Induction: a set that holds 0 and the successor of each of its members holds
\* every natural.
LEMMA Induction ==
  ASSUME NEW S, 0 \in S, \A n \in Nat : n \in S => n + 1 \in S
  PROVE  \A n \in Nat : n \in S
<1> DEFINE T == Nat \ S
<1> SUFFICES ASSUME T # {} PROVE FALSE
  OBVIOUS
<1>1. T \in SUBSET Nat
  OBVIOUS
<1>2. PICK t \in T : \A y \in T : t <= y
  <2> HIDE DEF T
  <2> QED BY <1>1, LeastExists
<1>3. t \in Nat \ {0}
  OBVIOUS
<1>4. t - 1 \in Nat /\ t - 1 \in S
  BY <1>2, <1>3
<1>5. (t - 1) + 1 \in S
  BY <1>4
<1> QED BY <1>3, <1>5

\* g goes from s0 on by the steps F[1] to F[N].
Iterated(g, N, s0, F) == g[0] = s0 /\ \A n \in 1 .. N : g[n] = F[n][g[n - 1]]

\* A step F[n] from state to state can be iterated N times.
LEMMA Iterates ==
  ASSUME NEW N \in Nat, NEW S, NEW s0 \in S, NEW F,
         \A n \in 1 .. N : \A s \in S : F[n][s] \in S
  PROVE  \E g \in [0 .. N -> S] : Iterated(g, N, s0, F)
<1> USE DEF Iterated
<1> DEFINE I == {m \in Nat : m <= N => \E g \in [0 .. m -> S] : Iterated(g, m, s0, F)}
<1>1. 0 \in I
  <2>1. [n \in 0 .. 0 |-> s0] \in [0 .. 0 -> S] /\ Iterated([n \in 0 .. 0 |-> s0], 0, s0, F)
    OBVIOUS
  <2> QED BY <2>1
<1>2. ASSUME NEW m \in Nat, m \in I PROVE m + 1 \in I
  <2> SUFFICES ASSUME m + 1 <= N PROVE \E g \in [0 .. m + 1 -> S] : Iterated(g, m + 1, s0, F)
    OBVIOUS
  <2>1. PICK g \in [0 .. m -> S] : Iterated(g, m, s0, F)
    BY <1>2
  <2> DEFINE h == [n \in 0 .. m + 1 |-> IF n = m + 1 THEN F[m + 1][g[m]] ELSE g[n]]
  <2>2. F[m + 1][g[m]] \in S
    BY <2>1
  <2>3. h \in [0 .. m + 1 -> S]
    BY <2>1, <2>2
  <2>4. Iterated(h, m + 1, s0, F)
    <3>1. h[0] = s0
      BY <2>1
    <3>2. ASSUME NEW n \in 1 .. m + 1 PROVE h[n] = F[n][h[n - 1]]
      <4>1. CASE n = m + 1
        <5>1. h[m + 1] = F[m + 1][g[m]] /\ h[m] = g[m]
          OBVIOUS
        <5>2. n - 1 = m
          BY <4>1
        <5> QED BY <4>1, <5>1, <5>2
      <4>2. CASE n \in 1 .. m
        <5>1. g[n] = F[n][g[n - 1]]
          BY <2>1, <4>2
        <5>2. h[n] = g[n] /\ h[n - 1] = g[n - 1]
          BY <4>2
        <5> QED BY <5>1, <5>2
      <4> QED BY <4>1, <4>2
    <3> QED BY <3>1, <3>2
  <2> QED BY <2>3, <2>4
<1>3. \A m \in Nat : m \in I
  <2> HIDE DEF I
  <2> QED BY <1>1, <1>2, Induction
<1> QED BY <1>3

\* The total grows by each summand.
LEMMA TotalSteps ==
  ASSUME NEW n \in Nat, NEW w, \A k \in 1 .. n : w[k] \in Nat
  PROVE  /\ Total(w, 0) = 0
         /\ \A m \in 0 .. n : Total(w, m) \in Nat
         /\ \A m \in 1 .. n : Total(w, m) = Total(w, m - 1) + w[m]
<1> DEFINE F == [k \in 1 .. n |-> [s \in Nat |-> s + w[k]]]
<1>1. PICK g \in [0 .. n -> Nat] : Iterated(g, n, 0, F)
  <2>1. \A k \in 1 .. n : \A s \in Nat : F[k][s] \in Nat
    OBVIOUS
  <2>2. 0 \in Nat
    OBVIOUS
  <2> HIDE DEF F
  <2> QED BY ONLY <2>1, <2>2, n \in Nat, Iterates
<1>2. ASSUME NEW k \in 1 .. n PROVE g[k - 1] \in Nat /\ g[k] = g[k - 1] + w[k]
  <2>1. k - 1 \in 0 .. n /\ g[k - 1] \in Nat
    BY <1>1
  <2>2. \A s \in Nat : F[k][s] = s + w[k]
    OBVIOUS
  <2>3. g[k] = F[k][g[k - 1]]
    BY <1>1 DEF Iterated
  <2> HIDE DEF F
  <2> QED BY <2>1, <2>2, <2>3
<1>3. g[0] = 0
  BY <1>1 DEF Iterated
<1> HIDE DEF F
<1>4. ASSUME NEW m \in 0 .. n PROVE Total(w, m) = g[m]
  <2> DEFINE IsSum(h) == h = [k \in 0 .. m |-> IF k = 0 THEN 0 ELSE h[k - 1] + w[k]]
             upto == CHOOSE h : IsSum(h)
             S == {k \in Nat : k <= m => upto[k] = g[k]}
  <2>1. IsSum([k \in 0 .. m |-> g[k]])
    <3>1. \A k \in 0 .. m : g[k] = IF k = 0 THEN 0 ELSE [j \in 0 .. m |-> g[j]][k - 1] + w[k]
      BY <1>2, <1>3
    <3> QED BY <3>1
  <2>2. IsSum(upto)
    <3>1. \E h : IsSum(h)
      BY <2>1
    <3> QED BY ONLY <3>1
  <2>3. Total(w, m) = upto[m]
    BY DEF Total
  <2> HIDE DEF upto
  <2>4. 0 \in S
    BY <1>3, <2>2
  <2>5. ASSUME NEW k \in Nat, k \in S PROVE k + 1 \in S
    <3> SUFFICES ASSUME k + 1 <= m PROVE upto[k + 1] = g[k + 1]
      OBVIOUS
    <3>1. /\ k + 1 \in 1 .. n /\ k + 1 \in 0 .. m /\ k + 1 # 0 /\ (k + 1) - 1 = k
          /\ upto[k] = g[k]
      BY <2>5
    <3>2. upto[k + 1] = upto[k] + w[k + 1]
      BY <2>2, <3>1
    <3> QED BY <1>2, <3>1, <3>2
  <2>6. \A k \in Nat : k \in S
    <3> HIDE DEF S
    <3> QED BY <2>4, <2>5, Induction
  <2> QED BY <2>3, <2>6
<1>5. \A m \in 0 .. n : Total(w, m) \in Nat
  BY <1>1, <1>4
<1>6. Total(w, 0) = 0
  BY <1>3, <1>4
<1>7. ASSUME NEW m \in 1 .. n PROVE Total(w, m) = Total(w, m - 1) + w[m]
  <2>1. m \in 0 .. n /\ m - 1 \in 0 .. n
    OBVIOUS
  <2> QED BY <1>2, <1>4, <2>1
<1> QED BY <1>5, <1>6, <1>7

\* Two totals whose summands differ in one place only differ by as much.
LEMMA TotalOneChange ==
  ASSUME NEW n \in Nat, NEW w, \A k \in 1 .. n : w[k] \in Nat,
         NEW v, \A k \in 1 .. n : v[k] \in Nat,
         NEW j \in 1 .. n, \A k \in 1 .. n : k # j => v[k] = w[k]
  PROVE  Total(v, n) + w[j] = Total(w, n) + v[j]
<1> DEFINE S == {m \in Nat : m <= n =>
                   IF m < j THEN Total(v, m) = Total(w, m)
                   ELSE Total(v, m) + w[j] = Total(w, m) + v[j]}
<1>1. /\ Total(w, 0) = 0 /\ \A m \in 0 .. n : Total(w, m) \in Nat
      /\ \A m \in 1 .. n : Total(w, m) = Total(w, m - 1) + w[m]
  BY TotalSteps
<1>2. /\ Total(v, 0) = 0 /\ \A m \in 0 .. n : Total(v, m) \in Nat
      /\ \A m \in 1 .. n : Total(v, m) = Total(v, m - 1) + v[m]
  BY TotalSteps
<1>3. 0 \in S
  BY <1>1, <1>2
<1>4. ASSUME NEW m \in Nat, m \in S PROVE m + 1 \in S
  <2> SUFFICES ASSUME m + 1 <= n
               PROVE  IF m + 1 < j THEN Total(v, m + 1) = Total(w, m + 1)
                      ELSE Total(v, m + 1) + w[j] = Total(w, m + 1) + v[j]
    OBVIOUS
  <2>1. m + 1 \in 1 .. n /\ (m + 1) - 1 = m /\ m \in 0 .. n
    OBVIOUS
  <2>2. /\ Total(w, m) \in Nat /\ Total(v, m) \in Nat /\ w[m + 1] \in Nat /\ v[m + 1] \in Nat
        /\ Total(w, m + 1) = Total(w, m) + w[m + 1] /\ Total(v, m + 1) = Total(v, m) + v[m + 1]
        /\ w[j] \in Nat /\ v[j] \in Nat
    BY <1>1, <1>2, <2>1
  <2>3. IF m < j THEN Total(v, m) = Total(w, m) ELSE Total(v, m) + w[j] = Total(w, m) + v[j]
    BY <1>4
  <2>4. m + 1 # j => v[m + 1] = w[m + 1]
    BY <2>1
  <2> QED BY <2>2, <2>3, <2>4
<1>5. \A m \in Nat : m \in S
  <2> HIDE DEF S
  <2> QED BY <1>3, <1>4, Induction
<1> QED BY <1>5

\* A total of zeros is zero.
LEMMA TotalZero ==
  ASSUME NEW n \in Nat, NEW w, \A k \in 1 .. n : w[k] = 0
  PROVE  Total(w, n) = 0
<1> DEFINE S == {m \in Nat : m <= n => Total(w, m) = 0}
<1>1. Total(w, 0) = 0 /\ \A m \in 1 .. n : Total(w, m) = Total(w, m - 1) + w[m]
  BY TotalSteps
<1>2. 0 \in S
  BY <1>1
<1>3. ASSUME NEW m \in Nat, m \in S PROVE m + 1 \in S
  BY <1>1, <1>3
<1>4. n \in S
  <2> HIDE DEF S
  <2> QED BY <1>2, <1>3, Induction
<1> QED BY <1>4
=============================================================================
