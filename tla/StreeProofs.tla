---------------------------- MODULE StreeProofs ----------------------------
(***************************************************************************)
(* The splay tree is a search tree after any calls, and implements the     *)
(* ordered map: proofs for every set of keys and records.                  *)
(***************************************************************************)
EXTENDS Stree, Iteration, FiniteSetTheorems

(***************************************************************************)
(* The invariant.  Every node x has an interval of keys, from A[x] to B[x] *)
(* in the order that `side' looks at from the near end: the keys that may  *)
(* hang below x.  The two sides are mirror images, and what a rotation or  *)
(* an insertion does on one side is proved once for both.                  *)
(***************************************************************************)
Sides == {"left", "right"}

Before(side, a, b) == IF side = "left" THEN a < b ELSE b < a
End(side)          == IF side = "left" THEN 0 ELSE MaxKey + 1

\* The parts of a tree: its nodes D, its root, the parents P, the children S on
\* the side and O on the other, and the ends A and B of the intervals.
Pointers(D, root, P, S, O) ==
  /\ root \in D \cup {NULL}
  /\ P \in [D -> D \cup {NULL}] /\ S \in [D -> D \cup {NULL}] /\ O \in [D -> D \cup {NULL}]

Intervals(side, D, A, B) ==
  /\ A \in [D -> D \cup {End(side)}] /\ B \in [D -> D \cup {End(Other(side))}]
  /\ \A x \in D : Before(side, A[x], x) /\ Before(side, x, B[x])

AtRoot(side, D, root, P, A, B) ==
  IF root = NULL THEN D = {}
  ELSE P[root] = NULL /\ A[root] = End(side) /\ B[root] = End(Other(side))

\* The child of x on the side takes the near part of x's interval; without a
\* child that part holds no key.
NearChild(side, D, P, S, A, B) ==
  \A x \in D : IF S[x] = NULL
               THEN \A k \in D : ~ (Before(side, A[x], k) /\ Before(side, k, x))
               ELSE P[S[x]] = x /\ A[S[x]] = A[x] /\ B[S[x]] = x

FarChild(side, D, P, O, A, B) ==
  \A x \in D : IF O[x] = NULL
               THEN \A k \in D : ~ (Before(side, x, k) /\ Before(side, k, B[x]))
               ELSE P[O[x]] = x /\ A[O[x]] = x /\ B[O[x]] = B[x]

Hangs(D, root, P, S, O) ==
  \A x \in D \ {root} : P[x] # NULL /\ (S[P[x]] = x \/ O[P[x]] = x)

Shape(side, D, root, P, S, O, A, B) ==
  /\ Pointers(D, root, P, S, O)
  /\ Intervals(side, D, A, B)
  /\ AtRoot(side, D, root, P, A, B)
  /\ NearChild(side, D, P, S, A, B)
  /\ FarChild(side, D, P, O, A, B)
  /\ Hangs(D, root, P, S, O)

\* The order seen from a side is a total order.
LEMMA BeforeOrders ==
  ASSUME NEW side \in Sides
  PROVE  /\ Other(side) \in Sides /\ Other(side) # side /\ Other(Other(side)) = side
         /\ End(side) \in Nat /\ \A k \in 1 .. MaxKey : k # End(side) /\ k # NULL
         /\ \A a, b, c \in Nat : Before(side, a, b) /\ Before(side, b, c) => Before(side, a, c)
         /\ \A a, b \in Nat : ~ (Before(side, a, b) /\ Before(side, b, a))
         /\ \A a, b \in Nat : Before(side, a, b) \/ Before(side, b, a) \/ a = b
         /\ \A a, b \in Nat : Before(Other(side), a, b) <=> Before(side, b, a)
BY KeysAssumption DEF Sides, Before, End, Other, NULL

\* The facts of a shape, node by node.
Nodes(side, D, root, P, S, O, A, B) ==
  /\ \A z \in D : z \in Nat /\ A[z] \in Nat /\ B[z] \in Nat /\ z # NULL
  /\ \A z \in D : Before(side, A[z], z) /\ Before(side, z, B[z]) /\ ~ Before(side, z, z)
  /\ \A z \in D : S[z] # NULL => S[z] \in D /\ S[z] # z /\ P[S[z]] = z /\ A[S[z]] = A[z] /\ B[S[z]] = z
  /\ \A z \in D : O[z] # NULL => O[z] \in D /\ O[z] # z /\ P[O[z]] = z /\ A[O[z]] = z /\ B[O[z]] = B[z]
  /\ \A z \in D : S[z] # NULL \/ O[z] # NULL => S[z] # O[z]
  /\ \A z \in D : P[z] = NULL <=> z = root
  /\ \A z \in D : P[z] # NULL => P[z] \in D /\ P[z] # z /\ (S[P[z]] = z \/ O[P[z]] = z)
  /\ \A z, k \in D : S[z] = NULL => ~ (Before(side, A[z], k) /\ Before(side, k, z))
  /\ \A z, k \in D : O[z] = NULL => ~ (Before(side, z, k) /\ Before(side, k, B[z]))

\* A shape, node by node.
LEMMA ShapeOfNodes ==
  ASSUME NEW side \in Sides, NEW D \in SUBSET (1 .. MaxKey),
         NEW root, NEW P, NEW S, NEW O, NEW A, NEW B, Shape(side, D, root, P, S, O, A, B)
  PROVE  Nodes(side, D, root, P, S, O, A, B)
<1>1. /\ D \subseteq Nat /\ \A k \in D : k # NULL /\ k # End(side) /\ k # End(Other(side))
      /\ End(side) \in Nat /\ End(Other(side)) \in Nat
      /\ \A u, v \in Nat : ~ (Before(side, u, v) /\ Before(side, v, u))
  BY BeforeOrders
<1>2. /\ Pointers(D, root, P, S, O) /\ Intervals(side, D, A, B) /\ AtRoot(side, D, root, P, A, B)
      /\ NearChild(side, D, P, S, A, B) /\ FarChild(side, D, P, O, A, B)
      /\ Hangs(D, root, P, S, O)
  BY DEF Shape
<1>3. /\ \A z \in D : z \in Nat /\ A[z] \in Nat /\ B[z] \in Nat /\ z # NULL
      /\ \A z \in D : Before(side, A[z], z) /\ Before(side, z, B[z]) /\ ~ Before(side, z, z)
  BY <1>1, <1>2 DEF Intervals
<1>4. /\ \A z \in D : S[z] # NULL => S[z] \in D /\ P[S[z]] = z /\ A[S[z]] = A[z] /\ B[S[z]] = z
      /\ \A z \in D : O[z] # NULL => O[z] \in D /\ P[O[z]] = z /\ A[O[z]] = z /\ B[O[z]] = B[z]
  BY <1>2 DEF Pointers, NearChild, FarChild
<1>5. /\ \A z, k \in D : S[z] = NULL => ~ (Before(side, A[z], k) /\ Before(side, k, z))
      /\ \A z, k \in D : O[z] = NULL => ~ (Before(side, z, k) /\ Before(side, k, B[z]))
  BY <1>2 DEF NearChild, FarChild
<1>6. ASSUME NEW z \in D
      PROVE  /\ S[z] # NULL => S[z] # z
             /\ O[z] # NULL => O[z] # z
             /\ S[z] # NULL \/ O[z] # NULL => S[z] # O[z]
  <2>1. S[z] # NULL => S[z] \in D /\ B[S[z]] = z /\ A[S[z]] = A[z]
    BY <1>4
  <2>2. O[z] # NULL => O[z] \in D /\ A[O[z]] = z
    BY <1>4
  <2>3. z # NULL /\ ~ Before(side, z, z)
    BY <1>3
  <2> QED BY <1>3, <2>1, <2>2, <2>3
<1>7. ASSUME NEW z \in D
      PROVE  /\ P[z] = NULL <=> z = root
             /\ P[z] # NULL => P[z] \in D /\ P[z] # z /\ (S[P[z]] = z \/ O[P[z]] = z)
  <2>1. P[z] = NULL <=> z = root
    BY <1>3, <1>2 DEF Hangs, AtRoot
  <2>2. P[z] # NULL => P[z] \in D /\ (S[P[z]] = z \/ O[P[z]] = z)
    BY <1>2, <2>1 DEF Hangs, Pointers
  <2> QED BY <1>3, <1>6, <2>1, <2>2
<1> QED BY <1>3, <1>4, <1>5, <1>6, <1>7 DEF Nodes

\* The nodes around a rotation of S[x] past x are distinct.
Sites(x, D, P, S, O, A, B) ==
  LET y == S[x]
  IN  /\ y \in D /\ y # x /\ P[y] = x /\ A[y] = A[x] /\ B[y] = x
      /\ O[y] # x /\ O[y] # y /\ O[y] \in D \cup {NULL}
      /\ P[x] \in D \cup {NULL} /\ P[x] # x /\ P[x] # y
      /\ P[x] # NULL => (S[P[x]] = x \/ O[P[x]] = x) /\ S[P[x]] # O[P[x]]

\* No node of a rotation is met twice.
LEMMA RotationSites ==
  ASSUME NEW side \in Sides, NEW D \in SUBSET (1 .. MaxKey), NEW x \in D,
         NEW root, NEW P, NEW S, NEW O, NEW A, NEW B, Shape(side, D, root, P, S, O, A, B),
         S[x] # NULL
  PROVE  Sites(x, D, P, S, O, A, B)
<1> DEFINE y == S[x]
<1>1. Nodes(side, D, root, P, S, O, A, B)
  BY ShapeOfNodes
<1>2. \A u, v \in Nat : ~ (Before(side, u, v) /\ Before(side, v, u))
  BY BeforeOrders
<1>3. y \in D /\ y # x /\ y # NULL /\ x # NULL /\ P[y] = x /\ A[y] = A[x] /\ B[y] = x
  BY <1>1 DEF Nodes
<1> HIDE DEF y
<1>4. /\ x \in Nat /\ y \in Nat /\ Before(side, A[y], y) /\ Before(side, y, B[y])
      /\ Before(side, x, B[x]) /\ ~ Before(side, y, y)
  BY <1>1, <1>3 DEF Nodes
<1>5. O[y] # x
  <2>1. O[y] # NULL => A[O[y]] = y
    BY <1>1, <1>3 DEF Nodes
  <2> QED BY <1>3, <1>4, <2>1
<1>6. O[y] \in D \cup {NULL} /\ O[y] # y
  BY <1>1, <1>3 DEF Nodes
<1>7. S[y] # x
  <2>1. S[y] # NULL => B[S[y]] = y
    BY <1>1, <1>3 DEF Nodes
  <2> QED BY <1>2, <1>3, <1>4, <2>1
<1>8. P[x] # NULL => (P[x] \in D /\ P[x] # x /\ (S[P[x]] = x \/ O[P[x]] = x))
  BY <1>1 DEF Nodes
<1>9. P[x] # y
  BY <1>3, <1>5, <1>7, <1>8
<1>10. P[x] # NULL => S[P[x]] # O[P[x]]
  <2>1. P[x] # NULL => P[x] \in D /\ (S[P[x]] # NULL \/ O[P[x]] # NULL)
    BY <1>3, <1>8
  <2> QED BY <1>1, <2>1 DEF Nodes
<1>11. P[x] \in D \cup {NULL} /\ P[x] # x
  BY <1>3, <1>8
<1> QED BY <1>3, <1>5, <1>6, <1>8, <1>9, <1>10, <1>11 DEF y, Sites

\* The tree after the child S[x] rotated up past x, in terms of the one before.
Rotated(x, root, P, S, O, D, r, p, s, o) ==
  LET y == S[x]
  IN  /\ r = IF P[x] = NULL THEN y ELSE root
      /\ \A z \in D : p[z] = IF z = x THEN y ELSE IF z = y THEN P[x]
                             ELSE IF z = O[y] THEN x ELSE P[z]
      /\ \A z \in D : s[z] = IF z = x THEN O[y]
                             ELSE IF P[x] = z /\ S[z] = x THEN y ELSE S[z]
      /\ \A z \in D : o[z] = IF z = y THEN x
                             ELSE IF P[x] = z /\ S[z] # x THEN y ELSE O[z]

\* A rotation exchanges the intervals of the two nodes and keeps all else.
LEMMA RotationKeepsShape ==
  ASSUME NEW side \in Sides, NEW D \in SUBSET (1 .. MaxKey), NEW x \in D,
         NEW root, NEW P, NEW S, NEW O, NEW A, NEW B, Shape(side, D, root, P, S, O, A, B),
         S[x] # NULL,
         NEW r, NEW p \in [D -> D \cup {NULL}], NEW s \in [D -> D \cup {NULL}],
         NEW o \in [D -> D \cup {NULL}], Rotated(x, root, P, S, O, D, r, p, s, o)
  PROVE  Shape(side, D, r, p, s, o, [A EXCEPT ![x] = S[x]], [B EXCEPT ![S[x]] = B[x]])
<1> DEFINE y == S[x]
           a == [A EXCEPT ![x] = y]
           b == [B EXCEPT ![y] = B[x]]
<1>1. /\ D \subseteq Nat /\ \A k \in D : k # NULL /\ k # End(side) /\ k # End(Other(side))
      /\ End(side) \in Nat /\ End(Other(side)) \in Nat
      /\ \A u, v, w \in Nat : Before(side, u, v) /\ Before(side, v, w) => Before(side, u, w)
      /\ \A u, v \in Nat : ~ (Before(side, u, v) /\ Before(side, v, u))
      /\ \A u, v \in Nat : Before(side, u, v) \/ Before(side, v, u) \/ u = v
  BY BeforeOrders
<1>2. /\ Pointers(D, root, P, S, O) /\ Intervals(side, D, A, B) /\ AtRoot(side, D, root, P, A, B)
      /\ NearChild(side, D, P, S, A, B) /\ FarChild(side, D, P, O, A, B)
      /\ Hangs(D, root, P, S, O)
  BY DEF Shape
<1>n. Nodes(side, D, root, P, S, O, A, B)
  BY ShapeOfNodes
<1>3. /\ \A z \in D : S[z] # NULL => S[z] \in D /\ P[S[z]] = z /\ A[S[z]] = A[z] /\ B[S[z]] = z
      /\ \A z \in D : O[z] # NULL => O[z] \in D /\ P[O[z]] = z /\ A[O[z]] = z /\ B[O[z]] = B[z]
  BY <1>n DEF Nodes
<1>4. /\ \A z \in D : A[z] \in Nat /\ B[z] \in Nat /\ z \in Nat
      /\ \A z \in D : Before(side, A[z], z) /\ Before(side, z, B[z])
  BY <1>n DEF Nodes
<1>5. \A z \in D : S[z] # z /\ O[z] # z /\ (S[z] = O[z] => S[z] = NULL)
  BY <1>n DEF Nodes
<1>s. Sites(x, D, P, S, O, A, B)
  BY RotationSites
<1>y. /\ y \in D /\ y # x /\ P[y] = x /\ A[y] = A[x] /\ B[y] = x
      /\ O[y] # x /\ O[y] # y
  BY <1>s DEF Sites
<1>6. /\ r = IF P[x] = NULL THEN y ELSE root
      /\ \A z \in D : p[z] = IF z = x THEN y ELSE IF z = y THEN P[x]
                             ELSE IF z = O[y] THEN x ELSE P[z]
      /\ \A z \in D : s[z] = IF z = x THEN O[y] ELSE IF P[x] = z /\ S[z] = x THEN y ELSE S[z]
      /\ \A z \in D : o[z] = IF z = y THEN x ELSE IF P[x] = z /\ S[z] # x THEN y ELSE O[z]
  BY DEF Rotated
<1>7. /\ \A z \in D : a[z] = IF z = x THEN y ELSE A[z]
      /\ \A z \in D : b[z] = IF z = y THEN B[x] ELSE B[z]
      /\ a \in [D -> D \cup {End(side)}] /\ b \in [D -> D \cup {End(Other(side))}]
  BY <1>2, <1>3 DEF Intervals
<1>8. P[x] # NULL => P[x] \in D /\ P[x] # x /\ P[x] # y /\ (S[P[x]] = x \/ O[P[x]] = x)
  BY <1>1, <1>s DEF Sites
<1>9. P[x] = NULL <=> x = root
  BY <1>1, <1>2 DEF Hangs, AtRoot
<1>10. y = S[x] /\ x # NULL /\ y # NULL
  BY <1>1
<1> HIDE DEF y, a, b
<1>11. Pointers(D, r, p, s, o)
  BY <1>2, <1>6, <1>y DEF Pointers
<1>12. Intervals(side, D, a, b)
  <2>1. Before(side, y, x) /\ Before(side, y, B[x])
    BY <1>1, <1>4, <1>y
  <2> QED BY <1>4, <1>7, <1>y, <2>1 DEF Intervals
<1>13. AtRoot(side, D, r, p, a, b)
  <2>1. CASE P[x] = NULL
    BY <1>2, <1>6, <1>7, <1>9, <1>10, <1>y, <2>1 DEF AtRoot
  <2>2. CASE P[x] # NULL
    <3>1. root # x /\ r = root
      BY <1>6, <1>9, <2>2
    <3>2. root # NULL /\ root \in D /\ P[root] = NULL
      BY <1>2 DEF AtRoot, Pointers
    <3>3. O[y] # NULL => P[O[y]] = y
      BY <1>3, <1>y
    <3>4. root # y /\ root # O[y]
      BY <1>10, <1>y, <3>2, <3>3
    <3> QED BY <1>2, <1>6, <1>7, <3>1, <3>2, <3>4 DEF AtRoot
  <2> QED BY <2>1, <2>2
<1>14. NearChild(side, D, p, s, a, b)
  <2> SUFFICES ASSUME NEW z \in D
               PROVE  IF s[z] = NULL
                      THEN \A k \in D : ~ (Before(side, a[z], k) /\ Before(side, k, z))
                      ELSE p[s[z]] = z /\ a[s[z]] = a[z] /\ b[s[z]] = z
    BY DEF NearChild
  <2>1. CASE z = x
    <3>1. s[x] = O[y] /\ a[x] = y
      BY <1>6, <1>7
    <3>2. CASE O[y] = NULL
      BY <1>2, <1>y, <2>1, <3>1, <3>2 DEF FarChild
    <3>3. CASE O[y] # NULL
      <4>1. O[y] \in D /\ A[O[y]] = y /\ B[O[y]] = B[y]
        BY <1>3, <1>y, <3>3
      <4>2. p[O[y]] = x /\ a[O[y]] = A[O[y]] /\ b[O[y]] = B[O[y]]
        BY <1>6, <1>7, <1>y, <4>1
      <4> QED BY <1>y, <2>1, <3>1, <3>3, <4>1, <4>2
    <3> QED BY <3>2, <3>3
  <2>2. CASE z # x /\ P[x] = z /\ S[z] = x
    <3>1. s[z] = y /\ p[y] = z /\ a[y] = A[x] /\ a[z] = A[z] /\ b[y] = B[x]
      BY <1>6, <1>7, <1>y, <2>2
    <3> QED BY <1>3, <1>10, <2>2, <3>1
  <2>3. CASE z # x /\ ~ (P[x] = z /\ S[z] = x)
    <3>1. s[z] = S[z] /\ a[z] = A[z] /\ S[z] # x
      BY <1>3, <1>6, <1>7, <1>10, <2>3
    <3>2. CASE S[z] = NULL
      BY <1>2, <3>1, <3>2 DEF NearChild
    <3>3. CASE S[z] # NULL
      <4>1. S[z] # y
        BY <1>3, <1>10, <1>y, <2>3, <3>3
      <4>2. S[z] # O[y]
        BY <1>3, <1>5, <1>y, <3>3
      <4>3. S[z] \in D /\ P[S[z]] = z /\ A[S[z]] = A[z] /\ B[S[z]] = z
        BY <1>3, <3>3
      <4>4. p[S[z]] = z /\ a[S[z]] = A[z] /\ b[S[z]] = z
        BY <1>6, <1>7, <3>1, <4>1, <4>2, <4>3
      <4> QED BY <3>1, <3>3, <4>4
    <3> QED BY <3>2, <3>3
  <2> QED BY <2>1, <2>2, <2>3
<1>15. FarChild(side, D, p, o, a, b)
  <2> SUFFICES ASSUME NEW z \in D
               PROVE  IF o[z] = NULL
                      THEN \A k \in D : ~ (Before(side, z, k) /\ Before(side, k, b[z]))
                      ELSE p[o[z]] = z /\ a[o[z]] = z /\ b[o[z]] = b[z]
    BY DEF FarChild
  <2>1. CASE z = y
    BY <1>6, <1>7, <1>10, <1>y, <2>1
  <2>2. CASE z # y /\ P[x] = z /\ S[z] # x
    <3>1. o[z] = y /\ p[y] = z /\ a[y] = A[x] /\ b[z] = B[z] /\ b[y] = B[x] /\ O[z] = x
      <4>1. P[x] # NULL /\ O[z] = x
        BY <1>8, <2>2, z \in D, <1>1
      <4>2. o[z] = y /\ b[z] = B[z]
        BY <1>6, <1>7, <2>2
      <4>3. p[y] = P[x] /\ a[y] = A[y] /\ b[y] = B[x]
        BY <1>6, <1>7, <1>y
      <4> QED BY <1>y, <2>2, <4>1, <4>2, <4>3
    <3> QED BY <1>3, <1>10, <2>2, <3>1
  <2>3. CASE z # y /\ ~ (P[x] = z /\ S[z] # x)
    <3>1. o[z] = O[z] /\ b[z] = B[z]
      BY <1>6, <1>7, <2>3
    <3>2. CASE O[z] = NULL
      BY <1>2, <3>1, <3>2 DEF FarChild
    <3>3. CASE O[z] # NULL
      <4>1. O[z] # O[y]
        BY <1>3, <1>y, <2>3, <3>3
      <4>2. O[z] # x
        BY <1>3, <1>5, <2>3, <3>3
      <4>3. O[z] # y
        BY <1>3, <1>5, <1>10, <1>y, <3>3
      <4>4. O[z] \in D /\ P[O[z]] = z /\ A[O[z]] = z /\ B[O[z]] = B[z]
        BY <1>3, <3>3
      <4>5. p[O[z]] = z /\ a[O[z]] = z /\ b[O[z]] = B[z]
        BY <1>6, <1>7, <4>1, <4>2, <4>3, <4>4
      <4> QED BY <3>1, <3>3, <4>5
    <3> QED BY <3>2, <3>3
  <2> QED BY <2>1, <2>2, <2>3
<1>16. Hangs(D, r, p, s, o)
  <2> SUFFICES ASSUME NEW z \in D \ {r} PROVE p[z] # NULL /\ (s[p[z]] = z \/ o[p[z]] = z)
    BY DEF Hangs
  <2>1. CASE z = x
    BY <1>6, <1>10, <1>y, <2>1
  <2>2. CASE z = y
    <3>1. P[x] # NULL /\ p[y] = P[x] /\ P[x] \in D /\ P[x] # y /\ P[x] # x
      BY <1>6, <1>8, <1>y, <2>2
    <3> QED BY <1>6, <2>2, <3>1
  <2>3. CASE z # x /\ z # y /\ z = O[y]
    BY <1>6, <1>10, <2>3
  <2>4. CASE z # x /\ z # y /\ z # O[y]
    <3>1. p[z] = P[z] /\ z # root
      BY <1>6, <1>9, <2>4
    <3>2. P[z] # NULL /\ P[z] \in D /\ (S[P[z]] = z \/ O[P[z]] = z)
      BY <1>2, <3>1 DEF Hangs, Pointers
    <3>3. S[P[z]] = z => s[P[z]] = z
      BY <1>6, <1>10, <2>4, <3>2
    <3>4. O[P[z]] = z /\ S[P[z]] # z => o[P[z]] = z
      BY <1>6, <1>8, <1>10, <2>4, <3>2
    <3> QED BY <3>1, <3>2, <3>3, <3>4
  <2> QED BY <2>1, <2>2, <2>3, <2>4
<1> QED BY <1>11, <1>12, <1>13, <1>14, <1>15, <1>16 DEF Shape, a, b, y

\* The node whose key ends an interval is an ancestor: its own interval holds the node.
Ancestral(side, D, A, B) ==
  \A x \in D : /\ A[x] \in D => Before(side, x, B[A[x]])
               /\ B[x] \in D => Before(side, A[B[x]], x)

\* By the widest interval for which it fails.
LEMMA EndsAreAncestors ==
  ASSUME NEW side \in Sides, NEW D \in SUBSET (1 .. MaxKey),
         NEW root, NEW P, NEW S, NEW O, NEW A, NEW B, Shape(side, D, root, P, S, O, A, B)
  PROVE  Ancestral(side, D, A, B)
<1> DEFINE Fine(x) == /\ A[x] \in D => Before(side, x, B[A[x]])
                      /\ B[x] \in D => Before(side, A[B[x]], x)
           width(x) == IF A[x] < B[x] THEN B[x] - A[x] ELSE A[x] - B[x]
           W == {width(x) : x \in {u \in D : ~ Fine(u)}}
<1>1. Nodes(side, D, root, P, S, O, A, B)
  BY ShapeOfNodes
<1>2. /\ \A u, v, w \in Nat : Before(side, u, v) /\ Before(side, v, w) => Before(side, u, w)
      /\ \A k \in D : k # End(side) /\ k # End(Other(side))
  BY BeforeOrders
<1>3. ASSUME NEW x \in D PROVE A[x] \in 0 .. MaxKey + 1 /\ B[x] \in 0 .. MaxKey + 1 /\ width(x) \in 0 .. MaxKey + 1
  <2>1. A[x] \in D \cup {End(side)} /\ B[x] \in D \cup {End(Other(side))}
    BY DEF Shape, Intervals
  <2>2. A[x] \in 0 .. MaxKey + 1 /\ B[x] \in 0 .. MaxKey + 1
    <3>1. \A k \in D : k \in 0 .. MaxKey + 1
      BY KeysAssumption
    <3>2. End(side) \in 0 .. MaxKey + 1 /\ End(Other(side)) \in 0 .. MaxKey + 1
      BY KeysAssumption DEF End
    <3> QED BY <2>1, <3>1, <3>2
  <2> QED BY <2>2, KeysAssumption
<1> SUFFICES ASSUME NEW u \in D, ~ Fine(u) PROVE FALSE
  BY DEF Ancestral
<1>4. PICK x \in D : ~ Fine(x) /\ \A v \in D : ~ Fine(v) => width(v) <= width(x)
  <2>1. W \subseteq 0 .. MaxKey + 1 /\ W # {} /\ MaxKey + 1 \in Nat
    BY <1>3, KeysAssumption
  <2>2. PICK m \in W : \A w \in W : w <= m
    <3> HIDE DEF W
    <3> QED BY <2>1, GreatestExists
  <2> QED BY <2>2
<1>5. P[x] # NULL
  <2>1. (A[root] \notin D /\ B[root] \notin D) \/ root = NULL
    BY <1>2 DEF Shape, AtRoot
  <2> QED BY <1>1, <1>4, <2>1 DEF Nodes
<1> DEFINE q == P[x]
<1>6. q \in D /\ (S[q] = x \/ O[q] = x)
  BY <1>1, <1>5 DEF Nodes
<1>7. x # NULL /\ Before(side, A[x], x) /\ Before(side, x, B[x])
  BY <1>1 DEF Nodes
<1>8. Before(side, A[q], q) /\ Before(side, q, B[q])
  BY <1>1, <1>6 DEF Nodes
<1>9. (A[x] = A[q] /\ B[x] = q) \/ (A[x] = q /\ B[x] = B[q])
  <2>1. /\ S[q] # NULL => A[S[q]] = A[q] /\ B[S[q]] = q
        /\ O[q] # NULL => A[O[q]] = q /\ B[O[q]] = B[q]
    BY <1>1, <1>6 DEF Nodes
  <2> QED BY <1>6, <1>7, <2>1
<1> HIDE DEF q
<1>10. width(q) > width(x)
  BY <1>3, <1>6, <1>7, <1>8, <1>9 DEF Before
<1>11. Fine(q)
  BY <1>3, <1>4, <1>6, <1>10
<1>12. Fine(x)
  <2>1. /\ A[q] \in Nat /\ B[q] \in Nat /\ q \in Nat /\ x \in Nat
        /\ \A k \in D : A[k] \in Nat /\ B[k] \in Nat
    BY <1>1, <1>6 DEF Nodes
  <2>2. CASE A[x] = A[q] /\ B[x] = q
    <3>1. A[q] \in D => Before(side, x, B[A[q]])
      BY <1>2, <1>7, <1>11, <2>1, <2>2
    <3> QED BY <1>7, <2>2, <3>1
  <2>3. CASE A[x] = q /\ B[x] = B[q]
    <3>1. B[q] \in D => Before(side, A[B[q]], x)
      BY <1>2, <1>7, <1>11, <2>1, <2>3
    <3> QED BY <1>7, <2>3, <3>1
  <2> QED BY <1>9, <2>2, <2>3
<1> QED BY <1>4, <1>12

\* The tree after the new node k took the free place of q on the side.
Leafed(k, q, P, S, O, D, p, s, o) ==
  \A z \in D \cup {k} :
    /\ p[z] = IF z = k THEN q ELSE P[z]
    /\ s[z] = IF z = k THEN NULL ELSE IF z = q THEN k ELSE S[z]
    /\ o[z] = IF z = k THEN NULL ELSE O[z]

\* A new leaf in the free part of q's interval that holds its key: no other node has
\* that key in a free part of its own.
LEMMA LeafKeepsShape ==
  ASSUME NEW side \in Sides, NEW D \in SUBSET (1 .. MaxKey), NEW k \in 1 .. MaxKey, k \notin D,
         NEW q \in D, NEW root, NEW P, NEW S, NEW O, NEW A, NEW B,
         Shape(side, D, root, P, S, O, A, B),
         S[q] = NULL, Before(side, A[q], k), Before(side, k, q),
         NEW E, E = D \cup {k},
         NEW p \in [E -> E \cup {NULL}], NEW s \in [E -> E \cup {NULL}],
         NEW o \in [E -> E \cup {NULL}], Leafed(k, q, P, S, O, D, p, s, o)
  PROVE  Shape(side, E, root, p, s, o, [z \in E |-> IF z = k THEN A[q] ELSE A[z]],
                                       [z \in E |-> IF z = k THEN q ELSE B[z]])
<1> DEFINE a == [z \in E |-> IF z = k THEN A[q] ELSE A[z]]
           b == [z \in E |-> IF z = k THEN q ELSE B[z]]
<1>1. /\ D \subseteq Nat /\ End(side) \in Nat /\ End(Other(side)) \in Nat
      /\ \A u, v, w \in Nat : Before(side, u, v) /\ Before(side, v, w) => Before(side, u, w)
      /\ \A u, v \in Nat : ~ (Before(side, u, v) /\ Before(side, v, u))
      /\ \A u, v \in Nat : Before(side, u, v) \/ Before(side, v, u) \/ u = v
      /\ k \in Nat /\ k # NULL
  BY BeforeOrders
<1>2. Nodes(side, D, root, P, S, O, A, B)
  BY ShapeOfNodes
<1>3. Ancestral(side, D, A, B)
  BY EndsAreAncestors
<1>e. q \in E /\ k \in E /\ \A z \in D : z # NULL /\ z # k /\ z \in E /\ z \in Nat
  BY BeforeOrders
<1>4. /\ \A z \in E : a[z] = IF z = k THEN A[q] ELSE A[z]
      /\ \A z \in E : b[z] = IF z = k THEN q ELSE B[z]
  OBVIOUS
<1>5. /\ A \in [D -> D \cup {End(side)}] /\ B \in [D -> D \cup {End(Other(side))}]
      /\ root \in D \cup {NULL} /\ root # NULL
  BY DEF Shape, Intervals, Pointers, AtRoot
<1>6. a \in [E -> E \cup {End(side)}] /\ b \in [E -> E \cup {End(Other(side))}]
  BY <1>5
<1>7. /\ \A z \in E : p[z] = IF z = k THEN q ELSE P[z]
      /\ \A z \in E : s[z] = IF z = k THEN NULL ELSE IF z = q THEN k ELSE S[z]
      /\ \A z \in E : o[z] = IF z = k THEN NULL ELSE O[z]
  BY DEF Leafed
<1>8. /\ \A z \in D : A[z] \in Nat /\ B[z] \in Nat /\ z # k
      /\ \A z \in D : Before(side, A[z], z) /\ Before(side, z, B[z])
      /\ \A z \in D : S[z] # NULL => S[z] \in D /\ P[S[z]] = z /\ A[S[z]] = A[z] /\ B[S[z]] = z
      /\ \A z \in D : O[z] # NULL => O[z] \in D /\ P[O[z]] = z /\ A[O[z]] = z /\ B[O[z]] = B[z]
      /\ \A z, j \in D : S[z] = NULL => ~ (Before(side, A[z], j) /\ Before(side, j, z))
      /\ \A z, j \in D : O[z] = NULL => ~ (Before(side, z, j) /\ Before(side, j, B[z]))
  BY <1>2 DEF Nodes
\* The neighbours of k among the keys are q and A[q].
<1>9. ASSUME NEW z \in D, Before(side, z, k) PROVE z = A[q] \/ Before(side, z, A[q])
  <2>1. Before(side, z, q)
    BY <1>1, <1>9
  <2> QED BY <1>1, <1>8, <2>1
<1>10. ASSUME NEW z \in D, Before(side, k, z) PROVE z = q \/ Before(side, q, z)
  <2>1. Before(side, A[q], z)
    BY <1>1, <1>8, <1>10
  <2> QED BY <1>1, <1>8, <2>1
<1>11. ASSUME NEW z \in D, S[z] = NULL, Before(side, A[z], k), Before(side, k, z) PROVE z = q
  <2> SUFFICES ASSUME z # q PROVE FALSE
    OBVIOUS
  <2>1. Before(side, q, z)
    BY <1>10, <1>11
  <2>2. ~ Before(side, A[z], q)
    BY <1>8, <1>11, <2>1
  <2>3. Before(side, A[z], q)
    BY <1>1, <1>8, <1>11
  <2> QED BY <2>2, <2>3
<1>12. ASSUME NEW z \in D, O[z] = NULL, Before(side, z, k), Before(side, k, B[z]) PROVE FALSE
  <2>1. z = A[q] \/ Before(side, z, A[q])
    BY <1>9, <1>12
  <2>2. CASE z = A[q]
    <3>1. Before(side, z, q) /\ Before(side, q, B[z])
      <4>1. Before(side, q, B[A[q]])
        BY <1>3, <2>2 DEF Ancestral
      <4> QED BY <1>8, <2>2, <4>1
    <3> QED BY <1>8, <1>12, <3>1
  <2>3. CASE Before(side, z, A[q])
    <3>1. A[q] \notin D \/ ~ Before(side, A[q], B[z])
      BY <1>8, <1>12, <2>3
    <3>2. Before(side, A[q], B[z])
      BY <1>1, <1>8, <1>12
    <3>3. A[q] = End(side)
      BY <1>5, <3>1, <3>2
    <3>4. ~ Before(side, z, End(side))
      BY KeysAssumption, MaxKey \in Nat, z \in 1 .. MaxKey DEF Before, End
    <3> QED BY <2>3, <3>3, <3>4
  <2> QED BY <2>1, <2>2, <2>3
<1> HIDE DEF a, b
<1>13. Pointers(E, root, p, s, o)
  BY <1>5 DEF Pointers
<1>14. Intervals(side, E, a, b)
  <2>1. ASSUME NEW z \in E PROVE Before(side, a[z], z) /\ Before(side, z, b[z])
    BY <1>4, <1>8
  <2> QED BY <1>6, <2>1 DEF Intervals
<1>15. AtRoot(side, E, root, p, a, b)
  <2>1. root \in D /\ root # k /\ P[root] = NULL /\ A[root] = End(side) /\ B[root] = End(Other(side))
    BY <1>5 DEF Shape, AtRoot
  <2> QED BY <1>4, <1>5, <1>7, <2>1 DEF AtRoot
<1>16. NearChild(side, E, p, s, a, b)
  <2> SUFFICES ASSUME NEW z \in E
               PROVE  IF s[z] = NULL
                      THEN \A j \in E : ~ (Before(side, a[z], j) /\ Before(side, j, z))
                      ELSE p[s[z]] = z /\ a[s[z]] = a[z] /\ b[s[z]] = z
    BY DEF NearChild
  <2>1. CASE z = k
    <3>1. s[k] = NULL /\ a[k] = A[q]
      BY <1>4, <1>7
    <3>2. ASSUME NEW j \in E, Before(side, A[q], j), Before(side, j, k) PROVE FALSE
      <4>1. j # k
        BY <1>1, <3>2
      <4>2. j \in D /\ A[q] \in Nat /\ j \in Nat
        BY <1>1, <1>8, <4>1
      <4>3. j = A[q] \/ Before(side, j, A[q])
        BY <1>9, <3>2, <4>2
      <4> QED BY <1>1, <3>2, <4>2, <4>3
    <3> QED BY <2>1, <3>1, <3>2
  <2>2. CASE z = q
    BY <1>1, <1>4, <1>7, <1>8, <2>2
  <2>3. CASE z \in D /\ z # q /\ S[z] = NULL
    <3>1. s[z] = NULL /\ a[z] = A[z]
      BY <1>4, <1>7, <1>8, <2>3
    <3>2. ~ (Before(side, A[z], k) /\ Before(side, k, z))
      BY <1>11, <2>3
    <3> QED BY <1>8, <2>3, <3>1, <3>2
  <2>4. CASE z \in D /\ z # q /\ S[z] # NULL
    <3>1. S[z] \in D /\ P[S[z]] = z /\ A[S[z]] = A[z] /\ B[S[z]] = z
      BY <1>8, <2>4
    <3>2. s[z] = S[z] /\ a[z] = A[z] /\ z \in E /\ z # NULL
      BY <1>4, <1>7, <1>e, <2>4
    <3>3. p[S[z]] = z /\ a[S[z]] = A[z] /\ b[S[z]] = z
      BY <1>4, <1>7, <1>e, <3>1
    <3> QED BY <2>4, <3>2, <3>3
  <2> QED BY <2>1, <2>2, <2>3, <2>4
<1>17. FarChild(side, E, p, o, a, b)
  <2> SUFFICES ASSUME NEW z \in E
               PROVE  IF o[z] = NULL
                      THEN \A j \in E : ~ (Before(side, z, j) /\ Before(side, j, b[z]))
                      ELSE p[o[z]] = z /\ a[o[z]] = z /\ b[o[z]] = b[z]
    BY DEF FarChild
  <2>1. CASE z = k
    <3>1. o[k] = NULL /\ b[k] = q
      BY <1>4, <1>7
    <3>2. ASSUME NEW j \in E, Before(side, k, j), Before(side, j, q) PROVE FALSE
      <4>1. j # k
        BY <1>1, <3>2
      <4>2. j \in D /\ q \in Nat /\ j \in Nat
        BY <1>1, <4>1
      <4>3. j = q \/ Before(side, q, j)
        BY <1>10, <3>2, <4>2
      <4> QED BY <1>1, <3>2, <4>2, <4>3
    <3> QED BY <2>1, <3>1, <3>2
  <2>2. CASE z \in D /\ O[z] = NULL
    <3>1. o[z] = NULL /\ b[z] = B[z]
      BY <1>4, <1>7, <1>8, <2>2
    <3>2. ~ (Before(side, z, k) /\ Before(side, k, B[z]))
      BY <1>12, <2>2
    <3> QED BY <1>8, <2>2, <3>1, <3>2
  <2>3. CASE z \in D /\ O[z] # NULL
    <3>1. O[z] \in D /\ P[O[z]] = z /\ A[O[z]] = z /\ B[O[z]] = B[z]
      BY <1>8, <2>3
    <3>2. o[z] = O[z] /\ b[z] = B[z]
      BY <1>4, <1>7, <1>e, <2>3
    <3>3. p[O[z]] = z /\ a[O[z]] = z /\ b[O[z]] = B[z]
      BY <1>4, <1>7, <1>e, <3>1
    <3> QED BY <2>3, <3>2, <3>3
  <2> QED BY <2>1, <2>2, <2>3
<1>18. Hangs(E, root, p, s, o)
  <2> SUFFICES ASSUME NEW z \in E, z # root PROVE p[z] # NULL /\ (s[p[z]] = z \/ o[p[z]] = z)
    BY DEF Hangs
  <2>1. CASE z = k
    <3>1. p[k] = q /\ s[q] = k
      BY <1>7, <1>e
    <3> QED BY <1>e, <2>1, <3>1
  <2>2. CASE z \in D
    <3>1. P[z] # NULL /\ P[z] \in D /\ (S[P[z]] = z \/ O[P[z]] = z)
      BY <1>2, <2>2 DEF Nodes
    <3>2. P[z] = q => S[q] # z
      BY <1>e, <2>2
    <3>3. p[z] = P[z] /\ P[z] \in E /\ P[z] # k
      BY <1>7, <1>e, <2>2, <3>1
    <3>4. o[P[z]] = O[P[z]] /\ (P[z] # q => s[P[z]] = S[P[z]])
      BY <1>7, <3>3
    <3> QED BY <3>1, <3>2, <3>3, <3>4
  <2> QED BY <2>1, <2>2
<1> QED BY <1>13, <1>14, <1>15, <1>16, <1>17, <1>18 DEF Shape, a, b

\* The tree after z went, its child O[z] in its place.
Spliced(z, root, P, S, O, D, r, p, s, o) ==
  /\ r = IF P[z] = NULL THEN O[z] ELSE root
  /\ \A k \in D \ {z} :
       /\ p[k] = IF k = O[z] THEN P[z] ELSE P[k]
       /\ s[k] = IF k = P[z] /\ S[k] = z THEN O[z] ELSE S[k]
       /\ o[k] = IF k = P[z] /\ S[k] # z THEN O[z] ELSE O[k]

\* z has no child on the side.
Bare(S, z) == S[z] = NULL

\* A node without a child on the side goes: its interval falls to the other child.
LEMMA SpliceKeepsShape ==
  ASSUME NEW side \in Sides, NEW D \in SUBSET (1 .. MaxKey), NEW z \in D,
         NEW root, NEW P, NEW S, NEW O, NEW A, NEW B, Shape(side, D, root, P, S, O, A, B),
         Bare(S, z), NEW E, E = D \ {z},
         NEW r \in E \cup {NULL}, NEW p \in [E -> E \cup {NULL}],
         NEW s \in [E -> E \cup {NULL}], NEW o \in [E -> E \cup {NULL}],
         Spliced(z, root, P, S, O, D, r, p, s, o)
  PROVE  Shape(side, E, r, p, s, o, [k \in E |-> IF A[k] = z THEN A[z] ELSE A[k]],
                                    [k \in E |-> B[k]])
<1> USE DEF Bare
<1> DEFINE a == [k \in E |-> IF A[k] = z THEN A[z] ELSE A[k]]
           b == [k \in E |-> B[k]]
<1>1. /\ D \subseteq Nat /\ End(side) \in Nat /\ End(Other(side)) \in Nat
      /\ \A u, v, w \in Nat : Before(side, u, v) /\ Before(side, v, w) => Before(side, u, w)
      /\ \A u, v \in Nat : ~ (Before(side, u, v) /\ Before(side, v, u))
      /\ \A u, v \in Nat : Before(side, u, v) \/ Before(side, v, u) \/ u = v
      /\ \A k \in D : k # NULL /\ k # End(side) /\ k # End(Other(side))
  BY BeforeOrders
<1>2. Nodes(side, D, root, P, S, O, A, B)
  BY ShapeOfNodes
<1>3. Ancestral(side, D, A, B)
  BY EndsAreAncestors
<1>4. /\ \A k \in E : a[k] = IF A[k] = z THEN A[z] ELSE A[k]
      /\ \A k \in E : b[k] = B[k]
  OBVIOUS
<1>5. /\ A \in [D -> D \cup {End(side)}] /\ B \in [D -> D \cup {End(Other(side))}]
      /\ root \in D \cup {NULL} /\ root # NULL
  BY DEF Shape, Intervals, Pointers, AtRoot
<1>6. /\ \A k \in D : A[k] \in Nat /\ B[k] \in Nat
      /\ \A k \in D : Before(side, A[k], k) /\ Before(side, k, B[k])
      /\ \A k \in D : S[k] # NULL => S[k] \in D /\ P[S[k]] = k /\ A[S[k]] = A[k] /\ B[S[k]] = k
      /\ \A k \in D : O[k] # NULL => O[k] \in D /\ P[O[k]] = k /\ A[O[k]] = k /\ B[O[k]] = B[k]
      /\ \A k, j \in D : S[k] = NULL => ~ (Before(side, A[k], j) /\ Before(side, j, k))
      /\ \A k, j \in D : O[k] = NULL => ~ (Before(side, k, j) /\ Before(side, j, B[k]))
  BY <1>2 DEF Nodes
<1>7. /\ O[z] # z /\ A[z] # z
      /\ P[z] # NULL => P[z] \in E /\ (S[P[z]] = z \/ O[P[z]] = z) /\ root \in E
      /\ P[z] = NULL <=> z = root
  <2>1. A[z] # z
    BY <1>1, <1>6
  <2>2. O[z] # z
    BY <1>1, <1>2 DEF Nodes
  <2>3. P[z] = NULL <=> z = root
    BY <1>2 DEF Nodes
  <2>4. P[z] # NULL => P[z] \in D /\ P[z] # z /\ (S[P[z]] = z \/ O[P[z]] = z)
    BY <1>2 DEF Nodes
  <2> QED BY <1>5, <2>1, <2>2, <2>3, <2>4
<1>8. ASSUME NEW k \in D PROVE B[k] # z
  <2> SUFFICES ASSUME B[k] = z PROVE FALSE
    OBVIOUS
  <2>1. Before(side, A[z], k)
    BY <1>3 DEF Ancestral
  <2>2. Before(side, k, z)
    BY <1>6
  <2> QED BY <1>6, <2>1, <2>2
<1>9. a \in [E -> E \cup {End(side)}] /\ b \in [E -> E \cup {End(Other(side))}]
  <2>1. ASSUME NEW k \in E PROVE a[k] \in E \cup {End(side)} /\ b[k] \in E \cup {End(Other(side))}
    BY <1>5, <1>7, <1>8
  <2> QED BY <2>1
<1>10. /\ r = IF P[z] = NULL THEN O[z] ELSE root
       /\ \A k \in E : p[k] = IF k = O[z] THEN P[z] ELSE P[k]
       /\ \A k \in E : s[k] = IF k = P[z] /\ S[k] = z THEN O[z] ELSE S[k]
       /\ \A k \in E : o[k] = IF k = P[z] /\ S[k] # z THEN O[z] ELSE O[k]
       /\ \A k \in E : k \in D /\ k # z
  BY DEF Spliced
<1> HIDE DEF a, b
<1>11. Pointers(E, r, p, s, o)
  BY DEF Pointers
<1>12. Intervals(side, E, a, b)
  <2>1. ASSUME NEW k \in E PROVE Before(side, a[k], k) /\ Before(side, k, b[k])
    <3>1. /\ k \in D /\ k \in Nat /\ z \in Nat /\ A[z] \in Nat /\ Before(side, A[z], z)
          /\ Before(side, A[k], k) /\ Before(side, k, B[k])
      BY <1>1, <1>6
    <3>2. A[k] = z => Before(side, A[z], k)
      BY <1>1, <3>1
    <3> QED BY <1>4, <3>1, <3>2
  <2> QED BY <1>9, <2>1 DEF Intervals
<1>13. AtRoot(side, E, r, p, a, b)
  <2>1. P[root] = NULL /\ A[root] = End(side) /\ B[root] = End(Other(side))
    BY <1>5 DEF Shape, AtRoot
  <2>2. CASE P[z] # NULL
    <3>1. r = root /\ root \in E /\ root # O[z]
      <4>1. r = root /\ root \in E
        BY <1>7, <1>10, <2>2
      <4>2. O[z] # NULL => P[O[z]] = z
        BY <1>6
      <4>3. z # NULL
        BY <1>1
      <4> QED BY <1>5, <2>1, <4>1, <4>2, <4>3
    <3>2. A[root] # z
      BY <1>1, <2>1
    <3> QED BY <1>4, <1>5, <1>10, <2>1, <3>1, <3>2 DEF AtRoot
  <2>3. CASE P[z] = NULL /\ O[z] # NULL
    <3>1. O[z] \in E /\ A[O[z]] = z /\ B[O[z]] = B[z] /\ r = O[z] /\ p[O[z]] = NULL
      BY <1>6, <1>7, <1>10, <2>3
    <3> QED BY <1>4, <1>7, <2>1, <2>3, <3>1 DEF AtRoot
  <2>4. CASE P[z] = NULL /\ O[z] = NULL
    <3>1. r = NULL /\ z = root
      BY <1>7, <1>10, <2>4
    <3>2. ASSUME NEW k \in E PROVE FALSE
      <4>1. k \in D /\ k # z /\ k \in Nat /\ z \in Nat
        BY <1>1
      <4>2. ~ (Before(side, A[z], k) /\ Before(side, k, z)) /\ ~ (Before(side, z, k) /\ Before(side, k, B[z]))
        BY <1>6, <2>4, <4>1
      <4>3. Before(side, End(side), k) /\ Before(side, k, End(Other(side)))
        BY KeysAssumption, k \in 1 .. MaxKey DEF Before, End, Other, Sides
      <4> QED BY <1>1, <2>1, <3>1, <4>1, <4>2, <4>3
    <3> QED BY <3>1, <3>2 DEF AtRoot
  <2> QED BY <2>2, <2>3, <2>4
<1>14. NearChild(side, E, p, s, a, b)
  <2> SUFFICES ASSUME NEW k \in E
               PROVE  IF s[k] = NULL
                      THEN \A j \in E : ~ (Before(side, a[k], j) /\ Before(side, j, k))
                      ELSE p[s[k]] = k /\ a[s[k]] = a[k] /\ b[s[k]] = k
    BY DEF NearChild
  <2>0. k \in D /\ k # z /\ k # NULL
    BY <1>1
  <2>1. CASE k = P[z] /\ S[k] = z
    <3>1. s[k] = O[z] /\ A[z] = A[k] /\ B[z] = k /\ A[k] # z /\ a[k] = A[k]
      BY <1>1, <1>4, <1>6, <1>7, <1>10, <2>0, <2>1
    <3>2. CASE O[z] = NULL
      <4>1. ASSUME NEW j \in E, Before(side, A[k], j), Before(side, j, k) PROVE FALSE
        <5>1. j \in D /\ j # z /\ j \in Nat /\ z \in Nat
          BY <1>1
        <5>2. ~ (Before(side, A[z], j) /\ Before(side, j, z)) /\ ~ (Before(side, z, j) /\ Before(side, j, B[z]))
          BY <1>6, <3>2, <5>1
        <5> QED BY <1>1, <3>1, <4>1, <5>1, <5>2
      <4> QED BY <3>1, <3>2, <4>1
    <3>3. CASE O[z] # NULL
      <4>1. O[z] \in E /\ A[O[z]] = z /\ B[O[z]] = B[z]
        BY <1>6, <1>7, <3>3
      <4>2. p[O[z]] = P[z] /\ a[O[z]] = A[z] /\ b[O[z]] = B[z]
        BY <1>4, <1>10, <4>1
      <4> QED BY <2>1, <3>1, <3>3, <4>2
    <3> QED BY <3>2, <3>3
  <2>2. CASE ~ (k = P[z] /\ S[k] = z) /\ S[k] = NULL
    <3>1. s[k] = NULL
      BY <1>10, <2>2
    <3>2. ASSUME NEW j \in E, Before(side, a[k], j), Before(side, j, k) PROVE FALSE
      <4>1. /\ j \in D /\ j # z /\ j \in Nat /\ z \in Nat /\ k \in Nat
            /\ a[k] = IF A[k] = z THEN A[z] ELSE A[k]
        BY <1>1, <1>4
      <4>2. ~ (Before(side, A[z], j) /\ Before(side, j, z)) /\ ~ (Before(side, A[k], j) /\ Before(side, j, k))
        BY <1>6, <2>0, <2>2, <4>1
      <4> QED BY <1>1, <3>2, <4>1, <4>2
    <3> QED BY <3>1, <3>2
  <2>3. CASE ~ (k = P[z] /\ S[k] = z) /\ S[k] # NULL
    <3>1. S[k] \in D /\ P[S[k]] = k /\ A[S[k]] = A[k] /\ B[S[k]] = k
      BY <1>6, <2>0, <2>3
    <3>2. S[k] # z /\ S[k] \in E /\ s[k] = S[k]
      BY <1>10, <2>0, <2>3, <3>1
    <3>3. S[k] # O[z]
      BY <1>6, <2>0, <2>3, <3>1
    <3>4. p[S[k]] = P[S[k]] /\ a[S[k]] = a[k] /\ b[S[k]] = B[S[k]]
      BY ONLY <1>4, <1>10, <3>1, <3>2, <3>3, k \in E
    <3> QED BY <2>3, <3>1, <3>2, <3>4
  <2> QED BY <2>1, <2>2, <2>3
<1>15. FarChild(side, E, p, o, a, b)
  <2> SUFFICES ASSUME NEW k \in E
               PROVE  IF o[k] = NULL
                      THEN \A j \in E : ~ (Before(side, k, j) /\ Before(side, j, b[k]))
                      ELSE p[o[k]] = k /\ a[o[k]] = k /\ b[o[k]] = b[k]
    BY DEF FarChild
  <2>0. k \in D /\ k # z /\ k # NULL
    BY <1>1
  <2>1. CASE k = P[z] /\ S[k] # z
    <3>1. o[k] = O[z] /\ A[z] = k /\ B[z] = B[k] /\ b[k] = B[k]
      BY <1>1, <1>4, <1>6, <1>7, <1>10, <2>0, <2>1
    <3>2. CASE O[z] = NULL
      <4>1. ASSUME NEW j \in E, Before(side, k, j), Before(side, j, B[k]) PROVE FALSE
        <5>1. j \in D /\ j # z /\ j \in Nat /\ z \in Nat
          BY <1>1
        <5>2. ~ (Before(side, A[z], j) /\ Before(side, j, z)) /\ ~ (Before(side, z, j) /\ Before(side, j, B[z]))
          BY <1>6, <3>2, <5>1
        <5> QED BY <1>1, <3>1, <4>1, <5>1, <5>2
      <4> QED BY <3>1, <3>2, <4>1
    <3>3. CASE O[z] # NULL
      <4>1. O[z] \in E /\ A[O[z]] = z /\ B[O[z]] = B[z]
        BY <1>6, <1>7, <3>3
      <4>2. p[O[z]] = P[z] /\ a[O[z]] = A[z] /\ b[O[z]] = B[z]
        BY <1>4, <1>10, <4>1
      <4> QED BY <2>1, <3>1, <3>3, <4>2
    <3> QED BY <3>2, <3>3
  <2>2. CASE ~ (k = P[z] /\ S[k] # z) /\ O[k] = NULL
    <3>1. o[k] = NULL /\ b[k] = B[k]
      BY <1>4, <1>10, <2>2
    <3> QED BY <1>6, <2>0, <2>2, <3>1
  <2>3. CASE ~ (k = P[z] /\ S[k] # z) /\ O[k] # NULL
    <3>1. O[k] \in D /\ P[O[k]] = k /\ A[O[k]] = k /\ B[O[k]] = B[k]
      BY <1>6, <2>0, <2>3
    <3>2. O[k] # z /\ O[k] \in E /\ o[k] = O[k]
      <4>1. S[k] = z => A[z] = A[k] /\ Before(side, A[k], k)
        BY <1>1, <1>6, <2>0
      <4>2. O[k] = z => A[z] = k
        BY <3>1
      <4>3. O[k] # z
        BY <1>1, <1>6, <2>0, <2>3, <3>1, <4>1, <4>2
      <4> QED BY <1>10, <2>3, <3>1, <4>3
    <3>3. O[k] # O[z]
      BY <1>6, <2>0, <2>3, <3>1
    <3>4. p[O[k]] = P[O[k]] /\ a[O[k]] = A[O[k]] /\ b[O[k]] = B[O[k]] /\ b[k] = B[k]
      BY <1>4, <1>10, <2>0, <3>1, <3>2, <3>3
    <3> QED BY <2>3, <3>1, <3>2, <3>4
  <2> QED BY <2>1, <2>2, <2>3
<1>16. Hangs(E, r, p, s, o)
  <2> SUFFICES ASSUME NEW k \in E, k # r PROVE p[k] # NULL /\ (s[p[k]] = k \/ o[p[k]] = k)
    BY DEF Hangs
  <2>0. k \in D /\ k # z /\ k # NULL
    BY <1>1
  <2>1. CASE k = O[z]
    <3>1. P[z] # NULL /\ p[k] = P[z] /\ P[z] \in E
      BY <1>7, <1>10, <2>1
    <3> QED BY <1>10, <2>1, <3>1
  <2>2. CASE k # O[z]
    <3>1. k # root
      BY <1>7, <1>10, <2>0
    <3>2. P[k] # NULL /\ P[k] \in D /\ (S[P[k]] = k \/ O[P[k]] = k)
      BY <1>2, <2>0, <3>1 DEF Nodes
    <3>3. P[k] # z /\ P[k] \in E /\ p[k] = P[k]
      BY <1>10, <2>0, <2>2, <3>2
    <3>4. S[P[k]] = k => s[P[k]] = k
      BY <1>10, <2>0, <3>3
    <3>5. O[P[k]] = k /\ P[k] # P[z] => o[P[k]] = k
      BY <1>10, <3>3
    <3>6. O[P[k]] = k /\ P[k] = P[z] => o[P[k]] = k
      BY <1>7, <1>10, <2>0, <3>2, <3>3
    <3> QED BY <3>2, <3>3, <3>4, <3>5, <3>6
  <2> QED BY <2>1, <2>2
<1> QED BY <1>11, <1>12, <1>13, <1>14, <1>15, <1>16 DEF Shape, a, b

\* The tree after z went and y, from the far side of z, took its place; y's own child
\* O[y] took y's place when y was not a child of z.
Promoted(y, z, root, P, S, O, D, r, p, s, o) ==
  /\ r = IF P[z] = NULL THEN y ELSE root
  /\ \A k \in D \ {z} :
       /\ p[k] = IF k = y THEN P[z]
                 ELSE IF k = O[y] /\ P[y] # z THEN P[y]
                 ELSE IF k = S[z] \/ k = O[z] THEN y ELSE P[k]
       /\ s[k] = IF k = y THEN S[z]
                 ELSE IF k = P[y] THEN O[y]
                 ELSE IF k = P[z] /\ S[k] = z THEN y ELSE S[k]
       /\ o[k] = IF k = y THEN (IF P[y] = z THEN O[y] ELSE O[z])
                 ELSE IF k = P[z] /\ S[k] # z THEN y ELSE O[k]

\* y is the key next to z on the far side, and z has a child on the near one.
Follows(side, y, z, S, A, B) ==
  S[y] = NULL /\ A[y] = z /\ Before(side, y, B[z]) /\ S[z] # NULL

\* The next key y after z takes z's place and interval; intervals that ended at z end
\* at y.
LEMMA PromotionKeepsShape ==
  ASSUME NEW side \in Sides, NEW D \in SUBSET (1 .. MaxKey), NEW z \in D, NEW y \in D, y # z,
         NEW root, NEW P, NEW S, NEW O, NEW A, NEW B, Shape(side, D, root, P, S, O, A, B),
         Follows(side, y, z, S, A, B),
         NEW E, E = D \ {z},
         NEW r \in E \cup {NULL}, NEW p \in [E -> E \cup {NULL}],
         NEW s \in [E -> E \cup {NULL}], NEW o \in [E -> E \cup {NULL}],
         Promoted(y, z, root, P, S, O, D, r, p, s, o)
  PROVE  Shape(side, E, r, p, s, o,
               [k \in E |-> IF k = y THEN A[z] ELSE IF A[k] = z THEN y ELSE A[k]],
               [k \in E |-> IF k = y THEN B[z] ELSE IF B[k] = z THEN y ELSE B[k]])
<1> USE DEF Follows
<1> DEFINE a == [k \in E |-> IF k = y THEN A[z] ELSE IF A[k] = z THEN y ELSE A[k]]
           b == [k \in E |-> IF k = y THEN B[z] ELSE IF B[k] = z THEN y ELSE B[k]]
<1>1. /\ D \subseteq Nat /\ End(side) \in Nat /\ End(Other(side)) \in Nat
      /\ \A u, v, w \in Nat : Before(side, u, v) /\ Before(side, v, w) => Before(side, u, w)
      /\ \A u, v \in Nat : ~ (Before(side, u, v) /\ Before(side, v, u))
      /\ \A u, v \in Nat : Before(side, u, v) \/ Before(side, v, u) \/ u = v
      /\ \A k \in D : k # NULL /\ k # End(side) /\ k # End(Other(side))
  BY BeforeOrders
<1>2. Nodes(side, D, root, P, S, O, A, B)
  BY ShapeOfNodes
<1>4. /\ \A k \in E : a[k] = IF k = y THEN A[z] ELSE IF A[k] = z THEN y ELSE A[k]
      /\ \A k \in E : b[k] = IF k = y THEN B[z] ELSE IF B[k] = z THEN y ELSE B[k]
      /\ y \in E /\ \A k \in E : k \in D /\ k # z
  OBVIOUS
<1>5. /\ A \in [D -> D \cup {End(side)}] /\ B \in [D -> D \cup {End(Other(side))}]
      /\ root \in D /\ root # NULL /\ P[root] = NULL
      /\ A[root] = End(side) /\ B[root] = End(Other(side))
  BY <1>1 DEF Shape, Intervals, Pointers, AtRoot
<1>6. /\ \A k \in D : A[k] \in Nat /\ B[k] \in Nat
      /\ \A k \in D : Before(side, A[k], k) /\ Before(side, k, B[k]) /\ A[k] # k /\ B[k] # k
      /\ \A k \in D : S[k] # NULL => S[k] \in D /\ P[S[k]] = k /\ A[S[k]] = A[k] /\ B[S[k]] = k
      /\ \A k \in D : O[k] # NULL => O[k] \in D /\ P[O[k]] = k /\ A[O[k]] = k /\ B[O[k]] = B[k]
      /\ \A k, j \in D : S[k] = NULL => ~ (Before(side, A[k], j) /\ Before(side, j, k))
      /\ \A k, j \in D : O[k] = NULL => ~ (Before(side, k, j) /\ Before(side, j, B[k]))
  BY <1>2 DEF Nodes
<1>7. /\ O[z] # NULL /\ Before(side, z, y)
      /\ \A k \in D : ~ (Before(side, z, k) /\ Before(side, k, y))
  BY <1>6
<1>8. /\ P[z] # NULL => (P[z] \in E /\ (S[P[z]] = z \/ O[P[z]] = z))
      /\ P[z] = NULL <=> z = root
      /\ P[y] # NULL /\ P[y] \in D /\ P[y] # y
      /\ P[y] # z => (P[y] \in E /\ S[P[y]] = y /\ A[P[y]] = z /\ B[y] = P[y])
      /\ P[y] = z => (O[z] = y /\ B[y] = B[z])
  <2>1. /\ P[z] = NULL <=> z = root
        /\ P[z] # NULL => (P[z] \in E /\ (S[P[z]] = z \/ O[P[z]] = z))
    BY <1>2 DEF Nodes
  <2>2. y # root
    BY <1>1, <1>5
  <2>3. P[y] \in D /\ P[y] # y /\ P[y] # NULL /\ (S[P[y]] = y \/ O[P[y]] = y)
    BY <1>2, <2>2 DEF Nodes
  <2>4. O[P[y]] = y => P[y] = z
    BY <1>1, <1>6, <2>3
  <2>5. P[y] = z => S[z] # y
    BY <1>1, <1>6
  <2>6. P[y] # z => (P[y] \in E /\ S[P[y]] = y /\ A[P[y]] = z /\ B[y] = P[y])
    <3>1. \A k \in D : S[k] # NULL => A[S[k]] = A[k] /\ B[S[k]] = k
      BY <1>6
    <3>2. (P[y] # z => S[P[y]] = y) /\ y # NULL
      BY <1>1, <2>3, <2>4
    <3> QED BY <2>3, <3>1, <3>2
  <2>7. P[y] = z => O[z] = y /\ B[y] = B[z]
    BY <1>1, <1>6, <2>3, <2>5
  <2> QED BY <2>1, <2>3, <2>6, <2>7
<1>9. a \in [E -> E \cup {End(side)}] /\ b \in [E -> E \cup {End(Other(side))}]
  <2>1. ASSUME NEW k \in E PROVE a[k] \in E \cup {End(side)} /\ b[k] \in E \cup {End(Other(side))}
    <3>1. A[k] \in D \cup {End(side)} /\ A[z] \in D \cup {End(side)} /\ A[z] # z
      BY <1>5, <1>6
    <3>2. B[k] \in D \cup {End(Other(side))} /\ B[z] \in D \cup {End(Other(side))} /\ B[z] # z
      BY <1>5, <1>6
    <3> QED BY <1>4, <3>1, <3>2
  <2> QED BY <2>1
<1>10. /\ r = IF P[z] = NULL THEN y ELSE root
       /\ \A k \in E : p[k] = IF k = y THEN P[z]
                               ELSE IF k = O[y] /\ P[y] # z THEN P[y]
                               ELSE IF k = S[z] \/ k = O[z] THEN y ELSE P[k]
       /\ \A k \in E : s[k] = IF k = y THEN S[z]
                               ELSE IF k = P[y] THEN O[y]
                               ELSE IF k = P[z] /\ S[k] = z THEN y ELSE S[k]
       /\ \A k \in E : o[k] = IF k = y THEN (IF P[y] = z THEN O[y] ELSE O[z])
                               ELSE IF k = P[z] /\ S[k] # z THEN y ELSE O[k]
  BY DEF Promoted
<1>11. /\ S[z] \in E /\ S[z] # y /\ A[S[z]] = A[z] /\ B[S[z]] = z /\ P[S[z]] = z
       /\ O[z] \in E /\ A[O[z]] = z /\ B[O[z]] = B[z] /\ P[O[z]] = z
       /\ O[y] # NULL => (O[y] \in E /\ O[y] # y /\ A[O[y]] = y /\ B[O[y]] = B[y] /\ P[O[y]] = y)
  <2>1. S[z] \in D /\ A[S[z]] = A[z] /\ B[S[z]] = z /\ P[S[z]] = z
    BY <1>6
  <2>2. O[z] \in D /\ A[O[z]] = z /\ B[O[z]] = B[z] /\ P[O[z]] = z
    BY <1>6, <1>7
  <2>3. O[y] # NULL => (O[y] \in D /\ A[O[y]] = y /\ B[O[y]] = B[y] /\ P[O[y]] = y)
    BY <1>6
  <2>4. S[z] # z /\ S[z] # y /\ O[z] # z
    BY <1>6, <2>1, <2>2
  <2>5. O[y] = z => A[z] = y
    BY <1>1, <2>3
  <2>6. A[z] # y
    BY <1>1, <1>6, <1>7
  <2> QED BY <1>6, <2>1, <2>2, <2>3, <2>4, <2>5, <2>6
<1> HIDE DEF a, b
<1>12. Intervals(side, E, a, b)
  <2>1. ASSUME NEW k \in E PROVE Before(side, a[k], k) /\ Before(side, k, b[k])
    <3>1. /\ k \in D /\ k \in Nat /\ z \in Nat /\ y \in Nat /\ A[z] \in Nat /\ B[z] \in Nat
          /\ Before(side, A[z], z) /\ Before(side, A[k], k) /\ Before(side, k, B[k])
      BY <1>1, <1>4, <1>6
    <3>2. CASE k = y
      BY <1>1, <1>4, <1>7, <3>1, <3>2
    <3>3. CASE k # y
      <4>1. A[k] = z => Before(side, y, k)
        BY <1>1, <1>7, <3>1, <3>3
      <4>2. B[k] = z => Before(side, k, y)
        BY <1>1, <1>7, <3>1, <3>3
      <4> QED BY <1>4, <3>1, <3>3, <4>1, <4>2
    <3> QED BY <3>2, <3>3
  <2> QED BY <1>9, <2>1 DEF Intervals
<1>13. AtRoot(side, E, r, p, a, b)
  <2>1. CASE P[z] = NULL
    BY <1>1, <1>4, <1>5, <1>8, <1>10, <2>1 DEF AtRoot
  <2>2. CASE P[z] # NULL
    <3>1. r = root /\ root # z /\ root \in E
      BY <1>5, <1>8, <1>10, <2>2
    <3>2. root # y /\ root # S[z] /\ root # O[z] /\ A[root] # z /\ B[root] # z
      BY <1>1, <1>5, <1>8, <1>11
    <3>3. root # O[y]
      BY <1>1, <1>5, <1>11
    <3> QED BY <1>4, <1>5, <1>10, <3>1, <3>2, <3>3 DEF AtRoot
  <2> QED BY <2>1, <2>2
<1>14. NearChild(side, E, p, s, a, b)
  <2> SUFFICES ASSUME NEW k \in E
               PROVE  IF s[k] = NULL
                      THEN \A j \in E : ~ (Before(side, a[k], j) /\ Before(side, j, k))
                      ELSE p[s[k]] = k /\ a[s[k]] = a[k] /\ b[s[k]] = k
    BY DEF NearChild
  <2>0. k \in D /\ k # z /\ k # NULL /\ k \in Nat /\ A[k] # k
    BY <1>1, <1>4, <1>6
  <2>1. CASE k = y
    <3>1. s[y] = S[z] /\ a[y] = A[z]
      BY <1>4, <1>10
    <3>2. S[z] # O[y]
      BY <1>8, <1>11, y # z
    <3>3. p[S[z]] = y /\ a[S[z]] = A[z] /\ b[S[z]] = y
      <4>1. p[S[z]] = y
        BY <1>10, <1>11, <3>2
      <4>2. A[z] # z
        BY <1>6
      <4> QED BY <1>4, <1>11, <4>1, <4>2
    <3> QED BY <2>1, <3>1, <3>3, S[z] # NULL
  <2>2. CASE k # y /\ k = P[y]
    <3>1. P[y] # z /\ s[k] = O[y] /\ A[k] = z /\ a[k] = y /\ B[y] = k
      BY <1>4, <1>8, <1>10, <2>0, <2>2
    <3>2. CASE O[y] = NULL
      BY <1>4, <1>6, <2>2, <3>1, <3>2
    <3>3. CASE O[y] # NULL
      <4>0. /\ O[y] \in E /\ O[y] # y /\ A[O[y]] = y /\ B[O[y]] = B[y] /\ P[O[y]] = y
            /\ B[y] # z
        BY <1>11, <3>1, <3>3
      <4>1. p[O[y]] = P[y] /\ a[O[y]] = y /\ b[O[y]] = B[y]
        BY <1>4, <1>10, <3>1, <4>0
      <4> QED BY <2>2, <3>1, <3>3, <4>1
    <3> QED BY <3>2, <3>3
  <2>3. CASE k # y /\ k # P[y] /\ k = P[z] /\ S[k] = z
    <3>1. s[k] = y /\ A[k] = A[z] /\ B[z] = k /\ A[z] # z
      BY <1>1, <1>6, <1>10, <2>0, <2>3
    <3>2. p[y] = k /\ a[y] = A[k] /\ b[y] = k /\ a[k] = A[k]
      BY <1>4, <1>10, <2>3, <3>1
    <3> QED BY <1>1, <3>1, <3>2
  <2>4. CASE k # y /\ k # P[y] /\ ~ (k = P[z] /\ S[k] = z)
    <3>1. s[k] = S[k] /\ a[k] = IF A[k] = z THEN y ELSE A[k]
      BY <1>4, <1>10, <2>4
    <3>2. CASE S[k] = NULL
      <4>1. ASSUME NEW j \in E, Before(side, a[k], j), Before(side, j, k) PROVE FALSE
        <5>1. j \in D /\ j \in Nat /\ z \in Nat /\ y \in Nat /\ ~ (Before(side, A[k], j) /\ Before(side, j, k))
          BY <1>1, <1>6, <2>0, <3>2
        <5> QED BY <1>1, <1>7, <3>1, <4>1, <5>1
      <4> QED BY <3>1, <3>2, <4>1
    <3>3. CASE S[k] # NULL
      <4>1. S[k] \in D /\ P[S[k]] = k /\ A[S[k]] = A[k] /\ B[S[k]] = k
        BY <1>6, <2>0, <3>3
      <4>2. S[k] # z /\ S[k] # y /\ S[k] \in E
        BY <1>4, <2>4, <4>1
      <4>3. S[k] # O[y] /\ S[k] # S[z] /\ S[k] # O[z]
        BY <1>11, <2>0, <2>4, <3>3, <4>1
      <4>4. p[S[k]] = k /\ a[S[k]] = a[k] /\ b[S[k]] = k
        <5>1. p[S[k]] = k
          BY <1>10, <4>1, <4>2, <4>3
        <5>2. a[S[k]] = a[k]
          BY <1>4, <3>1, <4>1, <4>2
        <5>3. b[S[k]] = k
          BY <1>4, <2>0, <4>1, <4>2
        <5> QED BY <5>1, <5>2, <5>3
      <4> QED BY <3>1, <3>3, <4>4
    <3> QED BY <3>2, <3>3
  <2> QED BY <2>1, <2>2, <2>3, <2>4
<1>15. FarChild(side, E, p, o, a, b)
  <2> SUFFICES ASSUME NEW k \in E
               PROVE  IF o[k] = NULL
                      THEN \A j \in E : ~ (Before(side, k, j) /\ Before(side, j, b[k]))
                      ELSE p[o[k]] = k /\ a[o[k]] = k /\ b[o[k]] = b[k]
    BY DEF FarChild
  <2>0. k \in D /\ k # z /\ k # NULL /\ k \in Nat /\ B[k] # k
    BY <1>1, <1>4, <1>6
  <2>1. CASE k = y /\ P[y] = z /\ O[y] = NULL
    <3>1. o[y] = NULL /\ b[y] = B[z] /\ B[y] = B[z]
      BY <1>4, <1>8, <1>10, <2>1
    <3> QED BY <1>4, <1>6, <2>1, <3>1
  <2>2. CASE k = y /\ P[y] = z /\ O[y] # NULL
    <3>1. o[y] = O[y] /\ b[y] = B[z] /\ B[y] = B[z] /\ B[z] # z
      BY <1>4, <1>6, <1>8, <1>10, <2>2
    <3>2. O[y] # S[z] /\ O[y] # O[z]
      BY <1>11, <2>2, y # z
    <3>3. p[O[y]] = y /\ a[O[y]] = y /\ b[O[y]] = B[z]
      BY <1>4, <1>10, <1>11, <2>2, <3>1, <3>2, y # z
    <3> QED BY <2>2, <3>1, <3>3
  <2>3. CASE k = y /\ P[y] # z
    <3>1. o[y] = O[z] /\ b[y] = B[z] /\ B[z] # z /\ O[z] # y /\ O[z] # O[y]
      BY <1>4, <1>6, <1>8, <1>10, <1>11, <2>3
    <3>2. p[O[z]] = y /\ a[O[z]] = y /\ b[O[z]] = B[z]
      BY <1>4, <1>10, <1>11, <3>1
    <3> QED BY <1>7, <2>3, <3>1, <3>2
  <2>4. CASE k # y /\ k = P[z] /\ S[k] # z
    <3>1. o[k] = y /\ A[z] = k /\ B[z] = B[k] /\ B[z] # z
      <4>1. o[k] = y
        BY <1>10, <2>4
      <4>2. O[k] = z
        BY <1>8, <2>0, <2>4
      <4> QED BY <1>1, <1>6, <2>0, <4>1, <4>2
    <3>2. p[y] = k /\ a[y] = k /\ b[y] = B[k] /\ b[k] = B[k]
      BY <1>4, <1>10, <2>4, <3>1
    <3> QED BY <1>1, <3>1, <3>2
  <2>5. CASE k # y /\ ~ (k = P[z] /\ S[k] # z)
    <3>1. o[k] = O[k] /\ b[k] = IF B[k] = z THEN y ELSE B[k]
      BY <1>4, <1>10, <2>5
    <3>2. CASE O[k] = NULL
      <4>1. ASSUME NEW j \in E, Before(side, k, j), Before(side, j, b[k]) PROVE FALSE
        <5>1. j \in D /\ j # z /\ j \in Nat /\ z \in Nat /\ y \in Nat /\ ~ (Before(side, k, j) /\ Before(side, j, B[k]))
          BY <1>1, <1>4, <1>6, <2>0, <3>2
        <5> QED BY <1>1, <1>7, <3>1, <4>1, <5>1
      <4> QED BY <3>1, <3>2, <4>1
    <3>3. CASE O[k] # NULL
      <4>1. O[k] \in D /\ P[O[k]] = k /\ A[O[k]] = k /\ B[O[k]] = B[k]
        BY <1>6, <2>0, <3>3
      <4>2. O[k] # z
        <5>1. S[k] = z => A[z] = A[k]
          BY <1>1, <1>6, <2>0
        <5> QED BY <1>6, <2>0, <2>5, <4>1, <5>1
      <4>3. O[k] # y
        BY <2>0, <4>1, A[y] = z
      <4>4. O[k] # O[y] /\ O[k] # S[z] /\ O[k] # O[z] /\ O[k] \in E
        BY <1>4, <1>11, <2>0, <2>5, <3>3, <4>1, <4>2
      <4>5. p[O[k]] = k /\ a[O[k]] = k /\ b[O[k]] = b[k]
        <5>1. p[O[k]] = k
          BY <1>10, <4>1, <4>3, <4>4
        <5>2. a[O[k]] = k
          BY <1>4, <2>0, <4>1, <4>3, <4>4
        <5>3. b[O[k]] = b[k]
          BY <1>4, <3>1, <4>1, <4>3, <4>4
        <5> QED BY <5>1, <5>2, <5>3
      <4> QED BY <3>1, <3>3, <4>5
    <3> QED BY <3>2, <3>3
  <2> QED BY <2>1, <2>2, <2>3, <2>4, <2>5
<1>16. Hangs(E, r, p, s, o)
  <2> SUFFICES ASSUME NEW k \in E, k # r PROVE p[k] # NULL /\ (s[p[k]] = k \/ o[p[k]] = k)
    BY DEF Hangs
  <2>0. k \in D /\ k # z /\ k # NULL /\ y # NULL
    BY <1>1, <1>4
  <2>1. CASE k = y
    <3>1. P[z] # NULL /\ p[y] = P[z] /\ P[z] \in E /\ P[z] # y
      <4>1. P[z] # NULL /\ p[y] = P[z] /\ P[z] \in E
        BY <1>4, <1>8, <1>10, <2>1
      <4>2. P[z] = y => A[z] = y \/ B[z] = y
        BY <1>1, <1>6, <1>8, <4>1
      <4> QED BY <1>1, <1>6, <1>7, <4>1, <4>2
    <3>2. P[z] = P[y] => S[P[z]] # z
      <4> SUFFICES ASSUME P[z] = P[y] PROVE S[P[z]] # z
        OBVIOUS
      <4>1. P[y] # z
        BY <1>4, <3>1
      <4> QED BY <1>8, <4>1, y # z
    <3>3. P[z] = P[y] => FALSE
      <4>1. P[z] = P[y] => A[z] = P[y] /\ A[P[y]] = z
        BY <1>1, <1>4, <1>6, <1>8, <3>1, <3>2
      <4>2. Before(side, A[P[y]], P[y]) /\ Before(side, A[z], z) /\ z \in Nat /\ P[y] \in Nat
        BY <1>1, <1>6, <1>8
      <4> QED BY <1>1, <4>1, <4>2
    <3>4. CASE S[P[z]] = z
      <4>1. s[P[z]] = y
        BY <1>10, <3>1, <3>3, <3>4
      <4> QED BY <2>1, <3>1, <4>1
    <3>5. CASE S[P[z]] # z
      <4>1. o[P[z]] = y
        BY <1>10, <3>1, <3>5
      <4> QED BY <2>1, <3>1, <4>1
    <3> QED BY <3>4, <3>5
  <2>2. CASE k # y /\ k = O[y] /\ P[y] # z
    BY <1>8, <1>10, <2>0, <2>2
  <2>3. CASE k # y /\ ~ (k = O[y] /\ P[y] # z) /\ (k = S[z] \/ k = O[z])
    <3>1. p[k] = y /\ s[y] = S[z]
      BY <1>4, <1>10, <2>3
    <3>2. k = O[z] => P[y] # z /\ o[y] = O[z]
      BY <1>4, <1>8, <1>10, <2>3
    <3> QED BY <2>0, <2>3, <3>1, <3>2
  <2>4. CASE k # y /\ ~ (k = O[y] /\ P[y] # z) /\ k # S[z] /\ k # O[z]
    <3>1. p[k] = P[k] /\ k # root
      BY <1>8, <1>10, <2>0, <2>4
    <3>2. P[k] # NULL /\ P[k] \in D /\ (S[P[k]] = k \/ O[P[k]] = k)
      BY <1>2, <2>0, <3>1 DEF Nodes
    <3>3. P[k] \in E
      BY <2>4, <3>2
    <3>4. CASE P[k] = y
      <4>1. O[y] = k /\ P[y] = z
        BY <2>0, <2>4, <3>2, <3>4, S[y] = NULL
      <4> QED BY <1>4, <1>10, <2>0, <3>1, <3>4, <4>1
    <3>5. CASE P[k] # y /\ S[P[k]] = k
      <4>1. P[k] # P[y]
        BY <1>8, <2>4, <3>3, <3>5, <1>4
      <4>2. s[P[k]] = k
        BY <1>10, <2>0, <3>3, <3>5, <4>1
      <4> QED BY <3>1, <3>2, <4>2
    <3>6. CASE P[k] # y /\ O[P[k]] = k
      <4>1. P[k] = P[z] => S[P[k]] = z
        BY <1>8, <2>0, <3>2, <3>6
      <4>2. o[P[k]] = k
        BY <1>10, <3>3, <3>6, <4>1
      <4> QED BY <3>1, <3>2, <4>2
    <3> QED BY <3>2, <3>4, <3>5, <3>6
  <2> QED BY <2>1, <2>2, <2>3, <2>4
<1>17. Pointers(E, r, p, s, o)
  BY DEF Pointers
<1> QED BY <1>12, <1>13, <1>14, <1>15, <1>16, <1>17 DEF Shape, a, b

(***************************************************************************)
(* The same for the trees of Stree: what its operators do to the pointers. *)
(***************************************************************************)
NodesOn(D) ==
  [left : D \cup {NULL}, right : D \cup {NULL}, parent : D \cup {NULL}, record : Records]

Trees(D) == [root : D \cup {NULL}, node_count : Nat, node : [D -> NodesOn(D)]]

Kids(t, side) == [x \in DOMAIN t.node |-> t.node[x][side]]
Parents(t)    == [x \in DOMAIN t.node |-> t.node[x].parent]

ShapeOf(side, t, A, B) ==
  Shape(side, DOMAIN t.node, t.root, Parents(t), Kids(t, side), Kids(t, Other(side)), A, B)

\* Both trees hold the same records.
SameRecords(t, g) ==
  /\ g.node_count = t.node_count
  /\ DOMAIN g.node = DOMAIN t.node /\ \A x \in DOMAIN t.node : g.node[x].record = t.node[x].record

\* A shape seen from one side is a shape seen from the other.
LEMMA Mirror ==
  ASSUME NEW side \in Sides, NEW t, NEW A, NEW B, DOMAIN t.node \in SUBSET (1 .. MaxKey),
         ShapeOf(side, t, A, B)
  PROVE  ShapeOf(Other(side), t, B, A)
<1> DEFINE D == DOMAIN t.node
           P == Parents(t)
           S == Kids(t, side)
           O == Kids(t, Other(side))
<1>1. /\ Other(side) \in Sides /\ Other(Other(side)) = side
      /\ \A x, y \in Nat : Before(Other(side), x, y) <=> Before(side, y, x)
      /\ End(side) \in Nat /\ End(Other(side)) \in Nat /\ D \subseteq Nat
  BY BeforeOrders
<1>2. Shape(side, D, t.root, P, S, O, A, B)
  BY DEF ShapeOf
<1>3. Nodes(side, D, t.root, P, S, O, A, B)
  <2> HIDE DEF D, P, S, O
  <2>1. D \in SUBSET (1 .. MaxKey)
    BY DEF D
  <2> QED BY <1>2, <2>1, ShapeOfNodes
<1> HIDE DEF D, P, S, O
<1>4. \A x \in D : A[x] \in Nat /\ B[x] \in Nat /\ x \in Nat
  BY <1>3 DEF Nodes
<1>5. Shape(Other(side), D, t.root, P, O, S, B, A)
  <2>1. Pointers(D, t.root, P, O, S) /\ Hangs(D, t.root, P, O, S)
    BY <1>2 DEF Shape, Pointers, Hangs
  <2>2. Intervals(Other(side), D, B, A)
    BY <1>1, <1>2, <1>4 DEF Shape, Intervals
  <2>3. AtRoot(Other(side), D, t.root, P, B, A)
    BY <1>1, <1>2 DEF Shape, AtRoot
  <2>4. NearChild(Other(side), D, P, O, B, A)
    BY <1>1, <1>2, <1>4 DEF Shape, NearChild, FarChild
  <2>5. FarChild(Other(side), D, P, S, B, A)
    BY <1>1, <1>2, <1>4 DEF Shape, NearChild, FarChild
  <2> QED BY <2>1, <2>2, <2>3, <2>4, <2>5 DEF Shape
<1> QED BY <1>1, <1>5 DEF ShapeOf, D, P, S, O

\* g is t after v took u's place below the parent q, or as the root.
HungAt(D, t, q, u, v, g) ==
  /\ g \in Trees(D) /\ g.node_count = t.node_count
  /\ g.root = IF q = NULL THEN v ELSE t.root
  /\ \A z \in D :
       /\ g.node[z].parent = t.node[z].parent /\ g.node[z].record = t.node[z].record
       /\ g.node[z].left = IF z = q /\ t.node[z].left = u THEN v ELSE t.node[z].left
       /\ g.node[z].right = IF z = q /\ t.node[z].left # u THEN v ELSE t.node[z].right

\* Hanging a node in the place of another.
LEMMA HangEffect ==
  ASSUME NEW D, NULL \notin D, NEW t \in Trees(D), NEW u \in D, NEW v \in D \cup {NULL}
  PROVE  HungAt(D, t, parent(t, u), u, v, Hang(t, u, v))
<1> USE DEF Trees, NodesOn, HungAt
<1>1. CASE parent(t, u) = NULL
  BY <1>1 DEF Hang
<1>2. CASE parent(t, u) # NULL /\ t.node[parent(t, u)].left = u
  <2>1. parent(t, u) \in D /\ Side(t, u) = "left"
    BY <1>2 DEF Side, parent
  <2>2. Hang(t, u, v) = [t EXCEPT !.node[parent(t, u)].left = v]
    BY <1>2, <2>1 DEF Hang
  <2> HIDE DEF parent
  <2> QED BY <1>2, <2>1, <2>2
<1>3. CASE parent(t, u) # NULL /\ t.node[parent(t, u)].left # u
  <2>1. parent(t, u) \in D /\ Side(t, u) = "right"
    BY <1>3 DEF Side, parent
  <2>2. Hang(t, u, v) = [t EXCEPT !.node[parent(t, u)].right = v]
    BY <1>3, <2>1 DEF Hang
  <2> HIDE DEF parent
  <2> QED BY <1>3, <2>1, <2>2
<1> QED BY <1>1, <1>2, <1>3

\* g is t with q as the parent of x.
Adopted(D, t, x, q, g) ==
  /\ g \in Trees(D) /\ g.node_count = t.node_count /\ g.root = t.root
  /\ \A z \in D :
       /\ g.node[z].left = t.node[z].left /\ g.node[z].right = t.node[z].right
       /\ g.node[z].record = t.node[z].record
       /\ g.node[z].parent = IF z = x THEN q ELSE t.node[z].parent

\* Setting one parent pointer changes no other.
LEMMA SetParentEffect ==
  ASSUME NEW D, NULL \notin D, NEW t \in Trees(D), NEW x \in D \cup {NULL}, NEW q \in D \cup {NULL}
  PROVE  Adopted(D, t, x, q, SetParent(t, x, q))
BY DEF SetParent, Trees, NodesOn, Adopted

\* g is t with n as the node x.
Changed(D, t, x, n, g) ==
  /\ g \in Trees(D) /\ g.node_count = t.node_count /\ g.root = t.root
  /\ \A z \in D : g.node[z] = IF z = x THEN n ELSE t.node[z]

\* Changing one node changes no other.
LEMMA ChangeEffect ==
  ASSUME NEW D, NEW t \in Trees(D), NEW x \in D, NEW n \in NodesOn(D)
  PROVE  Changed(D, t, x, n, [t EXCEPT !.node[x] = n])
<1> DEFINE g == [t EXCEPT !.node[x] = n]
<1>1. g.node = [t.node EXCEPT ![x] = n] /\ g.node_count = t.node_count /\ g.root = t.root
  BY DEF Trees
<1>2. g.node \in [D -> NodesOn(D)] /\ \A z \in D : g.node[z] = IF z = x THEN n ELSE t.node[z]
  BY <1>1 DEF Trees
<1>3. g \in Trees(D)
  BY <1>2 DEF Trees
<1> QED BY <1>1, <1>2, <1>3 DEF Changed

\* r is the node n with v as the child on the side and q as the parent.
Rewired(D, n, side, v, q, r) ==
  /\ r \in NodesOn(D) /\ r[side] = v /\ r[Other(side)] = n[Other(side)]
  /\ r.parent = q /\ r.record = n.record

\* Rewiring one side of a node keeps the other.
LEMMA FieldEffect ==
  ASSUME NEW D, NEW n \in NodesOn(D), NEW side \in Sides,
         NEW v \in D \cup {NULL}, NEW w \in D \cup {NULL}
  PROVE  /\ Rewired(D, n, side, v, n.parent, [n EXCEPT ![side] = v])
         /\ Rewired(D, n, side, v, w, [n EXCEPT ![side] = v, !.parent = w])
<1> USE DEF Rewired
<1>1. CASE side = "left"
  BY <1>1 DEF NodesOn, Other
<1>2. CASE side = "right"
  BY <1>2 DEF NodesOn, Other
<1> QED BY <1>1, <1>2 DEF Sides

\* rotate is the rotation of the pointers.
LEMMA RotateEffect ==
  ASSUME NEW side \in Sides, NEW D \in SUBSET (1 .. MaxKey), NEW t \in Trees(D), NEW x \in D,
         NEW A, NEW B, ShapeOf(side, t, A, B), t.node[x][side] # NULL,
         NEW g, g = rotate(t, x, side)
  PROVE  /\ g \in Trees(D) /\ SameRecords(t, g)
         /\ Rotated(x, t.root, Parents(t), Kids(t, side), Kids(t, Other(side)), D,
                    g.root, Parents(g), Kids(g, side), Kids(g, Other(side)))
<1> DEFINE y   == t.node[x][side]
           mid == t.node[y][Other(side)]
           q   == parent(t, x)
           h   == Hang(t, x, y)
           i   == SetParent(h, mid, x)
           j   == SetParent(i, y, q)
<1>1. DOMAIN t.node = D /\ NULL \notin D
  BY BeforeOrders DEF Trees
<1>2. Shape(side, D, t.root, Parents(t), Kids(t, side), Kids(t, Other(side)), A, B)
  BY <1>1 DEF ShapeOf
<1>3. Other(side) \in Sides /\ Other(side) # side
  BY BeforeOrders
<1>4. /\ \A z \in D : t.node[z] \in NodesOn(D)
      /\ \A z \in D : Parents(t)[z] = t.node[z].parent
      /\ \A z \in D : Kids(t, side)[z] = t.node[z][side]
      /\ \A z \in D : Kids(t, Other(side))[z] = t.node[z][Other(side)]
  BY <1>1 DEF Parents, Kids, Trees
<1>5. /\ y \in D /\ y # x /\ mid \in D \cup {NULL} /\ mid # x /\ mid # y
      /\ q \in D \cup {NULL} /\ q # x /\ q # y
      /\ q # NULL => /\ t.node[q].left = x \/ t.node[q].right = x
                     /\ t.node[q].left # t.node[q].right
  <2>1. Kids(t, side)[x] = y /\ Parents(t)[x] = q /\ Kids(t, side)[x] # NULL
    BY <1>4 DEF parent
  <2> DEFINE P == Parents(t)
             S == Kids(t, side)
             O == Kids(t, Other(side))
  <2> HIDE DEF P, S, O, y, mid, q
  <2>s. Sites(x, D, P, S, O, A, B)
    BY <1>2, <2>1, RotationSites DEF P, S, O
  <2>2. /\ y \in D /\ y # x /\ O[y] # x /\ O[y] # y /\ O[y] \in D \cup {NULL}
        /\ q \in D \cup {NULL} /\ q # x /\ q # y
        /\ q # NULL => (S[q] = x \/ O[q] = x) /\ S[q] # O[q]
    <3>1. S[x] = y /\ P[x] = q
      BY <2>1 DEF S, P
    <3> QED BY <2>s, <3>1 DEF Sites
  <2>3. mid = O[y]
    BY <1>4, <2>2 DEF mid, O
  <2>4. q # NULL => S[q] = t.node[q][side] /\ O[q] = t.node[q][Other(side)]
    BY <1>4, <2>2 DEF S, O
  <2> QED BY <2>2, <2>3, <2>4 DEF Sides, Other
<1> HIDE DEF y, mid, q
<1>8. HungAt(D, t, q, x, y, h)
  BY <1>1, <1>5, HangEffect DEF q
<1>9. Adopted(D, h, mid, x, i)
  BY <1>1, <1>5, <1>8, SetParentEffect DEF HungAt
<1>10. Adopted(D, i, y, q, j)
  <2>1. i \in Trees(D)
    BY <1>9 DEF Adopted
  <2> QED BY <1>1, <1>5, <2>1, SetParentEffect
<1>f. /\ j \in Trees(D) /\ j.node_count = t.node_count
      /\ j.root = IF q = NULL THEN y ELSE t.root
      /\ \A z \in D : j.node[z].left = IF z = q /\ t.node[z].left = x THEN y ELSE t.node[z].left
      /\ \A z \in D : j.node[z].right = IF z = q /\ t.node[z].left # x THEN y ELSE t.node[z].right
      /\ \A z \in D : j.node[z].parent = IF z = y THEN q ELSE IF z = mid THEN x ELSE t.node[z].parent
      /\ \A z \in D : j.node[z].record = t.node[z].record
  <2> HIDE DEF h, i, j
  <2> QED BY <1>5, <1>8, <1>9, <1>10 DEF HungAt, Adopted
<1>11. g = [j EXCEPT !.node[x] = [@ EXCEPT ![side] = mid, !.parent = y],
                     !.node[y][Other(side)] = x]
  BY DEF rotate, h, i, j, y, mid, q
<1> HIDE DEF h, i, j
<1>12. /\ j.node[x] \in NodesOn(D)
       /\ \A z \in D : z # x => j.node[z] \in NodesOn(D)
  BY <1>f DEF Trees
<1> DEFINE n == [j.node[x] EXCEPT ![side] = mid, !.parent = y]
           e == [j EXCEPT !.node[x] = n]
           m == [e.node[y] EXCEPT ![Other(side)] = x]
<1>13. /\ n \in NodesOn(D) /\ n[side] = mid /\ n[Other(side)] = j.node[x][Other(side)]
       /\ n.parent = y /\ n.record = j.node[x].record
  <2>1. Rewired(D, j.node[x], side, mid, y, n)
    BY <1>5, <1>12, FieldEffect
  <2> QED BY <2>1 DEF Rewired
<1>14. Changed(D, j, x, n, e)
  <2> HIDE DEF n
  <2> QED BY <1>f, <1>13, ChangeEffect
<1>15. e.node[y] = j.node[y] /\ e \in Trees(D)
  <2> HIDE DEF e
  <2> QED BY <1>5, <1>14 DEF Changed
<1>16. /\ m \in NodesOn(D) /\ m[Other(side)] = x /\ m[side] = j.node[y][side]
       /\ m.parent = j.node[y].parent /\ m.record = j.node[y].record
  <2> HIDE DEF e
  <2>1. Other(Other(side)) = side /\ e.node[y] \in NodesOn(D)
    BY <1>5, <1>12, <1>15, BeforeOrders
  <2>2. Rewired(D, e.node[y], Other(side), x, e.node[y].parent, m)
    BY <1>3, <2>1, FieldEffect
  <2> QED BY <1>15, <2>1, <2>2 DEF Rewired
<1>17. g = [e EXCEPT !.node[y] = m]
  <2>1. e.node[y] = j.node[y]
    BY <1>15
  <2> QED BY <1>11
<1> HIDE DEF n, e, m
<1>18. Changed(D, e, y, m, g)
  BY <1>5, <1>15, <1>16, <1>17, ChangeEffect
<1>19. /\ g \in Trees(D) /\ g.node_count = t.node_count /\ g.root = j.root
       /\ \A z \in D : g.node[z] = IF z = y THEN m ELSE IF z = x THEN n ELSE j.node[z]
  BY <1>5, <1>f, <1>14, <1>18 DEF Changed
<1>20. /\ \A z \in D : g.node[z][side] = IF z = x THEN mid ELSE j.node[z][side]
       /\ \A z \in D : g.node[z][Other(side)] = IF z = y THEN x ELSE j.node[z][Other(side)]
       /\ \A z \in D : g.node[z].parent = IF z = x THEN y ELSE j.node[z].parent
       /\ \A z \in D : g.node[z].record = t.node[z].record
  BY <1>5, <1>f, <1>13, <1>16, <1>19
<1>21. /\ \A z \in D : j.node[z][side] = IF z = q /\ t.node[z][side] = x THEN y ELSE t.node[z][side]
       /\ \A z \in D : j.node[z][Other(side)] =
            IF z = q /\ t.node[z][side] # x THEN y ELSE t.node[z][Other(side)]
  BY <1>1, <1>5, <1>f DEF Sides, Other
<1>22. DOMAIN g.node = D
  BY <1>19 DEF Trees
<1>23. /\ \A z \in D : Parents(g)[z] = g.node[z].parent
       /\ \A z \in D : Kids(g, side)[z] = g.node[z][side]
       /\ \A z \in D : Kids(g, Other(side))[z] = g.node[z][Other(side)]
  BY <1>22 DEF Parents, Kids
<1>24. Rotated(x, t.root, Parents(t), Kids(t, side), Kids(t, Other(side)), D,
               g.root, Parents(g), Kids(g, side), Kids(g, Other(side)))
  <2>1. Kids(t, side)[x] = y /\ Kids(t, Other(side))[y] = mid /\ Parents(t)[x] = q
    BY <1>4, <1>5 DEF y, mid, q, parent
  <2>2. g.root = IF q = NULL THEN y ELSE t.root
    BY <1>f, <1>19
  <2>3. \A z \in D : Parents(g)[z] = IF z = x THEN y ELSE IF z = y THEN q
                                   ELSE IF z = mid THEN x ELSE Parents(t)[z]
    BY <1>4, <1>5, <1>f, <1>20, <1>23
  <2>4. \A z \in D : Kids(g, side)[z] = IF z = x THEN mid
                                      ELSE IF q = z /\ Kids(t, side)[z] = x THEN y ELSE Kids(t, side)[z]
    BY <1>4, <1>5, <1>20, <1>21, <1>23
  <2>5. \A z \in D : Kids(g, Other(side))[z] =
          IF z = y THEN x
          ELSE IF q = z /\ Kids(t, side)[z] # x THEN y ELSE Kids(t, Other(side))[z]
    BY <1>4, <1>5, <1>20, <1>21, <1>23
  <2> QED BY <2>1, <2>2, <2>3, <2>4, <2>5 DEF Rotated
<1> QED BY <1>1, <1>19, <1>20, <1>22, <1>24 DEF SameRecords

\* A rotation of the tree keeps the shape and the records.
LEMMA RotateKeepsShape ==
  ASSUME NEW side \in Sides, NEW D \in SUBSET (1 .. MaxKey), NEW t \in Trees(D), NEW x \in D,
         NEW A, NEW B, ShapeOf(side, t, A, B), NEW y, y = t.node[x][side], y # NULL,
         NEW g, g = rotate(t, x, side)
  PROVE  /\ g \in Trees(D) /\ SameRecords(t, g)
         /\ ShapeOf(side, g, [A EXCEPT ![x] = y], [B EXCEPT ![y] = B[x]])
<1> DEFINE P == Parents(t)
           S == Kids(t, side)
           O == Kids(t, Other(side))
           p == Parents(g)
           s == Kids(g, side)
           o == Kids(g, Other(side))
<1>1. /\ g \in Trees(D) /\ SameRecords(t, g)
      /\ Rotated(x, t.root, P, S, O, D, g.root, p, s, o)
  BY RotateEffect
<1>2. DOMAIN t.node = D /\ DOMAIN g.node = D
  BY <1>1 DEF Trees
<1>3. Shape(side, D, t.root, P, S, O, A, B) /\ S[x] = y
  BY <1>2 DEF ShapeOf, Kids
<1>4. Other(side) \in Sides
  BY BeforeOrders
<1>5. p \in [D -> D \cup {NULL}] /\ s \in [D -> D \cup {NULL}] /\ o \in [D -> D \cup {NULL}]
  BY <1>1, <1>2, <1>4 DEF Parents, Kids, Trees, NodesOn, Sides
<1> HIDE DEF P, S, O, p, s, o
<1>6. Shape(side, D, g.root, p, s, o, [A EXCEPT ![x] = S[x]], [B EXCEPT ![S[x]] = B[x]])
  BY <1>1, <1>3, <1>5, RotationKeepsShape
<1> QED BY <1>1, <1>2, <1>3, <1>6 DEF ShapeOf, p, s, o

\* g is a search tree with the records of t; x has a wider interval in it, and of the
\* other nodes only q has a new one.
Wider(D, x, q, t, lo, hi, g, lo2, hi2) ==
  /\ g \in Trees(D) /\ SameRecords(t, g) /\ ShapeOf("left", g, lo2, hi2)
  /\ hi2[x] - lo2[x] > hi[x] - lo[x]
  /\ \A z \in D \ {x, q} : lo2[z] = lo[z] /\ hi2[z] = hi[z]

\* A shape as the search sees it.
LEMMA LeftNodes ==
  ASSUME NEW D \in SUBSET (1 .. MaxKey), NEW t \in Trees(D), NEW lo, NEW hi,
         ShapeOf("left", t, lo, hi)
  PROVE  /\ Nodes("left", D, t.root, Parents(t), Kids(t, "left"), Kids(t, "right"), lo, hi)
         /\ lo \in [D -> D \cup {0}] /\ hi \in [D -> D \cup {MaxKey + 1}]
         /\ \A x \in D : /\ Parents(t)[x] = t.node[x].parent
                         /\ Kids(t, "left")[x] = t.node[x].left
                         /\ Kids(t, "right")[x] = t.node[x].right
<1>1. DOMAIN t.node = D
  BY DEF Trees
<1>2. Shape("left", D, t.root, Parents(t), Kids(t, "left"), Kids(t, "right"), lo, hi)
  BY <1>1 DEF ShapeOf, Other
<1>3. Nodes("left", D, t.root, Parents(t), Kids(t, "left"), Kids(t, "right"), lo, hi)
  <2> "left" \in Sides
    BY DEF Sides
  <2> QED BY <1>2, ShapeOfNodes
<1>4. lo \in [D -> D \cup {0}] /\ hi \in [D -> D \cup {MaxKey + 1}]
  BY <1>2 DEF Shape, Intervals, End, Other
<1>5. \A x \in D : /\ Parents(t)[x] = t.node[x].parent
                  /\ Kids(t, "left")[x] = t.node[x].left
                  /\ Kids(t, "right")[x] = t.node[x].right
  BY <1>1 DEF Parents, Kids
<1> QED BY <1>3, <1>4, <1>5

\* A rotation of a node about its child x widens x's interval.
LEMMA RotateWidens ==
  ASSUME NEW side \in Sides, NEW D \in SUBSET (1 .. MaxKey), NEW t \in Trees(D),
         NEW x \in D, NEW q \in D, t.node[q][side] = x,
         NEW lo, NEW hi, ShapeOf("left", t, lo, hi), NEW g, g = rotate(t, q, side)
  PROVE  \E lo2, hi2 : Wider(D, x, q, t, lo, hi, g, lo2, hi2)
<1>1. Nodes("left", D, t.root, Parents(t), Kids(t, "left"), Kids(t, "right"), lo, hi)
  BY LeftNodes
<1>2. lo \in [D -> D \cup {0}] /\ hi \in [D -> D \cup {MaxKey + 1}]
  BY LeftNodes
<1>3. Kids(t, "left")[q] = t.node[q].left /\ Kids(t, "right")[q] = t.node[q].right
  BY LeftNodes
<1>4. x # NULL /\ DOMAIN t.node = D
  BY BeforeOrders DEF Trees
<1>5. /\ lo[x] \in Nat /\ hi[x] \in Nat /\ lo[q] \in Nat /\ hi[q] \in Nat
      /\ lo[q] < q /\ q < hi[q] /\ lo[x] < hi[x] /\ q \in Nat
  BY <1>1 DEF Nodes, Before
<1>6. CASE side = "left"
  <2>1. t.node[q].left = x /\ lo[x] = lo[q] /\ hi[x] = q /\ x # q
    <3>1. \A z \in D : LET c == Kids(t, "left")[z]
                       IN  c # NULL => lo[c] = lo[z] /\ hi[c] = z /\ c # z
      BY <1>1 DEF Nodes
    <3> QED BY <1>3, <1>4, <1>6, <3>1
  <2> DEFINE lo2 == [lo EXCEPT ![q] = x]
             hi2 == [hi EXCEPT ![x] = hi[q]]
  <2>2. g \in Trees(D) /\ SameRecords(t, g) /\ ShapeOf("left", g, lo2, hi2)
    BY <1>4, <1>6, RotateKeepsShape
  <2>3. /\ lo2[x] = lo[x] /\ hi2[x] = hi[q]
        /\ \A z \in D \ {x, q} : lo2[z] = lo[z] /\ hi2[z] = hi[z]
    BY <1>2, <2>1
  <2> HIDE DEF lo2, hi2
  <2>4. hi2[x] - lo2[x] > hi[x] - lo[x]
    BY <1>5, <2>1, <2>3
  <2> QED BY <2>2, <2>3, <2>4 DEF Wider
<1>7. CASE side = "right"
  <2>1. t.node[q].right = x /\ lo[x] = q /\ hi[x] = hi[q] /\ x # q
    <3>1. \A z \in D : LET c == Kids(t, "right")[z]
                       IN  c # NULL => lo[c] = z /\ hi[c] = hi[z] /\ c # z
      BY <1>1 DEF Nodes
    <3> QED BY <1>3, <1>4, <1>7, <3>1
  <2> DEFINE hi2 == [hi EXCEPT ![q] = x]
             lo2 == [lo EXCEPT ![x] = lo[q]]
  <2>2. "left" \in Sides /\ "right" \in Sides /\ Other("left") = "right" /\ Other("right") = "left"
    BY DEF Sides, Other
  <2>3. ShapeOf("right", t, hi, lo)
    BY <1>4, <2>2, Mirror
  <2>4. g \in Trees(D) /\ SameRecords(t, g) /\ ShapeOf("right", g, hi2, lo2)
    BY <1>4, <1>7, <2>3, RotateKeepsShape
  <2>5. DOMAIN g.node = D
    BY <2>4 DEF Trees
  <2>6. ShapeOf("left", g, lo2, hi2)
    <3> HIDE DEF lo2, hi2
    <3> QED BY <2>2, <2>4, <2>5, Mirror
  <2>7. /\ hi2[x] = hi[x] /\ lo2[x] = lo[q]
        /\ \A z \in D \ {x, q} : lo2[z] = lo[z] /\ hi2[z] = hi[z]
    BY <1>2, <2>1
  <2> HIDE DEF lo2, hi2
  <2>8. hi2[x] - lo2[x] > hi[x] - lo[x]
    BY <1>5, <2>1, <2>7
  <2>9. Wider(D, x, q, t, lo, hi, g, lo2, hi2)
    BY <2>4, <2>6, <2>7, <2>8 DEF Wider
  <2> QED BY <2>9
<1> QED BY <1>6, <1>7 DEF Sides

\* What a rotation of q about its child x leaves of the links around them.
Linked(side, t, q, x, g) ==
  /\ g.node[x][side] = t.node[x][side]
  /\ parent(t, q) # x /\ parent(t, q) # q /\ x # q
  /\ parent(t, q) # NULL /\ t.node[parent(t, q)][Other(side)] = q
     => g.node[parent(t, q)][Other(side)] = x

\* The rotated child keeps its own child on the side and hangs where its parent did.
LEMMA RotateKeepsLinks ==
  ASSUME NEW side \in Sides, NEW D \in SUBSET (1 .. MaxKey), NEW t \in Trees(D),
         NEW q \in D, NEW x \in D, t.node[q][side] = x,
         NEW lo, NEW hi, ShapeOf("left", t, lo, hi), NEW g, g = rotate(t, q, side)
  PROVE  Linked(side, t, q, x, g)
<1>1. x # NULL /\ DOMAIN t.node = D
  BY BeforeOrders DEF Trees
<1>2. \E A, B : ShapeOf(side, t, A, B)
  <2>1. CASE side = "left"
    BY <2>1
  <2>2. CASE side = "right"
    <3>1. "left" \in Sides /\ Other("left") = "right"
      BY DEF Sides, Other
    <3>2. ShapeOf("right", t, hi, lo)
      BY <1>1, <3>1, Mirror
    <3> QED BY <2>2, <3>2
  <2> QED BY <2>1, <2>2 DEF Sides
<1>3. PICK A, B : ShapeOf(side, t, A, B)
  BY <1>2
<1> DEFINE P == Parents(t)
           S == Kids(t, side)
           O == Kids(t, Other(side))
           s == Kids(g, side)
           o == Kids(g, Other(side))
<1>4. /\ g \in Trees(D) /\ Rotated(q, t.root, P, S, O, D, g.root, Parents(g), s, o)
  BY <1>1, <1>3, RotateEffect
<1>5. DOMAIN g.node = D
  BY <1>4 DEF Trees
<1>6. /\ \A z \in D : P[z] = parent(t, z) /\ S[z] = t.node[z][side] /\ O[z] = t.node[z][Other(side)]
      /\ \A z \in D : s[z] = g.node[z][side] /\ o[z] = g.node[z][Other(side)]
  BY <1>1, <1>5 DEF Parents, Kids, parent
<1>7. S[q] = x
  BY <1>6
<1> HIDE DEF P, S, O, s, o
<1>8. Sites(q, D, P, S, O, A, B)
  <2>1. Shape(side, D, t.root, P, S, O, A, B)
    BY <1>1, <1>3 DEF ShapeOf, P, S, O
  <2> QED BY <1>1, <1>7, <2>1, RotationSites
<1>9. /\ x # q /\ P[q] # q /\ P[q] # x /\ P[q] \in D \cup {NULL}
      /\ P[q] # NULL => S[P[q]] # O[P[q]]
  BY <1>7, <1>8 DEF Sites
<1>10. s[x] = S[x]
  BY <1>4, <1>7, <1>9 DEF Rotated
<1>11. P[q] # NULL /\ O[P[q]] = q => o[P[q]] = x
  BY <1>4, <1>7, <1>9 DEF Rotated
<1> QED BY <1>6, <1>9, <1>10, <1>11 DEF Linked

\* g is t splayed once more at x.
Splayed(D, t, x, lo, hi, g, lo2, hi2) ==
  /\ g \in Trees(D) /\ SameRecords(t, g) /\ ShapeOf("left", g, lo2, hi2)
  /\ IF parent(t, x) = NULL THEN g = t ELSE hi2[x] - lo2[x] > hi[x] - lo[x]

\* A step of splay ends at the root or widens x's interval.
LEMMA SplayStepWidens ==
  ASSUME NEW D \in SUBSET (1 .. MaxKey), NEW t \in Trees(D), NEW x \in D,
         NEW lo, NEW hi, ShapeOf("left", t, lo, hi)
  PROVE  \E lo2, hi2 : Splayed(D, t, x, lo, hi, SplayStep(t, x), lo2, hi2)
<1> DEFINE p == parent(t, x)
           q == parent(t, p)
           a == Side(t, x)
           b == Side(t, p)
<1>1. Nodes("left", D, t.root, Parents(t), Kids(t, "left"), Kids(t, "right"), lo, hi)
  BY LeftNodes
<1>2. \A z \in D : /\ Parents(t)[z] = t.node[z].parent
                  /\ Kids(t, "left")[z] = t.node[z].left
                  /\ Kids(t, "right")[z] = t.node[z].right
  BY LeftNodes
<1>3. ASSUME NEW z \in D, parent(t, z) # NULL
      PROVE  parent(t, z) \in D /\ Side(t, z) \in Sides /\ t.node[parent(t, z)][Side(t, z)] = z
  <2>1. Parents(t)[z] = parent(t, z)
    BY <1>2 DEF parent
  <2>2. /\ parent(t, z) \in D
        /\ Kids(t, "left")[parent(t, z)] = z \/ Kids(t, "right")[parent(t, z)] = z
    BY <1>1, <1>3, <2>1 DEF Nodes
  <2>3. t.node[parent(t, z)].left = z \/ t.node[parent(t, z)].right = z
    BY <1>2, <2>2
  <2> QED BY <2>2, <2>3 DEF Side, Sides
<1>5. CASE p = NULL
  <2>1. SplayStep(t, x) = t
    BY <1>5 DEF SplayStep
  <2>2. Splayed(D, t, x, lo, hi, t, lo, hi)
    BY <1>5 DEF Splayed, SameRecords
  <2> QED BY <2>1, <2>2
<1>6. CASE p # NULL /\ q = NULL
  <2>1. SplayStep(t, x) = rotate(t, p, a)
    BY <1>6 DEF SplayStep
  <2>2. p \in D /\ a \in Sides /\ t.node[p][a] = x
    BY <1>3, <1>6
  <2> HIDE DEF p, a
  <2>3. PICK lo2, hi2 : Wider(D, x, p, t, lo, hi, rotate(t, p, a), lo2, hi2)
    BY <2>2, RotateWidens
  <2>4. Splayed(D, t, x, lo, hi, rotate(t, p, a), lo2, hi2)
    BY <1>6, <2>3 DEF Wider, Splayed, p
  <2> QED BY <2>1, <2>4
<1>7. CASE p # NULL /\ q # NULL
  <2>1. p \in D /\ a \in Sides /\ t.node[p][a] = x /\ q \in D /\ b \in Sides /\ t.node[q][b] = p
    <3>1. p \in D /\ a \in Sides /\ t.node[p][a] = x
      BY <1>3, <1>7
    <3> QED BY <1>3, <1>7, <3>1
  <2>2. CASE a = b
    <3> DEFINE g == rotate(t, q, a)
    <3>1. SplayStep(t, x) = rotate(g, p, a)
      BY <1>7, <2>2 DEF SplayStep
    <3>2. q = parent(t, p)
      OBVIOUS
    <3> HIDE DEF p, q, a, b
    <3>3. t.node[q][a] = p
      BY <2>1, <2>2
    <3>4. g.node[p][a] = x /\ q # p
      <4>1. Linked(a, t, q, p, g)
        BY <2>1, <3>3, RotateKeepsLinks
      <4> QED BY <2>1, <4>1 DEF Linked
    <3>5. x # p /\ q # x
      <4>1. Linked(a, t, p, x, rotate(t, p, a))
        BY <2>1, RotateKeepsLinks
      <4> QED BY <3>2, <4>1 DEF Linked
    <3>6. PICK lo1, hi1 : Wider(D, p, q, t, lo, hi, g, lo1, hi1)
      BY <2>1, <3>3, RotateWidens
    <3>7. g \in Trees(D) /\ SameRecords(t, g) /\ ShapeOf("left", g, lo1, hi1) /\ lo1[x] = lo[x] /\ hi1[x] = hi[x]
      BY <3>5, <3>6 DEF Wider
    <3> HIDE DEF g
    <3>8. PICK lo2, hi2 : Wider(D, x, p, g, lo1, hi1, rotate(g, p, a), lo2, hi2)
      BY <2>1, <3>4, <3>7, RotateWidens
    <3>9. Splayed(D, t, x, lo, hi, rotate(g, p, a), lo2, hi2)
      <4>1. SameRecords(t, rotate(g, p, a))
        BY <3>7, <3>8 DEF SameRecords, Wider
      <4>2. hi2[x] - lo2[x] > hi[x] - lo[x]
        BY <3>7, <3>8 DEF Wider
      <4> QED BY <1>7, <3>8, <4>1, <4>2 DEF Wider, Splayed, p
    <3> QED BY <3>1, <3>9
  <2>3. CASE a # b
    <3> DEFINE g == rotate(t, p, a)
    <3>1. SplayStep(t, x) = rotate(g, q, b)
      BY <1>7, <2>3 DEF SplayStep
    <3>2. q = parent(t, p) /\ Other(a) = b
      BY <2>1, <2>3 DEF Sides, Other
    <3> HIDE DEF p, q, a, b
    <3>3. g.node[q][b] = x /\ q # x
      <4>1. Linked(a, t, p, x, g)
        BY <2>1, RotateKeepsLinks
      <4> QED BY <1>7, <2>1, <3>2, <4>1 DEF Linked
    <3>4. PICK lo1, hi1 : Wider(D, x, p, t, lo, hi, g, lo1, hi1)
      BY <2>1, RotateWidens
    <3>5. g \in Trees(D) /\ SameRecords(t, g) /\ ShapeOf("left", g, lo1, hi1) /\ hi1[x] - lo1[x] > hi[x] - lo[x]
      BY <3>4 DEF Wider
    <3> HIDE DEF g
    <3>6. PICK lo2, hi2 : Wider(D, x, q, g, lo1, hi1, rotate(g, q, b), lo2, hi2)
      BY <2>1, <3>3, <3>5, RotateWidens
    <3>7. Splayed(D, t, x, lo, hi, rotate(g, q, b), lo2, hi2)
      <4>1. SameRecords(t, rotate(g, q, b))
        BY <3>5, <3>6 DEF SameRecords, Wider
      <4>2. /\ hi[x] \in Nat /\ lo[x] \in Nat
            /\ ShapeOf("left", rotate(g, q, b), lo2, hi2) /\ rotate(g, q, b) \in Trees(D)
        BY <1>1, <3>6 DEF Nodes, Wider
      <4>3. /\ Nodes("left", D, g.root, Parents(g), Kids(g, "left"), Kids(g, "right"), lo1, hi1)
            /\ Nodes("left", D, rotate(g, q, b).root, Parents(rotate(g, q, b)),
                     Kids(rotate(g, q, b), "left"), Kids(rotate(g, q, b), "right"), lo2, hi2)
        BY <3>5, <4>2, LeftNodes
      <4>4. lo1[x] \in Nat /\ hi1[x] \in Nat /\ lo2[x] \in Nat /\ hi2[x] \in Nat
        BY <4>3 DEF Nodes
      <4>5. hi2[x] - lo2[x] > hi1[x] - lo1[x]
        BY <3>6 DEF Wider
      <4>6. hi2[x] - lo2[x] > hi[x] - lo[x]
        BY <3>5, <4>2, <4>4, <4>5
      <4> QED BY <1>7, <3>6, <4>1, <4>6 DEF Wider, Splayed, p
    <3> QED BY <3>1, <3>7
  <2> QED BY <2>2, <2>3
<1> QED BY <1>5, <1>6, <1>7

\* h is what N steps f make of s0.
Looped(h, N, s0, f) == h = [n \in 0 .. N |-> IF n = 0 THEN s0 ELSE f[h[n - 1]]]

\* A loop over a set of states has a run of any length.
LEMMA LoopExists ==
  ASSUME NEW N \in Nat, NEW S, NEW s0 \in S, NEW f \in [S -> S]
  PROVE  \E h \in [0 .. N -> S] : Looped(h, N, s0, f)
<1> DEFINE F == [n \in 1 .. N |-> f]
<1>1. \A n \in 1 .. N : \A s \in S : F[n][s] \in S
  OBVIOUS
<1>2. \A n \in 1 .. N : F[n] = f
  OBVIOUS
<1> HIDE DEF F
<1>3. PICK h \in [0 .. N -> S] : Iterated(h, N, s0, F)
  BY ONLY N \in Nat, s0 \in S, <1>1, Iterates
<1>4. ASSUME NEW n \in 0 .. N PROVE h[n] = IF n = 0 THEN s0 ELSE f[h[n - 1]]
  <2>1. CASE n = 0
    BY <1>3, <2>1 DEF Iterated
  <2>2. CASE n \in 1 .. N
    BY <1>2, <1>3, <2>2 DEF Iterated
  <2> QED BY <2>1, <2>2
<1>5. h = [n \in 0 .. N |-> IF n = 0 THEN s0 ELSE f[h[n - 1]]]
  BY <1>4
<1> QED BY <1>5 DEF Looped

\* g holds the records of t, and x is at its root or has risen by n.
Risen(D, t, x, n, g, lo, hi) ==
  /\ g \in Trees(D) /\ SameRecords(t, g) /\ ShapeOf("left", g, lo, hi)
  /\ parent(g, x) = NULL \/ hi[x] - lo[x] >= n + 2

\* Splaying keeps the records and the order and ends with x at the root: MaxKey steps
\* are enough, since each widens x's interval.
LEMMA SplayReachesRoot ==
  ASSUME NEW D \in SUBSET (1 .. MaxKey), NEW t \in Trees(D), NEW x \in D,
         NEW lo, NEW hi, ShapeOf("left", t, lo, hi), NEW g, g = splay(t, x)
  PROVE  /\ g \in Trees(D) /\ SameRecords(t, g) /\ parent(g, x) = NULL
         /\ \E lo2, hi2 : ShapeOf("left", g, lo2, hi2)
<1> DEFINE S      == {h \in Trees(D) : \E a, b : ShapeOf("left", h, a, b)}
           f      == [h \in S |-> SplayStep(h, x)]
           Run(r) == r = [n \in 0 .. MaxKey |-> IF n = 0 THEN t ELSE SplayStep(r[n - 1], x)]
           run    == CHOOSE r : Run(r)
           I      == {m \in Nat : m <= MaxKey => \E a, b : Risen(D, t, x, m, run[m], a, b)}
<1>1. ASSUME NEW h \in S PROVE SplayStep(h, x) \in S
  <2>1. PICK a, b : ShapeOf("left", h, a, b)
    OBVIOUS
  <2>2. PICK c, d : Splayed(D, h, x, a, b, SplayStep(h, x), c, d)
    BY <2>1, SplayStepWidens
  <2> QED BY <2>2 DEF Splayed
<1>2. Run(run)
  <2>1. f \in [S -> S] /\ t \in S /\ MaxKey \in Nat
    BY <1>1, KeysAssumption
  <2>2. PICK r \in [0 .. MaxKey -> S] : Looped(r, MaxKey, t, f)
    <3> HIDE DEF S, f
    <3> QED BY <2>1, LoopExists
  <2>3. ASSUME NEW n \in 0 .. MaxKey PROVE r[n] = IF n = 0 THEN t ELSE SplayStep(r[n - 1], x)
    <3>1. n # 0 => n - 1 \in 0 .. MaxKey /\ r[n - 1] \in S
      <4>1. n # 0 => n - 1 \in 0 .. MaxKey
        BY KeysAssumption
      <4> HIDE DEF S
      <4> QED BY <2>2, <4>1
    <3>2. r[n] = IF n = 0 THEN t ELSE f[r[n - 1]]
      BY <2>2 DEF Looped
    <3> HIDE DEF S
    <3> QED BY <3>1, <3>2
  <2>4. Run(r)
    <3>1. r = [n \in 0 .. MaxKey |-> r[n]]
      BY <2>2
    <3> HIDE DEF S, f
    <3> QED BY <2>3, <3>1
  <2>5. \E r1 : Run(r1)
    BY <2>4
  <2> QED BY ONLY <2>5
<1>3. g = run[MaxKey]
  BY DEF splay, Times
<1> HIDE DEF run, S, f
<1>4. run[0] = t /\ \A n \in Nat : n + 1 <= MaxKey => run[n + 1] = SplayStep(run[n], x)
  BY <1>2, KeysAssumption
<1>5. 0 \in I
  <2>1. Nodes("left", D, t.root, Parents(t), Kids(t, "left"), Kids(t, "right"), lo, hi)
    BY LeftNodes
  <2>2. lo[x] \in Nat /\ hi[x] \in Nat /\ x \in Nat /\ lo[x] < x /\ x < hi[x]
    BY <2>1 DEF Nodes, Before
  <2>3. Risen(D, t, x, 0, t, lo, hi)
    BY <2>2 DEF Risen, SameRecords
  <2> QED BY <1>4, <2>3
<1>6. ASSUME NEW m \in Nat, m \in I PROVE m + 1 \in I
  <2> SUFFICES ASSUME m + 1 <= MaxKey PROVE \E a, b : Risen(D, t, x, m + 1, run[m + 1], a, b)
    OBVIOUS
  <2>1. PICK a, b : Risen(D, t, x, m, run[m], a, b)
    <3>1. m <= MaxKey
      BY KeysAssumption
    <3> QED BY <1>6, <3>1
  <2> DEFINE u == run[m]
             v == run[m + 1]
  <2>2. v = SplayStep(u, x)
    BY <1>4
  <2> HIDE DEF u, v
  <2>3. u \in Trees(D) /\ SameRecords(t, u) /\ ShapeOf("left", u, a, b) /\ (parent(u, x) = NULL \/ b[x] - a[x] >= m + 2)
    BY <2>1 DEF Risen, u
  <2>4. PICK c, d : Splayed(D, u, x, a, b, v, c, d)
    BY <2>2, <2>3, SplayStepWidens
  <2>5. v \in Trees(D) /\ SameRecords(t, v) /\ ShapeOf("left", v, c, d)
    BY <2>3, <2>4 DEF Splayed, SameRecords
  <2>6. /\ Nodes("left", D, u.root, Parents(u), Kids(u, "left"), Kids(u, "right"), a, b)
        /\ Nodes("left", D, v.root, Parents(v), Kids(v, "left"), Kids(v, "right"), c, d)
    BY <2>3, <2>5, LeftNodes
  <2>7. a[x] \in Nat /\ b[x] \in Nat /\ c[x] \in Nat /\ d[x] \in Nat
    BY <2>6 DEF Nodes
  <2>8. parent(v, x) = NULL \/ d[x] - c[x] >= (m + 1) + 2
    BY <2>3, <2>4, <2>7 DEF Splayed
  <2>9. Risen(D, t, x, m + 1, v, c, d)
    BY <2>5, <2>8 DEF Risen
  <2> QED BY <2>9 DEF v
<1>7. \A m \in Nat : m \in I
  <2> HIDE DEF I
  <2> QED BY <1>5, <1>6, Induction
<1>8. PICK a, b : Risen(D, t, x, MaxKey, g, a, b)
  BY <1>3, <1>7, KeysAssumption
<1>9. parent(g, x) = NULL
  <2>1. g \in Trees(D) /\ ShapeOf("left", g, a, b) /\ (parent(g, x) = NULL \/ b[x] - a[x] >= MaxKey + 2)
    BY <1>8 DEF Risen
  <2>2. a \in [D -> D \cup {0}] /\ b \in [D -> D \cup {MaxKey + 1}]
    BY <2>1, LeftNodes
  <2>3. a[x] \in Nat /\ b[x] \in Nat
    <3>1. Nodes("left", D, g.root, Parents(g), Kids(g, "left"), Kids(g, "right"), a, b)
      BY <2>1, LeftNodes
    <3> QED BY <3>1 DEF Nodes
  <2>4. b[x] <= MaxKey + 1
    <3>1. b[x] \in D \cup {MaxKey + 1}
      BY <2>2
    <3>2. CASE b[x] \in D
      <4>1. b[x] \in 1 .. MaxKey
        BY <3>2
      <4> QED BY <4>1, KeysAssumption
    <3>3. CASE b[x] = MaxKey + 1
      BY <3>3, KeysAssumption
    <3> QED BY <3>1, <3>2, <3>3
  <2> QED BY <2>1, <2>3, <2>4, KeysAssumption
<1> QED BY <1>8, <1>9 DEF Risen

(***************************************************************************)
(* The way down.                                                           *)
(***************************************************************************)
Walks(D) == [z : D \cup {NULL}, p : D \cup {NULL}, n : D \cup {NULL}]

\* The key is not in the tree; its place is below p, and n is the next smaller key.
Missing(D, t, key, lo, hi, p, n) ==
  /\ key \notin D /\ p \in D \cup {NULL} /\ n \in D \cup {NULL}
  /\ IF p = NULL THEN D = {}
     ELSE /\ key # p
          /\ key < p => t.node[p].left = NULL /\ lo[p] < key
          /\ key > p => t.node[p].right = NULL /\ key < hi[p]
  /\ n < key /\ \A k \in D : k < key => k <= n

\* After m steps the interval of the node reached holds the key, and is that much
\* narrower; its lower end is the next smaller key met.
Descended(D, t, key, lo, hi, m, w) ==
  /\ w \in Walks(D)
  /\ IF w.z = NULL THEN Missing(D, t, key, lo, hi, w.p, w.n)
     ELSE /\ lo[w.z] < key /\ key < hi[w.z] /\ w.n = lo[w.z]
          /\ w.z = key \/ hi[w.z] - lo[w.z] <= MaxKey + 1 - m

\* A step down narrows the interval or finds the key or its place.
LEMMA DownDescends ==
  ASSUME NEW D \in SUBSET (1 .. MaxKey), NEW t \in Trees(D), NEW lo, NEW hi,
         ShapeOf("left", t, lo, hi), NEW key \in 1 .. MaxKey, NEW m \in Nat, NEW w,
         Descended(D, t, key, lo, hi, m, w)
  PROVE  Descended(D, t, key, lo, hi, m + 1, Down(t, key, w))
<1>1. Nodes("left", D, t.root, Parents(t), Kids(t, "left"), Kids(t, "right"), lo, hi)
  BY LeftNodes
<1>2. lo \in [D -> D \cup {0}] /\ hi \in [D -> D \cup {MaxKey + 1}]
  BY LeftNodes
<1>3. w \in Walks(D) /\ w.z \in D \cup {NULL} /\ MaxKey \in Nat /\ key \in Nat
  BY KeysAssumption DEF Descended, Walks
<1>4. CASE w.z = NULL \/ w.z = key
  <2>1. Down(t, key, w) = w
    BY <1>4 DEF Down
  <2> QED BY <1>4, <2>1 DEF Descended
<1>5. CASE w.z # NULL /\ w.z # key
  <2> DEFINE z == w.z
             v == Down(t, key, w)
  <2>1. z \in D /\ z \in Nat /\ lo[z] \in Nat /\ hi[z] \in Nat /\ lo[z] < z /\ z < hi[z] /\ z # NULL
    BY <1>1, <1>3, <1>5 DEF Nodes, Before
  <2>2. lo[z] < key /\ key < hi[z] /\ w.n = lo[z] /\ hi[z] - lo[z] <= MaxKey + 1 - m
    BY <1>5 DEF Descended
  <2>3. lo[z] \in D \cup {NULL}
    BY <1>2, <2>1 DEF NULL
  <2>l. Kids(t, "left")[z] = t.node[z].left /\ Kids(t, "right")[z] = t.node[z].right
    BY <2>1, LeftNodes
  <2>4. CASE key < z
    <3> DEFINE c == t.node[z].left
    <3>1. v = [z |-> c, p |-> z, n |-> w.n]
      BY <1>3, <1>5, <2>1, <2>4 DEF Down
    <3>2. c \in D \cup {NULL}
      BY <2>1 DEF Trees, NodesOn
    <3>3. CASE c = NULL
      <4>1. \A k \in D : ~ (lo[z] < k /\ k < z)
        BY <1>1, <2>1, <2>l, <3>3 DEF Nodes, Before
      <4>2. \A k \in D : k \in Nat
        OBVIOUS
      <4>3. key \notin D /\ \A k \in D : k < key => k <= lo[z]
        BY <1>3, <2>1, <2>2, <2>4, <4>1, <4>2
      <4>4. Missing(D, t, key, lo, hi, z, lo[z])
        BY <1>3, <2>1, <2>2, <2>3, <2>4, <3>3, <4>3 DEF Missing
      <4> QED BY <2>1, <2>2, <2>3, <3>1, <3>3, <4>4 DEF Descended, Walks
    <3>4. CASE c # NULL
      <4>1. lo[c] = lo[z] /\ hi[c] = z
        BY <1>1, <2>1, <2>l, <3>4 DEF Nodes
      <4> HIDE DEF c, z
      <4> QED BY <1>3, <2>1, <2>2, <2>3, <2>4, <3>1, <3>2, <3>4, <4>1 DEF Descended, Walks
    <3> QED BY <3>3, <3>4
  <2>5. CASE key > z
    <3> DEFINE c == t.node[z].right
    <3>1. v = [z |-> c, p |-> z, n |-> z]
      BY <1>3, <1>5, <2>1, <2>2, <2>5 DEF Down
    <3>2. c \in D \cup {NULL}
      BY <2>1 DEF Trees, NodesOn
    <3>3. CASE c = NULL
      <4>1. \A k \in D : ~ (z < k /\ k < hi[z])
        BY <1>1, <2>1, <2>l, <3>3 DEF Nodes, Before
      <4>2. \A k \in D : k \in Nat
        OBVIOUS
      <4>3. key \notin D /\ \A k \in D : k < key => k <= z
        BY <1>3, <2>1, <2>2, <2>5, <4>1, <4>2
      <4>4. Missing(D, t, key, lo, hi, z, z)
        BY <1>3, <2>1, <2>2, <2>5, <3>3, <4>3 DEF Missing
      <4> QED BY <2>1, <2>2, <3>1, <3>3, <4>4 DEF Descended, Walks
    <3>4. CASE c # NULL
      <4>1. lo[c] = z /\ hi[c] = hi[z]
        BY <1>1, <2>1, <2>l, <3>4 DEF Nodes
      <4> HIDE DEF c, z
      <4> QED BY <1>3, <2>1, <2>2, <2>5, <3>1, <3>2, <3>4, <4>1 DEF Descended, Walks
    <3> QED BY <3>3, <3>4
  <2> QED BY <1>3, <1>5, <2>1, <2>4, <2>5
<1> QED BY <1>4, <1>5

\* What a search finds: the key's node, or its place and the next smaller key.
Found(D, t, key, lo, hi, w) ==
  /\ w \in Walks(D)
  /\ IF key \in D THEN w.z = key ELSE w.z = NULL /\ Missing(D, t, key, lo, hi, w.p, w.n)

\* MaxKey steps are enough for a search, which finds its key if it is there.
LEMMA SearchFinds ==
  ASSUME NEW D \in SUBSET (1 .. MaxKey), NEW t \in Trees(D), NEW lo, NEW hi,
         ShapeOf("left", t, lo, hi), NEW key \in 1 .. MaxKey
  PROVE  Found(D, t, key, lo, hi, Search(t, key))
<1> DEFINE S      == Walks(D)
           s0     == [z |-> t.root, p |-> NULL, n |-> NULL]
           f      == [w \in S |-> Down(t, key, w)]
           Run(r) == r = [n \in 0 .. MaxKey |-> IF n = 0 THEN s0 ELSE Down(t, key, r[n - 1])]
           run    == CHOOSE r : Run(r)
           I      == {m \in Nat : m <= MaxKey => Descended(D, t, key, lo, hi, m, run[m])}
<1>1. ASSUME NEW w \in S PROVE Down(t, key, w) \in S
  <2>1. CASE w.z = NULL \/ w.z = key
    BY <2>1 DEF Down
  <2>2. CASE w.z # NULL /\ w.z # key
    <3>1. w.z \in D /\ w.n \in D \cup {NULL}
      BY <2>2 DEF Walks
    <3>2. t.node[w.z].left \in D \cup {NULL} /\ t.node[w.z].right \in D \cup {NULL}
      BY <3>1 DEF Trees, NodesOn
    <3> QED BY <2>2, <3>1, <3>2 DEF Down, Walks
  <2> QED BY <2>1, <2>2
<1>2. s0 \in S
  BY DEF Walks, Trees
<1>3. Run(run)
  <2>1. f \in [S -> S] /\ MaxKey \in Nat
    BY <1>1, KeysAssumption
  <2>2. PICK r \in [0 .. MaxKey -> S] : Looped(r, MaxKey, s0, f)
    <3> HIDE DEF S, f, s0
    <3> QED BY <1>2, <2>1, LoopExists
  <2>3. ASSUME NEW n \in 0 .. MaxKey PROVE r[n] = IF n = 0 THEN s0 ELSE Down(t, key, r[n - 1])
    <3>1. n # 0 => n - 1 \in 0 .. MaxKey /\ r[n - 1] \in S
      <4>1. n # 0 => n - 1 \in 0 .. MaxKey
        BY KeysAssumption
      <4> HIDE DEF S
      <4> QED BY <2>2, <4>1
    <3>2. r[n] = IF n = 0 THEN s0 ELSE f[r[n - 1]]
      BY <2>2 DEF Looped
    <3> HIDE DEF S, s0
    <3> QED BY <3>1, <3>2
  <2>4. Run(r)
    <3>1. r = [n \in 0 .. MaxKey |-> r[n]]
      BY <2>2
    <3> HIDE DEF S, f, s0
    <3> QED BY <2>3, <3>1
  <2>5. \E r1 : Run(r1)
    BY <2>4
  <2> QED BY ONLY <2>5
<1>4. Search(t, key) = run[MaxKey]
  BY DEF Search, Times
<1> HIDE DEF run, S, f
<1>5. run[0] = s0 /\ \A n \in Nat : n + 1 <= MaxKey => run[n + 1] = Down(t, key, run[n])
  <2> HIDE DEF s0
  <2> QED BY <1>3, KeysAssumption
<1>6. 0 \in I
  <2>1. lo \in [D -> D \cup {0}] /\ hi \in [D -> D \cup {MaxKey + 1}]
    BY LeftNodes
  <2>2. IF t.root = NULL THEN D = {} ELSE t.root \in D /\ lo[t.root] = 0 /\ hi[t.root] = MaxKey + 1
    <3>1. DOMAIN t.node = D /\ t.root \in D \cup {NULL}
      BY DEF Trees
    <3> QED BY <3>1 DEF ShapeOf, Shape, AtRoot, End, Other
  <2>3. Descended(D, t, key, lo, hi, 0, s0)
    <3>1. s0 \in Walks(D)
      BY <1>2 DEF S
    <3>2. CASE t.root = NULL
      BY <2>2, <3>1, <3>2 DEF Descended, Missing, NULL
    <3>3. CASE t.root # NULL
      BY <2>2, <3>1, <3>3, KeysAssumption DEF Descended, NULL
    <3> QED BY <3>2, <3>3
  <2> QED BY <1>5, <2>3
<1>7. ASSUME NEW m \in Nat, m \in I PROVE m + 1 \in I
  <2> SUFFICES ASSUME m + 1 <= MaxKey PROVE Descended(D, t, key, lo, hi, m + 1, run[m + 1])
    OBVIOUS
  <2>1. m <= MaxKey
    BY KeysAssumption
  <2>2. Descended(D, t, key, lo, hi, m, run[m])
    BY <1>7, <2>1
  <2>3. Descended(D, t, key, lo, hi, m + 1, Down(t, key, run[m]))
    BY <2>2, DownDescends
  <2> QED BY <1>5, <2>3
<1>8. \A m \in Nat : m \in I
  <2> HIDE DEF I
  <2> QED BY <1>6, <1>7, Induction
<1>9. Descended(D, t, key, lo, hi, MaxKey, Search(t, key))
  BY <1>4, <1>8, KeysAssumption
<1> DEFINE w == Search(t, key)
<1>10. w.z # NULL => w.z = key
  <2> SUFFICES ASSUME w.z # NULL, w.z # key PROVE FALSE
    OBVIOUS
  <2>1. Nodes("left", D, t.root, Parents(t), Kids(t, "left"), Kids(t, "right"), lo, hi)
    BY LeftNodes
  <2>2. w.z \in D
    BY <1>9 DEF Descended, Walks
  <2>3. lo[w.z] \in Nat /\ hi[w.z] \in Nat /\ w.z \in Nat /\ lo[w.z] < w.z /\ w.z < hi[w.z]
    BY <2>1, <2>2 DEF Nodes, Before
  <2>4. hi[w.z] - lo[w.z] <= MaxKey + 1 - MaxKey
    BY <1>9 DEF Descended
  <2> QED BY <2>3, <2>4, KeysAssumption
<1> HIDE DEF w
<1>11. w.z = NULL => Missing(D, t, key, lo, hi, w.p, w.n)
  BY <1>9 DEF Descended, w
<1>12. w.z = NULL => key \notin D
  BY <1>11 DEF Missing
<1>13. w \in Walks(D) /\ key # NULL /\ w.z \in D \cup {NULL}
  BY <1>9 DEF Descended, Walks, w, NULL
<1> QED BY <1>10, <1>11, <1>12, <1>13 DEF Found, w

(***************************************************************************)
(* Insertion.                                                              *)
(***************************************************************************)
\* t is a search tree.
Ordered(t) == \E lo, hi : ShapeOf("left", t, lo, hi)

\* g is t with the new node k, a leaf that names q as its parent.
Hung(t, k, q, record, g) ==
  /\ g.root = t.root /\ g.node_count = t.node_count + 1
  /\ g.node = [x \in DOMAIN t.node \cup {k} |->
                 IF x = k THEN [left |-> NULL, right |-> NULL, parent |-> q, record |-> record]
                 ELSE t.node[x]]

\* g holds the records of t and that of the key.
Grown(D, t, key, record, g) ==
  /\ g \in Trees(D \cup {key}) /\ g.node_count = t.node_count + 1
  /\ \A x \in D \cup {key} : g.node[x].record = IF x = key THEN record ELSE t.node[x].record

\* A node hung below q on the side is a new leaf of the search tree.
LEMMA HangingKeepsShape ==
  ASSUME NEW side \in Sides, NEW D \in SUBSET (1 .. MaxKey), NEW t \in Trees(D),
         NEW A, NEW B, ShapeOf(side, t, A, B),
         NEW k \in 1 .. MaxKey, k \notin D, NEW q \in D, t.node[q][side] = NULL,
         Before(side, A[q], k), Before(side, k, q), NEW record \in Records,
         NEW h \in Trees(D \cup {k}), Hung(t, k, q, record, h),
         NEW g, g = [h EXCEPT !.node[q][side] = k]
  PROVE  Grown(D, t, k, record, g) /\ \E a, b : ShapeOf(side, g, a, b)
<1> DEFINE E == D \cup {k}
           n == [h.node[q] EXCEPT ![side] = k]
<1>1. /\ DOMAIN t.node = D /\ q \in E /\ k \in E /\ k # q /\ DOMAIN h.node = E
      /\ Other(side) \in Sides /\ Other(side) # side
  BY BeforeOrders DEF Trees
<1>2. /\ h.node[q] = t.node[q] /\ h.node_count = t.node_count + 1 /\ h.root = t.root
      /\ \A z \in E : h.node[z] = IF z = k THEN [left |-> NULL, right |-> NULL,
                                                 parent |-> q, record |-> record]
                                  ELSE t.node[z]
      /\ \A z \in E : h.node[z] \in NodesOn(E)
  BY <1>1 DEF Hung, Trees
<1>3. Rewired(E, h.node[q], side, k, h.node[q].parent, n)
  BY <1>1, <1>2, FieldEffect
<1>4. g = [h EXCEPT !.node[q] = n]
  OBVIOUS
<1> HIDE DEF n, E
<1>5. Changed(E, h, q, n, g)
  BY <1>1, <1>3, <1>4, ChangeEffect DEF Rewired, E
<1>6. /\ g \in Trees(E) /\ g.node_count = t.node_count + 1 /\ g.root = t.root
      /\ \A z \in E : g.node[z] = IF z = q THEN n ELSE h.node[z]
  BY <1>2, <1>5 DEF Changed
<1>7. ASSUME NEW z \in E
      PROVE  /\ g.node[z].parent = IF z = k THEN q ELSE t.node[z].parent
             /\ g.node[z].record = IF z = k THEN record ELSE t.node[z].record
             /\ g.node[z][side] = IF z = k THEN NULL ELSE IF z = q THEN k ELSE t.node[z][side]
             /\ g.node[z][Other(side)] = IF z = k THEN NULL ELSE t.node[z][Other(side)]
  <2>1. CASE z = q
    <3>1. g.node[z] = n /\ z # k /\ h.node[q] = t.node[z]
      BY <1>1, <1>2, <1>6, <2>1
    <3>2. /\ n[side] = k /\ n[Other(side)] = h.node[q][Other(side)]
          /\ n.parent = h.node[q].parent /\ n.record = h.node[q].record
      BY <1>3 DEF Rewired
    <3> QED BY <2>1, <3>1, <3>2
  <2>2. CASE z = k
    <3>1. g.node[z] = [left |-> NULL, right |-> NULL, parent |-> q, record |-> record]
      BY <1>1, <1>2, <1>6, <2>2
    <3>2. side \in {"left", "right"} /\ Other(side) \in {"left", "right"}
      BY <1>1 DEF Sides
    <3>3. g.node[z][side] = NULL /\ g.node[z][Other(side)] = NULL
      BY <3>1, <3>2
    <3> QED BY <1>1, <2>2, <3>1, <3>3
  <2>3. CASE z # q /\ z # k
    BY <1>2, <1>6, <2>3
  <2> QED BY <2>1, <2>2, <2>3
<1>8. Grown(D, t, k, record, g)
  BY <1>6, <1>7 DEF Grown, E
<1> DEFINE p == Parents(g)
           s == Kids(g, side)
           o == Kids(g, Other(side))
           P == Parents(t)
           S == Kids(t, side)
           O == Kids(t, Other(side))
<1>9. DOMAIN g.node = E
  BY <1>6 DEF Trees
<1>10. p \in [E -> E \cup {NULL}] /\ s \in [E -> E \cup {NULL}] /\ o \in [E -> E \cup {NULL}]
  BY <1>1, <1>6, <1>9 DEF Parents, Kids, Trees, NodesOn, Sides
<1>11. Leafed(k, q, P, S, O, D, p, s, o)
  <2>1. /\ \A z \in E : p[z] = g.node[z].parent /\ s[z] = g.node[z][side] /\ o[z] = g.node[z][Other(side)]
        /\ \A z \in D : P[z] = t.node[z].parent /\ S[z] = t.node[z][side] /\ O[z] = t.node[z][Other(side)]
    BY <1>1, <1>9 DEF Parents, Kids
  <2> HIDE DEF p, s, o, P, S, O
  <2> QED BY <1>1, <1>7, <2>1 DEF Leafed, E
<1>12. S[q] = NULL /\ Shape(side, D, t.root, P, S, O, A, B)
  BY <1>1 DEF Kids, ShapeOf
<1> HIDE DEF p, s, o, P, S, O
<1>13. Shape(side, E, t.root, p, s, o, [z \in E |-> IF z = k THEN A[q] ELSE A[z]],
                                       [z \in E |-> IF z = k THEN q ELSE B[z]])
  BY <1>10, <1>11, <1>12, LeafKeepsShape DEF E
<1>14. \E a, b : ShapeOf(side, g, a, b)
  BY <1>6, <1>9, <1>13 DEF ShapeOf, p, s, o
<1> QED BY <1>8, <1>14

\* A tree of one node.
LEMMA FirstKeepsShape ==
  ASSUME NEW k \in 1 .. MaxKey, NEW g \in Trees({k}), g.root = k,
         g.node[k].left = NULL, g.node[k].right = NULL, g.node[k].parent = NULL
  PROVE  Ordered(g)
<1> DEFINE a == [z \in {k} |-> 0]
           b == [z \in {k} |-> MaxKey + 1]
<1>1. DOMAIN g.node = {k} /\ k # NULL /\ Other("left") = "right"
  BY DEF Trees, NULL, Other
<1>2. /\ Parents(g)[k] = NULL /\ Kids(g, "left")[k] = NULL /\ Kids(g, "right")[k] = NULL
      /\ Parents(g) \in [{k} -> {k} \cup {NULL}] /\ Kids(g, "left") \in [{k} -> {k} \cup {NULL}]
      /\ Kids(g, "right") \in [{k} -> {k} \cup {NULL}]
  BY <1>1 DEF Parents, Kids
<1>3. a[k] = 0 /\ b[k] = MaxKey + 1 /\ 0 < k /\ k < MaxKey + 1 /\ k \in Nat
  BY KeysAssumption
<1>4. /\ Pointers({k}, k, Parents(g), Kids(g, "left"), Kids(g, "right"))
      /\ Hangs({k}, k, Parents(g), Kids(g, "left"), Kids(g, "right"))
  BY <1>2 DEF Pointers, Hangs
<1>5. Intervals("left", {k}, a, b)
  BY <1>3 DEF Intervals, Before, End, Other
<1>6. AtRoot("left", {k}, k, Parents(g), a, b)
  BY <1>1, <1>2, <1>3 DEF AtRoot, End, Other
<1>7. NearChild("left", {k}, Parents(g), Kids(g, "left"), a, b) /\ FarChild("left", {k}, Parents(g), Kids(g, "right"), a, b)
  BY <1>2, <1>3 DEF NearChild, FarChild, Before
<1> HIDE DEF a, b
<1>8. ShapeOf("left", g, a, b)
  BY <1>1, <1>4, <1>5, <1>6, <1>7 DEF ShapeOf, Shape
<1> QED BY <1>8 DEF Ordered

\* An insertion adds the key and its record, or leaves the tree alone.
LEMMA InsertGrows ==
  ASSUME NEW D \in SUBSET (1 .. MaxKey), NEW t \in Trees(D), Ordered(t),
         NEW key \in 1 .. MaxKey, NEW record \in Records, NEW g, g = tree_insert(t, key, record)
  PROVE  IF key \in D THEN Search(t, key).z = key /\ g = t
         ELSE Search(t, key).z = NULL /\ Grown(D, t, key, record, g) /\ Ordered(g)
<1>1. PICK lo, hi : ShapeOf("left", t, lo, hi)
  BY DEF Ordered
<1> DEFINE w == Search(t, key)
           p == w.p
           leaf == [left |-> NULL, right |-> NULL, parent |-> p, record |-> record]
           h == [t EXCEPT !.node = [x \in DOMAIN @ \cup {key} |-> IF x = key THEN leaf ELSE @[x]],
                          !.node_count = @ + 1]
           E == D \cup {key}
<1>2. Found(D, t, key, lo, hi, w)
  BY <1>1, SearchFinds
<1>3. key # NULL /\ key \in Nat
  BY DEF NULL
<1>4. g = IF w.z # NULL THEN t
          ELSE IF p = NULL THEN [h EXCEPT !.root = key]
          ELSE splay([h EXCEPT !.node[p][IF p < key THEN "right" ELSE "left"] = key], key)
  BY DEF tree_insert
<1>5. CASE key \in D
  <2> HIDE DEF w
  <2>1. w.z = key /\ g = t
    BY <1>2, <1>3, <1>4, <1>5 DEF Found
  <2> QED BY <1>5, <2>1 DEF w
<1>6. CASE key \notin D
  <2>1. w.z = NULL /\ Missing(D, t, key, lo, hi, p, w.n)
    BY <1>2, <1>6 DEF Found
  <2> HIDE DEF w
  <2>2. p \in D \cup {NULL} /\ DOMAIN t.node = D /\ t.node_count \in Nat /\ t.root \in D \cup {NULL}
    BY <2>1 DEF Missing, Trees
  <2>3. h.root = t.root /\ h.node_count = t.node_count + 1
        /\ h.node = [x \in E |-> IF x = key THEN leaf ELSE t.node[x]]
    BY <2>2 DEF Trees
  <2>4. Hung(t, key, p, record, h)
    BY <2>2, <2>3 DEF Hung
  <2>5. h \in Trees(E)
    <3>1. leaf \in NodesOn(E)
      BY <2>2 DEF NodesOn
    <3>2. ASSUME NEW x \in D PROVE t.node[x] \in NodesOn(E)
      <4>1. t.node[x] \in NodesOn(D)
        BY DEF Trees
      <4> QED BY <4>1 DEF NodesOn
    <3> HIDE DEF leaf
    <3>3. h.node \in [E -> NodesOn(E)]
      BY <2>3, <3>1, <3>2
    <3>4. h.root \in E \cup {NULL} /\ h.node_count \in Nat
      BY <2>2, <2>3
    <3>5. h = [t EXCEPT !.node = h.node, !.node_count = h.node_count]
      BY DEF Trees
    <3> HIDE DEF h
    <3> QED BY <3>3, <3>4, <3>5 DEF Trees
  <2> HIDE DEF h
  <2>6. CASE p = NULL
    <3>1. D = {} /\ E = {key}
      BY <2>1, <2>6 DEF Missing
    <3>2. g = [h EXCEPT !.root = key]
      BY <1>4, <2>1, <2>6
    <3>3. g \in Trees({key}) /\ g.root = key /\ g.node = h.node /\ g.node_count = h.node_count
      BY <2>5, <3>1, <3>2 DEF Trees
    <3>4. g.node[key] = leaf
      BY <2>3, <3>3
    <3>5. Ordered(g)
      BY <2>6, <3>3, <3>4, FirstKeepsShape
    <3>6. Grown(D, t, key, record, g)
      BY <2>3, <3>1, <3>3, <3>4 DEF Grown
    <3> QED BY <1>6, <2>1, <3>5, <3>6 DEF w
  <2>7. CASE p # NULL
    <3> DEFINE side == IF p < key THEN "right" ELSE "left"
               i == [h EXCEPT !.node[p][side] = key]
    <3>1. g = splay(i, key)
      BY <1>4, <2>1, <2>7
    <3>2. p \in D /\ p \in Nat /\ key # p
      <4>1. p \in D
        BY <2>2, <2>7
      <4> HIDE DEF p
      <4>2. p \in 1 .. MaxKey /\ key # p
        BY <1>6, <4>1
      <4> QED BY <4>1, <4>2
    <3> DEFINE Good(r) == Grown(D, t, key, record, r) /\ Ordered(r)
    <3>3. Good(i)
      <4>1. CASE p < key
        <5>1. "left" \in Sides /\ "right" \in Sides /\ Other("left") = "right" /\ Other("right") = "left"
          BY DEF Sides, Other
        <5>2. ShapeOf("right", t, hi, lo)
          BY <1>1, <2>2, <5>1, Mirror
        <5>3. t.node[p]["right"] = NULL /\ Before("right", hi[p], key) /\ Before("right", key, p)
          BY <1>3, <2>1, <2>7, <3>2, <4>1 DEF Missing, Before
        <5>4. i = [h EXCEPT !.node[p]["right"] = key]
          BY <4>1
        <5> HIDE DEF i
        <5>5. PICK a, b : Grown(D, t, key, record, i) /\ ShapeOf("right", i, a, b)
          BY <1>6, <2>4, <2>5, <3>2, <5>1, <5>2, <5>3, <5>4, HangingKeepsShape
        <5>6. DOMAIN i.node = E /\ E \in SUBSET (1 .. MaxKey)
          BY <5>5 DEF Grown, Trees
        <5>7. ShapeOf("left", i, b, a)
          BY <5>1, <5>5, <5>6, Mirror
        <5> QED BY <5>5, <5>7 DEF Ordered
      <4>2. CASE ~ (p < key)
        <5>1. "left" \in Sides /\ key < p
          BY <1>3, <3>2, <4>2 DEF Sides
        <5>3. t.node[p]["left"] = NULL /\ Before("left", lo[p], key) /\ Before("left", key, p)
          BY <1>3, <2>1, <2>7, <3>2, <5>1 DEF Missing, Before
        <5>4. i = [h EXCEPT !.node[p]["left"] = key]
          BY <4>2
        <5> HIDE DEF i
        <5>5. Grown(D, t, key, record, i) /\ \E a, b : ShapeOf("left", i, a, b)
          BY <1>1, <1>6, <2>4, <2>5, <3>2, <5>1, <5>3, <5>4, HangingKeepsShape
        <5> QED BY <5>5 DEF Ordered
      <4> QED BY <4>1, <4>2
    <3> HIDE DEF i, side
    <3>4. PICK a, b : ShapeOf("left", i, a, b)
      BY <3>3 DEF Ordered
    <3>5. i \in Trees(E) /\ E \in SUBSET (1 .. MaxKey) /\ key \in E
      BY <3>3 DEF Grown
    <3>6. g \in Trees(E) /\ SameRecords(i, g) /\ Ordered(g)
      <4>1. /\ g \in Trees(E) /\ SameRecords(i, g)
            /\ \E lo2, hi2 : ShapeOf("left", g, lo2, hi2)
        BY <3>1, <3>4, <3>5, SplayReachesRoot
      <4> QED BY <4>1 DEF Ordered
    <3>7. Grown(D, t, key, record, g)
      <4>1. DOMAIN i.node = E
        BY <3>5 DEF Trees
      <4> QED BY <3>3, <3>6, <4>1 DEF Grown, SameRecords
    <3> QED BY <1>6, <2>1, <3>6, <3>7 DEF w
  <2> QED BY <2>2, <2>6, <2>7
<1> QED BY <1>5, <1>6

(***************************************************************************)
(* Removal.                                                                *)
(***************************************************************************)
\* The least node below u: its interval begins where u's does.
Leftmost(D, t, u, lo, hi, y) ==
  y \in D /\ t.node[y].left = NULL /\ lo[y] = lo[u] /\ hi[y] <= hi[u]

\* MaxKey steps to the left are enough to reach it.
LEMMA MinimumFound ==
  ASSUME NEW D \in SUBSET (1 .. MaxKey), NEW t \in Trees(D), NEW lo, NEW hi,
         ShapeOf("left", t, lo, hi), NEW u \in D
  PROVE  Leftmost(D, t, u, lo, hi, subtree_minimum(t, u))
<1> DEFINE Step(x) == IF t.node[x].left = NULL THEN x ELSE t.node[x].left
           f       == [x \in D |-> Step(x)]
           Run(r)  == r = [n \in 0 .. MaxKey |-> IF n = 0 THEN u ELSE Step(r[n - 1])]
           run     == CHOOSE r : Run(r)
           Near(m, x) == /\ x \in D /\ lo[x] = lo[u] /\ hi[x] <= hi[u]
                         /\ t.node[x].left = NULL \/ hi[x] - lo[x] <= MaxKey + 1 - m
           I       == {m \in Nat : m <= MaxKey => Near(m, run[m])}
<1>1. ASSUME NEW x \in D PROVE t.node[x].left \in D \cup {NULL}
  BY DEF Trees, NodesOn
<1>2. Nodes("left", D, t.root, Parents(t), Kids(t, "left"), Kids(t, "right"), lo, hi)
  BY LeftNodes
<1>3. ASSUME NEW x \in D
      PROVE  /\ lo[x] \in Nat /\ hi[x] \in Nat /\ x \in Nat /\ lo[x] < x /\ x < hi[x]
             /\ hi[x] <= MaxKey + 1
             /\ t.node[x].left # NULL => /\ t.node[x].left \in D
                                         /\ lo[t.node[x].left] = lo[x] /\ hi[t.node[x].left] = x
  <2>1. lo[x] \in Nat /\ hi[x] \in Nat /\ x \in Nat /\ lo[x] < x /\ x < hi[x]
    BY <1>2 DEF Nodes, Before
  <2>2. hi[x] <= MaxKey + 1
    <3>1. hi[x] \in D \cup {MaxKey + 1}
      BY LeftNodes
    <3>2. CASE hi[x] \in D
      <4>1. hi[x] \in 1 .. MaxKey
        BY <3>2
      <4> QED BY <4>1, KeysAssumption
    <3>3. CASE hi[x] = MaxKey + 1
      BY <3>3, KeysAssumption
    <3> QED BY <3>1, <3>2, <3>3
  <2>3. Kids(t, "left")[x] = t.node[x].left
    BY LeftNodes
  <2> QED BY <1>1, <1>2, <2>1, <2>2, <2>3 DEF Nodes
<1>4. Run(run)
  <2>1. f \in [D -> D] /\ MaxKey \in Nat
    BY <1>1, KeysAssumption
  <2>2. PICK r \in [0 .. MaxKey -> D] : Looped(r, MaxKey, u, f)
    <3> HIDE DEF f
    <3> QED BY <2>1, LoopExists
  <2>3. ASSUME NEW n \in 0 .. MaxKey PROVE r[n] = IF n = 0 THEN u ELSE Step(r[n - 1])
    <3>1. n # 0 => n - 1 \in 0 .. MaxKey /\ r[n - 1] \in D
      <4>1. n # 0 => n - 1 \in 0 .. MaxKey
        BY KeysAssumption
      <4> QED BY <2>2, <4>1
    <3>2. r[n] = IF n = 0 THEN u ELSE f[r[n - 1]]
      BY <2>2 DEF Looped
    <3> QED BY <3>1, <3>2
  <2>4. Run(r)
    <3>1. r = [n \in 0 .. MaxKey |-> r[n]]
      BY <2>2
    <3> HIDE DEF f
    <3> QED BY <2>3, <3>1
  <2>5. \E r1 : Run(r1)
    BY <2>4
  <2> QED BY ONLY <2>5
<1>5. subtree_minimum(t, u) = run[MaxKey]
  BY DEF subtree_minimum, Times
<1> HIDE DEF run, f
<1>6. run[0] = u /\ \A n \in Nat : n + 1 <= MaxKey => run[n + 1] = Step(run[n])
  <2> HIDE DEF Step
  <2> QED BY <1>4, KeysAssumption
<1>7. 0 \in I
  <2>1. Near(0, u)
    BY <1>3, KeysAssumption
  <2> QED BY <1>6, <2>1
<1>8. ASSUME NEW m \in Nat, m \in I PROVE m + 1 \in I
  <2> SUFFICES ASSUME m + 1 <= MaxKey PROVE Near(m + 1, run[m + 1])
    OBVIOUS
  <2>1. m <= MaxKey
    BY KeysAssumption
  <2> DEFINE x == run[m]
             y == run[m + 1]
  <2>2. Near(m, x) /\ y = Step(x)
    BY <1>6, <1>8, <2>1
  <2> HIDE DEF x, y
  <2>3. CASE t.node[x].left = NULL
    BY <2>2, <2>3 DEF y
  <2>4. CASE t.node[x].left # NULL
    <3>1. /\ y \in D /\ lo[y] = lo[x] /\ hi[y] = x /\ lo[x] \in Nat /\ hi[x] \in Nat /\ x \in Nat
          /\ x < hi[x] /\ hi[u] \in Nat
      BY <1>3, <2>2, <2>4
    <3>2. Near(m + 1, y)
      BY <2>2, <2>4, <3>1, KeysAssumption
    <3> QED BY <3>2 DEF y
  <2> QED BY <2>3, <2>4
<1>9. \A m \in Nat : m \in I
  <2> HIDE DEF I
  <2> QED BY <1>7, <1>8, Induction
<1> DEFINE y == run[MaxKey]
<1>10. Near(MaxKey, y)
  BY <1>9, KeysAssumption
<1> HIDE DEF y
<1>11. t.node[y].left = NULL
  BY <1>3, <1>10, KeysAssumption
<1> QED BY <1>5, <1>10, <1>11 DEF Leftmost, y

\* g is t with v as the child of x on the side.
Put(D, t, x, side, v, g) ==
  /\ g \in Trees(D) /\ g.node_count = t.node_count /\ g.root = t.root
  /\ \A z \in D :
       /\ g.node[z].parent = t.node[z].parent /\ g.node[z].record = t.node[z].record
       /\ g.node[z].left = IF z = x /\ side = "left" THEN v ELSE t.node[z].left
       /\ g.node[z].right = IF z = x /\ side = "right" THEN v ELSE t.node[z].right

\* Setting one child pointer changes no other.
LEMMA PutEffect ==
  ASSUME NEW D, NEW t \in Trees(D), NEW x \in D, NEW v \in D \cup {NULL}
  PROVE  /\ Put(D, t, x, "left", v, [t EXCEPT !.node[x].left = v])
         /\ Put(D, t, x, "right", v, [t EXCEPT !.node[x].right = v])
BY DEF Put, Trees, NodesOn

\* z is freed.
Freed(t, z) == [t EXCEPT !.node = [x \in DOMAIN @ \ {z} |-> @[x]], !.node_count = @ - 1]

\* g holds the records of t but z's.
Shrunk(D, t, z, g) ==
  /\ g \in Trees(D \ {z}) /\ g.node_count = t.node_count - 1
  /\ \A x \in D \ {z} : g.node[x].record = t.node[x].record

\* No pointer that is left names z.
Unlinked(D, t, z) ==
  /\ t.root # z
  /\ \A x \in D \ {z} : t.node[x].left # z /\ t.node[x].right # z /\ t.node[x].parent # z

\* A node that nothing names can be freed.
LEMMA FreedEffect ==
  ASSUME NEW D, NEW t \in Trees(D), NEW z \in D, Unlinked(D, t, z), t.node_count > 0,
         NEW g, g = Freed(t, z)
  PROVE  /\ Shrunk(D, t, z, g) /\ g.root = t.root
         /\ \A x \in D \ {z} : g.node[x] = t.node[x]
<1> DEFINE E == D \ {z}
           node == [x \in DOMAIN t.node \ {z} |-> t.node[x]]
           count == t.node_count - 1
<1>1. DOMAIN t.node = D /\ t.node_count \in Nat /\ t.root \in D \cup {NULL}
  BY DEF Trees
<1>2. g = [t EXCEPT !.node = node, !.node_count = count]
  BY DEF Freed
<1>3. /\ \A x \in E : node[x] = t.node[x]
      /\ count \in Nat /\ t.root \in E \cup {NULL}
  BY <1>1 DEF Unlinked
<1>4. node \in [E -> NodesOn(E)]
  <2>1. ASSUME NEW x \in E PROVE t.node[x] \in NodesOn(E)
    <3>1. t.node[x] \in NodesOn(D)
      BY DEF Trees
    <3>2. t.node[x].left # z /\ t.node[x].right # z /\ t.node[x].parent # z
      BY DEF Unlinked
    <3> QED BY <3>1, <3>2 DEF NodesOn
  <2> QED BY <1>1, <2>1
<1> HIDE DEF node, count
<1>5. g.root = t.root /\ g.node = node /\ g.node_count = count /\ g \in Trees(E)
  BY <1>2, <1>3, <1>4 DEF Trees
<1> QED BY <1>3, <1>5 DEF Shrunk, count

\* Once its other child has taken its place nothing names z.
LEMMA SpliceUnlinks ==
  ASSUME NEW side \in Sides, NEW D \in SUBSET (1 .. MaxKey), NEW z \in D,
         NEW root, NEW P, NEW S, NEW O, NEW A, NEW B, Shape(side, D, root, P, S, O, A, B),
         S[z] = NULL, NEW r, NEW p, NEW s, NEW o, Spliced(z, root, P, S, O, D, r, p, s, o)
  PROVE  r # z /\ \A k \in D \ {z} : p[k] # z /\ s[k] # z /\ o[k] # z
<1>1. Nodes(side, D, root, P, S, O, A, B)
  BY ShapeOfNodes
<1>2. /\ z # NULL /\ O[z] # z /\ P[z] # z /\ (P[z] = NULL <=> z = root)
      /\ \A k \in D : S[k] = z \/ O[k] = z => P[z] = k /\ S[k] # O[k]
      /\ \A k \in D : P[k] = z => O[z] = k /\ k # NULL
  <2>1. z # NULL /\ O[z] # z /\ P[z] # z /\ (P[z] = NULL <=> z = root)
    BY <1>1 DEF Nodes
  <2>2. \A k \in D : S[k] = z \/ O[k] = z => P[z] = k /\ S[k] # O[k]
    BY <1>1, <2>1 DEF Nodes
  <2>3. \A k \in D : P[k] = z => O[z] = k /\ k # NULL
    BY <1>1, <2>1 DEF Nodes
  <2> QED BY <2>1, <2>2, <2>3
<1>3. r # z
  BY <1>2 DEF Spliced
<1>4. ASSUME NEW k \in D \ {z} PROVE p[k] # z /\ s[k] # z /\ o[k] # z
  <2>1. /\ p[k] = IF k = O[z] THEN P[z] ELSE P[k]
        /\ s[k] = IF k = P[z] /\ S[k] = z THEN O[z] ELSE S[k]
        /\ o[k] = IF k = P[z] /\ S[k] # z THEN O[z] ELSE O[k]
    BY DEF Spliced
  <2> QED BY <1>2, <2>1
<1> QED BY <1>3, <1>4

\* A node with one child at most is replaced by the other and freed.
LEMMA SpliceShrinks ==
  ASSUME NEW side \in Sides, NEW D \in SUBSET (1 .. MaxKey), NEW t \in Trees(D), NEW z \in D,
         NEW A, NEW B, ShapeOf(side, t, A, B), t.node[z][side] = NULL, t.node_count > 0,
         NEW h, h = replace(t, z, t.node[z][Other(side)]), NEW g, g = Freed(h, z)
  PROVE  Shrunk(D, t, z, g) /\ \E a, b : ShapeOf(side, g, a, b)
<1> DEFINE v == t.node[z][Other(side)]
           q == parent(t, z)
           i == Hang(t, z, v)
           P == Parents(t)
           S == Kids(t, side)
           O == Kids(t, Other(side))
           E == D \ {z}
<1>1. DOMAIN t.node = D /\ NULL \notin D /\ Other(side) \in Sides /\ Other(side) # side
  BY BeforeOrders DEF Trees
<1>2. /\ \A k \in D : P[k] = t.node[k].parent /\ S[k] = t.node[k][side] /\ O[k] = t.node[k][Other(side)]
      /\ Shape(side, D, t.root, P, S, O, A, B)
  BY <1>1 DEF Parents, Kids, ShapeOf
<1>3. v \in D \cup {NULL} /\ q \in D \cup {NULL} /\ v = O[z] /\ q = P[z] /\ S[z] = NULL
  BY <1>1, <1>2 DEF Trees, NodesOn, Sides, parent
<1>4. /\ \A k \in D : S[k] # NULL \/ O[k] # NULL => S[k] # O[k]
      /\ q # NULL => S[q] = z \/ O[q] = z
  <2> HIDE DEF P, S, O, q
  <2>1. Nodes(side, D, t.root, P, S, O, A, B)
    BY <1>2, ShapeOfNodes
  <2> QED BY <1>3, <2>1 DEF Nodes
<1> HIDE DEF P, S, O
<1>5. HungAt(D, t, q, z, v, i)
  BY <1>1, <1>3, HangEffect
<1>6. Adopted(D, i, v, q, h)
  <2>1. i \in Trees(D)
    BY <1>5 DEF HungAt
  <2>2. h = SetParent(i, v, q)
    BY DEF replace
  <2> HIDE DEF i, v, q
  <2> QED BY <1>1, <1>3, <2>1, <2>2, SetParentEffect
<1>7. /\ h \in Trees(D) /\ h.node_count = t.node_count
      /\ h.root = IF q = NULL THEN v ELSE t.root
      /\ \A k \in D :
           /\ h.node[k].parent = IF k = v THEN q ELSE t.node[k].parent
           /\ h.node[k].record = t.node[k].record
           /\ h.node[k].left = IF k = q /\ t.node[k].left = z THEN v ELSE t.node[k].left
           /\ h.node[k].right = IF k = q /\ t.node[k].left # z THEN v ELSE t.node[k].right
  <2> HIDE DEF i, v, q
  <2> QED BY ONLY <1>5, <1>6 DEF HungAt, Adopted
<1> HIDE DEF i, v, q
<1>8. ASSUME NEW k \in D
      PROVE  /\ h.node[k][side] = IF k = q /\ S[k] = z THEN v ELSE S[k]
             /\ h.node[k][Other(side)] = IF k = q /\ S[k] # z THEN v ELSE O[k]
  <2>1. CASE side = "left"
    BY ONLY <1>2, <1>7, <2>1, k \in D DEF Other
  <2>2. CASE side = "right"
    <3>1. t.node[k].left = O[k] /\ t.node[k].right = S[k]
      BY <1>2, <2>2 DEF Other
    <3>2. k = q => ((O[k] = z) <=> (S[k] # z))
      BY <1>1, <1>4
    <3> QED BY <1>7, <2>2, <3>1, <3>2 DEF Other
  <2> QED BY <2>1, <2>2 DEF Sides
<1> DEFINE p1 == Parents(h)
           s1 == Kids(h, side)
           o1 == Kids(h, Other(side))
<1>9. Spliced(z, t.root, P, S, O, D, h.root, p1, s1, o1)
  <2>1. /\ \A k \in D : p1[k] = h.node[k].parent /\ s1[k] = h.node[k][side] /\ o1[k] = h.node[k][Other(side)]
    BY <1>7 DEF Parents, Kids, Trees
  <2> HIDE DEF p1, s1, o1
  <2>2. h.root = IF P[z] = NULL THEN O[z] ELSE t.root
    BY <1>3, <1>7
  <2>3. ASSUME NEW k \in D
        PROVE  /\ p1[k] = IF k = O[z] THEN P[z] ELSE P[k]
               /\ s1[k] = IF k = P[z] /\ S[k] = z THEN O[z] ELSE S[k]
               /\ o1[k] = IF k = P[z] /\ S[k] # z THEN O[z] ELSE O[k]
    BY ONLY <1>2, <1>3, <1>7, <1>8, <2>1, k \in D
  <2> QED BY ONLY <2>2, <2>3 DEF Spliced
<1>10. Unlinked(D, h, z)
  <2>1. /\ \A k \in D : p1[k] = h.node[k].parent /\ s1[k] = h.node[k][side] /\ o1[k] = h.node[k][Other(side)]
    BY <1>7 DEF Parents, Kids, Trees
  <2> HIDE DEF p1, s1, o1
  <2>2. h.root # z /\ \A k \in D \ {z} : p1[k] # z /\ s1[k] # z /\ o1[k] # z
    BY <1>2, <1>3, <1>9, SpliceUnlinks
  <2>3. CASE side = "left"
    BY ONLY <2>1, <2>2, <2>3 DEF Unlinked, Other
  <2>4. CASE side = "right"
    BY ONLY <2>1, <2>2, <2>4 DEF Unlinked, Other
  <2> QED BY <2>3, <2>4 DEF Sides
<1>11. Shrunk(D, h, z, g) /\ g.root = h.root /\ \A k \in E : g.node[k] = h.node[k]
  <2>1. h.node_count > 0
    BY <1>7
  <2> QED BY ONLY <1>7, <1>10, <2>1, z \in D, g = Freed(h, z), FreedEffect
<1>12. Shrunk(D, t, z, g)
  BY ONLY <1>7, <1>11 DEF Shrunk
<1> DEFINE p == Parents(g)
           s == Kids(g, side)
           o == Kids(g, Other(side))
<1>13. DOMAIN g.node = E /\ g \in Trees(E)
  BY <1>11 DEF Shrunk, Trees
<1>14. /\ p \in [E -> E \cup {NULL}] /\ s \in [E -> E \cup {NULL}] /\ o \in [E -> E \cup {NULL}]
       /\ g.root \in E \cup {NULL}
  BY ONLY side \in Sides, <1>1, <1>13 DEF Parents, Kids, Trees, NodesOn, Sides
<1>15. Spliced(z, t.root, P, S, O, D, g.root, p, s, o)
  <2>1. \A k \in E : p[k] = p1[k] /\ s[k] = s1[k] /\ o[k] = o1[k]
    BY <1>7, <1>11, <1>13 DEF Parents, Kids, Trees
  <2> HIDE DEF p, s, o, p1, s1, o1
  <2> QED BY <1>9, <1>11, <2>1 DEF Spliced
<1> HIDE DEF p, s, o
<1>16. \E a, b : Shape(side, E, g.root, p, s, o, a, b)
  <2> DEFINE root == t.root
             r == g.root
  <2>1. /\ Shape(side, D, root, P, S, O, A, B) /\ Bare(S, z) /\ E = D \ {z}
        /\ Spliced(z, root, P, S, O, D, r, p, s, o) /\ r \in E \cup {NULL}
    BY <1>2, <1>3, <1>14, <1>15 DEF Bare
  <2> HIDE DEF E, root, r
  <2>2. \E a, b : Shape(side, E, r, p, s, o, a, b)
    BY ONLY side \in Sides, D \in SUBSET (1 .. MaxKey), z \in D, <1>14, <2>1, SpliceKeepsShape
  <2> QED BY <2>2 DEF r
<1>17. \E a, b : ShapeOf(side, g, a, b)
  BY <1>13, <1>16 DEF ShapeOf, p, s, o
<1> QED BY <1>12, <1>17

\* The nodes around the promotion of y, the key next to the root z on the far side.
Heirs(D, z, y, P, S, O) ==
  /\ z # NULL /\ y # NULL /\ y \in D /\ y # z /\ P[z] = NULL
  /\ S[z] \in D \cup {NULL} /\ O[z] \in D /\ S[z] # z /\ O[z] # z /\ S[z] # O[z] /\ S[z] # y
  /\ P[O[z]] = z /\ (S[z] # NULL => P[S[z]] = z)
  /\ P[y] \in D /\ P[y] # y
  /\ O[y] \in D \cup {NULL} /\ O[y] # z /\ O[y] # y
  /\ O[y] # NULL => P[O[y]] = y /\ O[y] # S[z] /\ O[y] # O[z]
  /\ IF P[y] = z THEN O[z] = y ELSE S[P[y]] = y /\ O[P[y]] # y /\ O[z] # y

\* No node of a promotion is met twice.
LEMMA PromotionSites ==
  ASSUME NEW side \in Sides, NEW D \in SUBSET (1 .. MaxKey), NEW z \in D, NEW y \in D, y # z,
         NEW root, NEW P, NEW S, NEW O, NEW A, NEW B, Shape(side, D, root, P, S, O, A, B),
         P[z] = NULL, A[y] = z, O[z] # NULL
  PROVE  Heirs(D, z, y, P, S, O)
<1>1. Nodes(side, D, root, P, S, O, A, B)
  BY ShapeOfNodes
<1>2. /\ z # NULL /\ y # NULL
      /\ S[z] # NULL => S[z] \in D /\ S[z] # z /\ P[S[z]] = z /\ A[S[z]] = A[z] /\ S[z] # O[z]
      /\ O[z] \in D /\ O[z] # z /\ P[O[z]] = z
      /\ S[z] # NULL \/ O[z] # NULL => S[z] # O[z]
      /\ A[z] \in Nat /\ z \in Nat /\ Before(side, A[z], z) /\ ~ Before(side, z, z)
  BY <1>1 DEF Nodes
<1>3. S[z] # y
  BY <1>2
<1>4. root # NULL /\ z = root
  BY <1>1 DEF Nodes, Shape, AtRoot
<1>5. P[y] \in D /\ P[y] # y /\ (S[P[y]] = y \/ O[P[y]] = y)
  BY <1>1, <1>4 DEF Nodes
<1>6. /\ O[y] # NULL => O[y] \in D /\ O[y] # y /\ P[O[y]] = y
      /\ S[P[y]] = y => O[P[y]] # y
  <2>1. O[y] # NULL => O[y] \in D /\ O[y] # y /\ P[O[y]] = y
    BY <1>1 DEF Nodes
  <2>2. \A k \in D : S[k] # NULL => S[k] # O[k]
    BY <1>1 DEF Nodes
  <2> QED BY <1>2, <1>5, <2>1, <2>2
<1>7. O[y] # z
  BY <1>2, <1>6
<1>8. O[P[y]] = y => P[y] = z
  <2>1. O[P[y]] = y => A[y] = P[y]
    <3>1. \A k \in D : O[k] # NULL => A[O[k]] = k
      BY <1>1 DEF Nodes
    <3> QED BY <1>2, <1>5, <3>1
  <2> QED BY <2>1
<1>9. IF P[y] = z THEN O[z] = y ELSE S[P[y]] = y /\ O[P[y]] # y /\ O[z] # y
  BY <1>2, <1>3, <1>5, <1>6, <1>8
<1>10. O[y] # NULL => O[y] # S[z] /\ O[y] # O[z]
  BY <1>2, <1>6
<1> QED BY <1>2, <1>3, <1>5, <1>6, <1>7, <1>9, <1>10 DEF Heirs

\* Once the next key has taken its place nothing names z.
LEMMA PromotionUnlinks ==
  ASSUME NEW side \in Sides, NEW D \in SUBSET (1 .. MaxKey), NEW z \in D, NEW y,
         NEW root, NEW P, NEW S, NEW O, NEW A, NEW B, Shape(side, D, root, P, S, O, A, B),
         Heirs(D, z, y, P, S, O), NEW r, NEW p, NEW s, NEW o,
         Promoted(y, z, root, P, S, O, D, r, p, s, o)
  PROVE  r # z /\ \A k \in D \ {z} : p[k] # z /\ s[k] # z /\ o[k] # z
<1>1. Nodes(side, D, root, P, S, O, A, B)
  BY ShapeOfNodes
<1>2. /\ z # NULL /\ \A k \in D : S[k] # z /\ O[k] # z
      /\ \A k \in D : P[k] = z => (O[z] = k \/ S[z] = k) /\ k # NULL
  <2>1. z # NULL /\ \A k \in D : k # NULL
    BY <1>1 DEF Nodes
  <2>2. \A k \in D : S[k] # z /\ O[k] # z
    BY <1>1, <2>1 DEF Nodes, Heirs
  <2>3. \A k \in D : P[k] = z => (O[z] = k \/ S[z] = k) /\ k # NULL
    BY <1>1, <2>1 DEF Nodes
  <2> QED BY <2>1, <2>2, <2>3
<1>3. P[z] = NULL /\ y # z /\ O[y] # z /\ O[z] # z /\ S[z] # z
  BY DEF Heirs
<1>4. r # z
  BY <1>3 DEF Promoted
<1>5. ASSUME NEW k \in D \ {z} PROVE p[k] # z /\ s[k] # z /\ o[k] # z
  <2>1. /\ p[k] = IF k = y THEN P[z]
                  ELSE IF k = O[y] /\ P[y] # z THEN P[y]
                  ELSE IF k = S[z] \/ k = O[z] THEN y ELSE P[k]
        /\ s[k] = IF k = y THEN S[z]
                  ELSE IF k = P[y] THEN O[y]
                  ELSE IF k = P[z] /\ S[k] = z THEN y ELSE S[k]
        /\ o[k] = IF k = y THEN (IF P[y] = z THEN O[y] ELSE O[z])
                  ELSE IF k = P[z] /\ S[k] # z THEN y ELSE O[k]
    BY DEF Promoted
  <2> QED BY <1>2, <1>3, <2>1
<1> QED BY <1>4, <1>5

\* Unroot without the second visit to y's child: what the tree looks like after it.
Unrooted(D, t, z, y, h) ==
  LET w == parent(t, y)
      u == t.node[y].right
      l == t.node[z].left
      r == t.node[z].right
  IN  /\ h \in Trees(D) /\ h.node_count = t.node_count /\ h.root = y
      /\ \A k \in D \ {z} :
           /\ h.node[k].record = t.node[k].record
           /\ h.node[k].parent = IF k = y THEN NULL ELSE IF k = u /\ w # z THEN w
                                 ELSE IF k = l \/ k = r THEN y ELSE t.node[k].parent
           /\ h.node[k].left = IF k = y THEN l ELSE IF k = w THEN u ELSE t.node[k].left
           /\ h.node[k].right = IF k = y /\ w # z THEN r ELSE t.node[k].right

\* The pointers that Unroot sets around the root and the least key of its right subtree.
LEMMA UnrootEffect ==
  ASSUME NEW D, NULL \notin D, NEW t \in Trees(D), NEW z \in D, NEW y \in D,
         y = subtree_minimum(t, t.node[z].right),
         Heirs(D, z, y, Parents(t), Kids(t, "left"), Kids(t, "right")), NEW h, h = Unroot(t, z)
  PROVE  Unrooted(D, t, z, y, h)
<1> DEFINE w == t.node[y].parent
           u == t.node[y].right
           l == t.node[z].left
           r == t.node[z].right
           c0 == Hang(t, y, u)
           c1 == SetParent(c0, u, w)
           c2 == [c1 EXCEPT !.node[y].right = c1.node[z].right]
           c3 == SetParent(c2, c1.node[z].right, y)
           g == IF w = z THEN t ELSE c3
           h0 == Hang(g, z, y)
           q == g.node[z].parent
           h1 == SetParent(h0, y, q)
           h2 == [h1 EXCEPT !.node[y].left = l]
<1>1. DOMAIN t.node = D
  BY DEF Trees
<1>2. /\ \A k \in D : Parents(t)[k] = t.node[k].parent /\ Kids(t, "left")[k] = t.node[k].left
                      /\ Kids(t, "right")[k] = t.node[k].right
  BY <1>1 DEF Parents, Kids
<1>3. /\ z # NULL /\ y # NULL /\ y \in D /\ y # z /\ t.node[z].parent = NULL
      /\ l \in D \cup {NULL} /\ r \in D /\ l # z /\ r # z /\ l # r /\ l # y
      /\ t.node[r].parent = z /\ (l # NULL => t.node[l].parent = z)
      /\ w \in D /\ w # y
      /\ u \in D \cup {NULL} /\ u # z /\ u # y
      /\ u # NULL => t.node[u].parent = y /\ u # l /\ u # r
      /\ IF w = z THEN r = y ELSE t.node[w].left = y /\ t.node[w].right # y /\ r # y
  <2>1. Parents(t)[y] = w /\ Kids(t, "right")[y] = u /\ Kids(t, "left")[z] = l /\ Kids(t, "right")[z] = r
    BY <1>2
  <2> DEFINE P == Parents(t)
             S == Kids(t, "left")
             O == Kids(t, "right")
  <2>2. /\ z # NULL /\ y # NULL /\ y \in D /\ y # z /\ P[z] = NULL
        /\ l \in D \cup {NULL} /\ r \in D /\ l # z /\ r # z /\ l # r /\ l # y
        /\ P[r] = z /\ (l # NULL => P[l] = z)
        /\ w \in D /\ w # y
        /\ u \in D \cup {NULL} /\ u # z /\ u # y
        /\ u # NULL => P[u] = y /\ u # l /\ u # r
        /\ IF w = z THEN r = y ELSE S[w] = y /\ O[w] # y /\ r # y
    <3> HIDE DEF P, S, O, w, u, l, r
    <3>1. P[y] = w /\ O[y] = u /\ S[z] = l /\ O[z] = r
      BY <2>1 DEF P, S, O
    <3>2. Heirs(D, z, y, P, S, O)
      BY DEF P, S, O
    <3> QED BY <3>1, <3>2 DEF Heirs
  <2> HIDE DEF w, u, l, r
  <2> QED BY <1>2, <2>2
<1>4. h = SetParent(h2, l, y)
  <2> DEFINE Cut(v) == replace(t, v, t.node[v].right)
             Moved(v) == IF parent(t, v) = z THEN t
                         ELSE SetParent([Cut(v) EXCEPT !.node[v].right = Cut(v).node[z].right],
                                        Cut(v).node[z].right, v)
             Done(v) == SetParent([replace(Moved(v), z, v) EXCEPT !.node[v].left = l], l, v)
  <2>1. h = Done(subtree_minimum(t, t.node[z].right))
    BY DEF Unroot
  <2>2. h = Done(y)
    <3> HIDE DEF Done
    <3> QED BY <2>1
  <2>3. Done(y) = SetParent(h2, l, y)
    <3>1. Cut(y) = c1
      BY DEF replace, parent
    <3>2. Moved(y) = g
      BY <3>1 DEF parent
    <3>3. replace(Moved(y), z, y) = h1
      BY <3>2 DEF replace, parent
    <3> HIDE DEF Cut, Moved, h1
    <3> QED BY <3>3
  <2> HIDE DEF Done, h2
  <2> QED BY <2>2, <2>3
<1>5. g \in Trees(D) /\ g.node_count = t.node_count /\ q = NULL
      /\ \A k \in D :
           /\ g.node[k].record = t.node[k].record
           /\ g.node[k].parent = IF k = r /\ w # z THEN y
                                 ELSE IF k = u /\ w # z THEN w ELSE t.node[k].parent
           /\ g.node[k].left = IF k = w /\ w # z THEN u ELSE t.node[k].left
           /\ g.node[k].right = IF k = y /\ w # z THEN r ELSE t.node[k].right
  <2>1. CASE w = z
    BY <1>3, <2>1
  <2>2. CASE w # z
    <3>1. HungAt(D, t, w, y, u, c0)
      BY <1>3, HangEffect DEF parent
    <3>2. Adopted(D, c0, u, w, c1)
      <4>1. c0 \in Trees(D)
        BY <3>1 DEF HungAt
      <4> HIDE DEF c0
      <4> QED BY <1>3, <4>1, SetParentEffect
    <3> DEFINE r1 == c1.node[z].right
    <3>3. r1 = r /\ c1 \in Trees(D)
      <4> HIDE DEF c0, c1, u, w
      <4> QED BY <1>3, <2>2, <3>1, <3>2 DEF HungAt, Adopted
    <3>4. Put(D, c1, y, "right", r, c2)
      <4> HIDE DEF c1
      <4> QED BY <1>3, <3>3, PutEffect
    <3>5. Adopted(D, c2, r, y, c3)
      <4>1. c2 \in Trees(D)
        BY <3>4 DEF Put
      <4> HIDE DEF c1, c2
      <4> QED BY <1>3, <3>3, <4>1, SetParentEffect
    <3>6. g = c3
      BY <2>2
    <3> HIDE DEF c0, c1, c2, c3, u, l, r, w
    <3>7. c3 \in Trees(D) /\ c3.node_count = t.node_count
      BY <3>1, <3>2, <3>4, <3>5 DEF HungAt, Adopted, Put
    <3>8. ASSUME NEW k \in D
          PROVE  /\ c3.node[k].record = t.node[k].record
                 /\ c3.node[k].parent = IF k = r THEN y ELSE IF k = u THEN w ELSE t.node[k].parent
                 /\ c3.node[k].left = IF k = w THEN u ELSE t.node[k].left
                 /\ c3.node[k].right = IF k = y THEN r ELSE t.node[k].right
      BY <1>3, <2>2, <3>1, <3>2, <3>4, <3>5 DEF HungAt, Adopted, Put
    <3> QED BY <1>3, <2>2, <3>6, <3>7, <3>8
  <2> QED BY <2>1, <2>2
<1> HIDE DEF g, c0, c1, c2, c3
<1>6. HungAt(D, g, NULL, z, y, h0)
  BY <1>3, <1>5, HangEffect DEF parent
<1>7. Adopted(D, h0, y, NULL, h1)
  <2>1. h0 \in Trees(D)
    BY <1>6 DEF HungAt
  <2> HIDE DEF h0, q
  <2> QED BY <1>3, <1>5, <2>1, SetParentEffect
<1>8. Put(D, h1, y, "left", l, h2)
  <2>1. h1 \in Trees(D)
    BY <1>7 DEF Adopted
  <2> HIDE DEF h1
  <2> QED BY <1>3, <2>1, PutEffect
<1>9. Adopted(D, h2, l, y, h)
  <2>1. h2 \in Trees(D)
    BY <1>8 DEF Put
  <2> HIDE DEF h2
  <2> QED BY <1>3, <1>4, <2>1, SetParentEffect
<1> HIDE DEF h0, h1, h2, q
<1>10. h \in Trees(D) /\ h.node_count = t.node_count /\ h.root = y
  <2>1. h \in Trees(D) /\ h.node_count = h2.node_count /\ h.root = h2.root
    BY <1>9 DEF Adopted
  <2>2. h2.node_count = h1.node_count /\ h2.root = h1.root
    BY <1>8 DEF Put
  <2>3. h1.node_count = h0.node_count /\ h1.root = h0.root
    BY <1>7 DEF Adopted
  <2>4. h0.node_count = g.node_count /\ h0.root = y
    BY <1>6 DEF HungAt
  <2> QED BY <1>5, <2>1, <2>2, <2>3, <2>4
<1> HIDE DEF u, l, r, w
<1>11. ASSUME NEW k \in D \ {z}
       PROVE  /\ h.node[k].record = t.node[k].record
              /\ h.node[k].parent = IF k = y THEN NULL ELSE IF k = u /\ w # z THEN w
                                    ELSE IF k = l \/ k = r THEN y ELSE t.node[k].parent
              /\ h.node[k].left = IF k = y THEN l ELSE IF k = w THEN u ELSE t.node[k].left
              /\ h.node[k].right = IF k = y /\ w # z THEN r ELSE t.node[k].right
  <2>1. /\ h.node[k].record = g.node[k].record
        /\ h.node[k].parent = IF k = l THEN y ELSE IF k = y THEN NULL ELSE g.node[k].parent
        /\ h.node[k].left = IF k = y THEN l ELSE g.node[k].left
        /\ h.node[k].right = g.node[k].right
    BY <1>3, <1>6, <1>7, <1>8, <1>9 DEF HungAt, Adopted, Put
  <2> QED BY <1>3, <1>5, <2>1
<1> QED BY <1>10, <1>11 DEF Unrooted, parent, u, l, r, w

\* The root goes and the next key takes its place.
LEMMA UnrootShrinks ==
  ASSUME NEW D \in SUBSET (1 .. MaxKey), NEW t \in Trees(D), NEW z \in D,
         NEW lo, NEW hi, ShapeOf("left", t, lo, hi), t.node_count > 0, parent(t, z) = NULL,
         t.node[z].left # NULL, t.node[z].right # NULL,
         NEW h, h = Unroot(t, z), NEW g, g = Freed(h, z)
  PROVE  Shrunk(D, t, z, g) /\ Ordered(g)
<1> DEFINE y == subtree_minimum(t, t.node[z].right)
           P == Parents(t)
           S == Kids(t, "left")
           O == Kids(t, "right")
           E == D \ {z}
<1>1. /\ DOMAIN t.node = D /\ NULL \notin D /\ "left" \in Sides
      /\ Other("left") = "right"
  BY BeforeOrders DEF Trees, Sides, Other
<1>2. /\ \A k \in D : P[k] = t.node[k].parent /\ S[k] = t.node[k].left /\ O[k] = t.node[k].right
      /\ Shape("left", D, t.root, P, S, O, lo, hi)
      /\ Nodes("left", D, t.root, P, S, O, lo, hi)
  <2>1. \A k \in D : P[k] = t.node[k].parent /\ S[k] = t.node[k].left /\ O[k] = t.node[k].right
    BY <1>1 DEF Parents, Kids
  <2>2. Shape("left", D, t.root, P, S, O, lo, hi)
    BY <1>1 DEF ShapeOf
  <2>3. Nodes("left", D, t.root, P, S, O, lo, hi)
    BY LeftNodes
  <2> QED BY <2>1, <2>2, <2>3
<1>3. P[z] = NULL /\ S[z] # NULL /\ O[z] # NULL /\ t.node[z].right = O[z]
  BY <1>2 DEF parent
<1>4. /\ y \in D /\ S[y] = NULL /\ lo[y] = z /\ y # z /\ Before("left", y, hi[z])
  <2> DEFINE u == t.node[z].right
  <2>1. u \in D /\ lo[u] = z /\ hi[u] = hi[z]
    <3> HIDE DEF P, S, O, u
    <3>1. u = O[z]
      BY <1>3 DEF u
    <3> QED BY <1>2, <1>3, <3>1 DEF Nodes
  <2> HIDE DEF u
  <2>2. Leftmost(D, t, u, lo, hi, y)
    BY <2>1, MinimumFound DEF u
  <2> HIDE DEF y, P, S, O
  <2>3. /\ y \in D /\ t.node[y].left = NULL /\ lo[y] = z /\ hi[y] <= hi[z]
    BY <2>1, <2>2 DEF Leftmost
  <2>4. lo[y] < y /\ y < hi[y] /\ y \in Nat /\ hi[y] \in Nat /\ hi[z] \in Nat /\ lo[y] \in Nat
    BY <1>2, <2>3 DEF Nodes, Before
  <2> QED BY <1>2, <2>3, <2>4 DEF Before
<1>5. y = subtree_minimum(t, t.node[z].right)
  OBVIOUS
<1> HIDE DEF P, S, O, y
<1>6. Heirs(D, z, y, P, S, O)
  BY <1>1, <1>2, <1>3, <1>4, PromotionSites
<1>7. Unrooted(D, t, z, y, h)
  BY <1>1, <1>4, <1>5, <1>6, UnrootEffect DEF P, S, O
<1>8. /\ h \in Trees(D) /\ h.node_count = t.node_count /\ h.root = y
      /\ \A k \in E :
           /\ h.node[k].record = t.node[k].record
           /\ h.node[k].parent = IF k = y THEN NULL ELSE IF k = O[y] /\ P[y] # z THEN P[y]
                                 ELSE IF k = S[z] \/ k = O[z] THEN y ELSE P[k]
           /\ h.node[k].left = IF k = y THEN S[z] ELSE IF k = P[y] THEN O[y] ELSE S[k]
           /\ h.node[k].right = IF k = y /\ P[y] # z THEN O[z] ELSE O[k]
  <2>1. /\ parent(t, y) = P[y] /\ t.node[y].right = O[y] /\ t.node[z].left = S[z]
        /\ t.node[z].right = O[z]
    BY <1>2, <1>4 DEF parent
  <2> QED BY <1>2, <1>7, <2>1 DEF Unrooted
<1> DEFINE p1 == Parents(h)
           s1 == Kids(h, "left")
           o1 == Kids(h, "right")
<1>9. \A k \in D : p1[k] = h.node[k].parent /\ s1[k] = h.node[k].left /\ o1[k] = h.node[k].right
  BY <1>8 DEF Parents, Kids, Trees
<1> HIDE DEF p1, s1, o1
<1>10. Promoted(y, z, t.root, P, S, O, D, h.root, p1, s1, o1)
  <2>1. h.root = IF P[z] = NULL THEN y ELSE t.root
    BY <1>3, <1>8
  <2>2. ASSUME NEW k \in D \ {z}
        PROVE  /\ p1[k] = IF k = y THEN P[z]
                          ELSE IF k = O[y] /\ P[y] # z THEN P[y]
                          ELSE IF k = S[z] \/ k = O[z] THEN y ELSE P[k]
               /\ s1[k] = IF k = y THEN S[z]
                          ELSE IF k = P[y] THEN O[y]
                          ELSE IF k = P[z] /\ S[k] = z THEN y ELSE S[k]
               /\ o1[k] = IF k = y THEN (IF P[y] = z THEN O[y] ELSE O[z])
                          ELSE IF k = P[z] /\ S[k] # z THEN y ELSE O[k]
    <3>1. k # P[z]
      BY <1>1, <1>3
    <3> QED BY <1>3, <1>8, <1>9, <3>1
  <2> QED BY <2>1, <2>2 DEF Promoted
<1>11. Unlinked(D, h, z)
  <2>1. h.root # z /\ \A k \in D \ {z} : p1[k] # z /\ s1[k] # z /\ o1[k] # z
    <3> DEFINE side == "left"
               root == t.root
               r == h.root
    <3>1. /\ side \in Sides /\ Shape(side, D, root, P, S, O, lo, hi)
          /\ Promoted(y, z, root, P, S, O, D, r, p1, s1, o1)
      BY <1>1, <1>2, <1>10
    <3> HIDE DEF side, root, r
    <3>2. r # z /\ \A k \in D \ {z} : p1[k] # z /\ s1[k] # z /\ o1[k] # z
      BY ONLY D \in SUBSET (1 .. MaxKey), z \in D, <1>6, <3>1, PromotionUnlinks
    <3> QED BY <3>2 DEF r
  <2> QED BY ONLY <1>9, <2>1 DEF Unlinked
<1>12. Shrunk(D, h, z, g) /\ g.root = h.root /\ \A k \in E : g.node[k] = h.node[k]
  BY <1>8, <1>11, FreedEffect
<1>13. Shrunk(D, t, z, g)
  BY <1>8, <1>12 DEF Shrunk
<1> DEFINE p == Parents(g)
           s == Kids(g, "left")
           o == Kids(g, "right")
<1>14. DOMAIN g.node = E /\ g \in Trees(E)
  BY <1>12 DEF Shrunk, Trees
<1>15. /\ p \in [E -> E \cup {NULL}] /\ s \in [E -> E \cup {NULL}] /\ o \in [E -> E \cup {NULL}]
       /\ g.root \in E \cup {NULL}
  BY <1>14 DEF Parents, Kids, Trees, NodesOn
<1>16. Promoted(y, z, t.root, P, S, O, D, g.root, p, s, o)
  <2>1. \A k \in E : p[k] = p1[k] /\ s[k] = s1[k] /\ o[k] = o1[k]
    BY <1>9, <1>12, <1>14 DEF Parents, Kids
  <2> HIDE DEF p, s, o
  <2> QED BY <1>10, <1>12, <2>1 DEF Promoted
<1> HIDE DEF p, s, o
<1>17. \E a, b : Shape("left", E, g.root, p, s, o, a, b)
  <2> DEFINE side == "left"
             root == t.root
             r == g.root
  <2>1. /\ side \in Sides /\ y \in D /\ y # z /\ Follows(side, y, z, S, lo, hi)
        /\ Shape(side, D, root, P, S, O, lo, hi) /\ E = D \ {z}
        /\ Promoted(y, z, root, P, S, O, D, r, p, s, o) /\ r \in E \cup {NULL}
    BY <1>1, <1>2, <1>3, <1>4, <1>15, <1>16 DEF Follows
  <2> HIDE DEF E, side, root, r
  <2>2. \E a, b : Shape(side, E, r, p, s, o, a, b)
    BY ONLY D \in SUBSET (1 .. MaxKey), z \in D, <1>15, <2>1, PromotionKeepsShape
  <2> QED BY <2>2 DEF side, r
<1>18. Ordered(g)
  BY <1>1, <1>14, <1>17 DEF Ordered, ShapeOf, p, s, o
<1> QED BY <1>13, <1>18

\* A removal takes out the key and its record, or leaves the tree alone.
LEMMA RemoveShrinks ==
  ASSUME NEW D \in SUBSET (1 .. MaxKey), NEW t \in Trees(D), Ordered(t),
         t.node_count = Cardinality(D), NEW key \in 1 .. MaxKey, NEW g, g = tree_remove(t, key)
  PROVE  IF key \in D THEN Shrunk(D, t, key, g) /\ Ordered(g) ELSE g = t
<1>1. PICK lo, hi : ShapeOf("left", t, lo, hi)
  BY DEF Ordered
<1> DEFINE w == Search(t, key)
           s == splay(t, key)
           h == IF s.node[key].left = NULL THEN replace(s, key, s.node[key].right)
                ELSE IF s.node[key].right = NULL THEN replace(s, key, s.node[key].left)
                ELSE Unroot(s, key)
<1>2. Found(D, t, key, lo, hi, w)
  BY <1>1, SearchFinds
<1>3. key # NULL
  BY DEF NULL
<1>4. g = IF w.z = NULL THEN t ELSE Freed(h, key)
  BY DEF tree_remove, Freed
<1> HIDE DEF w
<1>5. IF key \in D THEN w.z # NULL ELSE w.z = NULL
  BY <1>2, <1>3 DEF Found
<1>6. ASSUME key \in D PROVE Shrunk(D, t, key, g) /\ Ordered(g)
  <2> HIDE DEF s
  <2>1. /\ s \in Trees(D) /\ SameRecords(t, s) /\ parent(s, key) = NULL
        /\ \E lo2, hi2 : ShapeOf("left", s, lo2, hi2)
    BY <1>1, <1>6, SplayReachesRoot DEF s
  <2>2. PICK a, b : ShapeOf("left", s, a, b)
    BY <2>1
  <2>3. /\ "left" \in Sides /\ "right" \in Sides /\ Other("left") = "right" /\ Other("right") = "left"
    BY DEF Sides, Other
  <2>4. DOMAIN t.node = D /\ DOMAIN s.node = D
    BY <2>1 DEF Trees
  <2>5. s.node_count > 0
    <3>1. IsFiniteSet(D)
      <4>1. IsFiniteSet(1 .. MaxKey)
        BY FS_Interval, KeysAssumption
      <4> QED BY <4>1, FS_Subset
    <3>2. Cardinality(D) # 0 /\ Cardinality(D) \in Nat
      BY <1>6, <3>1, FS_EmptySet, FS_CardinalityType
    <3> QED BY <2>1, <3>2 DEF SameRecords
  <2>6. g = Freed(h, key)
    BY <1>4, <1>5, <1>6
  <2>7. Shrunk(D, s, key, g) /\ Ordered(g)
    <3>1. CASE s.node[key].left = NULL
      <4>1. h = replace(s, key, s.node[key]["right"]) /\ s.node[key]["left"] = NULL
        BY <3>1
      <4> HIDE DEF h
      <4>2. Shrunk(D, s, key, g) /\ \E c, d : ShapeOf("left", g, c, d)
        BY <1>6, <2>1, <2>2, <2>3, <2>5, <2>6, <4>1, SpliceShrinks
      <4> QED BY <4>2 DEF Ordered
    <3>2. CASE s.node[key].left # NULL /\ s.node[key].right = NULL
      <4>1. h = replace(s, key, s.node[key]["left"]) /\ s.node[key]["right"] = NULL
        BY <3>2
      <4>2. ShapeOf("right", s, b, a)
        BY <2>2, <2>3, <2>4, Mirror
      <4> HIDE DEF h
      <4>3. PICK c, d : Shrunk(D, s, key, g) /\ ShapeOf("right", g, c, d)
        BY <1>6, <2>1, <2>3, <2>5, <2>6, <4>1, <4>2, SpliceShrinks
      <4>4. DOMAIN g.node \in SUBSET (1 .. MaxKey)
        BY <4>3 DEF Shrunk, Trees
      <4>5. ShapeOf("left", g, d, c)
        BY <2>3, <4>3, <4>4, Mirror
      <4> QED BY <4>3, <4>5 DEF Ordered
    <3>3. CASE s.node[key].left # NULL /\ s.node[key].right # NULL
      <4>1. h = Unroot(s, key)
        BY <3>3
      <4> HIDE DEF h
      <4> QED BY <1>6, <2>1, <2>2, <2>5, <2>6, <3>3, <4>1, UnrootShrinks
    <3> QED BY <3>1, <3>2, <3>3
  <2> QED BY <2>1, <2>4, <2>7 DEF Shrunk, SameRecords
<1> QED BY <1>4, <1>5, <1>6

(***************************************************************************)
(* What the calls answer.                                                  *)
(***************************************************************************)
\* n is the greatest node that is not above the key.
IsNearest(D, key, n) == n \in D /\ n <= key /\ \A k \in D : k <= key => k <= n

\* A search answers with the key's record, or with that of the next smaller key.
LEMMA SearchAnswers ==
  ASSUME NEW D \in SUBSET (1 .. MaxKey), NEW t \in Trees(D), Ordered(t), NEW key \in 1 .. MaxKey
  PROVE  /\ tree_find(t, key) = IF key \in D THEN t.node[key].record ELSE NULL
         /\ IF \E k \in D : k <= key
            THEN \E n : IsNearest(D, key, n) /\ tree_find_nearest(t, key) = t.node[n].record
            ELSE tree_find_nearest(t, key) = NULL
<1>1. PICK lo, hi : ShapeOf("left", t, lo, hi)
  BY DEF Ordered
<1> DEFINE w == Search(t, key)
<1>2. Found(D, t, key, lo, hi, w)
  BY <1>1, SearchFinds
<1>3. /\ tree_find(t, key) = record_of(t, w.z)
      /\ tree_find_nearest(t, key) = record_of(t, IF w.z # NULL THEN w.z ELSE w.n)
  BY DEF tree_find, tree_find_nearest
<1> HIDE DEF w
<1>4. key \in Nat /\ key # NULL /\ \A k \in D : k \in Nat /\ k # NULL /\ k > 0
  BY DEF NULL
<1>5. CASE key \in D
  <2>1. w.z = key
    BY <1>2, <1>5 DEF Found
  <2>2. IsNearest(D, key, key)
    BY <1>4, <1>5 DEF IsNearest
  <2>3. tree_find(t, key) = t.node[key].record /\ tree_find_nearest(t, key) = t.node[key].record
    BY <1>3, <1>4, <2>1 DEF record_of
  <2> QED BY <1>4, <1>5, <2>2, <2>3
<1>6. CASE key \notin D
  <2>1. w.z = NULL /\ w.n \in D \cup {NULL} /\ w.n < key /\ \A k \in D : k < key => k <= w.n
    BY <1>2, <1>6 DEF Found, Missing
  <2>2. tree_find(t, key) = NULL
    BY <1>3, <2>1 DEF record_of
  <2>3. tree_find_nearest(t, key) = record_of(t, w.n)
    BY <1>3, <2>1
  <2>4. \A k \in D : k <= key => k < key
    BY <1>4, <1>6
  <2>5. CASE w.n = NULL
    <3>1. ~ \E k \in D : k <= key
      BY <1>4, <2>1, <2>4, <2>5 DEF NULL
    <3> QED BY <1>6, <2>2, <2>3, <2>5, <3>1 DEF record_of
  <2>6. CASE w.n # NULL
    <3>1. w.n \in D /\ w.n <= key
      <4>1. w.n \in D /\ w.n < key
        BY <2>1, <2>6
      <4>2. w.n \in Nat
        BY <1>4, <4>1
      <4> QED BY <1>4, <4>1, <4>2
    <3>2. IsNearest(D, key, w.n)
      BY <2>1, <2>4, <3>1 DEF IsNearest
    <3> QED BY <1>6, <2>2, <2>3, <2>6, <3>1, <3>2 DEF record_of
  <2> QED BY <2>5, <2>6
<1> QED BY <1>5, <1>6

(***************************************************************************)
(* The theorems.                                                           *)
(***************************************************************************)
\* The inductive invariant: a search tree on some of the keys, and their count.
IInv ==
  /\ DOMAIN tree.node \subseteq Keys
  /\ tree \in Trees(DOMAIN tree.node)
  /\ tree.node_count = Cardinality(DOMAIN tree.node)
  /\ Ordered(tree)
  /\ result.ret \in Records \cup {0, 1}

\* A set of keys is finite.
LEMMA FewKeys ==
  ASSUME NEW D, D \subseteq Keys
  PROVE  D \in SUBSET (1 .. MaxKey) /\ IsFiniteSet(D) /\ Cardinality(D) \in Nat
<1>1. D \in SUBSET (1 .. MaxKey) /\ IsFiniteSet(1 .. MaxKey)
  BY KeysAssumption, FS_Interval
<1>2. IsFiniteSet(D)
  BY <1>1, FS_Subset
<1> QED BY <1>1, <1>2, FS_CardinalityType

\* tree_new makes an empty search tree.
LEMMA NewIsOrdered ==
  /\ tree_new \in Trees({}) /\ DOMAIN tree_new.node = {} /\ Ordered(tree_new)
  /\ tree_new.node_count = Cardinality({})
<1> DEFINE t == tree_new
           e == [x \in {} |-> 0]
<1>1. t.root = NULL /\ t.node_count = 0 /\ DOMAIN t.node = {} /\ t \in Trees({})
  BY DEF tree_new, Trees
<1> HIDE DEF t
<1>2. Shape("left", {}, t.root, Parents(t), Kids(t, "left"), Kids(t, "right"), e, e)
  BY <1>1 DEF Shape, Pointers, Intervals, AtRoot, NearChild, FarChild, Hangs, Parents, Kids
<1> HIDE DEF e
<1>3. ShapeOf("left", t, e, e)
  BY <1>1, <1>2 DEF ShapeOf, Other
<1>4. Ordered(t)
  BY <1>3 DEF Ordered
<1>5. Cardinality({}) = 0
  BY FS_EmptySet
<1> QED BY <1>1, <1>4, <1>5 DEF t

\* The tree starts empty, and every call keeps it a search tree.
LEMMA InitIInv == Init => IInv
BY NewIsOrdered DEF Init, IInv, NULL

\* No call leaves a tree that is not a search tree.
LEMMA NextIInv == IInv /\ [Next]_vars => IInv'
<1> SUFFICES ASSUME IInv, [Next]_vars PROVE IInv'
  OBVIOUS
<1> DEFINE D == DOMAIN tree.node
<1>1. /\ D \subseteq Keys /\ D \in SUBSET (1 .. MaxKey) /\ IsFiniteSet(D) /\ Cardinality(D) \in Nat
      /\ tree \in Trees(D) /\ tree.node_count = Cardinality(D) /\ Ordered(tree)
      /\ result.ret \in Records \cup {0, 1}
  BY FewKeys DEF IInv
<1>2. ASSUME NEW key \in Keys
      PROVE  /\ key \in 1 .. MaxKey
             /\ tree_find(tree, key) \in Records \cup {0, 1}
             /\ tree_find_nearest(tree, key) \in Records \cup {0, 1}
  <2>1. key \in 1 .. MaxKey
    BY KeysAssumption
  <2>2. \A n \in D : tree.node[n].record \in Records
    BY <1>1 DEF Trees, NodesOn
  <2> HIDE DEF D
  <2>3. /\ tree_find(tree, key) = IF key \in D THEN tree.node[key].record ELSE NULL
        /\ IF \E k \in D : k <= key
           THEN \E n : IsNearest(D, key, n) /\ tree_find_nearest(tree, key) = tree.node[n].record
           ELSE tree_find_nearest(tree, key) = NULL
    BY <1>1, <2>1, SearchAnswers
  <2> QED BY <2>1, <2>2, <2>3 DEF IsNearest, NULL
<1>3. ASSUME NEW key \in Keys, NEW record \in Records, Insert(key, record) PROVE IInv'
  <2>1. /\ tree' = tree_insert(tree, key, record)
        /\ result'.ret \in {0, 1}
    BY <1>3 DEF Insert, Returns
  <2>2. IF key \in D THEN Search(tree, key).z = key /\ tree' = tree
        ELSE /\ Search(tree, key).z = NULL
             /\ Grown(D, tree, key, record, tree') /\ Ordered(tree')
    <3> HIDE DEF D
    <3> QED BY <1>1, <1>2, <2>1, InsertGrows
  <2>3. CASE key \in D
    BY <1>1, <2>1, <2>2, <2>3 DEF IInv
  <2>4. CASE key \notin D
    <3>1. tree' \in Trees(D \cup {key}) /\ tree'.node_count = Cardinality(D) + 1 /\ Ordered(tree')
      BY <1>1, <2>2, <2>4 DEF Grown
    <3>2. DOMAIN (tree'.node) = D \cup {key}
      BY <3>1 DEF Trees
    <3>3. Cardinality(D \cup {key}) = Cardinality(D) + 1
      BY <1>1, <2>4, FS_AddElement
    <3> QED BY <1>1, <2>1, <3>1, <3>2, <3>3 DEF IInv
  <2> QED BY <2>3, <2>4
<1>4. ASSUME NEW key \in Keys, Find(key) \/ FindNearest(key) PROVE IInv'
  <2>1. tree' = tree /\ result'.ret \in Records \cup {0, 1}
    BY <1>2, <1>4 DEF Find, FindNearest, Returns
  <2> QED BY <1>1, <2>1 DEF IInv
<1>5. ASSUME NEW key \in Keys, Remove(key) PROVE IInv'
  <2>1. /\ tree' = tree_remove(tree, key)
        /\ result'.ret \in Records \cup {0, 1}
    BY <1>2, <1>5 DEF Remove, Returns
  <2>2. IF key \in D THEN Shrunk(D, tree, key, tree') /\ Ordered(tree') ELSE tree' = tree
    <3> HIDE DEF D
    <3> QED BY <1>1, <1>2, <2>1, RemoveShrinks
  <2>3. CASE key \notin D
    BY <1>1, <2>1, <2>2, <2>3 DEF IInv
  <2>4. CASE key \in D
    <3>1. tree' \in Trees(D \ {key}) /\ tree'.node_count = Cardinality(D) - 1 /\ Ordered(tree')
      BY <1>1, <2>2, <2>4 DEF Shrunk
    <3>2. DOMAIN (tree'.node) = D \ {key}
      BY <3>1 DEF Trees
    <3>3. Cardinality(D \ {key}) = Cardinality(D) - 1
      BY <1>1, <2>4, FS_RemoveElement
    <3> QED BY <1>1, <2>1, <3>1, <3>2, <3>3 DEF IInv
  <2> QED BY <2>3, <2>4
<1>6. CASE Renew
  BY <1>6, NewIsOrdered DEF Renew, Returns, IInv, NULL
<1>7. CASE UNCHANGED vars
  BY <1>7 DEF vars, IInv
<1> QED BY <1>3, <1>4, <1>5, <1>6, <1>7 DEF Next

\* Every reachable tree is a search tree.
LEMMA TreeInvariant == Spec => []IInv
BY InitIInv, NextIInv, PTL DEF Spec

\* The invariant types the tree.
LEMMA IInvTypes == IInv => TypeOK
<1> SUFFICES ASSUME IInv PROVE TypeOK
  OBVIOUS
<1> DEFINE D == DOMAIN tree.node
<1>1. D \subseteq Keys /\ tree \in Trees(D) /\ tree.node_count = Cardinality(D) /\ result.ret \in Records \cup {0, 1}
  BY DEF IInv
<1>2. tree.node_count \in 0 .. Cardinality(Keys)
  <2>1. IsFiniteSet(Keys) /\ Cardinality(Keys) \in Nat /\ Cardinality(D) \in Nat
    BY <1>1, FewKeys
  <2>2. Cardinality(D) <= Cardinality(Keys)
    BY <1>1, <2>1, FS_Subset
  <2> QED BY <1>1, <2>1, <2>2
<1>3. /\ tree.node \in [D -> [left : D \cup {NULL}, right : D \cup {NULL}, parent : D \cup {NULL},
                              record : Records]]
      /\ tree.root \in D \cup {NULL}
  BY <1>1 DEF Trees, NodesOn
<1> QED BY <1>1, <1>2, <1>3 DEF TypeOK

\* No pointer of the tree ever names a node that was freed, for any keys and records.
THEOREM TypeCorrect == Spec => []TypeOK
BY TreeInvariant, IInvTypes, PTL

\* The invariant makes the parent pointers exact.
LEMMA IInvParents == IInv => ParentsExact
<1> SUFFICES ASSUME IInv PROVE ParentsExact
  OBVIOUS
<1> DEFINE D == DOMAIN tree.node
<1>1. D \in SUBSET (1 .. MaxKey) /\ tree \in Trees(D)
  BY FewKeys DEF IInv
<1>2. PICK lo, hi : ShapeOf("left", tree, lo, hi)
  BY DEF IInv, Ordered
<1>3. /\ Nodes("left", D, tree.root, Parents(tree), Kids(tree, "left"), Kids(tree, "right"), lo, hi)
      /\ \A x \in D : /\ Parents(tree)[x] = tree.node[x].parent
                      /\ Kids(tree, "left")[x] = tree.node[x].left
                      /\ Kids(tree, "right")[x] = tree.node[x].right
  <2> HIDE DEF D
  <2> QED BY <1>1, <1>2, LeftNodes
<1>4. tree.root \in D \cup {NULL}
  BY <1>1 DEF Trees
<1> DEFINE P == Parents(tree)
           S == Kids(tree, "left")
           O == Kids(tree, "right")
<1> HIDE DEF D, P, S, O
<1>5. /\ \A z \in D : S[z] # NULL => S[z] \in D /\ P[S[z]] = z
      /\ \A z \in D : O[z] # NULL => O[z] \in D /\ P[O[z]] = z
      /\ \A z \in D : P[z] = NULL <=> z = tree.root
      /\ \A z \in D : P[z] # NULL => P[z] \in D /\ (S[P[z]] = z \/ O[P[z]] = z)
  BY <1>3 DEF Nodes, P, S, O
<1>6. \A x \in D : P[x] = tree.node[x].parent /\ S[x] = tree.node[x].left /\ O[x] = tree.node[x].right
  BY <1>3 DEF P, S, O
<1>7. tree.root # NULL => tree.node[tree.root].parent = NULL
  BY <1>4, <1>5, <1>6
<1>8. ASSUME NEW x \in D, NEW side \in {"left", "right"}, tree.node[x][side] # NULL
      PROVE  tree.node[tree.node[x][side]].parent = x
  <2>1. CASE side = "left"
    BY <1>5, <1>6, <1>8, <2>1
  <2>2. CASE side = "right"
    BY <1>5, <1>6, <1>8, <2>2
  <2> QED BY <2>1, <2>2
<1>9. ASSUME NEW y \in D \ {tree.root}
      PROVE  /\ tree.node[y].parent # NULL
             /\ y \in {tree.node[tree.node[y].parent].left, tree.node[tree.node[y].parent].right}
  BY <1>5, <1>6
<1> QED BY <1>7, <1>8, <1>9 DEF ParentsExact, parent, D

\* After any calls the parent pointers invert the child pointers exactly.
THEOREM ParentsAreExact == Spec => []ParentsExact
BY TreeInvariant, IInvParents, PTL

\* The nodes of U lie above y, each with y in its interval, and y's side of each is
\* among them.
Above(D, t, y, lo, hi, U) ==
  /\ U \subseteq D /\ y \in U
  /\ \A x \in U : lo[x] < y /\ y < hi[x]
  /\ \A x \in U \ {y} : t.node[x][IF y < x THEN "left" ELSE "right"] \in U

\* U holds the root, or a node whose interval has grown by m.
Climbed(D, t, y, lo, hi, m, U) ==
  /\ Above(D, t, y, lo, hi, U)
  /\ t.root \in U \/ \E x \in U : hi[x] - lo[x] >= m + 2

\* One step up.
Parented(t, U) == U \cup ({parent(t, v) : v \in U} \ {NULL})

\* A step up keeps the order and widens the interval.
LEMMA ParentedClimbs ==
  ASSUME NEW D \in SUBSET (1 .. MaxKey), NEW t \in Trees(D), NEW lo, NEW hi,
         ShapeOf("left", t, lo, hi), NEW y \in D, NEW m \in Nat, NEW U,
         Climbed(D, t, y, lo, hi, m, U)
  PROVE  Climbed(D, t, y, lo, hi, m + 1, Parented(t, U))
<1> DEFINE P == Parents(t)
           S == Kids(t, "left")
           O == Kids(t, "right")
           V == Parented(t, U)
<1>1. Nodes("left", D, t.root, P, S, O, lo, hi)
  BY LeftNodes
<1>2. \A x \in D : P[x] = parent(t, x) /\ S[x] = t.node[x].left /\ O[x] = t.node[x].right
  BY LeftNodes DEF parent
<1> HIDE DEF P, S, O
<1>3. /\ U \subseteq D /\ y \in U /\ \A x \in U : lo[x] < y /\ y < hi[x]
      /\ \A x \in U \ {y} : t.node[x][IF y < x THEN "left" ELSE "right"] \in U
      /\ t.root \in U \/ \E x \in U : hi[x] - lo[x] >= m + 2
  BY DEF Climbed, Above
<1>4. ASSUME NEW x \in D
      PROVE  x \in Nat /\ lo[x] \in Nat /\ hi[x] \in Nat /\ lo[x] < x /\ x < hi[x] /\ x # NULL
  BY <1>1 DEF Nodes, Before
<1>5. ASSUME NEW v \in U, parent(t, v) # NULL
      PROVE  LET x == parent(t, v)
             IN  /\ x \in D /\ lo[x] < y /\ y < hi[x] /\ hi[x] - lo[x] > hi[v] - lo[v]
                 /\ t.node[x][IF y < x THEN "left" ELSE "right"] = v
  <2> DEFINE x == parent(t, v)
  <2>1. v \in D /\ P[v] = x
    BY <1>2, <1>3
  <2> HIDE DEF x
  <2>2. x # NULL /\ x \in D /\ (S[x] = v \/ O[x] = v)
    <3>1. x # NULL
      BY <1>5 DEF x
    <3> QED BY <1>1, <2>1, <3>1 DEF Nodes
  <2>3. v # NULL /\ lo[v] < y /\ y < hi[v]
    BY <1>3, <1>4, <2>1
  <2>4. CASE S[x] = v
    <3>1. lo[v] = lo[x] /\ hi[v] = x
      BY <1>1, <2>2, <2>3, <2>4 DEF Nodes
    <3>2. y < x /\ t.node[x].left = v
      BY <1>2, <2>2, <2>3, <2>4, <3>1
    <3>3. /\ lo[x] \in Nat /\ hi[x] \in Nat /\ x \in Nat /\ x < hi[x] /\ y \in Nat
      BY <1>4, <2>2
    <3>4. lo[x] < y /\ y < hi[x] /\ hi[x] - lo[x] > hi[v] - lo[v]
      BY <2>3, <3>1, <3>3
    <3> QED BY <2>2, <3>2, <3>4 DEF x
  <2>5. CASE O[x] = v
    <3>1. lo[v] = x /\ hi[v] = hi[x]
      BY <1>1, <2>2, <2>3, <2>5 DEF Nodes
    <3>3. /\ lo[x] \in Nat /\ hi[x] \in Nat /\ x \in Nat /\ lo[x] < x /\ y \in Nat
      BY <1>4, <2>2
    <3>2. ~ (y < x) /\ t.node[x].right = v
      BY <1>2, <2>2, <2>3, <2>5, <3>1, <3>3
    <3>4. lo[x] < y /\ y < hi[x] /\ hi[x] - lo[x] > hi[v] - lo[v]
      BY <2>3, <3>1, <3>3
    <3> QED BY <2>2, <3>2, <3>4 DEF x
  <2> QED BY <2>2, <2>4, <2>5
<1>6. ASSUME NEW x \in V
      PROVE  /\ x \in D /\ lo[x] < y /\ y < hi[x]
             /\ x # y => t.node[x][IF y < x THEN "left" ELSE "right"] \in V
  <2>1. CASE x \in U
    BY <1>3, <2>1 DEF Parented
  <2>2. CASE x \notin U
    <3>1. PICK v \in U : x = parent(t, v) /\ parent(t, v) # NULL
      BY <2>2 DEF Parented
    <3>2. v \in V
      BY DEF Parented
    <3> HIDE DEF V
    <3> QED BY <1>5, <3>1, <3>2
  <2> QED BY <2>1, <2>2
<1>7. Above(D, t, y, lo, hi, V)
  <2>1. y \in V
    BY <1>3 DEF Parented
  <2> HIDE DEF V
  <2> QED BY <1>6, <2>1 DEF Above
<1>8. t.root \in V \/ \E x \in V : hi[x] - lo[x] >= (m + 1) + 2
  <2>1. CASE t.root \in U
    BY <2>1 DEF Parented
  <2>2. CASE t.root \notin U
    <3>1. PICK v \in U : hi[v] - lo[v] >= m + 2
      BY <1>3, <2>2
    <3>2. v \in D /\ parent(t, v) # NULL
      <4>1. v \in D /\ v # t.root
        BY <1>3, <2>2
      <4>2. P[v] # NULL
        BY <1>1, <4>1 DEF Nodes
      <4> QED BY <1>2, <4>1, <4>2
    <3> DEFINE x == parent(t, v)
    <3>3. x \in D /\ hi[x] - lo[x] > hi[v] - lo[v] /\ x \in V
      BY <1>5, <3>2 DEF Parented
    <3> HIDE DEF x, V
    <3>4. hi[x] - lo[x] >= (m + 1) + 2
      BY <1>4, <3>1, <3>2, <3>3
    <3> QED BY <3>3, <3>4
  <2> QED BY <2>1, <2>2
<1> QED BY <1>7, <1>8 DEF Climbed

\* MaxKey steps lead from any node up to the root.
LEMMA UpReachesRoot ==
  ASSUME NEW D \in SUBSET (1 .. MaxKey), NEW t \in Trees(D), NEW lo, NEW hi,
         ShapeOf("left", t, lo, hi), NEW y \in D
  PROVE  Above(D, t, y, lo, hi, Up(t, y)) /\ t.root \in Up(t, y)
<1> DEFINE Step(U) == U \cup ({parent(t, v) : v \in U} \ {NULL})
           f       == [U \in SUBSET D |-> Step(U)]
           Run(r)  == r = [n \in 0 .. MaxKey |-> IF n = 0 THEN {y} ELSE Step(r[n - 1])]
           run     == CHOOSE r : Run(r)
           I       == {m \in Nat : m <= MaxKey => Climbed(D, t, y, lo, hi, m, run[m])}
<1>1. ASSUME NEW U \in SUBSET D PROVE Step(U) \in SUBSET D
  BY DEF parent, Trees, NodesOn
<1>2. Run(run)
  <2>1. f \in [SUBSET D -> SUBSET D] /\ MaxKey \in Nat /\ {y} \in SUBSET D
    <3> HIDE DEF Step
    <3> QED BY <1>1, KeysAssumption
  <2>2. PICK r \in [0 .. MaxKey -> SUBSET D] : Looped(r, MaxKey, {y}, f)
    <3> HIDE DEF f
    <3> QED BY <2>1, LoopExists
  <2> HIDE DEF Step
  <2>3. ASSUME NEW n \in 0 .. MaxKey PROVE r[n] = IF n = 0 THEN {y} ELSE Step(r[n - 1])
    <3>1. n # 0 => n - 1 \in 0 .. MaxKey /\ r[n - 1] \in SUBSET D
      <4>1. n # 0 => n - 1 \in 0 .. MaxKey
        BY KeysAssumption
      <4> QED BY <2>2, <4>1
    <3>2. r[n] = IF n = 0 THEN {y} ELSE f[r[n - 1]]
      BY <2>2 DEF Looped
    <3> QED BY <3>1, <3>2
  <2>4. Run(r)
    <3>1. r = [n \in 0 .. MaxKey |-> r[n]]
      BY <2>2
    <3> HIDE DEF f
    <3> QED BY <2>3, <3>1
  <2>5. \E r1 : Run(r1)
    BY <2>4
  <2> QED BY ONLY <2>5
<1>3. Up(t, y) = run[MaxKey]
  BY DEF Up, Times
<1> HIDE DEF run, f
<1>4. run[0] = {y} /\ \A n \in Nat : n + 1 <= MaxKey => run[n + 1] = Step(run[n])
  <2> HIDE DEF Step
  <2>1. /\ 0 \in 0 .. MaxKey
        /\ \A n \in Nat : n + 1 <= MaxKey => n + 1 \in 0 .. MaxKey /\ n + 1 # 0 /\ (n + 1) - 1 = n
    BY KeysAssumption
  <2>2. \A n \in 0 .. MaxKey : run[n] = IF n = 0 THEN {y} ELSE Step(run[n - 1])
    BY <1>2
  <2> QED BY <2>1, <2>2
<1>5. \A U : Step(U) = Parented(t, U)
  BY DEF Parented
<1> HIDE DEF Step
<1>6. Nodes("left", D, t.root, Parents(t), Kids(t, "left"), Kids(t, "right"), lo, hi)
  BY LeftNodes
<1>7. ASSUME NEW x \in D
      PROVE  /\ x \in Nat /\ lo[x] \in Nat /\ hi[x] \in Nat /\ lo[x] < x /\ x < hi[x]
             /\ hi[x] <= MaxKey + 1
  <2>1. x \in Nat /\ lo[x] \in Nat /\ hi[x] \in Nat /\ lo[x] < x /\ x < hi[x]
    BY <1>6 DEF Nodes, Before
  <2>2. hi[x] \in D \cup {MaxKey + 1}
    BY LeftNodes
  <2>3. CASE hi[x] \in D
    <3>1. hi[x] \in 1 .. MaxKey
      BY <2>3
    <3> QED BY <2>1, <3>1, KeysAssumption
  <2>4. CASE hi[x] = MaxKey + 1
    BY <2>1, <2>4, KeysAssumption
  <2> QED BY <2>2, <2>3, <2>4
<1>8. 0 \in I
  <2>1. Climbed(D, t, y, lo, hi, 0, {y})
    BY <1>7 DEF Climbed, Above
  <2> QED BY <1>4, <2>1
<1>9. ASSUME NEW m \in Nat, m \in I PROVE m + 1 \in I
  <2> SUFFICES ASSUME m + 1 <= MaxKey PROVE Climbed(D, t, y, lo, hi, m + 1, run[m + 1])
    OBVIOUS
  <2>1. m <= MaxKey
    BY KeysAssumption
  <2>2. Climbed(D, t, y, lo, hi, m, run[m])
    BY <1>9, <2>1
  <2>3. Climbed(D, t, y, lo, hi, m + 1, Parented(t, run[m]))
    BY <2>2, ParentedClimbs
  <2> QED BY <1>4, <1>5, <2>3
<1>10. \A m \in Nat : m \in I
  <2> HIDE DEF I
  <2> QED BY <1>8, <1>9, Induction
<1>11. Climbed(D, t, y, lo, hi, MaxKey, Up(t, y))
  BY <1>3, <1>10, KeysAssumption
<1>12. ~ \E x \in D : hi[x] - lo[x] >= MaxKey + 2
  BY <1>7, KeysAssumption
<1> QED BY <1>11, <1>12 DEF Climbed, Above

\* The invariant makes the tree a search tree as the run states it.
LEMMA IInvOrder == IInv => SearchOrder
<1> SUFFICES ASSUME IInv PROVE SearchOrder
  OBVIOUS
<1> DEFINE D == DOMAIN tree.node
<1>1. D \in SUBSET (1 .. MaxKey) /\ tree \in Trees(D) /\ tree.node_count = Cardinality(D)
  BY FewKeys DEF IInv
<1>2. PICK lo, hi : ShapeOf("left", tree, lo, hi)
  BY DEF IInv, Ordered
<1>3. ASSUME NEW y \in D
      PROVE  /\ tree.root \in Up(tree, y)
             /\ \A x \in Up(tree, y) \ {y} :
                  \E c \in Up(tree, y) : c = tree.node[x][IF y < x THEN "left" ELSE "right"]
  <2> HIDE DEF D
  <2>1. Above(D, tree, y, lo, hi, Up(tree, y)) /\ tree.root \in Up(tree, y)
    BY <1>1, <1>2, UpReachesRoot
  <2> QED BY <2>1 DEF Above
<1> QED BY <1>1, <1>3 DEF SearchOrder

\* After any calls every node hangs below the root on its side of every key above it,
\* for any keys.
THEOREM SearchIsOrdered == Spec => []SearchOrder
BY TreeInvariant, IInvOrder, PTL

\* The map of the contract.
Map == [x \in DOMAIN tree.node |-> tree.node[x].record]

\* A call answers what the map would.
LEMMA AnswersOfMap ==
  ASSUME IInv, NEW key \in Keys
  PROVE  /\ tree_find(tree, key) = Contract!Lookup(Map, key)
         /\ tree_find_nearest(tree, key) = Contract!Nearest(Map, key)
<1> DEFINE D == DOMAIN tree.node
           N == Contract!NotAbove(Map, key)
           G(n) == n \in N /\ \A j \in N : j <= n
<1>1. D \in SUBSET (1 .. MaxKey) /\ tree \in Trees(D) /\ Ordered(tree) /\ key \in 1 .. MaxKey
  BY FewKeys, KeysAssumption DEF IInv
<1>2. DOMAIN Map = D /\ \A x \in D : Map[x] = tree.node[x].record
  BY DEF Map
<1>3. N = {k \in D : k <= key}
  BY <1>2 DEF Contract!NotAbove
<1>4. /\ tree_find(tree, key) = IF key \in D THEN tree.node[key].record ELSE NULL
      /\ IF \E k \in D : k <= key
         THEN \E n : IsNearest(D, key, n) /\ tree_find_nearest(tree, key) = tree.node[n].record
         ELSE tree_find_nearest(tree, key) = NULL
  <2> HIDE DEF D
  <2> QED BY <1>1, SearchAnswers
<1>5. tree_find(tree, key) = Contract!Lookup(Map, key)
  BY <1>2, <1>4 DEF Contract!Lookup, Contract!NULL, NULL
<1>6. Contract!Nearest(Map, key) = IF N = {} THEN NULL ELSE Map[Contract!Greatest(N)]
  BY DEF Contract!Nearest, Contract!NULL, NULL
<1>7. CASE \E k \in D : k <= key
  <2>1. PICK n : IsNearest(D, key, n) /\ tree_find_nearest(tree, key) = tree.node[n].record
    BY <1>4, <1>7
  <2>2. G(n) /\ n \in D /\ N # {}
    BY <1>3, <2>1 DEF IsNearest
  <2>3. \A j \in N : j \in Nat
    BY <1>1, <1>3
  <2>4. Contract!Greatest(N) = n
    <3> DEFINE g == CHOOSE k \in N : \A j \in N : j <= k
    <3>1. Contract!Greatest(N) = g
      BY DEF Contract!Greatest
    <3> HIDE DEF N
    <3>2. g \in N /\ \A j \in N : j <= g
      BY <2>2
    <3> HIDE DEF g
    <3>3. g = n
      BY <2>2, <2>3, <3>2
    <3> QED BY <3>1, <3>3
  <2> QED BY <1>2, <1>5, <1>6, <2>1, <2>2, <2>4
<1>8. CASE ~ \E k \in D : k <= key
  <2>1. N = {}
    BY <1>3, <1>8
  <2> QED BY <1>4, <1>5, <1>6, <1>8, <2>1
<1> QED BY <1>7, <1>8

\* Every call of the tree is a call of the map.
LEMMA MapStep == IInv /\ IInv' /\ [Next]_vars => [Contract!Next]_<<Map, result>>
<1> SUFFICES ASSUME IInv, IInv', [Next]_vars PROVE [Contract!Next]_<<Map, result>>
  OBVIOUS
<1> DEFINE D == DOMAIN tree.node
<1>1. /\ D \in SUBSET (1 .. MaxKey) /\ tree \in Trees(D) /\ Ordered(tree)
      /\ tree.node_count = Cardinality(D)
  BY FewKeys DEF IInv
<1>2. DOMAIN Map = D /\ \A x \in D : Map[x] = tree.node[x].record
  BY DEF Map
<1>3. Map' = [x \in DOMAIN (tree'.node) |-> tree'.node[x].record]
  BY DEF Map
<1>4. ASSUME NEW key \in Keys, NEW record \in Records, Insert(key, record)
      PROVE  Contract!Insert(key, record)
  <2>1. /\ tree' = tree_insert(tree, key, record)
        /\ result' = [op |-> "insert", key |-> key, ret |-> IF Search(tree, key).z = NULL THEN 1 ELSE 0]
    BY <1>4 DEF Insert, Returns
  <2>2. key \in 1 .. MaxKey /\ key # NULL
    BY KeysAssumption DEF NULL
  <2>3. IF key \in D THEN Search(tree, key).z = key /\ tree' = tree
        ELSE /\ Search(tree, key).z = NULL
             /\ Grown(D, tree, key, record, tree') /\ Ordered(tree')
    <3> HIDE DEF D
    <3> QED BY <1>1, <2>1, <2>2, InsertGrows
  <2>4. CASE key \in D
    <3>1. Map' = Map
      BY <1>3, <2>3, <2>4 DEF Map
    <3>2. result' = [op |-> "insert", key |-> key, ret |-> 0]
      BY <2>1, <2>2, <2>3, <2>4
    <3> QED BY <1>2, <2>4, <3>1, <3>2 DEF Map, Contract!Insert, Contract!Returns
  <2>5. CASE key \notin D
    <3>1. /\ DOMAIN (tree'.node) = D \cup {key}
          /\ \A x \in D \cup {key} : tree'.node[x].record = IF x = key THEN record ELSE tree.node[x].record
      BY <2>3, <2>5 DEF Grown, Trees
    <3>2. Map' = [k \in D \cup {key} |-> IF k = key THEN record ELSE Map[k]]
      BY <1>2, <1>3, <3>1
    <3>3. result' = [op |-> "insert", key |-> key, ret |-> 1]
      BY <2>1, <2>3, <2>5
    <3> QED BY <1>2, <2>5, <3>2, <3>3 DEF Map, Contract!Insert, Contract!Returns
  <2> QED BY <2>4, <2>5
<1>5. ASSUME NEW key \in Keys, Find(key) PROVE Contract!Find(key)
  <2>1. Map' = Map /\ result' = [op |-> "find", key |-> key, ret |-> tree_find(tree, key)]
    BY <1>5 DEF Find, Returns, Map
  <2>2. tree_find(tree, key) = Contract!Lookup(Map, key)
    BY AnswersOfMap
  <2> QED BY <2>1, <2>2 DEF Map, Contract!Find, Contract!Returns
<1>6. ASSUME NEW key \in Keys, FindNearest(key) PROVE Contract!FindNearest(key)
  <2>1. /\ Map' = Map
        /\ result' = [op |-> "find_nearest", key |-> key, ret |-> tree_find_nearest(tree, key)]
    BY <1>6 DEF FindNearest, Returns, Map
  <2>2. tree_find_nearest(tree, key) = Contract!Nearest(Map, key)
    BY AnswersOfMap
  <2> QED BY <2>1, <2>2 DEF Map, Contract!FindNearest, Contract!Returns
<1>7. ASSUME NEW key \in Keys, Remove(key) PROVE Contract!Remove(key)
  <2>1. /\ tree' = tree_remove(tree, key)
        /\ result' = [op |-> "remove", key |-> key, ret |-> tree_find(tree, key)]
    BY <1>7 DEF Remove, Returns
  <2>2. key \in 1 .. MaxKey
    BY KeysAssumption
  <2>3. IF key \in D THEN Shrunk(D, tree, key, tree') /\ Ordered(tree') ELSE tree' = tree
    <3> HIDE DEF D
    <3> QED BY <1>1, <2>1, <2>2, RemoveShrinks
  <2>4. tree_find(tree, key) = Contract!Lookup(Map, key)
    BY AnswersOfMap
  <2>5. Map' = [k \in D \ {key} |-> Map[k]]
    <3>1. CASE key \in D
      <4>1. /\ DOMAIN (tree'.node) = D \ {key}
            /\ \A x \in D \ {key} : tree'.node[x].record = tree.node[x].record
        BY <2>3, <3>1 DEF Shrunk, Trees
      <4> QED BY <1>2, <1>3, <4>1
    <3>2. CASE key \notin D
      <4>1. Map' = Map /\ D \ {key} = D
        BY <1>3, <2>3, <3>2 DEF Map
      <4> QED BY <1>2, <4>1 DEF Map
    <3> QED BY <3>1, <3>2
  <2> QED BY <1>2, <2>1, <2>4, <2>5 DEF Map, Contract!Remove, Contract!Returns
<1>8. ASSUME Renew PROVE Contract!Clear
  <2>1. DOMAIN (tree'.node) = {} /\ result' = [op |-> "new", key |-> NULL, ret |-> NULL]
    BY <1>8 DEF Renew, Returns, tree_new
  <2>2. Map' = [k \in {} |-> 0]
    BY <1>3, <2>1
  <2> QED BY <2>1, <2>2 DEF Map, Contract!Clear, Contract!Returns, Contract!Empty, Contract!NULL, NULL
<1>9. CASE UNCHANGED vars
  BY <1>9 DEF vars, Map
<1> QED BY <1>4, <1>5, <1>6, <1>7, <1>8, <1>9 DEF Next, Contract!Next

\* The splay tree implements the ordered map: every call returns what the map would and
\* leaves that map behind, for any keys and records.
THEOREM TreeIsOrderedMap == Spec => ImplementsOrderedMap
<1>1. Init => Contract!Init
  BY DEF Init, tree_new, Contract!Init, Contract!Empty, Contract!NULL, NULL
<1>2. IInv /\ IInv' /\ [Next]_vars
      => [Contract!Next]_<<[x \in DOMAIN tree.node |-> tree.node[x].record], result>>
  BY MapStep DEF Map
<1> QED BY <1>1, <1>2, TreeInvariant, PTL DEF Spec, ImplementsOrderedMap, Contract!Spec
=============================================================================
