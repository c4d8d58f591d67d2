-------------------------------- MODULE Stree --------------------------------
(***************************************************************************)
(* The splay tree of stree.c, pointer by pointer.  Keys in a tree are      *)
(* unique, so a node is named by its key.  The two rotations mirror each   *)
(* other and are one operator with a side, the field in which x holds the  *)
(* child that moves up.  comparison_count, which only tree_show reads, is  *)
(* left out.                                                               *)
(***************************************************************************)
EXTENDS Integers, FiniteSets

CONSTANTS
  MaxKey,      \* bound on the keys, which are machine words
  Keys, Records

ASSUME KeysAssumption    == MaxKey \in Nat /\ Keys \subseteq 1 .. MaxKey
ASSUME RecordsAssumption == Records \subseteq Nat \ {0}

VARIABLES
  tree,        \* [root, node_count, node]; node: the allocated nodes
  result       \* the last call and what it returned; true is 1, false and NULL 0

vars == <<tree, result>>

NULL == 0

tree_new == [root |-> NULL, node_count |-> 0, node |-> [x \in {} |-> NULL]]

Other(side) == IF side = "left" THEN "right" ELSE "left"
parent(t, x) == t.node[x].parent
Side(t, x)   == IF t.node[parent(t, x)].left = x THEN "left" ELSE "right"

\* F applied MaxKey times to x, enough for any loop that goes down or up
Times(F(_), x) ==
  LET times[n \in 0 .. MaxKey] == IF n = 0 THEN x ELSE F(times[n - 1])
  IN  times[MaxKey]

\* v takes u's place under u's parent, or as the root
Hang(t, u, v) ==
  IF parent(t, u) = NULL THEN [t EXCEPT !.root = v]
  ELSE [t EXCEPT !.node[parent(t, u)][Side(t, u)] = v]

SetParent(t, x, p) == IF x = NULL THEN t ELSE [t EXCEPT !.node[x].parent = p]

replace(t, u, v) == SetParent(Hang(t, u, v), v, parent(t, u))

\* Variant: the subtree that changes sides keeps its old parent.
rotate_orphan(t, x, side) ==
  LET y   == t.node[x][side]
      g   == SetParent(Hang(t, x, y), y, parent(t, x))
  IN  [g EXCEPT !.node[x] = [@ EXCEPT ![side] = t.node[y][Other(side)], !.parent = y],
                !.node[y][Other(side)] = x]

\* right_rotate is rotate(t, x, "left"); splay rotates a parent about its
\* child, so y is never NULL
rotate(t, x, side) ==
  LET y   == t.node[x][side]
      mid == t.node[y][Other(side)]
      g   == SetParent(SetParent(Hang(t, x, y), mid, x), y, parent(t, x))
  IN  [g EXCEPT !.node[x] = [@ EXCEPT ![side] = mid, !.parent = y],
                !.node[y][Other(side)] = x]

SplayStep(t, x) ==
  LET p == parent(t, x)
      q == parent(t, p)
  IN  CASE p = NULL -> t
        [] p # NULL /\ q = NULL -> rotate(t, p, Side(t, x))
        [] OTHER ->
             IF Side(t, x) = Side(t, p)
             THEN rotate(rotate(t, q, Side(t, p)), p, Side(t, x))
             ELSE rotate(rotate(t, p, Side(t, x)), q, Side(t, p))

splay(t, x) == Times(LAMBDA g : SplayStep(g, x), t)

(***************************************************************************)
(* The way down from the root: the node z reached, the one before it, and  *)
(* the greatest key seen below the one looked for.                         *)
(***************************************************************************)
\* Variant: the first key below is kept.
Down_first(t, key, w) ==
  IF w.z = NULL \/ w.z = key THEN w
  ELSE [z |-> t.node[w.z][IF key > w.z THEN "right" ELSE "left"],
        p |-> w.z,
        n |-> IF key > w.z /\ w.n = NULL THEN w.z ELSE w.n]

Down(t, key, w) ==
  IF w.z = NULL \/ w.z = key THEN w
  ELSE [z |-> t.node[w.z][IF key > w.z THEN "right" ELSE "left"],
        p |-> w.z,
        n |-> IF key > w.z /\ (w.n = NULL \/ w.n < w.z) THEN w.z ELSE w.n]

Search(t, key) ==
  Times(LAMBDA w : Down(t, key, w), [z |-> t.root, p |-> NULL, n |-> NULL])

record_of(t, x) == IF x = NULL THEN NULL ELSE t.node[x].record

tree_insert(t, key, record) ==
  LET p    == Search(t, key).p
      leaf == [left |-> NULL, right |-> NULL, parent |-> p, record |-> record]
      g    == [t EXCEPT !.node = [x \in DOMAIN @ \cup {key} |->
                                    IF x = key THEN leaf ELSE @[x]],
                        !.node_count = @ + 1]
  IN  IF Search(t, key).z # NULL THEN t
      ELSE IF p = NULL THEN [g EXCEPT !.root = key]
      ELSE splay([g EXCEPT !.node[p][IF p < key THEN "right" ELSE "left"] = key], key)

tree_find(t, key) == record_of(t, Search(t, key).z)

tree_find_nearest(t, key) ==
  LET w == Search(t, key)
  IN  record_of(t, IF w.z # NULL THEN w.z ELSE w.n)

subtree_minimum(t, u) ==
  Times(LAMBDA x : IF t.node[x].left = NULL THEN x ELSE t.node[x].left, u)

\* The root z goes; the least node y of its right subtree takes its place.
\* Variants: y's parts keep their parents; y's own subtree is dropped.
Unroot_left(t, z) ==
  LET y == subtree_minimum(t, t.node[z].right)
      g == IF parent(t, y) = z THEN t
           ELSE LET cut == replace(t, y, t.node[y].right)
                IN  SetParent([cut EXCEPT !.node[y].right = cut.node[z].right],
                              cut.node[z].right, y)
  IN  [replace(g, z, y) EXCEPT !.node[y].left = t.node[z].left]

Unroot_drop(t, z) ==
  LET y == subtree_minimum(t, t.node[z].right)
      g == IF parent(t, y) = z THEN t
           ELSE LET cut == replace(t, y, NULL)
                IN  SetParent([cut EXCEPT !.node[y].right = cut.node[z].right],
                              cut.node[z].right, y)
  IN  SetParent([replace(g, z, y) EXCEPT !.node[y].left = t.node[z].left],
                t.node[z].left, y)

Unroot(t, z) ==
  LET y == subtree_minimum(t, t.node[z].right)
      g == IF parent(t, y) = z THEN t
           ELSE LET cut == replace(t, y, t.node[y].right)
                IN  SetParent([cut EXCEPT !.node[y].right = cut.node[z].right],
                              cut.node[z].right, y)
  IN  SetParent([replace(g, z, y) EXCEPT !.node[y].left = t.node[z].left],
                t.node[z].left, y)

\* Variant: the node is freed but not unlinked.
tree_remove_linked(t, key) ==
  IF Search(t, key).z = NULL THEN t
  ELSE LET g == splay(t, key)
       IN  [g EXCEPT !.node = [x \in DOMAIN @ \ {key} |-> @[x]], !.node_count = @ - 1]

tree_remove(t, key) ==
  IF Search(t, key).z = NULL THEN t
  ELSE LET z == key
           g == splay(t, z)
           h == IF g.node[z].left = NULL THEN replace(g, z, g.node[z].right)
                ELSE IF g.node[z].right = NULL THEN replace(g, z, g.node[z].left)
                ELSE Unroot(g, z)
       IN  [h EXCEPT !.node = [x \in DOMAIN @ \ {z} |-> @[x]], !.node_count = @ - 1]

Returns(op, key, ret) == result' = [op |-> op, key |-> key, ret |-> ret]

Insert(key, record) ==
  /\ tree' = tree_insert(tree, key, record)
  /\ Returns("insert", key, IF Search(tree, key).z = NULL THEN 1 ELSE 0)

Find(key) == Returns("find", key, tree_find(tree, key)) /\ UNCHANGED tree

FindNearest(key) ==
  Returns("find_nearest", key, tree_find_nearest(tree, key)) /\ UNCHANGED tree

Remove(key) ==
  /\ tree' = tree_remove(tree, key)
  /\ Returns("remove", key, tree_find(tree, key))

\* tree_free, and the tree_new of the next trace
Renew == tree' = tree_new /\ Returns("new", NULL, NULL)

Init == tree = tree_new /\ result = [op |-> "new", key |-> NULL, ret |-> NULL]

Next ==
  \/ \E key \in Keys, record \in Records : Insert(key, record)
  \/ \E key \in Keys : Find(key) \/ FindNearest(key) \/ Remove(key)
  \/ Renew

Spec == Init /\ [][Next]_vars

(***************************************************************************)
(* Properties.                                                             *)
(***************************************************************************)
\* The variables have their types: no pointer names a node that was freed.
TypeOK ==
  LET Ptrs == DOMAIN tree.node \cup {NULL}
  IN  /\ DOMAIN tree.node \subseteq Keys
      /\ tree.node \in [DOMAIN tree.node ->
                          [left : Ptrs, right : Ptrs, parent : Ptrs, record : Records]]
      /\ tree.root \in Ptrs
      /\ tree.node_count \in 0 .. Cardinality(Keys)
      /\ result.ret \in Records \cup {0, 1}

\* The parent pointers invert the child pointers exactly: after any rotations
\* and removals no child is left naming its old parent (stree.c:164-218), which
\* only a later splay would trip over.
ParentsExact ==
  /\ tree.root # NULL => parent(tree, tree.root) = NULL
  /\ \A x \in DOMAIN tree.node, side \in {"left", "right"} :
       LET y == tree.node[x][side] IN y # NULL => parent(tree, y) = x
  /\ \A y \in DOMAIN tree.node \ {tree.root} :
       /\ parent(tree, y) # NULL
       /\ y \in {tree.node[parent(tree, y)].left, tree.node[parent(tree, y)].right}

\* The nodes from x up to the root
Up(t, x) ==
  Times(LAMBDA S : S \cup ({parent(t, y) : y \in S} \ {NULL}), {x})

\* Every allocated node hangs below the root, on the left of every greater key
\* above it and on the right of every smaller one: no insertion, removal or
\* rotation loses or misplaces a subtree, and node_count counts them.
SearchOrder ==
  /\ tree.node_count = Cardinality(DOMAIN tree.node)
  /\ \A y \in DOMAIN tree.node :
       /\ tree.root \in Up(tree, y)
       /\ \A x \in Up(tree, y) \ {y} :
            \E c \in Up(tree, y) :
              c = tree.node[x][IF y < x THEN "left" ELSE "right"]

Contract == INSTANCE OrderedMap
  WITH map <- [x \in DOMAIN tree.node |-> tree.node[x].record]

\* Every call returns what an ordered map would and leaves that map behind,
\* whatever shape the earlier calls gave the tree (stree.h:32-38).
ImplementsOrderedMap == Contract!Spec
=============================================================================
