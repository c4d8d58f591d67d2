----------------------------- MODULE OrderedMap -----------------------------
(***************************************************************************)
(* What the tree of stree.h promises: a map from keys to records that also *)
(* answers for the greatest key not above a given one (stree.h:29-38).     *)
(* result is the last call and what it returned; C's true is 1, false and  *)
(* NULL are 0.                                                             *)
(***************************************************************************)
EXTENDS Integers

CONSTANTS Keys, Records

VARIABLES map, result

NULL == 0

NotAbove(m, key) == {k \in DOMAIN m : k <= key}
Greatest(S)      == CHOOSE k \in S : \A j \in S : j <= k

Lookup(m, key)  == IF key \in DOMAIN m THEN m[key] ELSE NULL
Nearest(m, key) == IF NotAbove(m, key) = {} THEN NULL ELSE m[Greatest(NotAbove(m, key))]

Empty == [k \in {} |-> NULL]

Returns(op, key, ret) == result' = [op |-> op, key |-> key, ret |-> ret]

Init == map = Empty /\ result = [op |-> "new", key |-> NULL, ret |-> NULL]

Insert(key, record) ==
  IF key \in DOMAIN map
  THEN UNCHANGED map /\ Returns("insert", key, 0)
  ELSE /\ map' = [k \in DOMAIN map \cup {key} |-> IF k = key THEN record ELSE map[k]]
       /\ Returns("insert", key, 1)

Find(key) == UNCHANGED map /\ Returns("find", key, Lookup(map, key))

FindNearest(key) == UNCHANGED map /\ Returns("find_nearest", key, Nearest(map, key))

Remove(key) ==
  /\ map' = [k \in DOMAIN map \ {key} |-> map[k]]
  /\ Returns("remove", key, Lookup(map, key))

Clear == map' = Empty /\ Returns("new", NULL, NULL)

Next ==
  \/ \E key \in Keys, record \in Records : Insert(key, record)
  \/ \E key \in Keys : Find(key) \/ FindNearest(key) \/ Remove(key)
  \/ Clear

Spec == Init /\ [][Next]_<<map, result>>
=============================================================================
