-------------------------------- MODULE MCMm --------------------------------
(* Values of Mm's constants that a .cfg cannot write, and views.           *)
EXTENDS Mm, TLC

\* A client word that is neither a tag nor a link of a small heap.
Junk == -3

\* The word that the test of a failed mem_sbrk looks for.
AllOnes == -1

\* What the code can ever read again: the tags, the links of the free blocks,
\* the payload the client holds, and above the break whether a word would stop
\* allocate_page.  The other words are written before they are read.  The
\* client's ids are interchangeable: a view counts who holds a block, not which
\* id does.
Meaningful ==
  LET blks == Blks(heap)
      free_blks == FreeBlks(heap)
  IN  (HeapLo .. FirstBlk - 1)
      \cup UNION {{GHA(p), GFA(heap, p)} : p \in blks}
      \cup UNION {{p, p + 8} : p \in free_blks}
      \cup UNION {blocks[id].p .. blocks[id].p + blocks[id].size - 1 : id \in Ids}

Readable ==
  LET kept == Meaningful
      seen(x) == CASE x >= heap.brk -> IF heap.mem[x] = -1 THEN -1 ELSE 0
                   [] x < heap.brk /\ x \in kept -> heap.mem[x]
                   [] OTHER -> 0
      held(q) == Cardinality({id \in Ids : blocks[id] = q})
  IN  <<heap.brk, heap.free_root, heap.TOH, heap.fault, inits,
        [q \in {blocks[id] : id \in Ids} |-> held(q)],
        [x \in Words |-> seen(x)]>>
=============================================================================
