----------------------------- MODULE EvalMmValid -----------------------------
(***************************************************************************)
(* eval_mm_valid (mdriver.c): passes over a trace with an allocator, right *)
(* or wrong, whose payloads are recorded in a range set and filled with    *)
(* random data that must survive until the payload is given back.  Random  *)
(* values are taken to differ whenever two could be compared by mistake.   *)
(***************************************************************************)
EXTENDS Ranges, Payload

CONSTANTS
  Sizes,       \* the sizes of the trace's requests
  Offsets,     \* the offsets of the bytes a wrong allocator may damage
  MaxPasses    \* bound on the passes over the trace with one range set

ASSUME ClientAssumption == Sizes \subseteq Nat \ {0} /\ Offsets \subseteq Nat
ASSUME PassesAssumption == MaxPasses \in Nat \ {0}

VARIABLES
  live,        \* the payloads the client holds, lo -> size
  bad,         \* lo -> the offsets whose bytes are not what randomize_block wrote
  verdict,     \* "ok", or the error that ended the pass
  passes,      \* passes begun
  debug_mode,  \* "cheap" or "expensive", the -d option
  honest,      \* history: the allocator kept its contract and each pass before
               \* this one freed all it allocated
  rising       \* history: every payload was recorded above another one, or alone

history == <<honest, rising>>
vars == <<ranges, live, bad, verdict, passes, debug_mode, history>>

Hold(f, lo, v) == [l \in DOMAIN f \cup {lo} |-> IF l = lo THEN v ELSE f[l]]
Drop(f, lo)    == [l \in DOMAIN f \ {lo} |-> f[l]]

Contract == INSTANCE Allocator WITH Lo <- HeapLo, Hi <- HeapHi + 1

Above(r, lo) == DOMAIN r.node = {} \/ tree_find_nearest(r, lo) # NULL

\* Filling the payload at lo writes over whatever other payloads share its bytes.
randomize_block(held, spoiled, lo, size) ==
  [q \in DOMAIN held \cup {lo} |->
     IF q = lo THEN {}
     ELSE spoiled[q] \cup {x \in Written(held[q]) : q + x - lo \in Written(size)}]

Survives(lo) == check_index(live[lo], live[lo], bad[lo], FALSE)

\* The end of a step that gives out lo while the client holds held and r is
\* recorded: an error ends the pass, and with it the validation of the trace.
Accept(held, r, lo, size, found, faithful) ==
  /\ verdict' = found
  /\ honest' = (honest /\ faithful /\ Contract!Fresh(held, lo, size))
  /\ IF found # "ok" THEN UNCHANGED <<ranges, live, bad, rising>>
     ELSE /\ ranges' = add_range(r, lo, size)
          /\ live' = Hold(held, lo, size)
          /\ bad' = randomize_block(held, bad, lo, size)
          /\ rising' = (rising /\ Above(r, lo))
  /\ UNCHANGED <<passes, debug_mode>>

Reject(error) ==
  verdict' = error /\ UNCHANGED <<ranges, live, bad, rising, passes, debug_mode>>

\* ALLOC, when mm_malloc(size) has returned lo; also a REALLOC of no block
Malloc(lo, size) == Accept(live, ranges, lo, size, Check(ranges, lo, lo + size - 1), TRUE)

\* REALLOC, when mm_realloc(old, size) has returned lo and spoiled some of the
\* bytes it should have kept
Realloc(old, lo, size, spoiled) ==
  LET kept  == IF size < live[old] THEN size ELSE live[old]
      r     == remove_range(ranges, old)
      check == Check(r, lo, lo + size - 1)
      found == IF check = "ok" /\ ~check_index(kept, live[old], spoiled, TRUE)
               THEN "garbled" ELSE check
  IN  /\ Survives(old)
      /\ spoiled \subseteq 0 .. kept - 1
      /\ Accept(Drop(live, old), r, lo, size, found, spoiled = {})

\* FREE, and a REALLOC to zero bytes
Free(lo) ==
  /\ Survives(lo)
  /\ ranges' = remove_range(ranges, lo)
  /\ live' = Drop(live, lo) /\ bad' = Drop(bad, lo)
  /\ UNCHANGED <<verdict, passes, debug_mode, history>>

\* The payload that a FREE or REALLOC names is garbled; the allocator is not called.
Garbled(lo) == ~Survives(lo) /\ Reject("garbled") /\ UNCHANGED honest

\* mm_init fails, or an allocation returns NULL.
Fail == Reject("failed") /\ honest' = FALSE

(***************************************************************************)
(* With DBG_EXPENSIVE each operation is preceded by a look at the payloads *)
(* whose records are on the list.  A record of an earlier pass stands for  *)
(* whatever block its index names by now.                                  *)
(***************************************************************************)
Listed == OnList(ranges) \cap DOMAIN live

ScanPasses == debug_mode = "expensive" => \A lo \in Listed : Survives(lo)

ScanFails ==
  /\ debug_mode = "expensive"
  /\ \E lo \in IF OnList(ranges) \subseteq DOMAIN live THEN Listed ELSE DOMAIN live :
       ~Survives(lo)
  /\ Reject("garbled") /\ UNCHANGED honest

Operation ==
  /\ ScanPasses
  /\ \/ \E lo \in Addrs, size \in Sizes : Malloc(lo, size)
     \/ \E old \in DOMAIN live, lo \in Addrs, size \in Sizes,
           spoiled \in {{}} \cup {{x} : x \in Offsets} : Realloc(old, lo, size, spoiled)
     \/ \E lo \in DOMAIN live : Free(lo) \/ Garbled(lo)
     \/ Fail

\* A wrong allocator has written into a payload during the last call.  One byte
\* at a time is enough to be seen.
Damage(lo, x) ==
  /\ \A q \in DOMAIN live : bad[q] = {}
  /\ x \in Written(live[lo])
  /\ bad' = [bad EXCEPT ![lo] = {x}]
  /\ honest' = FALSE
  /\ UNCHANGED <<ranges, live, verdict, passes, debug_mode, rising>>

\* The second call of eval_mm_valid: the heap is new, the range set is not.
NextPass ==
  /\ passes < MaxPasses
  /\ passes' = passes + 1
  /\ honest' = (honest /\ DOMAIN live = {})
  /\ live' = [lo \in {} |-> 0] /\ bad' = [lo \in {} |-> {}]
  /\ UNCHANGED <<ranges, verdict, debug_mode, rising>>

Init ==
  /\ ranges = new_range_set
  /\ live = [lo \in {} |-> 0] /\ bad = [lo \in {} |-> {}]
  /\ verdict = "ok"
  /\ passes = 1
  /\ debug_mode \in {"cheap", "expensive"}
  /\ honest = TRUE /\ rising = TRUE

Next ==
  /\ verdict = "ok"
  /\ \/ Operation
     \/ ScanFails
     \/ \E lo \in DOMAIN live, x \in Offsets : Damage(lo, x)
     \/ NextPass

Spec == Init /\ [][Next]_vars

(***************************************************************************)
(* Properties.                                                             *)
(***************************************************************************)
\* The variables have their types: no pointer names a record that was freed.
TypeOK ==
  LET Ptrs == DOMAIN ranges.node \cup {NULL}
  IN  /\ DOMAIN ranges.node \subseteq Addrs
      /\ ranges.list \in Ptrs
      /\ \A lo \in DOMAIN ranges.node :
           /\ ranges.node[lo].hi \in Nat
           /\ ranges.node[lo].prev \in Ptrs /\ ranges.node[lo].next \in Ptrs
      /\ DOMAIN live \subseteq Addrs /\ DOMAIN bad = DOMAIN live
      /\ \A lo \in DOMAIN live : live[lo] \in Sizes /\ bad[lo] \subseteq Written(live[lo])
      /\ verdict \in {"ok", "unaligned", "outside", "overlap", "garbled", "failed"}
      /\ passes \in 1 .. MaxPasses

\* The driver reports no error for an allocator that keeps its contract, in
\* either pass of a balanced trace (mdriver.c:276, 1086, 1119): what is left of
\* broken lists never makes it see an overlap that is not there, and no check of
\* the data misses what randomize_block wrote for another size (mdriver.c:862).
NoFalseAlarm == honest => verdict = "ok"

\* For such an allocator the tree records the exact extent of every live payload
\* and of nothing else, after any allocations, moves in place and frees.
RecordsExact ==
  honest =>
    /\ DOMAIN ranges.node = DOMAIN live
    /\ \A lo \in DOMAIN live : ranges.node[lo].hi = lo + live[lo] - 1

\* "Records the extent of each block's payload.  Organized as doubly linked
\* list" (mdriver.c:61-62): from the list every record can be reached, as long as
\* no payload was recorded below all the others.
ListComplete == rising => OnList(ranges) = DOMAIN ranges.node

Overlapping(a, b) == a < b /\ b < a + live[a]

\* "We use the range list to detect any overlapping allocated blocks."
\* (mdriver.c:661-662): while no error was reported no two live payloads overlap.
OverlapsDetected ==
  verdict = "ok" => \A a, b \in DOMAIN live : ~Overlapping(a, b)

\* The detection is complete, for any allocator, right up to the first payload
\* recorded below all the others (mdriver.c:707-722): only the block before and
\* the one after are looked at, so this rests on the list being in order.
RisingDetected == rising => OverlapsDetected

\* "the overlap will be caught by writing random bits" (mdriver.c:704-705): when
\* add_range misses an overlap, one of the two payloads has lost data that it will
\* be checked for, whatever was filled, moved or freed since, unless one of them
\* has bytes in the middle that are never written.
OverlapDoomed ==
  verdict = "ok" =>
    \A a, b \in DOMAIN live :
      Overlapping(a, b) /\ live[a] <= 2 * maxfill /\ live[b] <= 2 * maxfill =>
        bad[a] # {} \/ bad[b] # {}

\* "With DBG_CHEAP, we check that the data survived when we realloc and when we
\* free.  With DBG_EXPENSIVE, we check every block every operation."
\* (mdriver.c:140-142): a payload that lost data stays held, and keeps the loss,
\* until an error is reported; and with DBG_EXPENSIVE no operation passes
\* meanwhile, as long as the list has all the records.
DamageReported ==
  [][verdict' = "ok" /\ passes' = passes =>
       /\ \A lo \in DOMAIN live : bad[lo] # {} => lo \in DOMAIN live' /\ bad[lo] \subseteq bad'[lo]
       /\ debug_mode = "expensive" /\ rising /\ ranges' # ranges =>
            \A lo \in DOMAIN live : bad[lo] = {}]_vars
=============================================================================
