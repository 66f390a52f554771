------------------------------ MODULE FreeList ------------------------------
(***************************************************************************)
(* What the allocator needs of its list of free big blocks: a block that   *)
(* is put in can be taken out again, once, and a request is answered with  *)
(* a best fit, or with nothing only when no free block is large enough.    *)
(* SkipList implements this contract.                                      *)
(***************************************************************************)
EXTENDS BestFit

CONSTANTS
  Block,      \* the big blocks
  SizeOf,     \* the usable bytes of each block, header->size in the code
  Requests    \* the sizes callers ask for

VARIABLES
  free,       \* the blocks in the list
  found       \* the block the last request was answered with, or NIL

CONSTANT NIL

Init == free = {} /\ found = NIL

Put(b) ==
  /\ b \notin free
  /\ free' = free \cup {b}
  /\ UNCHANGED found

Take(n) ==
  \E b \in BestFits(free, SizeOf, n) :
    /\ free' = free \ {b}
    /\ found' = b

Miss(n) ==
  /\ BestFits(free, SizeOf, n) = {}
  /\ found' = NIL
  /\ UNCHANGED free

Next ==
  \/ \E b \in Block : Put(b)
  \/ \E n \in Requests : Take(n) \/ Miss(n)

Spec == Init /\ [][Next]_<<free, found>>
=============================================================================
