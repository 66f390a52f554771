------------------------------ MODULE BestFit ------------------------------
(***************************************************************************)
(* Best fit, the policy by which klmalloc() picks a free big block         *)
(* (core/alloc.c).  The module has no state: FreeList states the policy as *)
(* a contract, SkipList shows that the skip list of the code meets it, and *)
(* KlMalloc uses it for the whole allocator.                               *)
(***************************************************************************)
EXTENDS Integers

(* The blocks of the free set F that are best for a request of n bytes: no *)
(* free block that is large enough is smaller.  Several blocks of the same *)
(* size can qualify; the code returns the one freed last.                  *)
BestFits(F, size, n) ==
  {b \in F : /\ size[b] >= n
             /\ \A c \in F : size[c] >= n => size[b] <= size[c]}

(* f changed to map x to v, whether or not x was in its domain.            *)
Extend(f, x, v) == [y \in DOMAIN f \cup {x} |-> IF y = x THEN v ELSE f[y]]

(* f without x.                                                            *)
Drop(f, x) == [y \in DOMAIN f \ {x} |-> f[y]]
=============================================================================
