------------------------------- MODULE Malloc -------------------------------
(***************************************************************************)
(* What malloc, realloc, calloc and free of core/alloc.c promise a caller: *)
(* every block that is held occupies bytes no other held block occupies,   *)
(* from the call that returned it to the call that gives it back.  When    *)
(* memory runs out the kernel halts; there is no NULL for a failed call.   *)
(***************************************************************************)
EXTENDS BestFit

CONSTANT Requests      \* the sizes callers ask for, in bytes

VARIABLES
  live,                \* the size asked for, of every block held, by address
  held,                \* blocks handed out less blocks taken back
  halted               \* the kernel has stopped in halt_and_catch_fire

vars == <<live, held, halted>>

(* The n bytes at address p are disjoint from every block in blocks.       *)
Disjoint(p, n, blocks) ==
  \A q \in DOMAIN blocks : p + n <= q \/ q + blocks[q] <= p

Init ==
  /\ live = [p \in {} |-> 0]
  /\ held = 0
  /\ halted = FALSE

(* The allocator may choose any free address (it is read off live', the    *)
(* outcome, so that TLC need not enumerate addresses).  held makes a call  *)
(* that hands out a block already held a step, and one that is forbidden.  *)
Alloc(n) ==
  \E p \in DOMAIN live' :
    /\ p \in Nat \ {0}
    /\ Disjoint(p, n, live)
    /\ live' = Extend(live, p, n)
    /\ held' = held + 1

Free(p) ==
  /\ live' = Drop(live, p)
  /\ held' = held - 1

(* The block stays where it is, or moves to bytes free of every block,     *)
(* the old one included: its contents are copied before it is freed.       *)
Resize(p, n) ==
  /\ \/ /\ Disjoint(p, n, Drop(live, p))
        /\ live' = Extend(live, p, n)
     \/ \E q \in DOMAIN live' :
          /\ q \in Nat \ {0}
          /\ Disjoint(q, n, live)
          /\ live' = Drop(Extend(live, q, n), p)
  /\ UNCHANGED held

Halt == halted' = TRUE /\ UNCHANGED <<live, held>>

Serve ==
  /\ \/ \E n \in Requests : Alloc(n)
     \/ \E p \in DOMAIN live : Free(p) \/ \E n \in Requests : Resize(p, n)
  /\ UNCHANGED halted

Next == ~halted /\ (Serve \/ Halt)

Spec == Init /\ [][Next]_vars
=============================================================================
