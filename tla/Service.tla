------------------------------ MODULE Service ------------------------------
(***************************************************************************)
(* What the kernel promises the devices (core/irq.c, core/isrs.c): once    *)
(* interrupts are on, requests are served by priority, one at a time, and  *)
(* once, until the kernel halts.  The processor never rests while one is   *)
(* left; a line that keeps being overtaken by higher ones is promised no   *)
(* turn (weak fairness), for fixed priorities cannot give it one.          *)
(* Interrupts implements it.                                               *)
(***************************************************************************)
EXTENDS Integers

CONSTANTS Line, NoLine

VARIABLES
  phase,     \* "setup", "open" or "halted"
  pending,   \* lines with a request
  serving    \* the line whose handler runs

vars == <<phase, pending, serving>>

(* The master's lines 0 and 1, the slave's eight, then the master's rest.  *)
Rank(l) == IF l < 2 THEN l ELSE IF l < 8 THEN l + 8 ELSE l - 6

Init == phase = "setup" /\ pending = {} /\ serving = NoLine

Request(l) == pending' = pending \cup {l} /\ UNCHANGED <<phase, serving>>

(* Setting up the controllers forgets requests.                            *)
Forget(L) == phase = "setup" /\ pending' = pending \ L /\ UNCHANGED <<phase, serving>>

Open == phase = "setup" /\ phase' = "open" /\ UNCHANGED <<pending, serving>>

Serve(l) ==
  /\ phase = "open" /\ serving = NoLine
  /\ l \in pending /\ \A k \in pending : Rank(l) <= Rank(k)
  /\ serving' = l
  /\ pending' = pending \ {l}
  /\ UNCHANGED phase

Finish ==
  /\ phase = "open" /\ serving # NoLine
  /\ serving' = NoLine
  /\ UNCHANGED <<phase, pending>>

Halt ==
  /\ phase \in {"setup", "open"} /\ phase' = "halted"
  /\ serving' = NoLine /\ UNCHANGED pending

Next ==
  \/ \E l \in Line : Request(l) \/ Serve(l)
  \/ \E L \in SUBSET pending : Forget(L)
  \/ Open \/ Finish \/ Halt

Spec ==
  /\ Init /\ [][Next]_vars
  /\ WF_vars(Open) /\ WF_vars(Finish) /\ \A l \in Line : WF_vars(Serve(l))
=============================================================================
