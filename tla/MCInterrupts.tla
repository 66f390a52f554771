---------------------------- MODULE MCInterrupts ----------------------------
(* A second of two ticks, the clock's line 8 as the slave's device, and    *)
(* codes enough to press a modifier, release it and hit a key.             *)
EXTENDS Interrupts
=============================================================================
