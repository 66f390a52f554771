------------------------------- MODULE MCMem -------------------------------
(* A machine of 10-bit words of two bytes: pages of 16 bytes, tables of    *)
(* eight entries, 64 pages of address space.  The header takes half of a   *)
(* page, the image page five, low memory the five pages below it.          *)
EXTENDS Mem

MCKernelStart == 5 * PAGE
MCStarts == {6 * PAGE, 7 * PAGE}
MCMemUppers == {40, 44, 48, 80, 100, 160, 240}
MCIncrements == {PAGE, 2 * PAGE, 3 * PAGE}

(* The theorems of MemProofs are about every state of this instance.       *)
ASSUME EveryChoiceFits ==
  \A start \in Starts, mem_upper \in MemUppers : FitsIn(start, mem_upper)
=============================================================================
