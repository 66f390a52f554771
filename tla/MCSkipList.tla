----------------------------- MODULE MCSkipList -----------------------------
(* Four big blocks, two of the same size, on a list of three levels.       *)
EXTENDS SkipList, TLC

CONSTANTS b1, b2, b3, b4

MCSizeOf == (b1 :> 1) @@ (b2 :> 2) @@ (b3 :> 2) @@ (b4 :> 3)

=============================================================================
