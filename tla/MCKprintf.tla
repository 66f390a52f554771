----------------------------- MODULE MCKprintf -----------------------------
(* Two calls of up to two pieces each.  The longest text, of two %x, fills *)
(* the buffer to its last character.                                       *)
EXTENDS Kprintf, TLC

MCMessage == 5
MCStrings ==
  5 :> [text |-> <<77, 37>>, ends |-> TRUE] @@ 6 :> [text |-> <<>>, ends |-> TRUE]
    @@ 7 :> [text |-> <<85>>, ends |-> FALSE]

Piece(c, args) == {<<c, <<word>>>> : word \in args}

MCPieces ==
  { <<<<Ascii.d>>, <<>>>>, <<<<Ascii.backslash, Ascii.n>>, <<>>>>,
    <<<<Ascii.backslash, Ascii.percent>>, <<>>>>,
    <<<<Ascii.percent, Ascii.percent>>, <<>>>>,
    <<<<Ascii.percent, Ascii.backslash>>, <<>>>> }
    \cup Piece(<<Ascii.percent, Ascii.s>>, {5, 6, 7, 8})
    \cup Piece(<<Ascii.percent, Ascii.c>>, {0, 65 + 256})
    \cup Piece(<<Ascii.percent, Ascii.d>>, {0, 9, 10, 1305})
    \cup Piece(<<Ascii.percent, Ascii.x>>, {48879})

MCCalls ==
  {kprintf(<<>>, <<>>)} \cup {kprintf(p[1], p[2]) : p \in MCPieces}
    \cup {kprintf(p[1] \o q[1], p[2] \o q[2]) : p, q \in MCPieces}
=============================================================================
