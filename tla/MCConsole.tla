----------------------------- MODULE MCConsole -----------------------------
(* A screen of three rows of four columns, tabs every two.  Two lines of   *)
(* output reach the last row.  A key prints a letter, a control character  *)
(* or, with ctrl, two characters.                                          *)
EXTENDS Console

CONSTANTS letter, typed, caret

MCMainChars == {letter, NEWLINE}
MCKeyTexts == {<<typed>>, <<NEWLINE>>, <<BACKSPACE>>, <<TABULATOR>>, <<caret, typed>>}
=============================================================================
