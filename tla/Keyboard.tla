------------------------------ MODULE Keyboard ------------------------------
(***************************************************************************)
(* core/kbd.c as operators: what a scan code does to the three modifiers   *)
(* and what it prints.  Interrupts says when the handler runs.             *)
(*                                                                         *)
(* A key stands for all keys of its entry in key_method: "text" has norm,  *)
(* "mute" has func or NULL, as has the prefix 0xE0.  A code is a key and   *)
(* whether it is a break code.                                             *)
(***************************************************************************)
EXTENDS Sequences

Key == {"text", "lshift", "rshift", "ctrl", "alt", "mute"}
Modifiers == [shift : BOOLEAN, alt : BOOLEAN, ctrl : BOOLEAN]

(* keyboard_state is not initialised by the code: it is in .bss.           *)
NoModifiers == [shift |-> FALSE, alt |-> FALSE, ctrl |-> FALSE]

key_method(key) ==
  CASE key = "text"                 -> "norm"
    [] key \in {"lshift", "rshift"} -> "shft"
    [] key = "ctrl"                 -> "ctlk"
    [] key = "alt"                  -> "altk"
    [] OTHER                        -> "none"

(* norm(): shift comes before ctrl, and alt changes nothing.               *)
Text(state) ==
  IF state.shift THEN <<"upper">>
  ELSE IF state.ctrl THEN <<"caret", "upper">>
  ELSE <<"lower">>

Printed(state, code) ==
  IF key_method(code.key) = "norm" /\ ~code.up THEN Text(state) ELSE <<>>

(* Mutated form: a break code leaves the modifier set.                     *)
ToggledOnMake(state, code) ==
  CASE key_method(code.key) = "shft" -> [state EXCEPT !.shift = ~@ \/ code.up]
    [] key_method(code.key) = "altk" -> [state EXCEPT !.alt = ~@ \/ code.up]
    [] key_method(code.key) = "ctlk" -> [state EXCEPT !.ctrl = ~@ \/ code.up]
    [] OTHER                         -> state

(* shft, altk and ctlk flip their bit on make and break codes alike.       *)
Toggled(state, code) ==
  CASE key_method(code.key) = "shft" -> [state EXCEPT !.shift = ~@]
    [] key_method(code.key) = "altk" -> [state EXCEPT !.alt = ~@]
    [] key_method(code.key) = "ctlk" -> [state EXCEPT !.ctrl = ~@]
    [] OTHER                         -> state
=============================================================================
