------------------------------ MODULE Console ------------------------------
(***************************************************************************)
(* core/vga.c: putch, with scroll and move_csr, run by mainline code and   *)
(* by the keyboard handler that may interrupt it between any two accesses  *)
(* to memory or ports.  The handler runs with interrupts off, to its end.  *)
(*                                                                         *)
(* A step reads or writes one shared variable or one port, as the build    *)
(* (-O0) does: csr_x++ loads, then stores.  The copy of one cell in scroll *)
(* is one step.  Colours are left out.  cls() has no caller, and nothing   *)
(* prints '\r'.                                                            *)
(***************************************************************************)
EXTENDS Integers, Sequences, FiniteSets

CONSTANTS
  ROWS, COLS,    \* 25 and 80
  TAB,           \* 8
  BASE,          \* 256, what one cursor register of the CRT holds
  StartRow,      \* csr_y after init_video(): 10
  Glyph,         \* the characters that show
  NEWLINE, BACKSPACE, TABULATOR, BLANK,
  MainChars,     \* what kprintf prints
  KeyTexts,      \* what one key makes the handler print
  MaxMain,       \* bound: characters printed by mainline code
  MaxKeys        \* bound: keys

ASSUME ConsoleAssumption ==
  /\ {COLS, TAB, BASE} \subseteq Nat \ {0} /\ ROWS \in Nat \ {0, 1}
  /\ COLS % TAB = 0
  /\ ROWS * COLS <= BASE * BASE
  /\ StartRow \in 0 .. ROWS - 1
  /\ {MaxMain, MaxKeys} \subseteq Nat
  /\ MainChars \subseteq Glyph \cup {NEWLINE}
  /\ KeyTexts \subseteq Seq(Glyph \cup {NEWLINE, BACKSPACE, TABULATOR}) \ {<<>>}
  /\ Cardinality({NEWLINE, BACKSPACE, TABULATOR, BLANK}) = 4
  /\ Glyph \cap {NEWLINE, BACKSPACE, TABULATOR} = {}

VARIABLES
  vga,       \* what both contexts share, see Init
  frame,     \* the activation of putch in each context
  log,       \* every character putch was called with, in order
  torn,      \* mainline's last putch was interrupted, none came since
  raced,     \* some putch of mainline code was ever interrupted
  keys       \* keys so far

vars == <<vga, frame, log, torn, raced, keys>>

Context == {"main", "irq"}

(* Video memory up to one row below the screen.                            *)
Cells == 0 .. (ROWS + 1) * COLS - 1

(* An activation: where it is, the characters still to print, the register *)
(* that holds a value read, the cell to write, the count of a copy, and    *)
(* where to go on after csr_y++.                                           *)
Idle == [pc |-> "idle", text |-> <<>>, r |-> 0, where |-> 0, k |-> 0,
         back |-> "wrap"]

(* Where putch(ch) starts.                                                 *)
FirstStep(ch) == CASE ch = BACKSPACE -> "test_x"
                   [] ch = TABULATOR -> "load_x"
                   [] ch = NEWLINE   -> "zero_x"
                   [] OTHER          -> "where_y"

Enter(text) == [Idle EXCEPT !.pc = FirstStep(Head(text)), !.text = text]

(* x, y     csr_x and csr_y                                                *)
(* cell     the characters of video memory                                 *)
(* index    the CRT's index register                                       *)
(* register its registers 14 and 15, the cursor                            *)
Init ==
  /\ vga = [x |-> 0, y |-> StartRow,
            cell |-> [n \in Cells |-> BLANK],
            index |-> 15,
            register |-> [n \in {14, 15} |->
                            IF n = 14 THEN (StartRow * COLS) \div BASE
                                      ELSE (StartRow * COLS) % BASE]]
  /\ frame = [c \in Context |-> Idle]
  /\ log = <<>> /\ torn = FALSE /\ raced = FALSE /\ keys = 0

(* puts() in mainline code comes to its next character.                    *)
Puts(ch) ==
  /\ \A c \in Context : frame[c].pc = "idle"
  /\ Len(SelectSeq(log, LAMBDA d : d \in MainChars)) < MaxMain
  /\ frame' = [frame EXCEPT !["main"] = Enter(<<ch>>)]
  /\ log' = Append(log, ch)
  /\ torn' = FALSE
  /\ UNCHANGED <<vga, raced, keys>>

(* Interrupt 1: keyboard_handler() prints what norm() makes of the key.    *)
Key(text) ==
  /\ frame["irq"].pc = "idle"
  /\ keys < MaxKeys
  /\ frame' = [frame EXCEPT !["irq"] = Enter(text)]
  /\ keys' = keys + 1
  /\ log' = Append(log, Head(text))
  /\ torn' = (frame["main"].pc # "idle")
  /\ raced' = (raced \/ torn')
  /\ UNCHANGED vga
-----------------------------------------------------------------------------
(* One step of putch in context c, from pc to next, with what it leaves in *)
(* vga and, for a step that only reads, in the activation.  A handler runs *)
(* to its end before the code it interrupted goes on.                      *)
Step(c, pc, next, after, activation) ==
  /\ c = "irq" \/ frame["irq"].pc = "idle"
  /\ frame[c].pc = pc
  /\ vga' = after
  /\ frame' = [frame EXCEPT ![c] = [activation EXCEPT !.pc = next]]
  /\ UNCHANGED <<log, torn, raced, keys>>

Write(c, pc, next, after) == Step(c, pc, next, after, frame[c])
Read(c, pc, next, activation) == Step(c, pc, next, vga, activation)
Test(c, pc, next) == Step(c, pc, next, vga, frame[c])

Char(c) == Head(frame[c].text)

(* where = textmemptr + (csr_y * 80 + csr_x), two loads; *where = c | att. *)
WhereY(c) == Read(c, "where_y", "where_x", [frame[c] EXCEPT !.where = vga.y * COLS])
WhereX(c) == Read(c, "where_x", "store", [frame[c] EXCEPT !.where = @ + vga.x])
Store(c) ==
  Write(c, "store", "load_x", [vga EXCEPT !.cell[frame[c].where] = Char(c)])

(* Backspace stays in its row.                                             *)
TestX(c) == Test(c, "test_x", IF vga.x # 0 THEN "load_x" ELSE "wrap")

(* Mutated form: a tab moves by eight columns, not to the next stop.       *)
NextXTab(ch, x) == CASE ch = BACKSPACE -> x - 1
                     [] ch = TABULATOR -> x + TAB
                     [] OTHER          -> x + 1

(* csr_x--, csr_x = (csr_x + 8) & ~(8 - 1), or csr_x++.                    *)
NextX(ch, x) == CASE ch = BACKSPACE -> x - 1
                  [] ch = TABULATOR -> x + TAB - (x % TAB)
                  [] OTHER          -> x + 1

LoadX(c) == Read(c, "load_x", "set_x", [frame[c] EXCEPT !.r = vga.x])
SetX(c) == Write(c, "set_x", "wrap", [vga EXCEPT !.x = NextX(Char(c), frame[c].r)])

(* csr_x = 0 and csr_y++, for a newline or at the end of a row.            *)
ZeroX(c) == Write(c, "zero_x", "load_y", [vga EXCEPT !.x = 0])
LoadY(c) == Read(c, "load_y", "set_y", [frame[c] EXCEPT !.r = vga.y])
SetY(c) == Write(c, "set_y", frame[c].back, [vga EXCEPT !.y = frame[c].r + 1])

(* Mutated form: a row is one cell longer.                                 *)
WrapLate(c) ==
  Read(c, "wrap", IF vga.x > COLS THEN "zero_x" ELSE "scroll",
       [frame[c] EXCEPT !.back = "scroll"])

(* if (csr_x >= 80)                                                        *)
Wrap(c) ==
  Read(c, "wrap", IF vga.x >= COLS THEN "zero_x" ELSE "scroll",
       [frame[c] EXCEPT !.back = "scroll"])

(* Mutated form: the screen scrolls a row late.                            *)
ScrollLate(c) == Test(c, "scroll", IF vga.y > ROWS THEN "lines" ELSE "cursor_y")

(* scroll(): if (csr_y >= 25); temp = csr_y - 25 + 1                       *)
Scroll(c) == Test(c, "scroll", IF vga.y >= ROWS THEN "lines" ELSE "cursor_y")
Lines(c) ==
  Read(c, "lines", "copy", [frame[c] EXCEPT !.r = vga.y - ROWS + 1, !.k = 0])

(* memcpyw and memsetw, cell by cell: temp rows up, then one blank row.    *)
Copy(c) ==
  LET k == frame[c].k
      kept == (ROWS - frame[c].r) * COLS
  IN  Step(c, "copy", IF k + 1 = kept + COLS THEN "last_row" ELSE "copy",
           [vga EXCEPT !.cell[k] = IF k < kept THEN vga.cell[k + frame[c].r * COLS]
                                   ELSE BLANK],
           [frame[c] EXCEPT !.k = k + 1])

LastRow(c) == Write(c, "last_row", "cursor_y", [vga EXCEPT !.y = ROWS - 1])

(* move_csr(): temp = csr_y * 80 + csr_x, then four writes to ports.       *)
CursorY(c) ==
  Read(c, "cursor_y", "cursor_x", [frame[c] EXCEPT !.r = vga.y * COLS])
CursorX(c) ==
  Read(c, "cursor_x", "select_high", [frame[c] EXCEPT !.r = @ + vga.x])
SelectHigh(c) == Write(c, "select_high", "write_high", [vga EXCEPT !.index = 14])
WriteHigh(c) ==
  Write(c, "write_high", "select_low",
        [vga EXCEPT !.register[vga.index] = frame[c].r \div BASE])

(* Mutated form: the low byte is written without selecting its register.   *)
SelectLowSkipped(c) == Test(c, "select_low", "write_low")

SelectLow(c) == Write(c, "select_low", "write_low", [vga EXCEPT !.index = 15])
WriteLow(c) ==
  Write(c, "write_low", "done",
        [vga EXCEPT !.register[vga.index] = frame[c].r % BASE])

(* putch returns; the handler may have another character to print.         *)
Return(c) ==
  LET rest == Tail(frame[c].text)
  IN  /\ c = "irq" \/ frame["irq"].pc = "idle"
      /\ frame[c].pc = "done"
      /\ frame' = [frame EXCEPT ![c] = IF rest = <<>> THEN Idle ELSE Enter(rest)]
      /\ log' = IF rest = <<>> THEN log ELSE Append(log, Head(rest))
      /\ UNCHANGED <<vga, torn, raced, keys>>

Putch(c) ==
  \/ WhereY(c) \/ WhereX(c) \/ Store(c) \/ TestX(c) \/ LoadX(c) \/ SetX(c)
  \/ ZeroX(c) \/ LoadY(c) \/ SetY(c) \/ Wrap(c)
  \/ Scroll(c) \/ Lines(c) \/ Copy(c) \/ LastRow(c)
  \/ CursorY(c) \/ CursorX(c)
  \/ SelectHigh(c) \/ WriteHigh(c) \/ SelectLow(c) \/ WriteLow(c)
  \/ Return(c)

Quiet == \A c \in Context : frame[c].pc = "idle"

(* jmp $ of start.asm, after main().                                       *)
Loop == Quiet /\ UNCHANGED vars

Next ==
  \/ \E ch \in MainChars : Puts(ch)
  \/ \E text \in KeyTexts : Key(text)
  \/ \E c \in Context : Putch(c)
  \/ Loop

Spec == Init /\ [][Next]_vars
-----------------------------------------------------------------------------
TypeOK ==
  /\ vga.x \in 0 .. COLS + TAB
  /\ vga.y \in 0 .. ROWS + 1
  /\ vga.cell \in [Cells -> Glyph \cup {BLANK}]
  /\ vga.index \in {14, 15}
  /\ vga.register \in [{14, 15} -> 0 .. BASE - 1]
  /\ \A c \in Context : frame[c].r \in -1 .. (ROWS + 2) * COLS

(* However mainline and handler interleave, the cursor is back on the      *)
(* screen when both are done: a column or row counted twice, or tested     *)
(* before the handler changes it, never drives it out for good.            *)
CursorOnScreen == Quiet => vga.x \in 0 .. COLS - 1 /\ vga.y \in 0 .. ROWS - 1

(* No interleaving makes putch or scroll write beyond the one row below    *)
(* the screen, or before video memory.                                     *)
WritesInVideoMemory ==
  \A c \in Context :
    /\ frame[c].pc = "store" => frame[c].where \in Cells
    /\ frame[c].pc = "copy" => frame[c].k \in Cells

(* The terminal putch is meant to be: the effect of a whole putch(ch).     *)
Move(t, ch) ==
  IF ch = NEWLINE THEN [t EXCEPT !.x = 0, !.y = @ + 1]
  ELSE IF ch = BACKSPACE THEN [t EXCEPT !.x = IF @ = 0 THEN 0 ELSE @ - 1]
  ELSE IF ch = TABULATOR THEN [t EXCEPT !.x = (@ \div TAB + 1) * TAB]
  ELSE [t EXCEPT !.x = @ + 1, !.screen[t.y * COLS + t.x] = ch]

Wrapped(t) == IF t.x >= COLS THEN [t EXCEPT !.x = 0, !.y = @ + 1] ELSE t

Scrolled(t) ==
  IF t.y < ROWS THEN t
  ELSE [t EXCEPT !.y = ROWS - 1,
                 !.screen = [n \in DOMAIN t.screen |->
                               IF n + COLS \in DOMAIN t.screen
                               THEN t.screen[n + COLS] ELSE BLANK]]

Terminal ==
  LET after[n \in 0 .. Len(log)] ==
        IF n = 0
        THEN [x |-> 0, y |-> StartRow,
              screen |-> [m \in 0 .. ROWS * COLS - 1 |-> BLANK]]
        ELSE Scrolled(Wrapped(Move(after[n - 1], log[n])))
  IN  after[Len(log)]

(* While no putch was interrupted, whatever keys came between them, the    *)
(* screen and the cursor are those of a terminal given the same characters.*)
ShowsTerminal ==
  Quiet /\ ~raced =>
    /\ vga.x = Terminal.x
    /\ vga.y = Terminal.y
    /\ \A n \in DOMAIN Terminal.screen : vga.cell[n] = Terminal.screen[n]

HardwareCursor == vga.register[14] * BASE + vga.register[15]

(* move_csr: an interrupted putch can leave the hardware cursor elsewhere; *)
(* the next putch that is not interrupted puts it right.                   *)
CursorRecovers == Quiet /\ ~torn => HardwareCursor = vga.y * COLS + vga.x

(* vga.c:27, of move_csr: "Update the hardware cursor".                    *)
CursorFollows == Quiet => HardwareCursor = vga.y * COLS + vga.x
=============================================================================
