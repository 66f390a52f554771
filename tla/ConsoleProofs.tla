---------------------------- MODULE ConsoleProofs ----------------------------
(***************************************************************************)
(* Proofs about putch (Console) and the keyboard handler that interrupts   *)
(* it, for every size of screen, every text and every number of keys.      *)
(*                                                                         *)
(* A putch of mainline code may resume with what it read long before.  The *)
(* invariant says, for each place where it can be interrupted, what its    *)
(* own variables hold (MainFrame) and what the cursor may be when it goes  *)
(* on (MainScreen).  A handler is never interrupted, so that its variables *)
(* agree with the cursor (IrqScreen); it may start from a column one past  *)
(* the row or a row one past the screen, and ends on the screen.           *)
(***************************************************************************)
EXTENDS Console, TLAPS, FiniteSetTheorems, SequenceTheorems, WellFoundedInduction

Control == {NEWLINE, BACKSPACE, TABULATOR}
Symbol == Glyph \cup {BLANK}

Aiming == {"where_y", "where_x", "store"}
Moving == {"load_x", "set_x"}
Falling == {"zero_x", "load_y", "set_y"}
Scrolling == {"scroll", "lines", "copy", "last_row"}
Placing == {"cursor_y", "cursor_x", "select_high", "write_high", "select_low",
            "write_low", "done"}
Places == {"idle", "test_x", "wrap"}
          \cup Aiming \cup Moving \cup Falling \cup Scrolling \cup Placing

(* What mainline and handler share, and what each has of its own.          *)
Screen ==
  /\ DOMAIN vga = {"x", "y", "cell", "index", "register"}
  /\ vga.x \in Int /\ vga.y \in Int /\ vga.index \in {14, 15}
  /\ DOMAIN vga.cell = Cells /\ DOMAIN vga.register = {14, 15}

Activation == [pc : Places, text : Seq(Glyph \cup Control), r : Int,
               where : Int, k : Int, back : {"wrap", "scroll"}]

(* An activation has a character that fits its place.                      *)
Fitting(f) ==
  /\ f.pc # "idle" => f.text # <<>>
  /\ f.pc \in Aiming => Head(f.text) \in Glyph
  /\ f.pc \in Moving => Head(f.text) \in Glyph \cup {BACKSPACE, TABULATOR}
  /\ f.pc = "test_x" => Head(f.text) = BACKSPACE

Typed ==
  /\ Screen /\ frame \in [Context -> Activation]
  /\ \A c \in Context : Fitting(frame[c])

(* What video memory, the registers and the activations may hold.          *)
Bounded ==
  /\ vga.cell \in [Cells -> Symbol] /\ vga.register \in [{14, 15} -> 0 .. BASE - 1]
  /\ \A c \in Context : frame[c].r \in 0 .. ROWS * COLS

(* Where a putch may find the cursor when it goes on, or starts.           *)
Near(x, y) == x \in 0 .. COLS /\ y \in 0 .. ROWS /\ (x = COLS => y < ROWS)

OnScreen(x, y) == x \in 0 .. COLS - 1 /\ y \in 0 .. ROWS - 1

(* The private variables of mainline's putch at pc, however stale.         *)
MainOwn(pc, r, where, k) ==
  /\ pc = "where_x" => where \in 0 .. (ROWS - 1) * COLS
  /\ pc = "store" => where \in 0 .. ROWS * COLS - 1
  /\ pc = "set_x" => r \in 0 .. COLS - 1
  /\ pc = "set_y" => r \in 0 .. ROWS - 1
  /\ pc = "copy" => r \in {0, 1} /\ k \in 0 .. (ROWS + 1 - r) * COLS - 1
  /\ pc = "cursor_x" => r \in 0 .. (ROWS - 1) * COLS
  /\ pc \in Placing \ {"cursor_y", "cursor_x"} => r \in 0 .. ROWS * COLS - 1

(* The cursor when mainline's putch goes on at pc.                         *)
MainAt(pc, x, y) ==
  /\ Near(x, y)
  /\ x = COLS => pc \in {"wrap", "zero_x"}
  /\ y = ROWS => pc = "wrap" \/ pc \in Scrolling
  /\ pc = "lines" => y >= ROWS - 1

(* The cursor and the variables of the handler's putch of ch at pc.        *)
IrqAt(pc, ch, r, where, k, x, y) ==
  /\ pc \in Aiming \cup Moving \cup {"test_x"} => Near(x, y)
  /\ pc = "where_x" => where = y * COLS
  /\ pc = "store" => where = y * COLS + x
  /\ pc \in Moving /\ ch = BACKSPACE => x > 0
  /\ pc = "set_x" => r = x
  /\ pc = "wrap" => /\ x \in 0 .. COLS + TAB /\ y \in 0 .. ROWS + 1
                    /\ x >= COLS => y <= ROWS
  /\ pc = "zero_x" => x \in 0 .. COLS + TAB /\ y \in 0 .. ROWS
  /\ pc \in {"load_y", "set_y"} => x = 0 /\ y \in 0 .. ROWS
  /\ pc = "set_y" => r = y
  /\ pc \in Scrolling => x \in 0 .. COLS - 1 /\ y \in 0 .. ROWS + 1
  /\ pc = "lines" => y >= ROWS
  /\ pc = "copy" => /\ y >= ROWS /\ r = y - ROWS + 1
                    /\ k \in 0 .. (ROWS + 1 - r) * COLS - 1
  /\ pc \in Placing => OnScreen(x, y)
  /\ pc = "cursor_x" => r \in 0 .. (ROWS - 1) * COLS
  /\ pc \in Placing \ {"cursor_y", "cursor_x"} => r \in 0 .. ROWS * COLS - 1

MainFrame ==
  LET f == frame["main"]
  IN  /\ MainOwn(f.pc, f.r, f.where, f.k)
      /\ f.pc # "idle" => Head(f.text) \in Glyph \cup {NEWLINE} /\ Tail(f.text) = <<>>

MainScreen == MainAt(frame["main"].pc, vga.x, vga.y)

(* While the handler runs.  It leaves a cursor that a scroll of mainline   *)
(* can go on from.                                                         *)
IrqScreen ==
  LET f == frame["irq"]
  IN  /\ IrqAt(f.pc, Head(f.text), f.r, f.where, f.k, vga.x, vga.y)
      /\ frame["main"].pc = "lines" => vga.y >= ROWS - 1

(* What an activation that was never interrupted has of move_csr done.     *)
Pointing(f) ==
  /\ f.pc = "cursor_x" => f.r = vga.y * COLS
  /\ f.pc \in {"select_high", "write_high", "select_low", "write_low"} =>
       f.r = vga.y * COLS + vga.x
  /\ f.pc = "write_high" => vga.index = 14
  /\ f.pc \in {"select_low", "write_low"} => vga.register[14] = f.r \div BASE
  /\ f.pc = "write_low" => vga.index = 15
  /\ f.pc = "done" => HardwareCursor = vga.y * COLS + vga.x

Recovering ==
  ~torn => /\ frame["main"].pc = "idle" \/ frame["irq"].pc = "idle"
           /\ \A c \in Context : Pointing(frame[c])
           /\ Quiet => HardwareCursor = vga.y * COLS + vga.x

IInv ==
  /\ Typed /\ Bounded /\ MainFrame
  /\ IF frame["irq"].pc = "idle" THEN MainScreen ELSE IrqScreen
  /\ Recovering
-----------------------------------------------------------------------------
(***************************************************************************)
(* Numbers.                                                                *)
(***************************************************************************)
(* The sizes are positive.                                                 *)
LEMMA Sizes ==
  /\ ROWS \in Nat /\ ROWS >= 2
  /\ COLS \in Nat /\ COLS >= 1 /\ TAB \in Nat /\ TAB >= 1 /\ BASE \in Nat /\ BASE >= 1
  /\ StartRow \in Int /\ 0 <= StartRow /\ StartRow < ROWS
BY ConsoleAssumption

(* Rows of cells, one after the other.                                     *)
LEMMA RowStarts ==
  /\ ROWS * COLS \in Nat /\ (ROWS - 1) * COLS \in Nat /\ (ROWS + 1) * COLS \in Nat
  /\ (ROWS - 1) * COLS + COLS = ROWS * COLS
  /\ ROWS * COLS + COLS = (ROWS + 1) * COLS
  /\ ROWS * COLS >= 2 * COLS /\ ROWS * COLS >= ROWS
BY Sizes

(* A column of a row that starts on the screen is on the screen.           *)
LEMMA CellInRow ==
  \A w \in 0 .. (ROWS - 1) * COLS, x \in 0 .. COLS - 1 : w + x \in 0 .. ROWS * COLS - 1
<1> DEFINE a == (ROWS - 1) * COLS
           b == ROWS * COLS
<1>1. a \in Nat /\ b \in Nat /\ a + COLS = b
  BY RowStarts
<1> HIDE DEF a, b
<1>2. \A w \in 0 .. a, x \in 0 .. COLS - 1 : w + x \in 0 .. b - 1
  BY <1>1, Sizes
<1> QED BY <1>2 DEF a, b

(* Where a row starts, and that its cells are of video memory.             *)
LEMMA RowOf ==
  ASSUME NEW x \in Nat, NEW y \in Nat, y <= ROWS
  PROVE  /\ y * COLS \in 0 .. ROWS * COLS
         /\ y < ROWS => y * COLS <= (ROWS - 1) * COLS
         /\ Near(x, y) => y * COLS + x \in Cells
         /\ OnScreen(x, y) => y * COLS + x \in 0 .. ROWS * COLS - 1
<1>1. y * COLS \in Nat /\ y * COLS <= ROWS * COLS
  BY Sizes
<1>2. y < ROWS => y * COLS <= (ROWS - 1) * COLS
  <2>1. \A m \in Nat : y <= m => y * COLS <= m * COLS
    BY Sizes
  <2>2. ROWS - 1 \in Nat /\ (y < ROWS => y <= ROWS - 1)
    BY Sizes
  <2> QED BY <2>1, <2>2
<1>3. Near(x, y) => y * COLS + x \in Cells
  BY <1>1, <1>2, Sizes, RowStarts DEF Near, Cells
<1>4. OnScreen(x, y) => y * COLS + x \in 0 .. ROWS * COLS - 1
  BY <1>1, <1>2, Sizes, RowStarts DEF OnScreen
<1> QED BY <1>1, <1>2, <1>3, <1>4

(* The cells that scroll copies and blanks.                                *)
LEMMA CopiedCells ==
  ASSUME NEW r \in 0 .. 2, NEW k \in 0 .. (ROWS + 1 - r) * COLS - 1
  PROVE  /\ k \in Cells
         /\ (ROWS - r) * COLS \in Nat /\ r * COLS \in Nat
         /\ (ROWS - r) * COLS + r * COLS = ROWS * COLS
         /\ (ROWS + 1 - r) * COLS = (ROWS - r) * COLS + COLS
         /\ k < (ROWS - r) * COLS => k + r * COLS \in 0 .. ROWS * COLS - 1
<1>1. r \in {0, 1, 2}
  OBVIOUS
<1>2. CASE r = 0
  BY <1>2, Sizes, RowStarts DEF Cells
<1>3. CASE r = 1
  BY <1>3, Sizes, RowStarts DEF Cells
<1>4. CASE r = 2
  BY <1>4, Sizes, RowStarts DEF Cells
<1> QED BY <1>1, <1>2, <1>3, <1>4

(* Newline, backspace and tab are three characters, and none shows.        *)
LEMMA Controls ==
  /\ NEWLINE # BACKSPACE /\ NEWLINE # TABULATOR /\ BACKSPACE # TABULATOR
  /\ NEWLINE \notin Glyph /\ BACKSPACE \notin Glyph /\ TABULATOR \notin Glyph
<1>1. ASSUME NEW a, NEW b, NEW c PROVE Cardinality({a, b, c}) # 4
  <2>1. IsFiniteSet({}) /\ Cardinality({}) = 0
    BY FS_EmptySet
  <2>2. IsFiniteSet({c}) /\ Cardinality({c}) = 1
    BY FS_Singleton
  <2>3. /\ IsFiniteSet({b, c})
        /\ Cardinality({b, c}) = IF b \in {c} THEN 1 ELSE 1 + 1
    <3>1. {c} \cup {b} = {b, c}
      OBVIOUS
    <3> QED BY <2>2, <3>1, FS_AddElement
  <2>4. Cardinality({a, b, c}) = IF a \in {b, c} THEN Cardinality({b, c})
                                 ELSE Cardinality({b, c}) + 1
    <3>1. {b, c} \cup {a} = {a, b, c}
      OBVIOUS
    <3> QED BY <2>3, <3>1, FS_AddElement
  <2> QED BY <2>3, <2>4
<1>2. Cardinality({NEWLINE, BACKSPACE, TABULATOR, BLANK}) = 4
  BY ConsoleAssumption
<1>3. NEWLINE # BACKSPACE
  <2>1. NEWLINE = BACKSPACE => {NEWLINE, BACKSPACE, TABULATOR, BLANK} = {BACKSPACE, TABULATOR, BLANK}
    OBVIOUS
  <2> QED BY <1>1, <1>2, <2>1
<1>4. NEWLINE # TABULATOR
  <2>1. NEWLINE = TABULATOR => {NEWLINE, BACKSPACE, TABULATOR, BLANK} = {BACKSPACE, TABULATOR, BLANK}
    OBVIOUS
  <2> QED BY <1>1, <1>2, <2>1
<1>5. BACKSPACE # TABULATOR
  <2>1. BACKSPACE = TABULATOR => {NEWLINE, BACKSPACE, TABULATOR, BLANK} = {NEWLINE, TABULATOR, BLANK}
    OBVIOUS
  <2> QED BY <1>1, <1>2, <2>1
<1> QED BY <1>3, <1>4, <1>5, ConsoleAssumption

(* Where backspace, tab and a glyph move the column.                       *)
LEMMA NextColumn ==
  ASSUME NEW ch, NEW x \in 0 .. COLS
  PROVE  /\ NextX(ch, x) \in Int /\ NextX(ch, x) <= COLS + TAB /\ NextX(ch, x) >= x - 1
         /\ ch # BACKSPACE => NextX(ch, x) >= 0
         /\ ch \notin {BACKSPACE, TABULATOR} => NextX(ch, x) = x + 1
         /\ ch = BACKSPACE => NextX(ch, x) = x - 1
<1>1. x % TAB \in 0 .. TAB - 1
  BY Sizes
<1> QED BY <1>1, Sizes, Controls DEF NextX

(* move_csr: what the two registers hold of an offset.                     *)
LEMMA TwoBytes ==
  ASSUME NEW r \in 0 .. ROWS * COLS - 1
  PROVE  /\ r \div BASE \in 0 .. BASE - 1 /\ r % BASE \in 0 .. BASE - 1
         /\ (r \div BASE) * BASE + (r % BASE) = r
<1> DEFINE q == r \div BASE
           m == r % BASE
<1>1. q \in Int /\ m \in Int /\ r = BASE * q + m /\ 0 <= m /\ m < BASE
  BY Sizes, RowStarts
<1>2. r < BASE * BASE /\ r \in Nat
  BY ConsoleAssumption, RowStarts, Sizes
<1> HIDE DEF q, m
<1>3. q >= 0
  <2>1. q <= -1 => BASE * q <= -BASE
    BY <1>1, Sizes
  <2> QED BY <1>1, <1>2, <2>1, Sizes
<1>4. q < BASE
  <2>1. q >= BASE => BASE * q >= BASE * BASE
    BY <1>1, Sizes
  <2>2. BASE * q \in Int /\ BASE * BASE \in Int
    BY <1>1, Sizes
  <2> QED BY <1>1, <1>2, <2>1, <2>2, Sizes
<1>5. q * BASE + m = r
  BY <1>1, Sizes
<1> QED BY <1>1, <1>3, <1>4, <1>5, Sizes DEF q, m

-----------------------------------------------------------------------------
(***************************************************************************)
(* What the steps of putch do to an activation.                            *)
(***************************************************************************)
(* The activation of c goes from pc to next and keeps its text; the other  *)
(* one waits.                                                              *)
Goes(c, pc, next, r, where, k, back) ==
  /\ frame \in [Context -> Activation] /\ frame' \in [Context -> Activation]
  /\ c = "irq" \/ frame["irq"].pc = "idle"
  /\ frame[c].pc = pc /\ frame'[c].pc = next
  /\ frame'[c].text = frame[c].text /\ frame'[c].r = r /\ frame'[c].where = where
  /\ frame'[c].k = k /\ frame'[c].back = back
  /\ \A d \in Context \ {c} : frame'[d] = frame[d]
  /\ UNCHANGED <<log, torn, raced, keys>>

(* All places.                                                             *)
LEMMA AllPlaces ==
  Places = {"idle", "test_x", "wrap", "where_y", "where_x", "store", "load_x", "set_x",
            "zero_x", "load_y", "set_y", "scroll", "lines", "copy", "last_row", "cursor_y",
            "cursor_x", "select_high", "write_high", "select_low", "write_low", "done"}
BY DEF Places, Aiming, Moving, Falling, Scrolling, Placing

(* One step, given the activation it leaves.                               *)
LEMMA StepEffect ==
  ASSUME Typed, NEW c \in Context, NEW pc, NEW next \in Places, NEW after,
         NEW a \in Activation, a.text = frame[c].text, Step(c, pc, next, after, a)
  PROVE  Goes(c, pc, next, a.r, a.where, a.k, a.back) /\ vga' = after
<1>1. frame \in [Context -> Activation]
  BY DEF Typed
<1> DEFINE b == [a EXCEPT !.pc = next]
<1>2. /\ b \in Activation /\ b.pc = next /\ b.text = frame[c].text /\ b.r = a.r
      /\ b.where = a.where /\ b.k = a.k /\ b.back = a.back
  BY DEF Activation
<1>3. frame' = [frame EXCEPT ![c] = b]
  BY DEF Step
<1> HIDE DEF b
<1>4. /\ frame' \in [Context -> Activation] /\ frame'[c] = b
      /\ \A d \in Context \ {c} : frame'[d] = frame[d]
  BY <1>1, <1>2, <1>3
<1> QED BY <1>1, <1>2, <1>4 DEF Step, Goes

(* A step that leaves the activation alone.                                *)
LEMMA PlainStep ==
  ASSUME Typed, NEW c \in Context, NEW pc, NEW next \in Places, NEW after,
         Step(c, pc, next, after, frame[c])
  PROVE  /\ Goes(c, pc, next, frame[c].r, frame[c].where, frame[c].k, frame[c].back)
         /\ vga' = after
<1>1. frame[c] \in Activation
  BY DEF Typed
<1> QED BY <1>1, StepEffect

(* A step that reads a value into r.                                       *)
LEMMA ReadStep ==
  ASSUME Typed, NEW c \in Context, NEW pc, NEW next \in Places, NEW v \in Int,
         Step(c, pc, next, vga, [frame[c] EXCEPT !.r = v])
  PROVE  /\ Goes(c, pc, next, v, frame[c].where, frame[c].k, frame[c].back)
         /\ vga' = vga
<1>1. frame[c] \in Activation
  BY DEF Typed
<1> DEFINE a == [frame[c] EXCEPT !.r = v]
<1>2. /\ a \in Activation /\ a.text = frame[c].text /\ a.r = v
      /\ a.where = frame[c].where /\ a.k = frame[c].k /\ a.back = frame[c].back
  BY <1>1 DEF Activation
<1>3. Step(c, pc, next, vga, a)
  OBVIOUS
<1> HIDE DEF a
<1>4. Goes(c, pc, next, a.r, a.where, a.k, a.back) /\ vga' = vga
  BY <1>2, <1>3, StepEffect
<1> QED BY <1>2, <1>4

(* A step that computes where to write.                                    *)
LEMMA AimStep ==
  ASSUME Typed, NEW c \in Context, NEW pc, NEW next \in Places, NEW v \in Int,
         Step(c, pc, next, vga, [frame[c] EXCEPT !.where = v])
  PROVE  /\ Goes(c, pc, next, frame[c].r, v, frame[c].k, frame[c].back)
         /\ vga' = vga
<1>1. frame[c] \in Activation
  BY DEF Typed
<1> DEFINE a == [frame[c] EXCEPT !.where = v]
<1>2. /\ a \in Activation /\ a.text = frame[c].text /\ a.r = frame[c].r
      /\ a.where = v /\ a.k = frame[c].k /\ a.back = frame[c].back
  BY <1>1 DEF Activation
<1>3. Step(c, pc, next, vga, a)
  OBVIOUS
<1> HIDE DEF a
<1>4. Goes(c, pc, next, a.r, a.where, a.k, a.back) /\ vga' = vga
  BY <1>2, <1>3, StepEffect
<1> QED BY <1>2, <1>4

(* The values that are read.                                               *)
LEMMA Values ==
  ASSUME Typed, NEW c \in Context
  PROVE  /\ frame[c].r \in Int /\ frame[c].where \in Int /\ frame[c].k \in Int
         /\ frame[c].back \in {"wrap", "scroll"} /\ frame[c].pc \in Places
         /\ frame[c].text \in Seq(Glyph \cup Control)
         /\ vga.x \in Int /\ vga.y \in Int /\ vga.y * COLS \in Int
         /\ frame[c].where + vga.x \in Int /\ frame[c].r + vga.x \in Int
         /\ frame[c].k + 1 \in Int /\ vga.y - ROWS + 1 \in Int
<1>1. frame[c] \in Activation /\ vga.x \in Int /\ vga.y \in Int
  BY DEF Typed, Screen
<1>2. vga.y * COLS \in Int /\ vga.y - ROWS + 1 \in Int
  BY <1>1, Sizes
<1> QED BY <1>1, <1>2 DEF Activation

(* where = textmemptr + (csr_y * 80 + csr_x).                              *)
LEMMA WhereSteps ==
  ASSUME Typed, NEW c \in Context
  PROVE  /\ WhereY(c) => /\ Goes(c, "where_y", "where_x", frame[c].r, vga.y * COLS,
                                 frame[c].k, frame[c].back)
                         /\ vga' = vga
         /\ WhereX(c) => /\ Goes(c, "where_x", "store", frame[c].r, frame[c].where + vga.x,
                                 frame[c].k, frame[c].back)
                         /\ vga' = vga
BY Values, AimStep, AllPlaces DEF WhereY, WhereX, Read

(* Loads of csr_x and csr_y, and the two of move_csr.                      *)
LEMMA LoadSteps ==
  ASSUME Typed, NEW c \in Context
  PROVE  /\ LoadX(c) => /\ Goes(c, "load_x", "set_x", vga.x, frame[c].where, frame[c].k,
                                frame[c].back)
                        /\ vga' = vga
         /\ LoadY(c) => /\ Goes(c, "load_y", "set_y", vga.y, frame[c].where, frame[c].k,
                                frame[c].back)
                        /\ vga' = vga
         /\ CursorY(c) => /\ Goes(c, "cursor_y", "cursor_x", vga.y * COLS, frame[c].where,
                                  frame[c].k, frame[c].back)
                          /\ vga' = vga
         /\ CursorX(c) => /\ Goes(c, "cursor_x", "select_high", frame[c].r + vga.x,
                                  frame[c].where, frame[c].k, frame[c].back)
                          /\ vga' = vga
BY Values, ReadStep, AllPlaces DEF LoadX, LoadY, CursorY, CursorX, Read

(* Tests of csr_x and csr_y.                                               *)
LEMMA TestSteps ==
  ASSUME Typed, NEW c \in Context
  PROVE  /\ TestX(c) => /\ Goes(c, "test_x", IF vga.x # 0 THEN "load_x" ELSE "wrap",
                                frame[c].r, frame[c].where, frame[c].k, frame[c].back)
                        /\ vga' = vga
         /\ Scroll(c) => /\ Goes(c, "scroll", IF vga.y >= ROWS THEN "lines" ELSE "cursor_y",
                                 frame[c].r, frame[c].where, frame[c].k, frame[c].back)
                         /\ vga' = vga
<1>1. /\ (IF vga.x # 0 THEN "load_x" ELSE "wrap") \in Places
      /\ (IF vga.y >= ROWS THEN "lines" ELSE "cursor_y") \in Places
  BY AllPlaces
<1> QED BY <1>1, PlainStep DEF TestX, Scroll, Test

(* if (csr_x >= 80)                                                        *)
LEMMA WrapStep ==
  ASSUME Typed, NEW c \in Context, Wrap(c)
  PROVE  /\ Goes(c, "wrap", IF vga.x >= COLS THEN "zero_x" ELSE "scroll", frame[c].r,
                 frame[c].where, frame[c].k, "scroll")
         /\ vga' = vga
<1>1. frame[c] \in Activation
  BY DEF Typed
<1> DEFINE a == [frame[c] EXCEPT !.back = "scroll"]
           next == IF vga.x >= COLS THEN "zero_x" ELSE "scroll"
<1>2. /\ a \in Activation /\ a.text = frame[c].text /\ a.r = frame[c].r
      /\ a.where = frame[c].where /\ a.k = frame[c].k /\ a.back = "scroll"
  BY <1>1 DEF Activation
<1>3. Step(c, "wrap", next, vga, a) /\ next \in Places
  BY AllPlaces DEF Wrap, Read
<1> HIDE DEF a, next
<1>4. Goes(c, "wrap", next, a.r, a.where, a.k, a.back) /\ vga' = vga
  BY <1>2, <1>3, StepEffect
<1> QED BY <1>2, <1>4 DEF next

(* temp = csr_y - 25 + 1                                                   *)
LEMMA LinesStep ==
  ASSUME Typed, NEW c \in Context, Lines(c)
  PROVE  /\ Goes(c, "lines", "copy", vga.y - ROWS + 1, frame[c].where, 0, frame[c].back)
         /\ vga' = vga
<1>1. frame[c] \in Activation
  BY DEF Typed
<1> DEFINE d == [frame[c] EXCEPT !.r = vga.y - ROWS + 1]
           a == [d EXCEPT !.k = 0]
<1>2. /\ d \in Activation /\ d.text = frame[c].text /\ d.r = vga.y - ROWS + 1
      /\ d.where = frame[c].where /\ d.back = frame[c].back
  BY <1>1, Values DEF Activation
<1>3. Step(c, "lines", "copy", vga, a)
  BY DEF Lines, Read
<1> HIDE DEF d
<1>4. /\ a \in Activation /\ a.text = d.text /\ a.r = d.r
      /\ a.where = d.where /\ a.k = 0 /\ a.back = d.back
  BY <1>2 DEF Activation
<1> HIDE DEF a
<1>5. Goes(c, "lines", "copy", a.r, a.where, a.k, a.back) /\ vga' = vga
  BY <1>2, <1>3, <1>4, StepEffect, AllPlaces
<1> QED BY <1>2, <1>4, <1>5

(* One field of vga changes.                                               *)
Only(field) ==
  /\ DOMAIN vga' = {"x", "y", "cell", "index", "register"}
  /\ "x" = field \/ vga'.x = vga.x
  /\ "y" = field \/ vga'.y = vga.y
  /\ "cell" = field \/ vga'.cell = vga.cell
  /\ "index" = field \/ vga'.index = vga.index
  /\ "register" = field \/ vga'.register = vga.register

OnlyX(v) == Only("x") /\ vga'.x = v
OnlyY(v) == Only("y") /\ vga'.y = v
OnlyCell(n, v) == Only("cell") /\ vga'.cell = [vga.cell EXCEPT ![n] = v]
OnlyIndex(v) == Only("index") /\ vga'.index = v
OnlyRegister(n, v) == Only("register") /\ vga'.register = [vga.register EXCEPT ![n] = v]

(* One cell of memcpyw or memsetw.                                         *)
LEMMA CopyStep ==
  ASSUME Typed, NEW c \in Context, Copy(c)
  PROVE  /\ Goes(c, "copy", IF frame[c].k + 1 = (ROWS - frame[c].r) * COLS + COLS
                            THEN "last_row" ELSE "copy",
                 frame[c].r, frame[c].where, frame[c].k + 1, frame[c].back)
         /\ OnlyCell(frame[c].k, IF frame[c].k < (ROWS - frame[c].r) * COLS
                                 THEN vga.cell[frame[c].k + frame[c].r * COLS] ELSE BLANK)
<1>1. frame[c] \in Activation /\ Screen
  BY DEF Typed
<1> DEFINE a == [frame[c] EXCEPT !.k = frame[c].k + 1]
           next == IF frame[c].k + 1 = (ROWS - frame[c].r) * COLS + COLS
                   THEN "last_row" ELSE "copy"
           after == [vga EXCEPT !.cell[frame[c].k] =
                       IF frame[c].k < (ROWS - frame[c].r) * COLS
                       THEN vga.cell[frame[c].k + frame[c].r * COLS] ELSE BLANK]
<1>2. /\ a \in Activation /\ a.text = frame[c].text /\ a.r = frame[c].r
      /\ a.where = frame[c].where /\ a.k = frame[c].k + 1 /\ a.back = frame[c].back
  BY <1>1, Values DEF Activation
<1>3. Step(c, "copy", next, after, a) /\ next \in Places
  BY AllPlaces, Zenon DEF Copy
<1> HIDE DEF a, next, after
<1>4. Goes(c, "copy", next, a.r, a.where, a.k, a.back) /\ vga' = after
  BY <1>2, <1>3, StepEffect
<1>5. OnlyCell(frame[c].k, IF frame[c].k < (ROWS - frame[c].r) * COLS
                           THEN vga.cell[frame[c].k + frame[c].r * COLS] ELSE BLANK)
  BY <1>1, <1>4 DEF after, Screen, OnlyCell, Only
<1> QED BY <1>2, <1>4, <1>5 DEF next

(* A step that writes one field of vga.                                    *)
LEMMA PlainOnlyX ==
  ASSUME Typed, NEW c \in Context, NEW pc, NEW next \in Places, NEW v,
         Step(c, pc, next, [vga EXCEPT !.x = v], frame[c])
  PROVE  /\ Goes(c, pc, next, frame[c].r, frame[c].where, frame[c].k, frame[c].back)
         /\ OnlyX(v)
<1>1. /\ Goes(c, pc, next, frame[c].r, frame[c].where, frame[c].k, frame[c].back)
      /\ vga' = [vga EXCEPT !.x = v]
  BY PlainStep
<1> QED BY <1>1 DEF Typed, Screen, OnlyX, Only

(* The row.                                                                *)
LEMMA PlainOnlyY ==
  ASSUME Typed, NEW c \in Context, NEW pc, NEW next \in Places, NEW v,
         Step(c, pc, next, [vga EXCEPT !.y = v], frame[c])
  PROVE  /\ Goes(c, pc, next, frame[c].r, frame[c].where, frame[c].k, frame[c].back)
         /\ OnlyY(v)
<1>1. /\ Goes(c, pc, next, frame[c].r, frame[c].where, frame[c].k, frame[c].back)
      /\ vga' = [vga EXCEPT !.y = v]
  BY PlainStep
<1> QED BY <1>1 DEF Typed, Screen, OnlyY, Only

(* A cell.                                                                 *)
LEMMA PlainOnlyCell ==
  ASSUME Typed, NEW c \in Context, NEW pc, NEW next \in Places, NEW n, NEW v,
         Step(c, pc, next, [vga EXCEPT !.cell[n] = v], frame[c])
  PROVE  /\ Goes(c, pc, next, frame[c].r, frame[c].where, frame[c].k, frame[c].back)
         /\ OnlyCell(n, v)
<1>1. /\ Goes(c, pc, next, frame[c].r, frame[c].where, frame[c].k, frame[c].back)
      /\ vga' = [vga EXCEPT !.cell[n] = v]
  BY PlainStep
<1> QED BY <1>1 DEF Typed, Screen, OnlyCell, Only

(* The index of the CRT.                                                   *)
LEMMA PlainOnlyIndex ==
  ASSUME Typed, NEW c \in Context, NEW pc, NEW next \in Places, NEW v,
         Step(c, pc, next, [vga EXCEPT !.index = v], frame[c])
  PROVE  /\ Goes(c, pc, next, frame[c].r, frame[c].where, frame[c].k, frame[c].back)
         /\ OnlyIndex(v)
<1>1. /\ Goes(c, pc, next, frame[c].r, frame[c].where, frame[c].k, frame[c].back)
      /\ vga' = [vga EXCEPT !.index = v]
  BY PlainStep
<1> QED BY <1>1 DEF Typed, Screen, OnlyIndex, Only

(* A register of the CRT.                                                  *)
LEMMA PlainOnlyRegister ==
  ASSUME Typed, NEW c \in Context, NEW pc, NEW next \in Places, NEW n, NEW v,
         Step(c, pc, next, [vga EXCEPT !.register[n] = v], frame[c])
  PROVE  /\ Goes(c, pc, next, frame[c].r, frame[c].where, frame[c].k, frame[c].back)
         /\ OnlyRegister(n, v)
<1>1. /\ Goes(c, pc, next, frame[c].r, frame[c].where, frame[c].k, frame[c].back)
      /\ vga' = [vga EXCEPT !.register[n] = v]
  BY PlainStep
<1> QED BY <1>1 DEF Typed, Screen, OnlyRegister, Only

(* The character, and the stores to csr_x and csr_y.                       *)
LEMMA StoreSteps ==
  ASSUME Typed, NEW c \in Context
  PROVE  /\ Store(c) => /\ Goes(c, "store", "load_x", frame[c].r, frame[c].where, frame[c].k,
                                frame[c].back)
                        /\ OnlyCell(frame[c].where, Char(c))
         /\ SetX(c) => /\ Goes(c, "set_x", "wrap", frame[c].r, frame[c].where, frame[c].k,
                               frame[c].back)
                       /\ OnlyX(NextX(Char(c), frame[c].r))
         /\ ZeroX(c) => /\ Goes(c, "zero_x", "load_y", frame[c].r, frame[c].where, frame[c].k,
                                frame[c].back)
                        /\ OnlyX(0)
         /\ LastRow(c) => /\ Goes(c, "last_row", "cursor_y", frame[c].r, frame[c].where,
                                  frame[c].k, frame[c].back)
                          /\ OnlyY(ROWS - 1)
BY PlainOnlyX, PlainOnlyY, PlainOnlyCell, AllPlaces DEF Store, SetX, ZeroX, LastRow, Write

(* csr_y++                                                                 *)
LEMMA SetYStep ==
  ASSUME Typed, NEW c \in Context, SetY(c)
  PROVE  /\ Goes(c, "set_y", frame[c].back, frame[c].r, frame[c].where, frame[c].k,
                 frame[c].back)
         /\ OnlyY(frame[c].r + 1)
<1>1. frame[c].back \in Places
  BY Values, AllPlaces
<1> QED BY <1>1, PlainOnlyY DEF SetY, Write

(* The writes to the CRT's ports.                                          *)
LEMMA PortSteps ==
  ASSUME Typed, NEW c \in Context
  PROVE  /\ SelectHigh(c) => /\ Goes(c, "select_high", "write_high", frame[c].r,
                                     frame[c].where, frame[c].k, frame[c].back)
                             /\ OnlyIndex(14)
         /\ WriteHigh(c) => /\ Goes(c, "write_high", "select_low", frame[c].r,
                                    frame[c].where, frame[c].k, frame[c].back)
                            /\ OnlyRegister(vga.index, frame[c].r \div BASE)
         /\ SelectLow(c) => /\ Goes(c, "select_low", "write_low", frame[c].r,
                                    frame[c].where, frame[c].k, frame[c].back)
                            /\ OnlyIndex(15)
         /\ WriteLow(c) => /\ Goes(c, "write_low", "done", frame[c].r, frame[c].where,
                                   frame[c].k, frame[c].back)
                           /\ OnlyRegister(vga.index, frame[c].r % BASE)
BY PlainOnlyIndex, PlainOnlyRegister, AllPlaces
DEF SelectHigh, WriteHigh, SelectLow, WriteLow, Write

(* putch starts.                                                           *)
LEMMA EnterEffect ==
  ASSUME NEW text \in Seq(Glyph \cup Control), text # <<>>
  PROVE  LET a == Enter(text)
             ch == Head(text)
         IN  /\ a \in Activation /\ a.text = text /\ a.r = 0 /\ a.back = "wrap"
             /\ ch \in Glyph => a.pc = "where_y"
             /\ ch = BACKSPACE => a.pc = "test_x"
             /\ ch = TABULATOR => a.pc = "load_x"
             /\ ch = NEWLINE => a.pc = "zero_x"
             /\ ch \in Glyph \cup Control /\ a.pc # "idle" /\ Fitting(a)
<1> DEFINE a == Enter(text)
           ch == Head(text)
           pc == FirstStep(ch)
<1>1. ch \in Glyph \cup Control
  BY HeadTailProperties
<1>2. /\ ch \in Glyph => pc = "where_y"
      /\ ch = BACKSPACE => pc = "test_x"
      /\ ch = TABULATOR => pc = "load_x"
      /\ ch = NEWLINE => pc = "zero_x"
  BY Controls DEF FirstStep
<1> HIDE DEF pc
<1>3. pc \in Places /\ pc # "idle"
  BY <1>1, <1>2, AllPlaces DEF Control
<1>4. Idle \in Activation
  BY AllPlaces DEF Idle, Activation
<1> DEFINE e == [Idle EXCEPT !.pc = pc]
<1>5. e \in Activation /\ e.pc = pc /\ e.r = 0 /\ e.back = "wrap"
  BY <1>3, <1>4 DEF Activation, Idle
<1>6. a = [e EXCEPT !.text = text]
  BY DEF Enter, pc
<1> HIDE DEF e, a
<1>7. a \in Activation /\ a.pc = pc /\ a.text = text /\ a.r = 0 /\ a.back = "wrap"
  BY <1>5, <1>6 DEF Activation
<1>8. Fitting(a)
  BY <1>1, <1>2, <1>7, Controls DEF Fitting, Control, Aiming, Moving
<1> QED BY <1>1, <1>2, <1>3, <1>7, <1>8 DEF a

(* Mainline code calls putch.                                              *)
LEMMA PutsEffect ==
  ASSUME Typed, NEW ch \in MainChars, Puts(ch)
  PROVE  /\ frame["main"].pc = "idle" /\ frame["irq"].pc = "idle"
         /\ frame' \in [Context -> Activation]
         /\ frame'["main"] = Enter(<<ch>>) /\ frame'["irq"] = frame["irq"]
         /\ <<ch>> \in Seq(Glyph \cup Control) /\ <<ch>> # <<>> /\ Head(<<ch>>) = ch
         /\ ch \in Glyph \cup {NEWLINE} /\ Tail(<<ch>>) = <<>>
         /\ vga' = vga /\ torn' = FALSE /\ raced' = raced /\ log' = Append(log, ch)
<1>1. ch \in Glyph \cup {NEWLINE}
  BY ConsoleAssumption
<1>2. <<ch>> \in Seq(Glyph \cup Control) /\ <<ch>> # <<>> /\ Head(<<ch>>) = ch /\ Tail(<<ch>>) = <<>>
  BY <1>1 DEF Control
<1>3. Enter(<<ch>>) \in Activation
  BY <1>2, EnterEffect
<1>4. frame' = [frame EXCEPT !["main"] = Enter(<<ch>>)]
  BY DEF Puts
<1> QED BY <1>1, <1>2, <1>3, <1>4 DEF Puts, Typed, Context

(* A key is pressed.                                                       *)
LEMMA KeyEffect ==
  ASSUME Typed, NEW text \in KeyTexts, Key(text)
  PROVE  /\ frame["irq"].pc = "idle"
         /\ frame' \in [Context -> Activation]
         /\ frame'["irq"] = Enter(text) /\ frame'["main"] = frame["main"]
         /\ text \in Seq(Glyph \cup Control) /\ text # <<>>
         /\ vga' = vga /\ torn' = (frame["main"].pc # "idle") /\ raced' = (raced \/ torn')
         /\ log' = Append(log, Head(text))
<1>1. text \in Seq(Glyph \cup Control) /\ text # <<>>
  <2>1. Glyph \cup Control = Glyph \cup {NEWLINE, BACKSPACE, TABULATOR}
    BY DEF Control
  <2> QED BY <2>1, ConsoleAssumption
<1>2. Enter(text) \in Activation
  BY <1>1, EnterEffect
<1>3. frame' = [frame EXCEPT !["irq"] = Enter(text)]
  BY DEF Key
<1> QED BY <1>1, <1>2, <1>3 DEF Key, Typed, Context

(* putch returns; puts() of the handler goes on with the next character.   *)
LEMMA ReturnEffect ==
  ASSUME Typed, NEW c \in Context, Return(c)
  PROVE  LET rest == Tail(frame[c].text)
         IN  /\ c = "irq" \/ frame["irq"].pc = "idle"
             /\ frame[c].pc = "done" /\ frame[c].text # <<>>
             /\ frame' \in [Context -> Activation]
             /\ frame'[c] = IF rest = <<>> THEN Idle ELSE Enter(rest)
             /\ \A d \in Context \ {c} : frame'[d] = frame[d]
             /\ rest \in Seq(Glyph \cup Control)
             /\ vga' = vga /\ torn' = torn /\ raced' = raced
             /\ log' = IF rest = <<>> THEN log ELSE Append(log, Head(rest))
<1> DEFINE rest == Tail(frame[c].text)
           a == IF rest = <<>> THEN Idle ELSE Enter(rest)
<1>1. frame[c].pc = "done" /\ frame[c].text # <<>>
  BY DEF Return, Typed, Fitting
<1>2. rest \in Seq(Glyph \cup Control)
  BY <1>1, Values, HeadTailProperties
<1>3. Idle \in Activation
  BY AllPlaces DEF Idle, Activation
<1>4. a \in Activation
  BY <1>2, <1>3, EnterEffect
<1>5. frame' = [frame EXCEPT ![c] = a]
  BY DEF Return
<1> HIDE DEF a
<1>6. /\ frame' \in [Context -> Activation] /\ frame'[c] = a
      /\ \A d \in Context \ {c} : frame'[d] = frame[d]
  BY <1>4, <1>5 DEF Typed
<1> QED BY <1>1, <1>2, <1>6 DEF Return, a

-----------------------------------------------------------------------------
(***************************************************************************)
(* Types.                                                                  *)
(***************************************************************************)
(* Writes keep the screen a screen.                                        *)
LEMMA ScreenKept ==
  ASSUME Screen
  PROVE  /\ vga' = vga => Screen'
         /\ \A v \in Int : OnlyX(v) \/ OnlyY(v) => Screen'
         /\ \A n, v : OnlyCell(n, v) \/ OnlyRegister(n, v) => Screen'
         /\ \A v \in {14, 15} : OnlyIndex(v) => Screen'
BY DEF Screen, OnlyX, OnlyY, OnlyCell, OnlyIndex, OnlyRegister, Only

(* An activation that goes on still fits its character.                    *)
LEMMA GoesTyped ==
  ASSUME Typed, Screen', NEW c \in Context, NEW pc, NEW next,
         NEW r, NEW where, NEW k, NEW back, Goes(c, pc, next, r, where, k, back),
         pc # "idle", next # "test_x",
         next \in Aiming => pc \in Aiming,
         next \in Moving => pc \in Aiming \cup Moving \cup {"test_x"}
  PROVE  Typed'
<1>1. Fitting(frame[c]) /\ \A d \in Context : Fitting(frame[d])
  BY DEF Typed
<1>2. Fitting(frame'[c])
  BY <1>1 DEF Goes, Fitting
<1>3. \A d \in Context \ {c} : Fitting(frame'[d])
  BY <1>1 DEF Goes
<1> QED BY <1>2, <1>3, Zenon DEF Typed, Goes

(* The places of putch are not idle, and few follow each.                  *)
LEMMA PutchTyped ==
  ASSUME Typed, NEW c \in Context, Putch(c), ~Return(c)
  PROVE  Typed'
<1>1. Screen
  BY DEF Typed
<1> USE DEF Aiming, Moving
<1>2. CASE WhereY(c) \/ WhereX(c)
  <2>1. Screen'
    BY <1>1, <1>2, WhereSteps, ScreenKept
  <2> QED BY <1>2, <2>1, WhereSteps, GoesTyped
<1>3. CASE LoadX(c) \/ LoadY(c) \/ CursorY(c) \/ CursorX(c)
  <2>1. Screen'
    BY <1>1, <1>3, LoadSteps, ScreenKept
  <2> QED BY <1>3, <2>1, LoadSteps, GoesTyped
<1>4. CASE TestX(c) \/ Scroll(c)
  <2>1. Screen'
    BY <1>1, <1>4, TestSteps, ScreenKept
  <2> QED BY <1>4, <2>1, TestSteps, GoesTyped
<1>5. CASE Wrap(c)
  <2>1. Screen'
    BY <1>1, <1>5, WrapStep, ScreenKept
  <2> QED BY <1>5, <2>1, WrapStep, GoesTyped
<1>6. CASE Lines(c)
  <2>1. Screen'
    BY <1>1, <1>6, LinesStep, ScreenKept
  <2> QED BY <1>6, <2>1, LinesStep, GoesTyped
<1>7. CASE Copy(c)
  <2>1. Screen'
    BY <1>1, <1>7, CopyStep, ScreenKept
  <2> QED BY <1>7, <2>1, CopyStep, GoesTyped
<1>8. CASE Store(c)
  <2>1. Screen'
    BY <1>1, <1>8, StoreSteps, ScreenKept
  <2> QED BY <1>8, <2>1, StoreSteps, GoesTyped
<1>9. CASE SetX(c)
  <2>1. NextX(Char(c), frame[c].r) \in Int
    <3>1. frame[c].r \in Int /\ frame[c].r % TAB \in Int
      BY Values, Sizes
    <3> QED BY <3>1, Sizes DEF NextX
  <2>2. Screen'
    BY <1>1, <1>9, <2>1, StoreSteps, ScreenKept
  <2> QED BY <1>9, <2>2, StoreSteps, GoesTyped
<1>10. CASE ZeroX(c) \/ LastRow(c)
  <2>1. Screen'
    BY <1>1, <1>10, Sizes, StoreSteps, ScreenKept
  <2> QED BY <1>10, <2>1, StoreSteps, GoesTyped
<1>11. CASE SetY(c)
  <2>1. frame[c].r + 1 \in Int /\ frame[c].back \in {"wrap", "scroll"}
    BY Values
  <2>2. Screen'
    BY <1>1, <1>11, <2>1, SetYStep, ScreenKept
  <2> QED BY <1>11, <2>1, <2>2, SetYStep, GoesTyped
<1>12. CASE SelectHigh(c) \/ WriteHigh(c) \/ SelectLow(c) \/ WriteLow(c)
  <2>1. Screen'
    BY <1>1, <1>12, PortSteps, ScreenKept
  <2> QED BY <1>12, <2>1, PortSteps, GoesTyped
<1> QED
  BY <1>2, <1>3, <1>4, <1>5, <1>6, <1>7, <1>8, <1>9, <1>10, <1>11, <1>12 DEF Putch

(* The steps that start or end a putch.                                    *)
LEMMA TypedStep == Typed /\ [Next]_vars => Typed'
<1> SUFFICES ASSUME Typed, [Next]_vars PROVE Typed'
  OBVIOUS
<1>1. Screen /\ \A c \in Context : Fitting(frame[c])
  BY DEF Typed
<1>2. ASSUME NEW ch \in MainChars, Puts(ch) PROVE Typed'
  <2>1. /\ frame'["main"] = Enter(<<ch>>) /\ frame'["irq"] = frame["irq"]
        /\ <<ch>> \in Seq(Glyph \cup Control) /\ <<ch>> # <<>>
    BY <1>2, PutsEffect
  <2>2. Fitting(Enter(<<ch>>))
    BY <2>1, EnterEffect
  <2> QED BY <1>1, <1>2, <2>1, <2>2, PutsEffect, ScreenKept DEF Typed, Context
<1>3. ASSUME NEW text \in KeyTexts, Key(text) PROVE Typed'
  <2>1. Fitting(frame'["main"]) /\ Fitting(frame'["irq"])
    BY <1>1, <1>3, KeyEffect, EnterEffect DEF Context
  <2> QED BY <1>1, <1>3, <2>1, KeyEffect, ScreenKept DEF Typed, Context
<1>4. ASSUME NEW c \in Context, Return(c) PROVE Typed'
  <2>1. Fitting(Idle)
    BY DEF Fitting, Idle, Aiming, Moving
  <2>2. Fitting(frame'[c])
    BY <1>4, <2>1, ReturnEffect, EnterEffect
  <2>3. \A d \in Context \ {c} : Fitting(frame'[d])
    BY <1>1, <1>4, ReturnEffect
  <2> QED BY <1>1, <1>4, <2>2, <2>3, ReturnEffect, ScreenKept DEF Typed
<1>5. ASSUME NEW c \in Context, Putch(c), ~Return(c) PROVE Typed'
  BY <1>5, PutchTyped
<1>6. CASE UNCHANGED vars
  BY <1>6 DEF vars, Typed, Screen
<1> QED BY <1>2, <1>3, <1>4, <1>5, <1>6 DEF Next, Loop

-----------------------------------------------------------------------------
(***************************************************************************)
(* Mainline's putch: while the handler does not run.                       *)
(***************************************************************************)
(* What a step of mainline's putch must show.                              *)
LEMMA MainGoes ==
  ASSUME MainFrame, NEW pc, NEW next, NEW r, NEW where, NEW k, NEW back,
         Goes("main", pc, next, r, where, k, back), pc # "idle",
         MainOwn(next, r, where, k), MainAt(next, vga'.x, vga'.y)
  PROVE  MainFrame' /\ MainScreen'
<1>1. /\ frame["main"].pc = pc
      /\ frame'["main"].pc = next /\ frame'["main"].text = frame["main"].text
      /\ frame'["main"].r = r /\ frame'["main"].where = where /\ frame'["main"].k = k
  BY Zenon DEF Goes
<1>2. Head(frame["main"].text) \in Glyph \cup {NEWLINE} /\ Tail(frame["main"].text) = <<>>
  BY <1>1 DEF MainFrame
<1>3. MainScreen'
  BY <1>1 DEF MainScreen
<1> QED BY <1>1, <1>2, <1>3 DEF MainFrame

(* What mainline's putch finds.                                            *)
LEMMA MainFinds ==
  ASSUME IInv, Putch("main")
  PROVE  /\ Typed /\ MainFrame /\ MainScreen /\ frame["irq"].pc = "idle"
         /\ vga.x \in 0 .. COLS /\ vga.y \in 0 .. ROWS
         /\ vga.y * COLS \in 0 .. ROWS * COLS
         /\ vga.y < ROWS => vga.y * COLS <= (ROWS - 1) * COLS
         /\ OnScreen(vga.x, vga.y) => vga.y * COLS + vga.x \in 0 .. ROWS * COLS - 1
         /\ frame["main"].r \in Int /\ frame["main"].where \in Int /\ frame["main"].k \in Int
<1>1. frame["irq"].pc = "idle"
  BY DEF Putch, WhereY, WhereX, Store, TestX, LoadX, SetX, ZeroX, LoadY, SetY, Wrap,
         Scroll, Lines, Copy, LastRow, CursorY, CursorX, SelectHigh, WriteHigh,
         SelectLow, WriteLow, Return, Read, Write, Test, Step
<1>2. Typed /\ MainFrame /\ MainScreen
  BY <1>1 DEF IInv
<1>3. vga.x \in 0 .. COLS /\ vga.y \in 0 .. ROWS
  BY <1>2 DEF MainScreen, MainAt, Near
<1>4. vga.x \in Nat /\ vga.y \in Nat /\ vga.y <= ROWS
  BY <1>3, Sizes
<1> QED BY <1>1, <1>2, <1>3, <1>4, RowOf, Values DEF Context

(* Each of its steps leaves its variables, and the cursor, as they must be *)
(* where it may be interrupted next.                                       *)
LEMMA MainMoves ==
  ASSUME IInv, Putch("main")
  PROVE  MainFrame' /\ MainScreen'
<1> DEFINE f == frame["main"]
<1>1. /\ Typed /\ MainFrame /\ MainScreen /\ "main" \in Context
      /\ vga.x \in 0 .. COLS /\ vga.y \in 0 .. ROWS
      /\ vga.y * COLS \in 0 .. ROWS * COLS
      /\ vga.y < ROWS => vga.y * COLS <= (ROWS - 1) * COLS
      /\ OnScreen(vga.x, vga.y) => vga.y * COLS + vga.x \in 0 .. ROWS * COLS - 1
      /\ f.r \in Int /\ f.where \in Int /\ f.k \in Int
  BY MainFinds DEF Context
<1>2. Fitting(f)
  BY <1>1 DEF Typed
<1>3. CASE WhereY("main")
  <2>1. /\ Goes("main", "where_y", "where_x", f.r, vga.y * COLS, f.k, f.back)
        /\ vga' = vga
    BY <1>1, <1>3, WhereSteps
  <2>2. f.pc = "where_y"
    BY <2>1 DEF Goes
  <2>4. MainOwn("where_x", f.r, vga.y * COLS, f.k) /\ MainAt("where_x", vga.x, vga.y)
    BY <1>1, <2>2, Sizes
    DEF MainFrame, MainScreen, MainOwn, MainAt, Near, OnScreen, Scrolling, Placing
  <2> QED BY <1>1, <2>1, <2>4, MainGoes
<1>4. CASE WhereX("main")
  <2>1. /\ Goes("main", "where_x", "store", f.r, f.where + vga.x, f.k, f.back)
        /\ vga' = vga
    BY <1>1, <1>4, WhereSteps
  <2>2. f.pc = "where_x"
    BY <2>1 DEF Goes
  <2>3. f.where \in 0 .. (ROWS - 1) * COLS /\ vga.x \in 0 .. COLS - 1
    BY <1>1, <2>2, Sizes DEF MainFrame, MainScreen, MainOwn, MainAt
  <2>5. f.where + vga.x \in 0 .. ROWS * COLS - 1
    BY <2>3, CellInRow
  <2>4. MainOwn("store", f.r, f.where + vga.x, f.k) /\ MainAt("store", vga.x, vga.y)
    BY <1>1, <2>2, <2>5
    DEF MainFrame, MainScreen, MainOwn, MainAt, Near, OnScreen, Scrolling, Placing
  <2> QED BY <1>1, <2>1, <2>4, MainGoes
<1>5. CASE Store("main")
  <2>1. /\ Goes("main", "store", "load_x", f.r, f.where, f.k, f.back)
        /\ OnlyCell(f.where, Char("main"))
    BY <1>1, <1>5, StoreSteps
  <2>2. f.pc = "store"
    BY <2>1 DEF Goes
  <2>4. MainOwn("load_x", f.r, f.where, f.k) /\ MainAt("load_x", vga.x, vga.y)
    BY <1>1, <2>2, Sizes
    DEF MainFrame, MainScreen, MainOwn, MainAt, Near, OnScreen, Scrolling, Placing
  <2> QED BY <1>1, <2>1, <2>4, MainGoes DEF OnlyCell, Only
<1>6. CASE LoadX("main")
  <2>1. /\ Goes("main", "load_x", "set_x", vga.x, f.where, f.k, f.back)
        /\ vga' = vga
    BY <1>1, <1>6, LoadSteps
  <2>2. f.pc = "load_x"
    BY <2>1 DEF Goes
  <2>3. MainAt("set_x", vga.x, vga.y) /\ vga.x \in 0 .. COLS - 1
    BY <1>1, <2>2, Sizes DEF MainScreen, MainAt, Scrolling
  <2>4. MainOwn("set_x", vga.x, f.where, f.k) /\ MainAt("set_x", vga.x, vga.y)
    BY <2>3 DEF MainOwn, Placing
  <2> QED BY <1>1, <2>1, <2>4, MainGoes
<1>7. CASE SetX("main")
  <2>1. /\ Goes("main", "set_x", "wrap", f.r, f.where, f.k, f.back)
        /\ OnlyX(NextX(Char("main"), f.r))
    BY <1>1, <1>7, StoreSteps
  <2>2. f.pc = "set_x"
    BY <2>1 DEF Goes
  <2>3. NextX(Char("main"), f.r) = f.r + 1 /\ f.r \in 0 .. COLS - 1
    <3>1. f.r \in 0 .. COLS - 1
      BY <1>1, <2>2 DEF MainFrame, MainOwn
    <3>2. Char("main") \in Glyph
      BY <1>1, <1>2, <2>2, Controls DEF Fitting, Moving, Char, MainFrame
    <3> QED BY <3>1, <3>2, NextColumn, Controls, Sizes
  <2>5. Near(f.r + 1, vga.y)
    BY <1>1, <2>2, <2>3, Sizes DEF MainScreen, MainAt, Near, Scrolling
  <2>4. MainOwn("wrap", f.r, f.where, f.k) /\ MainAt("wrap", f.r + 1, vga.y)
    BY <2>3, <2>5 DEF MainOwn, MainAt, Placing
  <2> QED BY <1>1, <2>1, <2>3, <2>4, MainGoes DEF OnlyX, Only
<1>8. CASE ZeroX("main")
  <2>1. /\ Goes("main", "zero_x", "load_y", f.r, f.where, f.k, f.back)
        /\ OnlyX(0)
    BY <1>1, <1>8, StoreSteps
  <2>2. f.pc = "zero_x"
    BY <2>1 DEF Goes
  <2>4. MainOwn("load_y", f.r, f.where, f.k) /\ MainAt("load_y", 0, vga.y)
    BY <1>1, <2>2, Sizes
    DEF MainFrame, MainScreen, MainOwn, MainAt, Near, OnScreen, Scrolling, Placing
  <2> QED BY <1>1, <2>1, <2>4, MainGoes DEF OnlyX, Only
<1>9. CASE LoadY("main")
  <2>1. /\ Goes("main", "load_y", "set_y", vga.y, f.where, f.k, f.back)
        /\ vga' = vga
    BY <1>1, <1>9, LoadSteps
  <2>2. f.pc = "load_y"
    BY <2>1 DEF Goes
  <2>3. MainAt("set_y", vga.x, vga.y) /\ vga.y \in 0 .. ROWS - 1
    BY <1>1, <2>2, Sizes DEF MainScreen, MainAt, Scrolling
  <2>4. MainOwn("set_y", vga.y, f.where, f.k) /\ MainAt("set_y", vga.x, vga.y)
    BY <2>3 DEF MainOwn, Placing
  <2> QED BY <1>1, <2>1, <2>4, MainGoes
<1>10. CASE SetY("main")
  <2>1. /\ Goes("main", "set_y", f.back, f.r, f.where, f.k, f.back)
        /\ OnlyY(f.r + 1)
    BY <1>1, <1>10, SetYStep
  <2>2. f.pc = "set_y"
    BY <2>1 DEF Goes
  <2>3. f.back \in {"wrap", "scroll"} /\ f.r \in 0 .. ROWS - 1
    BY <1>1, <1>2, <2>2, Values DEF MainFrame, MainOwn
  <2>5. Near(vga.x, f.r + 1) /\ vga.x # COLS
    BY <1>1, <2>2, <2>3, Sizes DEF MainScreen, MainAt, Near
  <2>4. MainOwn(f.back, f.r, f.where, f.k) /\ MainAt(f.back, vga.x, f.r + 1)
    BY <2>3, <2>5 DEF MainOwn, MainAt, Scrolling, Placing
  <2> QED BY <1>1, <2>1, <2>4, MainGoes DEF OnlyY, Only
<1>11. CASE Wrap("main")
  <2>1. /\ Goes("main", "wrap", IF vga.x >= COLS THEN "zero_x" ELSE "scroll",
             f.r, f.where, f.k, "scroll")
        /\ vga' = vga
    BY <1>1, <1>11, WrapStep
  <2>2. f.pc = "wrap"
    BY <2>1 DEF Goes
  <2>4. /\ MainOwn(IF vga.x >= COLS THEN "zero_x" ELSE "scroll", f.r, f.where, f.k)
        /\ MainAt(IF vga.x >= COLS THEN "zero_x" ELSE "scroll", vga.x, vga.y)
    <3>1. vga.x >= COLS => MainAt("zero_x", vga.x, vga.y)
      BY <1>1, <2>2, Sizes DEF MainScreen, MainAt, Near
    <3>2. ~(vga.x >= COLS) => MainAt("scroll", vga.x, vga.y)
      BY <1>1, <2>2, Sizes DEF MainScreen, MainAt, Scrolling
    <3> QED BY <3>1, <3>2 DEF MainOwn, Placing
  <2> QED BY <1>1, <2>1, <2>4, MainGoes
<1>12. CASE Scroll("main")
  <2>1. /\ Goes("main", "scroll", IF vga.y >= ROWS THEN "lines" ELSE "cursor_y",
             f.r, f.where, f.k, f.back)
        /\ vga' = vga
    BY <1>1, <1>12, TestSteps
  <2>2. f.pc = "scroll"
    BY <2>1 DEF Goes
  <2>4. /\ MainOwn(IF vga.y >= ROWS THEN "lines" ELSE "cursor_y", f.r, f.where, f.k)
        /\ MainAt(IF vga.y >= ROWS THEN "lines" ELSE "cursor_y", vga.x, vga.y)
    BY <1>1, <2>2, Sizes
    DEF MainFrame, MainScreen, MainOwn, MainAt, Near, OnScreen, Scrolling, Placing
  <2> QED BY <1>1, <2>1, <2>4, MainGoes
<1>13. CASE Lines("main")
  <2>1. /\ Goes("main", "lines", "copy", vga.y - ROWS + 1, f.where, 0, f.back)
        /\ vga' = vga
    BY <1>1, <1>13, LinesStep
  <2>2. f.pc = "lines"
    BY <2>1 DEF Goes
  <2>3. vga.y - ROWS + 1 \in {0, 1} /\ 0 \in 0 .. (ROWS + 1 - (vga.y - ROWS + 1)) * COLS - 1
    <3>1. vga.y = ROWS - 1 \/ vga.y = ROWS
      BY <1>1, <2>2, Sizes DEF MainScreen, MainAt, Near
    <3>2. CASE vga.y = ROWS - 1
      BY <3>2, Sizes, RowStarts
    <3>3. CASE vga.y = ROWS
      BY <3>3, Sizes, RowStarts
    <3> QED BY <3>1, <3>2, <3>3
  <2>4. MainOwn("copy", vga.y - ROWS + 1, f.where, 0) /\ MainAt("copy", vga.x, vga.y)
    BY <1>1, <2>2, <2>3, Sizes
    DEF MainFrame, MainScreen, MainOwn, MainAt, Near, OnScreen, Scrolling, Placing
  <2> QED BY <1>1, <2>1, <2>4, MainGoes
<1>14. CASE Copy("main")
  <2>1. /\ Goes("main", "copy", IF f.k + 1 = (ROWS - f.r) * COLS + COLS THEN "last_row" ELSE "copy",
             f.r, f.where, f.k + 1, f.back)
        /\ Only("cell")
    BY <1>1, <1>14, CopyStep DEF OnlyIndex, OnlyRegister, OnlyCell
  <2>2. f.pc = "copy"
    BY <2>1 DEF Goes
  <2>3. f.r \in {0, 1} /\ f.k \in 0 .. (ROWS + 1 - f.r) * COLS - 1
    BY <1>1, <2>2 DEF MainFrame, MainOwn
  <2>5. (ROWS + 1 - f.r) * COLS = (ROWS - f.r) * COLS + COLS /\ (ROWS - f.r) * COLS \in Nat
    BY <2>3, CopiedCells
  <2>4. /\ MainOwn("last_row", f.r, f.where, f.k + 1) /\ MainAt("last_row", vga.x, vga.y)
        /\ MainAt("copy", vga.x, vga.y)
        /\ f.k + 1 # (ROWS - f.r) * COLS + COLS => MainOwn("copy", f.r, f.where, f.k + 1)
    <3>1. f.k + 1 # (ROWS + 1 - f.r) * COLS => f.k + 1 \in 0 .. (ROWS + 1 - f.r) * COLS - 1
      <4> DEFINE e == (ROWS + 1 - f.r) * COLS
      <4>1. e \in Int /\ f.k \in 0 .. e - 1
        BY <2>3, <2>5, Sizes
      <4> HIDE DEF e
      <4> QED BY <4>1 DEF e
    <3> QED BY <1>1, <2>2, <2>3, <2>5, <3>1, Sizes
            DEF MainScreen, MainOwn, MainAt, Near, Scrolling, Placing
  <2> QED BY <1>1, <2>1, <2>4, MainGoes DEF Only
<1>15. CASE LastRow("main")
  <2>1. /\ Goes("main", "last_row", "cursor_y", f.r, f.where, f.k, f.back)
        /\ OnlyY(ROWS - 1)
    BY <1>1, <1>15, StoreSteps
  <2>2. f.pc = "last_row"
    BY <2>1 DEF Goes
  <2>4. MainOwn("cursor_y", f.r, f.where, f.k) /\ MainAt("cursor_y", vga.x, ROWS - 1)
    BY <1>1, <2>2, Sizes
    DEF MainFrame, MainScreen, MainOwn, MainAt, Near, OnScreen, Scrolling, Placing
  <2> QED BY <1>1, <2>1, <2>4, MainGoes DEF OnlyY, Only
<1>16. CASE CursorY("main")
  <2>1. /\ Goes("main", "cursor_y", "cursor_x", vga.y * COLS, f.where, f.k, f.back)
        /\ vga' = vga
    BY <1>1, <1>16, LoadSteps
  <2>2. f.pc = "cursor_y"
    BY <2>1 DEF Goes
  <2>4. /\ MainOwn("cursor_x", vga.y * COLS, f.where, f.k)
        /\ MainAt("cursor_x", vga.x, vga.y)
    BY <1>1, <2>2, Sizes
    DEF MainFrame, MainScreen, MainOwn, MainAt, Near, OnScreen, Scrolling, Placing
  <2> QED BY <1>1, <2>1, <2>4, MainGoes
<1>17. CASE CursorX("main")
  <2>1. /\ Goes("main", "cursor_x", "select_high", f.r + vga.x, f.where, f.k, f.back)
        /\ vga' = vga
    BY <1>1, <1>17, LoadSteps
  <2>2. f.pc = "cursor_x"
    BY <2>1 DEF Goes
  <2>3. f.r \in 0 .. (ROWS - 1) * COLS /\ vga.x \in 0 .. COLS - 1
    BY <1>1, <2>2, Sizes DEF MainFrame, MainScreen, MainOwn, MainAt
  <2>5. f.r + vga.x \in 0 .. ROWS * COLS - 1
    BY <2>3, CellInRow
  <2>4. /\ MainOwn("select_high", f.r + vga.x, f.where, f.k)
        /\ MainAt("select_high", vga.x, vga.y)
    BY <1>1, <2>2, <2>5
    DEF MainFrame, MainScreen, MainOwn, MainAt, Near, OnScreen, Scrolling, Placing
  <2> QED BY <1>1, <2>1, <2>4, MainGoes
<1>18. CASE SelectHigh("main")
  <2>1. /\ Goes("main", "select_high", "write_high", f.r, f.where, f.k, f.back)
        /\ Only("index")
    BY <1>1, <1>18, PortSteps DEF OnlyIndex, OnlyRegister, OnlyCell
  <2>2. f.pc = "select_high"
    BY <2>1 DEF Goes
  <2>4. MainOwn("write_high", f.r, f.where, f.k) /\ MainAt("write_high", vga.x, vga.y)
    BY <1>1, <2>2, Sizes
    DEF MainFrame, MainScreen, MainOwn, MainAt, Near, OnScreen, Scrolling, Placing
  <2> QED BY <1>1, <2>1, <2>4, MainGoes DEF Only
<1>19. CASE WriteHigh("main")
  <2>1. /\ Goes("main", "write_high", "select_low", f.r, f.where, f.k, f.back)
        /\ Only("register")
    BY <1>1, <1>19, PortSteps DEF OnlyIndex, OnlyRegister, OnlyCell
  <2>2. f.pc = "write_high"
    BY <2>1 DEF Goes
  <2>4. MainOwn("select_low", f.r, f.where, f.k) /\ MainAt("select_low", vga.x, vga.y)
    BY <1>1, <2>2, Sizes
    DEF MainFrame, MainScreen, MainOwn, MainAt, Near, OnScreen, Scrolling, Placing
  <2> QED BY <1>1, <2>1, <2>4, MainGoes DEF Only
<1>20. CASE SelectLow("main")
  <2>1. /\ Goes("main", "select_low", "write_low", f.r, f.where, f.k, f.back)
        /\ Only("index")
    BY <1>1, <1>20, PortSteps DEF OnlyIndex, OnlyRegister, OnlyCell
  <2>2. f.pc = "select_low"
    BY <2>1 DEF Goes
  <2>4. MainOwn("write_low", f.r, f.where, f.k) /\ MainAt("write_low", vga.x, vga.y)
    BY <1>1, <2>2, Sizes
    DEF MainFrame, MainScreen, MainOwn, MainAt, Near, OnScreen, Scrolling, Placing
  <2> QED BY <1>1, <2>1, <2>4, MainGoes DEF Only
<1>21. CASE WriteLow("main")
  <2>1. /\ Goes("main", "write_low", "done", f.r, f.where, f.k, f.back)
        /\ Only("register")
    BY <1>1, <1>21, PortSteps DEF OnlyIndex, OnlyRegister, OnlyCell
  <2>2. f.pc = "write_low"
    BY <2>1 DEF Goes
  <2>4. MainOwn("done", f.r, f.where, f.k) /\ MainAt("done", vga.x, vga.y)
    BY <1>1, <2>2, Sizes
    DEF MainFrame, MainScreen, MainOwn, MainAt, Near, OnScreen, Scrolling, Placing
  <2> QED BY <1>1, <2>1, <2>4, MainGoes DEF Only
<1>22. CASE TestX("main")
  <2>1. Head(f.text) = BACKSPACE /\ f.pc # "idle"
    BY <1>1, <1>2, <1>22, TestSteps DEF Goes, Typed, Fitting
  <2> QED BY <1>1, <2>1, Controls DEF MainFrame
<1>23. CASE Return("main")
  <2>1. Tail(f.text) = <<>> /\ f.pc = "done"
    BY <1>1, <1>2, <1>23, ReturnEffect DEF MainFrame
  <2>2. frame'["main"] = Idle /\ vga' = vga
    BY <1>1, <1>2, <1>23, <2>1, ReturnEffect
  <2>3. MainOwn("idle", Idle.r, Idle.where, Idle.k)
    BY DEF MainOwn, Placing
  <2>4. MainAt("idle", vga.x, vga.y)
    BY <1>1, <2>1 DEF MainScreen, MainAt, Near, Scrolling
  <2> QED BY <2>2, <2>3, <2>4 DEF MainFrame, MainScreen, Idle
<1> QED
  BY <1>3, <1>4, <1>5, <1>6, <1>7, <1>8, <1>9, <1>10, <1>11, <1>12, <1>13, <1>14,
     <1>15, <1>16, <1>17, <1>18, <1>19, <1>20, <1>21, <1>22, <1>23 DEF Putch

-----------------------------------------------------------------------------
(***************************************************************************)
(* The handler's putch.                                                    *)
(***************************************************************************)
(* What a step of the handler's putch must show.                           *)
LEMMA IrqGoes ==
  ASSUME MainFrame, IrqScreen, NEW pc, NEW next, NEW r, NEW where, NEW k, NEW back,
         Goes("irq", pc, next, r, where, k, back),
         IrqAt(next, Head(frame["irq"].text), r, where, k, vga'.x, vga'.y),
         vga'.y >= vga.y \/ vga'.y = ROWS - 1, vga.y \in Int, vga'.y \in Int
  PROVE  MainFrame' /\ IrqScreen'
<1>1. /\ frame'["irq"].pc = next /\ frame'["irq"].text = frame["irq"].text
      /\ frame'["irq"].r = r /\ frame'["irq"].where = where /\ frame'["irq"].k = k
      /\ frame'["main"] = frame["main"]
  BY Zenon DEF Goes, Context
<1>2. frame["main"].pc = "lines" => vga'.y >= ROWS - 1
  BY Sizes DEF IrqScreen
<1> QED BY <1>1, <1>2 DEF MainFrame, IrqScreen

(* What it finds.                                                          *)
LEMMA IrqFinds ==
  ASSUME IInv, frame["irq"].pc # "idle"
  PROVE  LET f == frame["irq"]
         IN  /\ Typed /\ MainFrame /\ IrqScreen
             /\ IrqAt(f.pc, Head(f.text), f.r, f.where, f.k, vga.x, vga.y)
             /\ vga.x \in Int /\ vga.y \in Int
             /\ OnScreen(vga.x, vga.y) => /\ vga.y * COLS \in 0 .. (ROWS - 1) * COLS
                                         /\ vga.y * COLS + vga.x \in 0 .. ROWS * COLS - 1
             /\ f.r \in Int /\ f.where \in Int /\ f.k \in Int
<1>1. Typed /\ MainFrame /\ IrqScreen
  BY DEF IInv
<1>2. OnScreen(vga.x, vga.y) => /\ vga.y * COLS \in 0 .. (ROWS - 1) * COLS
                                /\ vga.y * COLS + vga.x \in 0 .. ROWS * COLS - 1
  <2>1. SUFFICES ASSUME OnScreen(vga.x, vga.y)
                 PROVE  /\ vga.y * COLS \in 0 .. (ROWS - 1) * COLS
                        /\ vga.y * COLS + vga.x \in 0 .. ROWS * COLS - 1
    OBVIOUS
  <2>2. vga.x \in Nat /\ vga.y \in Nat /\ vga.y <= ROWS /\ vga.y < ROWS
    BY <2>1, Sizes DEF OnScreen
  <2>3. /\ vga.y * COLS \in 0 .. ROWS * COLS /\ vga.y * COLS <= (ROWS - 1) * COLS
        /\ vga.y * COLS + vga.x \in 0 .. ROWS * COLS - 1
    BY <2>1, <2>2, RowOf
  <2> QED BY <2>3, RowStarts
<1> QED BY <1>1, <1>2, Values DEF IrqScreen, Context

(* Each of its steps leaves it as it must be at the next.                  *)
LEMMA IrqMoves ==
  ASSUME IInv, frame["irq"].pc # "idle", Putch("irq"), ~Return("irq")
  PROVE  MainFrame' /\ IrqScreen'
<1> DEFINE f == frame["irq"]
<1>1. /\ Typed /\ MainFrame /\ IrqScreen /\ "irq" \in Context
      /\ IrqAt(f.pc, Head(f.text), f.r, f.where, f.k, vga.x, vga.y)
      /\ vga.x \in Int /\ vga.y \in Int
      /\ OnScreen(vga.x, vga.y) => /\ vga.y * COLS \in 0 .. (ROWS - 1) * COLS
                                  /\ vga.y * COLS + vga.x \in 0 .. ROWS * COLS - 1
      /\ f.r \in Int /\ f.where \in Int /\ f.k \in Int
  BY IrqFinds DEF Context
<1>2. Fitting(f)
  BY <1>1 DEF Typed
<1>3. CASE WhereY("irq")
  <2>1. /\ Goes("irq", "where_y", "where_x", f.r, vga.y * COLS, f.k, f.back)
        /\ vga' = vga
    BY <1>1, <1>3, WhereSteps
  <2>2. f.pc = "where_y"
    BY <2>1 DEF Goes
  <2>4. IrqAt("where_x", Head(f.text), f.r, vga.y * COLS, f.k, vga.x, vga.y)
    BY <1>1, <2>2, Sizes
    DEF IrqAt, Near, OnScreen, Aiming, Moving, Scrolling, Placing
  <2> QED BY <1>1, <2>1, <2>4, Sizes, IrqGoes
<1>4. CASE WhereX("irq")
  <2>1. /\ Goes("irq", "where_x", "store", f.r, f.where + vga.x, f.k, f.back)
        /\ vga' = vga
    BY <1>1, <1>4, WhereSteps
  <2>2. f.pc = "where_x"
    BY <2>1 DEF Goes
  <2>3. f.where = vga.y * COLS
    BY <1>1, <2>2 DEF IrqAt
  <2>4. IrqAt("store", Head(f.text), f.r, f.where + vga.x, f.k, vga.x, vga.y)
    BY <1>1, <2>2, <2>3, Sizes
    DEF IrqAt, Near, OnScreen, Aiming, Moving, Scrolling, Placing
  <2> QED BY <1>1, <2>1, <2>4, Sizes, IrqGoes
<1>5. CASE Store("irq")
  <2>1. /\ Goes("irq", "store", "load_x", f.r, f.where, f.k, f.back)
        /\ OnlyCell(f.where, Char("irq"))
    BY <1>1, <1>5, StoreSteps
  <2>2. f.pc = "store"
    BY <2>1 DEF Goes
  <2>3. Head(f.text) # BACKSPACE
    BY <1>1, <1>2, <2>2, Controls DEF Fitting, Aiming
  <2>4. IrqAt("load_x", Head(f.text), f.r, f.where, f.k, vga.x, vga.y)
    BY <1>1, <2>2, <2>3, Sizes
    DEF IrqAt, Near, OnScreen, Aiming, Moving, Scrolling, Placing
  <2> QED BY <1>1, <2>1, <2>4, Sizes, IrqGoes DEF OnlyCell, Only
<1>6. CASE LoadX("irq")
  <2>1. /\ Goes("irq", "load_x", "set_x", vga.x, f.where, f.k, f.back)
        /\ vga' = vga
    BY <1>1, <1>6, LoadSteps
  <2>2. f.pc = "load_x"
    BY <2>1 DEF Goes
  <2>4. IrqAt("set_x", Head(f.text), vga.x, f.where, f.k, vga.x, vga.y)
    BY <1>1, <2>2, Sizes
    DEF IrqAt, Near, OnScreen, Aiming, Moving, Scrolling, Placing
  <2> QED BY <1>1, <2>1, <2>4, Sizes, IrqGoes
<1>7. CASE SetX("irq")
  <2>1. /\ Goes("irq", "set_x", "wrap", f.r, f.where, f.k, f.back)
        /\ OnlyX(NextX(Char("irq"), f.r))
    BY <1>1, <1>7, StoreSteps
  <2>2. f.pc = "set_x"
    BY <2>1 DEF Goes
  <2>3. Near(vga.x, vga.y) /\ f.r = vga.x /\ (Head(f.text) = BACKSPACE => vga.x > 0)
    BY <1>1, <2>2 DEF IrqAt, Moving
  <2>5. NextX(Char("irq"), f.r) \in 0 .. COLS + TAB
    BY <2>3, NextColumn, Sizes DEF Near, Char
  <2>4. IrqAt("wrap", Head(f.text), f.r, f.where, f.k, NextX(Char("irq"), f.r), vga.y)
    BY <1>1, <2>2, <2>3, <2>5, Sizes
    DEF IrqAt, Near, OnScreen, Aiming, Moving, Scrolling, Placing
  <2> QED BY <1>1, <2>1, <2>4, Sizes, IrqGoes DEF OnlyX, Only
<1>8. CASE ZeroX("irq")
  <2>1. /\ Goes("irq", "zero_x", "load_y", f.r, f.where, f.k, f.back)
        /\ OnlyX(0)
    BY <1>1, <1>8, StoreSteps
  <2>2. f.pc = "zero_x"
    BY <2>1 DEF Goes
  <2>4. IrqAt("load_y", Head(f.text), f.r, f.where, f.k, 0, vga.y)
    BY <1>1, <2>2, Sizes
    DEF IrqAt, Near, OnScreen, Aiming, Moving, Scrolling, Placing
  <2> QED BY <1>1, <2>1, <2>4, Sizes, IrqGoes DEF OnlyX, Only
<1>9. CASE LoadY("irq")
  <2>1. /\ Goes("irq", "load_y", "set_y", vga.y, f.where, f.k, f.back)
        /\ vga' = vga
    BY <1>1, <1>9, LoadSteps
  <2>2. f.pc = "load_y"
    BY <2>1 DEF Goes
  <2>4. IrqAt("set_y", Head(f.text), vga.y, f.where, f.k, vga.x, vga.y)
    BY <1>1, <2>2, Sizes
    DEF IrqAt, Near, OnScreen, Aiming, Moving, Scrolling, Placing
  <2> QED BY <1>1, <2>1, <2>4, Sizes, IrqGoes
<1>10. CASE SetY("irq")
  <2>1. /\ Goes("irq", "set_y", f.back, f.r, f.where, f.k, f.back)
        /\ OnlyY(f.r + 1)
    BY <1>1, <1>10, SetYStep
  <2>2. f.pc = "set_y"
    BY <2>1 DEF Goes
  <2>3. vga.x = 0 /\ f.r = vga.y /\ vga.y \in 0 .. ROWS /\ f.back \in {"wrap", "scroll"}
    BY <1>1, <2>2, Values DEF IrqAt
  <2>4. IrqAt(f.back, Head(f.text), f.r, f.where, f.k, vga.x, f.r + 1)
    BY <1>1, <2>2, <2>3, Sizes
    DEF IrqAt, Near, OnScreen, Aiming, Moving, Scrolling, Placing
  <2> QED BY <1>1, <2>1, <2>4, <2>3, Sizes, IrqGoes DEF OnlyY, Only
<1>11. CASE Wrap("irq")
  <2>1. /\ Goes("irq", "wrap", IF vga.x >= COLS THEN "zero_x" ELSE "scroll",
             f.r, f.where, f.k, "scroll")
        /\ vga' = vga
    BY <1>1, <1>11, WrapStep
  <2>2. f.pc = "wrap"
    BY <2>1 DEF Goes
  <2>4. IF vga.x >= COLS THEN IrqAt("zero_x", Head(f.text), f.r, f.where, f.k, vga.x, vga.y)
        ELSE IrqAt("scroll", Head(f.text), f.r, f.where, f.k, vga.x, vga.y)
    BY <1>1, <2>2, Sizes
    DEF IrqAt, Near, OnScreen, Aiming, Moving, Scrolling, Placing
  <2> QED BY <1>1, <2>1, <2>4, Sizes, IrqGoes
<1>12. CASE Scroll("irq")
  <2>1. /\ Goes("irq", "scroll", IF vga.y >= ROWS THEN "lines" ELSE "cursor_y",
             f.r, f.where, f.k, f.back)
        /\ vga' = vga
    BY <1>1, <1>12, TestSteps
  <2>2. f.pc = "scroll"
    BY <2>1 DEF Goes
  <2>4. IF vga.y >= ROWS THEN IrqAt("lines", Head(f.text), f.r, f.where, f.k, vga.x, vga.y)
        ELSE IrqAt("cursor_y", Head(f.text), f.r, f.where, f.k, vga.x, vga.y)
    BY <1>1, <2>2, Sizes
    DEF IrqAt, Near, OnScreen, Aiming, Moving, Scrolling, Placing
  <2> QED BY <1>1, <2>1, <2>4, Sizes, IrqGoes
<1>13. CASE Lines("irq")
  <2>1. /\ Goes("irq", "lines", "copy", vga.y - ROWS + 1, f.where, 0, f.back)
        /\ vga' = vga
    BY <1>1, <1>13, LinesStep
  <2>2. f.pc = "lines"
    BY <2>1 DEF Goes
  <2>3. vga.y \in {ROWS, ROWS + 1}
    BY <1>1, <2>2, Sizes DEF IrqAt, Scrolling
  <2>5. 0 \in 0 .. (ROWS + 1 - (vga.y - ROWS + 1)) * COLS - 1
    <3>1. CASE vga.y = ROWS
      BY <3>1, Sizes, RowStarts
    <3>2. CASE vga.y = ROWS + 1
      BY <3>2, Sizes, RowStarts
    <3> QED BY <2>3, <3>1, <3>2
  <2>4. IrqAt("copy", Head(f.text), vga.y - ROWS + 1, f.where, 0, vga.x, vga.y)
    BY <1>1, <2>2, <2>3, <2>5, Sizes
    DEF IrqAt, Near, OnScreen, Aiming, Moving, Scrolling, Placing
  <2> QED BY <1>1, <2>1, <2>4, Sizes, IrqGoes
<1>14. CASE Copy("irq")
  <2>1. /\ Goes("irq", "copy", IF f.k + 1 = (ROWS - f.r) * COLS + COLS THEN "last_row" ELSE "copy",
             f.r, f.where, f.k + 1, f.back)
        /\ Only("cell")
    BY <1>1, <1>14, CopyStep DEF OnlyIndex, OnlyRegister, OnlyCell
  <2>2. f.pc = "copy"
    BY <2>1 DEF Goes
  <2>3. /\ f.r = vga.y - ROWS + 1 /\ vga.y >= ROWS /\ vga.y \in 0 .. ROWS + 1
        /\ f.k \in 0 .. (ROWS + 1 - f.r) * COLS - 1
    BY <1>1, <2>2 DEF IrqAt, Scrolling
  <2>6. f.r \in 0 .. 2
    <3>1. f.r = vga.y - ROWS + 1 /\ vga.y >= ROWS /\ vga.y \in 0 .. ROWS + 1
      BY <2>3
    <3> QED BY <3>1, Sizes
  <2>5. (ROWS + 1 - f.r) * COLS = (ROWS - f.r) * COLS + COLS /\ (ROWS - f.r) * COLS \in Nat
    BY <2>3, <2>6, CopiedCells
  <2>4. /\ IrqAt("last_row", Head(f.text), f.r, f.where, f.k + 1, vga.x, vga.y)
        /\ \/ f.k + 1 = (ROWS - f.r) * COLS + COLS
           \/ IrqAt("copy", Head(f.text), f.r, f.where, f.k + 1, vga.x, vga.y)
    <3>1. f.k + 1 # (ROWS + 1 - f.r) * COLS => f.k + 1 \in 0 .. (ROWS + 1 - f.r) * COLS - 1
      <4> DEFINE e == (ROWS + 1 - f.r) * COLS
      <4>1. e \in Int /\ f.k \in 0 .. e - 1
        BY <2>3, <2>5, Sizes
      <4> HIDE DEF e
      <4> QED BY <4>1 DEF e
    <3> QED BY <1>1, <2>2, <2>3, <2>5, <3>1, Sizes
            DEF IrqAt, Aiming, Moving, Scrolling, Placing
  <2> QED BY <1>1, <2>1, <2>4, Sizes, IrqGoes DEF Only
<1>15. CASE LastRow("irq")
  <2>1. /\ Goes("irq", "last_row", "cursor_y", f.r, f.where, f.k, f.back)
        /\ OnlyY(ROWS - 1)
    BY <1>1, <1>15, StoreSteps
  <2>2. f.pc = "last_row"
    BY <2>1 DEF Goes
  <2>4. IrqAt("cursor_y", Head(f.text), f.r, f.where, f.k, vga.x, ROWS - 1)
    BY <1>1, <2>2, Sizes
    DEF IrqAt, Near, OnScreen, Aiming, Moving, Scrolling, Placing
  <2> QED BY <1>1, <2>1, <2>4, Sizes, IrqGoes DEF OnlyY, Only
<1>16. CASE CursorY("irq")
  <2>1. /\ Goes("irq", "cursor_y", "cursor_x", vga.y * COLS, f.where, f.k, f.back)
        /\ vga' = vga
    BY <1>1, <1>16, LoadSteps
  <2>2. f.pc = "cursor_y"
    BY <2>1 DEF Goes
  <2>4. IrqAt("cursor_x", Head(f.text), vga.y * COLS, f.where, f.k, vga.x, vga.y)
    BY <1>1, <2>2, Sizes
    DEF IrqAt, Near, OnScreen, Aiming, Moving, Scrolling, Placing
  <2> QED BY <1>1, <2>1, <2>4, Sizes, IrqGoes
<1>17. CASE CursorX("irq")
  <2>1. /\ Goes("irq", "cursor_x", "select_high", f.r + vga.x, f.where, f.k, f.back)
        /\ vga' = vga
    BY <1>1, <1>17, LoadSteps
  <2>2. f.pc = "cursor_x"
    BY <2>1 DEF Goes
  <2>3. f.r \in 0 .. (ROWS - 1) * COLS /\ vga.x \in 0 .. COLS - 1
    BY <1>1, <2>2 DEF IrqAt, OnScreen, Placing
  <2>5. f.r + vga.x \in 0 .. ROWS * COLS - 1
    BY <2>3, CellInRow
  <2>4. IrqAt("select_high", Head(f.text), f.r + vga.x, f.where, f.k, vga.x, vga.y)
    BY <1>1, <2>2, <2>3, <2>5, Sizes
    DEF IrqAt, Near, OnScreen, Aiming, Moving, Scrolling, Placing
  <2> QED BY <1>1, <2>1, <2>4, Sizes, IrqGoes
<1>18. CASE SelectHigh("irq")
  <2>1. /\ Goes("irq", "select_high", "write_high", f.r, f.where, f.k, f.back)
        /\ Only("index")
    BY <1>1, <1>18, PortSteps DEF OnlyIndex, OnlyRegister, OnlyCell
  <2>2. f.pc = "select_high"
    BY <2>1 DEF Goes
  <2>4. IrqAt("write_high", Head(f.text), f.r, f.where, f.k, vga.x, vga.y)
    BY <1>1, <2>2, Sizes
    DEF IrqAt, Near, OnScreen, Aiming, Moving, Scrolling, Placing
  <2> QED BY <1>1, <2>1, <2>4, Sizes, IrqGoes DEF Only
<1>19. CASE WriteHigh("irq")
  <2>1. /\ Goes("irq", "write_high", "select_low", f.r, f.where, f.k, f.back)
        /\ Only("register")
    BY <1>1, <1>19, PortSteps DEF OnlyIndex, OnlyRegister, OnlyCell
  <2>2. f.pc = "write_high"
    BY <2>1 DEF Goes
  <2>4. IrqAt("select_low", Head(f.text), f.r, f.where, f.k, vga.x, vga.y)
    BY <1>1, <2>2, Sizes
    DEF IrqAt, Near, OnScreen, Aiming, Moving, Scrolling, Placing
  <2> QED BY <1>1, <2>1, <2>4, Sizes, IrqGoes DEF Only
<1>20. CASE SelectLow("irq")
  <2>1. /\ Goes("irq", "select_low", "write_low", f.r, f.where, f.k, f.back)
        /\ Only("index")
    BY <1>1, <1>20, PortSteps DEF OnlyIndex, OnlyRegister, OnlyCell
  <2>2. f.pc = "select_low"
    BY <2>1 DEF Goes
  <2>4. IrqAt("write_low", Head(f.text), f.r, f.where, f.k, vga.x, vga.y)
    BY <1>1, <2>2, Sizes
    DEF IrqAt, Near, OnScreen, Aiming, Moving, Scrolling, Placing
  <2> QED BY <1>1, <2>1, <2>4, Sizes, IrqGoes DEF Only
<1>21. CASE WriteLow("irq")
  <2>1. /\ Goes("irq", "write_low", "done", f.r, f.where, f.k, f.back)
        /\ Only("register")
    BY <1>1, <1>21, PortSteps DEF OnlyIndex, OnlyRegister, OnlyCell
  <2>2. f.pc = "write_low"
    BY <2>1 DEF Goes
  <2>4. IrqAt("done", Head(f.text), f.r, f.where, f.k, vga.x, vga.y)
    BY <1>1, <2>2, Sizes
    DEF IrqAt, Near, OnScreen, Aiming, Moving, Scrolling, Placing
  <2> QED BY <1>1, <2>1, <2>4, Sizes, IrqGoes DEF Only
<1>22. CASE TestX("irq")
  <2>1. /\ Goes("irq", "test_x", IF vga.x # 0 THEN "load_x" ELSE "wrap",
             f.r, f.where, f.k, f.back)
        /\ vga' = vga
    BY <1>1, <1>22, TestSteps
  <2>2. f.pc = "test_x"
    BY <2>1 DEF Goes
  <2>4. IF vga.x # 0 THEN IrqAt("load_x", Head(f.text), f.r, f.where, f.k, vga.x, vga.y)
        ELSE IrqAt("wrap", Head(f.text), f.r, f.where, f.k, vga.x, vga.y)
    BY <1>1, <2>2, Sizes
    DEF IrqAt, Near, OnScreen, Aiming, Moving, Scrolling, Placing
  <2> QED BY <1>1, <2>1, <2>4, Sizes, IrqGoes
<1> QED
  BY <1>3, <1>4, <1>5, <1>6, <1>7, <1>8, <1>9, <1>10, <1>11, <1>12, <1>13, <1>14,
     <1>15, <1>16, <1>17, <1>18, <1>19, <1>20, <1>21, <1>22 DEF Putch

(* The handler's putch starts from a cursor that mainline may leave.       *)
LEMMA EnterAt ==
  ASSUME NEW text \in Seq(Glyph \cup Control), text # <<>>, Near(vga.x, vga.y)
  PROVE  LET a == Enter(text)
         IN  IrqAt(a.pc, Head(text), a.r, a.where, a.k, vga.x, vga.y)
<1> DEFINE a == Enter(text)
           ch == Head(text)
<1>1. /\ ch \in Glyph => a.pc = "where_y"
      /\ ch = BACKSPACE => a.pc = "test_x"
      /\ ch = TABULATOR => a.pc = "load_x"
      /\ ch = NEWLINE => a.pc = "zero_x"
      /\ ch \in Glyph \cup Control
  BY EnterEffect
<1>2. vga.x \in 0 .. COLS + TAB /\ vga.y \in 0 .. ROWS
  BY Sizes DEF Near
<1> HIDE DEF a, ch
<1> QED BY <1>1, <1>2, Controls
        DEF IrqAt, Control, Aiming, Moving, Scrolling, Placing, a, ch

(* A key is pressed while the cursor is where mainline left it.            *)
LEMMA KeyMoves ==
  ASSUME IInv, NEW text \in KeyTexts, Key(text)
  PROVE  MainFrame' /\ frame'["irq"].pc # "idle" /\ IrqScreen'
<1>1. /\ frame["irq"].pc = "idle" /\ frame'["irq"] = Enter(text)
      /\ frame'["main"] = frame["main"] /\ vga' = vga
      /\ text \in Seq(Glyph \cup Control) /\ text # <<>>
  BY KeyEffect DEF IInv
<1>2. MainFrame /\ MainScreen
  BY <1>1 DEF IInv
<1>3. Near(vga.x, vga.y) /\ (frame["main"].pc = "lines" => vga.y >= ROWS - 1)
  BY <1>2 DEF MainScreen, MainAt
<1>4. LET a == Enter(text)
      IN  IrqAt(a.pc, Head(text), a.r, a.where, a.k, vga.x, vga.y)
  BY <1>1, <1>3, EnterAt
<1>5. Enter(text).text = text /\ Enter(text).pc # "idle"
  BY <1>1, EnterEffect
<1> QED BY <1>1, <1>2, <1>3, <1>4, <1>5 DEF MainFrame, IrqScreen

(* The handler's putch returns: it prints on, or mainline goes on.         *)
LEMMA IrqReturns ==
  ASSUME IInv, Return("irq")
  PROVE  /\ MainFrame'
         /\ IF frame'["irq"].pc = "idle" THEN MainScreen' ELSE IrqScreen'
<1> DEFINE rest == Tail(frame["irq"].text)
<1>1. Typed /\ "irq" \in Context /\ "main" \in Context \ {"irq"}
  BY DEF IInv, Context
<1>2. /\ frame["irq"].pc = "done" /\ vga' = vga /\ frame'["main"] = frame["main"]
      /\ frame'["irq"] = IF rest = <<>> THEN Idle ELSE Enter(rest)
      /\ rest \in Seq(Glyph \cup Control)
  BY <1>1, ReturnEffect
<1>3. MainFrame /\ IrqScreen
  BY <1>2 DEF IInv
<1>4. OnScreen(vga.x, vga.y) /\ (frame["main"].pc = "lines" => vga.y >= ROWS - 1)
  BY <1>2, <1>3 DEF IrqScreen, IrqAt, Placing
<1>5. Near(vga.x, vga.y) /\ vga.x # COLS /\ vga.y # ROWS
  BY <1>4, Sizes DEF Near, OnScreen
<1>6. MainFrame'
  BY <1>2, <1>3 DEF MainFrame
<1>7. CASE rest = <<>>
  <2>1. MainScreen'
    BY <1>2, <1>4, <1>5 DEF MainScreen, MainAt
  <2> QED BY <1>2, <1>6, <1>7, <2>1 DEF Idle
<1>8. CASE rest # <<>>
  <2>1. /\ Enter(rest).text = rest /\ Enter(rest).pc # "idle"
        /\ LET a == Enter(rest)
           IN  IrqAt(a.pc, Head(rest), a.r, a.where, a.k, vga.x, vga.y)
    BY <1>2, <1>5, <1>8, EnterEffect, EnterAt
  <2>2. IrqScreen'
    BY <1>2, <1>4, <1>8, <2>1 DEF IrqScreen
  <2> QED BY <1>2, <1>6, <1>8, <2>1, <2>2
<1> QED BY <1>7, <1>8

(* Mainline code calls putch.                                              *)
LEMMA PutsMoves ==
  ASSUME IInv, NEW ch \in MainChars, Puts(ch)
  PROVE  MainFrame' /\ frame'["irq"].pc = "idle" /\ MainScreen'
<1>1. /\ frame["main"].pc = "idle" /\ frame["irq"].pc = "idle" /\ vga' = vga
      /\ frame'["main"] = Enter(<<ch>>) /\ frame'["irq"] = frame["irq"]
      /\ <<ch>> \in Seq(Glyph \cup Control) /\ <<ch>> # <<>> /\ Head(<<ch>>) = ch
      /\ ch \in Glyph \cup {NEWLINE} /\ Tail(<<ch>>) = <<>>
  BY PutsEffect DEF IInv
<1>2. /\ Enter(<<ch>>).text = <<ch>>
      /\ Enter(<<ch>>).pc = "where_y" \/ Enter(<<ch>>).pc = "zero_x"
  BY <1>1, EnterEffect
<1>3. MainAt("idle", vga.x, vga.y)
  BY <1>1 DEF IInv, MainScreen
<1>4. MainAt("where_y", vga.x, vga.y) /\ MainAt("zero_x", vga.x, vga.y)
  BY <1>3 DEF MainAt, Scrolling
<1> QED BY <1>1, <1>2, <1>4 DEF MainFrame, MainScreen, MainOwn, Placing

(* A step of one context's putch leaves the other's activation alone.      *)
LEMMA OthersWait ==
  ASSUME Typed, NEW c \in Context, Putch(c)
  PROVE  \A d \in Context \ {c} : frame'[d] = frame[d]
<1> SUFFICES ASSUME NEW d \in Context \ {c} PROVE frame'[d] = frame[d]
  OBVIOUS
<1>1. WhereY(c) \/ WhereX(c) \/ TestX(c) \/ Scroll(c) => frame'[d] = frame[d]
  BY WhereSteps, TestSteps DEF Goes
<1>2. LoadX(c) \/ LoadY(c) \/ CursorY(c) \/ CursorX(c) => frame'[d] = frame[d]
  BY LoadSteps DEF Goes
<1>3. Store(c) \/ SetX(c) \/ ZeroX(c) \/ LastRow(c) => frame'[d] = frame[d]
  BY StoreSteps DEF Goes
<1>4. Wrap(c) \/ Lines(c) \/ Copy(c) \/ SetY(c) => frame'[d] = frame[d]
  BY WrapStep, LinesStep, CopyStep, SetYStep DEF Goes
<1>5. SelectHigh(c) \/ WriteHigh(c) \/ SelectLow(c) \/ WriteLow(c) => frame'[d] = frame[d]
  BY PortSteps DEF Goes
<1>6. Return(c) => frame'[d] = frame[d]
  BY ReturnEffect
<1> QED BY <1>1, <1>2, <1>3, <1>4, <1>5, <1>6 DEF Putch

(* The handler's putch runs.                                               *)
LEMMA IrqRuns ==
  ASSUME Typed, Putch("irq"), ~Return("irq")
  PROVE  frame["irq"].pc # "idle" /\ frame'["irq"].pc # "idle"
<1>1. "irq" \in Context
  BY DEF Context
<1>2. frame["irq"].back \in {"wrap", "scroll"}
  BY <1>1, Values
<1> DEFINE Runs == frame["irq"].pc # "idle" /\ frame'["irq"].pc # "idle"
<1>3. WhereY("irq") \/ WhereX("irq") \/ TestX("irq") \/ Scroll("irq") => Runs
  BY <1>1, <1>2, WhereSteps, TestSteps DEF Goes
<1>4. LoadX("irq") \/ LoadY("irq") \/ CursorY("irq") \/ CursorX("irq") => Runs
  BY <1>1, <1>2, LoadSteps DEF Goes
<1>5. Store("irq") \/ SetX("irq") \/ ZeroX("irq") \/ LastRow("irq") => Runs
  BY <1>1, <1>2, StoreSteps DEF Goes
<1>6. Wrap("irq") \/ Lines("irq") \/ Copy("irq") \/ SetY("irq") => Runs
  BY <1>1, <1>2, WrapStep, LinesStep, CopyStep, SetYStep DEF Goes
<1>7. SelectHigh("irq") \/ WriteHigh("irq") \/ SelectLow("irq") \/ WriteLow("irq") => Runs
  BY <1>1, <1>2, PortSteps DEF Goes
<1> QED BY <1>3, <1>4, <1>5, <1>6, <1>7 DEF Putch

(* The cursor and both contexts' variables, over every step.               *)
LEMMA ScreenStep ==
  ASSUME IInv, [Next]_vars
  PROVE  /\ MainFrame'
         /\ IF frame'["irq"].pc = "idle" THEN MainScreen' ELSE IrqScreen'
<1>1. ASSUME NEW ch \in MainChars, Puts(ch)
      PROVE  MainFrame' /\ frame'["irq"].pc = "idle" /\ MainScreen'
  BY <1>1, PutsMoves
<1>2. ASSUME NEW text \in KeyTexts, Key(text)
      PROVE  MainFrame' /\ frame'["irq"].pc # "idle" /\ IrqScreen'
  BY <1>2, KeyMoves
<1>3. CASE Return("irq")
  BY <1>3, IrqReturns
<1>4. CASE Putch("irq") /\ ~Return("irq")
  <2>1. frame["irq"].pc # "idle" /\ frame'["irq"].pc # "idle"
    BY <1>4, IrqRuns DEF IInv
  <2> QED BY <1>4, <2>1, IrqMoves
<1>5. CASE Putch("main")
  <2>1. frame'["irq"].pc = "idle"
    BY <1>5, MainFinds, OthersWait DEF IInv, Context
  <2> QED BY <1>5, <2>1, MainMoves
<1>6. CASE UNCHANGED vars
  BY <1>6 DEF vars, IInv, MainFrame, MainScreen, IrqScreen
<1> QED BY <1>1, <1>2, <1>3, <1>4, <1>5, <1>6 DEF Next, Loop, Context

-----------------------------------------------------------------------------
(***************************************************************************)
(* What is read, and video memory.                                         *)
(***************************************************************************)
(* The values mainline's putch reads, and works on.                        *)
LEMMA MainReads ==
  ASSUME IInv, Putch("main")
  PROVE  LET f == frame["main"]
         IN  /\ f.pc = "load_x" => vga.x \in 0 .. ROWS * COLS
             /\ f.pc = "load_y" => vga.y \in 0 .. ROWS * COLS
             /\ f.pc = "cursor_y" => vga.y * COLS \in 0 .. ROWS * COLS
             /\ f.pc = "cursor_x" => f.r + vga.x \in 0 .. ROWS * COLS
             /\ f.pc = "lines" => vga.y - ROWS + 1 \in 0 .. 2
             /\ f.pc = "copy" => f.r \in 0 .. 2 /\ f.k \in 0 .. (ROWS + 1 - f.r) * COLS - 1
             /\ f.pc \in Placing \ {"cursor_y", "cursor_x"} => f.r \in 0 .. ROWS * COLS - 1
<1> DEFINE f == frame["main"]
<1>1. /\ MainOwn(f.pc, f.r, f.where, f.k) /\ MainAt(f.pc, vga.x, vga.y)
      /\ vga.x \in 0 .. COLS /\ vga.y \in 0 .. ROWS
      /\ vga.y * COLS \in 0 .. ROWS * COLS
  BY MainFinds DEF MainFrame, MainScreen
<1>2. ROWS * COLS \in Nat /\ COLS <= ROWS * COLS /\ ROWS <= ROWS * COLS
  BY Sizes, RowStarts
<1>3. vga.x \in 0 .. ROWS * COLS /\ vga.y \in 0 .. ROWS * COLS
  BY <1>1, <1>2, Sizes
<1>4. f.pc = "cursor_x" => f.r + vga.x \in 0 .. ROWS * COLS
  <2>1. SUFFICES ASSUME f.pc = "cursor_x" PROVE f.r + vga.x \in 0 .. ROWS * COLS - 1
    BY <1>2
  <2>2. f.r \in 0 .. (ROWS - 1) * COLS /\ vga.x \in 0 .. COLS - 1
    BY <1>1, <2>1, Sizes DEF MainOwn, MainAt
  <2> QED BY <2>2, CellInRow
<1>5. f.pc = "lines" => vga.y - ROWS + 1 \in 0 .. 2
  BY <1>1, Sizes DEF MainAt
<1>6. f.pc = "copy" => f.r \in 0 .. 2 /\ f.k \in 0 .. (ROWS + 1 - f.r) * COLS - 1
  BY <1>1 DEF MainOwn
<1>7. f.pc \in Placing \ {"cursor_y", "cursor_x"} => f.r \in 0 .. ROWS * COLS - 1
  BY <1>1 DEF MainOwn
<1> QED BY <1>1, <1>3, <1>4, <1>5, <1>6, <1>7

(* Those the handler's putch reads, and works on.                          *)
LEMMA IrqReads ==
  ASSUME IInv, frame["irq"].pc # "idle"
  PROVE  LET f == frame["irq"]
         IN  /\ f.pc = "load_x" => vga.x \in 0 .. ROWS * COLS
             /\ f.pc = "load_y" => vga.y \in 0 .. ROWS * COLS
             /\ f.pc = "cursor_y" => vga.y * COLS \in 0 .. ROWS * COLS
             /\ f.pc = "cursor_x" => f.r + vga.x \in 0 .. ROWS * COLS
             /\ f.pc = "lines" => vga.y - ROWS + 1 \in 0 .. 2
             /\ f.pc = "copy" => f.r \in 0 .. 2 /\ f.k \in 0 .. (ROWS + 1 - f.r) * COLS - 1
             /\ f.pc \in Placing \ {"cursor_y", "cursor_x"} => f.r \in 0 .. ROWS * COLS - 1
<1> DEFINE f == frame["irq"]
<1>1. /\ IrqAt(f.pc, Head(f.text), f.r, f.where, f.k, vga.x, vga.y)
      /\ OnScreen(vga.x, vga.y) => vga.y * COLS \in 0 .. (ROWS - 1) * COLS
  BY IrqFinds
<1>2. /\ ROWS * COLS \in Nat /\ COLS <= ROWS * COLS /\ ROWS <= ROWS * COLS
      /\ (ROWS - 1) * COLS \in Nat /\ (ROWS - 1) * COLS + COLS = ROWS * COLS
  BY Sizes, RowStarts
<1>3. f.pc = "load_x" => vga.x \in 0 .. ROWS * COLS
  <2>1. f.pc = "load_x" => vga.x \in 0 .. COLS
    BY <1>1 DEF IrqAt, Near, Moving
  <2> QED BY <1>2, <2>1, Sizes
<1>4. f.pc = "load_y" => vga.y \in 0 .. ROWS * COLS
  <2>1. f.pc = "load_y" => vga.y \in 0 .. ROWS
    BY <1>1 DEF IrqAt
  <2> QED BY <1>2, <2>1, Sizes
<1>5. f.pc = "cursor_y" => vga.y * COLS \in 0 .. ROWS * COLS
  <2>1. f.pc = "cursor_y" => vga.y * COLS \in 0 .. (ROWS - 1) * COLS
    BY <1>1 DEF IrqAt, Placing
  <2> QED BY <1>2, <2>1, Sizes
<1>6. f.pc = "cursor_x" => f.r + vga.x \in 0 .. ROWS * COLS
  <2>1. SUFFICES ASSUME f.pc = "cursor_x" PROVE f.r + vga.x \in 0 .. ROWS * COLS - 1
    BY <1>2
  <2>2. f.r \in 0 .. (ROWS - 1) * COLS /\ vga.x \in 0 .. COLS - 1
    BY <1>1, <2>1 DEF IrqAt, OnScreen, Placing
  <2> QED BY <2>2, CellInRow
<1>7. f.pc = "lines" => vga.y - ROWS + 1 \in 0 .. 2
  BY <1>1, Sizes DEF IrqAt, Scrolling
<1>8. f.pc = "copy" => f.r \in 0 .. 2 /\ f.k \in 0 .. (ROWS + 1 - f.r) * COLS - 1
  <2>1. f.pc = "copy" => /\ vga.y \in 0 .. ROWS + 1 /\ vga.y >= ROWS /\ f.r = vga.y - ROWS + 1
                         /\ f.k \in 0 .. (ROWS + 1 - f.r) * COLS - 1
    BY <1>1 DEF IrqAt, Scrolling
  <2>2. vga.y \in 0 .. ROWS + 1 /\ vga.y >= ROWS => vga.y - ROWS + 1 \in 0 .. 2
    BY Sizes
  <2> QED BY <2>1, <2>2
<1>9. f.pc \in Placing \ {"cursor_y", "cursor_x"} => f.r \in 0 .. ROWS * COLS - 1
  BY <1>1 DEF IrqAt
<1> QED BY <1>3, <1>4, <1>5, <1>6, <1>7, <1>8, <1>9

(* What a step must show of what it reads and writes.                      *)
LEMMA BoundedGoes ==
  ASSUME Bounded, NEW c \in Context, NEW pc, NEW next, NEW r \in 0 .. ROWS * COLS,
         NEW where, NEW k, NEW back, Goes(c, pc, next, r, where, k, back),
         vga'.cell \in [Cells -> Symbol], vga'.register \in [{14, 15} -> 0 .. BASE - 1]
  PROVE  Bounded'
<1>1. frame'[c].r = r /\ \A d \in Context \ {c} : frame'[d] = frame[d]
  BY Zenon DEF Goes
<1> QED BY <1>1, Zenon DEF Bounded

(* A step of putch keeps to them.                                          *)
LEMMA PutchBounded ==
  ASSUME IInv, NEW c \in Context, Putch(c), ~Return(c)
  PROVE  Bounded'
<1> DEFINE f == frame[c]
<1>1. /\ Typed /\ Bounded /\ f.r \in 0 .. ROWS * COLS /\ Fitting(f)
      /\ vga.cell \in [Cells -> Symbol] /\ vga.register \in [{14, 15} -> 0 .. BASE - 1]
      /\ vga.index \in {14, 15}
  BY DEF IInv, Bounded, Typed, Screen
<1>2. /\ f.pc = "load_x" => vga.x \in 0 .. ROWS * COLS
      /\ f.pc = "load_y" => vga.y \in 0 .. ROWS * COLS
      /\ f.pc = "cursor_y" => vga.y * COLS \in 0 .. ROWS * COLS
      /\ f.pc = "cursor_x" => f.r + vga.x \in 0 .. ROWS * COLS
      /\ f.pc = "lines" => vga.y - ROWS + 1 \in 0 .. 2
      /\ f.pc = "copy" => f.r \in 0 .. 2 /\ f.k \in 0 .. (ROWS + 1 - f.r) * COLS - 1
      /\ f.pc \in Placing \ {"cursor_y", "cursor_x"} => f.r \in 0 .. ROWS * COLS - 1
  <2>1. CASE c = "main"
    BY <2>1, MainReads
  <2>2. CASE c = "irq"
    BY <1>1, <2>2, IrqReads, IrqRuns
  <2> QED BY <2>1, <2>2 DEF Context
<1>3. CASE WhereY(c) \/ WhereX(c) \/ TestX(c) \/ Scroll(c)
  BY <1>1, <1>3, WhereSteps, TestSteps, BoundedGoes
<1>4. CASE LoadX(c) \/ LoadY(c) \/ CursorY(c) \/ CursorX(c)
  <2>1. CASE LoadX(c)
    <3>1. Goes(c, "load_x", "set_x", vga.x, f.where, f.k, f.back) /\ vga' = vga
      BY <1>1, <2>1, LoadSteps
    <3>2. vga.x \in 0 .. ROWS * COLS
      BY <1>2, <3>1 DEF Goes
    <3> QED BY <1>1, <3>1, <3>2, BoundedGoes
  <2>2. CASE LoadY(c)
    <3>1. Goes(c, "load_y", "set_y", vga.y, f.where, f.k, f.back) /\ vga' = vga
      BY <1>1, <2>2, LoadSteps
    <3>2. vga.y \in 0 .. ROWS * COLS
      BY <1>2, <3>1 DEF Goes
    <3> QED BY <1>1, <3>1, <3>2, BoundedGoes
  <2>3. CASE CursorY(c)
    <3>1. Goes(c, "cursor_y", "cursor_x", vga.y * COLS, f.where, f.k, f.back) /\ vga' = vga
      BY <1>1, <2>3, LoadSteps
    <3>2. vga.y * COLS \in 0 .. ROWS * COLS
      BY <1>2, <3>1 DEF Goes
    <3> QED BY <1>1, <3>1, <3>2, BoundedGoes
  <2>4. CASE CursorX(c)
    <3>1. Goes(c, "cursor_x", "select_high", f.r + vga.x, f.where, f.k, f.back) /\ vga' = vga
      BY <1>1, <2>4, LoadSteps
    <3>2. f.r + vga.x \in 0 .. ROWS * COLS
      BY <1>2, <3>1 DEF Goes
    <3> QED BY <1>1, <3>1, <3>2, BoundedGoes
  <2> QED BY <1>4, <2>1, <2>2, <2>3, <2>4
<1>5. CASE Wrap(c)
  BY <1>1, <1>5, WrapStep, BoundedGoes
<1>6. CASE Lines(c)
  <2>1. Goes(c, "lines", "copy", vga.y - ROWS + 1, f.where, 0, f.back) /\ vga' = vga
    BY <1>1, <1>6, LinesStep
  <2>2. vga.y - ROWS + 1 \in 0 .. 2
    BY <1>2, <2>1 DEF Goes
  <2>3. 0 .. 2 \subseteq 0 .. ROWS * COLS
    BY Sizes, RowStarts
  <2> QED BY <1>1, <2>1, <2>2, <2>3, BoundedGoes
<1>7. CASE Copy(c)
  <2> DEFINE v == IF f.k < (ROWS - f.r) * COLS THEN vga.cell[f.k + f.r * COLS] ELSE BLANK
             next == IF f.k + 1 = (ROWS - f.r) * COLS + COLS THEN "last_row" ELSE "copy"
  <2>1. Goes(c, "copy", next, f.r, f.where, f.k + 1, f.back) /\ OnlyCell(f.k, v)
    BY <1>1, <1>7, CopyStep
  <2>2. f.r \in 0 .. 2 /\ f.k \in 0 .. (ROWS + 1 - f.r) * COLS - 1
    BY <1>2, <2>1 DEF Goes
  <2>3. f.k < (ROWS - f.r) * COLS => f.k + f.r * COLS \in 0 .. ROWS * COLS - 1
    BY <2>2, CopiedCells
  <2>4. 0 .. ROWS * COLS - 1 \subseteq Cells
    BY Sizes, RowStarts DEF Cells
  <2>5. v \in Symbol
    BY <1>1, <2>3, <2>4 DEF Symbol
  <2> HIDE DEF v, next
  <2>6. vga'.cell \in [Cells -> Symbol] /\ vga'.register = vga.register
    BY <1>1, <2>1, <2>5 DEF OnlyCell, Only
  <2> QED BY <1>1, <2>1, <2>6, BoundedGoes
<1>8. CASE Store(c)
  <2>1. Goes(c, "store", "load_x", f.r, f.where, f.k, f.back) /\ OnlyCell(f.where, Char(c))
    BY <1>1, <1>8, StoreSteps
  <2>2. Char(c) \in Symbol
    BY <1>1, <2>1 DEF Goes, Fitting, Aiming, Char, Symbol
  <2>3. vga'.cell \in [Cells -> Symbol] /\ vga'.register = vga.register
    BY <1>1, <2>1, <2>2 DEF OnlyCell, Only
  <2> QED BY <1>1, <2>1, <2>3, BoundedGoes
<1>9. CASE SetX(c) \/ ZeroX(c) \/ LastRow(c)
  BY <1>1, <1>9, StoreSteps, BoundedGoes DEF OnlyX, OnlyY, Only
<1>10. CASE SetY(c)
  BY <1>1, <1>10, SetYStep, BoundedGoes DEF OnlyY, Only
<1>11. CASE SelectHigh(c) \/ SelectLow(c)
  BY <1>1, <1>11, PortSteps, BoundedGoes DEF OnlyIndex, Only
<1>12. CASE WriteHigh(c)
  <2>1. /\ Goes(c, "write_high", "select_low", f.r, f.where, f.k, f.back)
        /\ OnlyRegister(vga.index, f.r \div BASE)
    BY <1>1, <1>12, PortSteps
  <2>2. f.r \in 0 .. ROWS * COLS - 1
    BY <1>2, <2>1 DEF Goes, Placing
  <2>3. f.r \div BASE \in 0 .. BASE - 1
    BY <2>2, TwoBytes
  <2>4. vga'.cell = vga.cell /\ vga'.register \in [{14, 15} -> 0 .. BASE - 1]
    BY <1>1, <2>1, <2>3 DEF OnlyRegister, Only
  <2> QED BY <1>1, <2>1, <2>4, BoundedGoes
<1>13. CASE WriteLow(c)
  <2>1. /\ Goes(c, "write_low", "done", f.r, f.where, f.k, f.back)
        /\ OnlyRegister(vga.index, f.r % BASE)
    BY <1>1, <1>13, PortSteps
  <2>2. f.r \in 0 .. ROWS * COLS - 1
    BY <1>2, <2>1 DEF Goes, Placing
  <2>3. f.r % BASE \in 0 .. BASE - 1
    BY <2>2, TwoBytes
  <2>4. vga'.cell = vga.cell /\ vga'.register \in [{14, 15} -> 0 .. BASE - 1]
    BY <1>1, <2>1, <2>3 DEF OnlyRegister, Only
  <2> QED BY <1>1, <2>1, <2>4, BoundedGoes
<1> QED
  BY <1>3, <1>4, <1>5, <1>6, <1>7, <1>8, <1>9, <1>10, <1>11, <1>12, <1>13 DEF Putch

(* So does every step.                                                     *)
LEMMA BoundedStep ==
  ASSUME IInv, [Next]_vars
  PROVE  Bounded'
<1>1. Typed /\ Bounded
  BY DEF IInv
<1>2. 0 \in 0 .. ROWS * COLS
  BY RowStarts
<1>3. ASSUME NEW ch \in MainChars, Puts(ch) PROVE Bounded'
  <2>1. /\ vga' = vga /\ frame'["main"] = Enter(<<ch>>) /\ frame'["irq"] = frame["irq"]
        /\ <<ch>> \in Seq(Glyph \cup Control) /\ <<ch>> # <<>>
    BY <1>1, <1>3, PutsEffect
  <2>2. frame'["main"].r = 0
    BY <2>1, EnterEffect
  <2> QED BY <1>1, <1>2, <2>1, <2>2 DEF Bounded, Context
<1>4. ASSUME NEW text \in KeyTexts, Key(text) PROVE Bounded'
  <2>1. vga' = vga /\ frame'["irq"].r = 0 /\ frame'["main"] = frame["main"]
    BY <1>1, <1>4, KeyEffect, EnterEffect
  <2> QED BY <1>1, <1>2, <2>1 DEF Bounded, Context
<1>5. ASSUME NEW c \in Context, Return(c) PROVE Bounded'
  <2> DEFINE rest == Tail(frame[c].text)
  <2>1. /\ vga' = vga /\ frame'[c] = IF rest = <<>> THEN Idle ELSE Enter(rest)
        /\ rest \in Seq(Glyph \cup Control)
        /\ \A d \in Context \ {c} : frame'[d] = frame[d]
    BY <1>1, <1>5, ReturnEffect
  <2>2. Idle.r = 0 /\ (rest # <<>> => Enter(rest).r = 0)
    BY <2>1, EnterEffect DEF Idle
  <2>3. frame'[c].r = 0
    BY <2>1, <2>2
  <2> QED BY <1>1, <1>2, <2>1, <2>3 DEF Bounded
<1>6. ASSUME NEW c \in Context, Putch(c), ~Return(c) PROVE Bounded'
  BY <1>6, PutchBounded
<1>7. CASE UNCHANGED vars
  BY <1>1, <1>7 DEF vars, Bounded
<1> QED BY <1>3, <1>4, <1>5, <1>6, <1>7 DEF Next, Loop

-----------------------------------------------------------------------------
(***************************************************************************)
(* The hardware cursor.                                                    *)
(***************************************************************************)
(* What a putch that was never interrupted must show of move_csr.          *)
LEMMA PointingGoes ==
  ASSUME Typed, Recovering, NEW c \in Context, NEW pc, NEW next,
         NEW r, NEW where, NEW k, NEW back, Goes(c, pc, next, r, where, k, back),
         pc # "idle", next # "idle",
         ~torn =>
           /\ next = "cursor_x" => r = vga'.y * COLS
           /\ next \in {"select_high", "write_high", "select_low", "write_low"} =>
                r = vga'.y * COLS + vga'.x
           /\ next = "write_high" => vga'.index = 14
           /\ next \in {"select_low", "write_low"} => vga'.register[14] = r \div BASE
           /\ next = "write_low" => vga'.index = 15
           /\ next = "done" =>
                vga'.register[14] * BASE + vga'.register[15] = vga'.y * COLS + vga'.x
  PROVE  Recovering'
<1>1. SUFFICES ASSUME ~torn PROVE Recovering'
  BY Zenon DEF Goes, Recovering
<1>2. /\ frame[c].pc = pc /\ frame'[c].pc = next /\ frame'[c].r = r
      /\ \A d \in Context \ {c} : frame'[d] = frame[d]
  BY Zenon DEF Goes
<1>3. \A d \in Context \ {c} : frame'[d].pc = "idle"
  BY <1>1, <1>2 DEF Recovering, Context
<1>4. Pointing(frame[c])'
  BY <1>1, <1>2, Zenon DEF Pointing, HardwareCursor
<1>5. \A d \in Context \ {c} : Pointing(frame[d])'
  BY <1>3 DEF Pointing
<1>6. ~Quiet'
  BY <1>2 DEF Quiet
<1> QED BY <1>3, <1>4, <1>5, <1>6 DEF Recovering, Context

(* A step of putch keeps to it.                                            *)
LEMMA PutchPoints ==
  ASSUME IInv, NEW c \in Context, Putch(c), ~Return(c)
  PROVE  Recovering'
<1> DEFINE f == frame[c]
<1>1. /\ Typed /\ Recovering /\ f.back \in {"wrap", "scroll"} /\ (~torn => Pointing(f))
      /\ DOMAIN vga.register = {14, 15}
  BY Values DEF IInv, Recovering, Typed, Screen
<1>2. CASE WhereY(c) \/ WhereX(c) \/ TestX(c) \/ Scroll(c)
  BY <1>1, <1>2, WhereSteps, TestSteps, PointingGoes
<1>3. CASE LoadX(c) \/ LoadY(c)
  BY <1>1, <1>3, LoadSteps, PointingGoes
<1>4. CASE Wrap(c)
  BY <1>1, <1>4, WrapStep, PointingGoes
<1>5. CASE Lines(c)
  BY <1>1, <1>5, LinesStep, PointingGoes
<1>6. CASE Copy(c)
  BY <1>1, <1>6, CopyStep, PointingGoes
<1>7. CASE Store(c) \/ SetX(c) \/ ZeroX(c) \/ LastRow(c)
  BY <1>1, <1>7, StoreSteps, PointingGoes
<1>8. CASE SetY(c)
  BY <1>1, <1>8, SetYStep, PointingGoes
<1>9. CASE CursorY(c)
  <2>1. Goes(c, "cursor_y", "cursor_x", vga.y * COLS, f.where, f.k, f.back) /\ vga' = vga
    BY <1>1, <1>9, LoadSteps
  <2> QED BY <1>1, <2>1, PointingGoes
<1>10. CASE CursorX(c)
  <2>1. Goes(c, "cursor_x", "select_high", f.r + vga.x, f.where, f.k, f.back) /\ vga' = vga
    BY <1>1, <1>10, LoadSteps
  <2>2. ~torn => f.r = vga.y * COLS
    BY <1>1, <2>1 DEF Goes, Pointing
  <2>3. ~torn => f.r + vga.x = vga'.y * COLS + vga'.x
    BY <2>1, <2>2
  <2> QED BY <1>1, <2>1, <2>3, PointingGoes
<1>11. CASE SelectHigh(c)
  <2>1. Goes(c, "select_high", "write_high", f.r, f.where, f.k, f.back) /\ OnlyIndex(14)
    BY <1>1, <1>11, PortSteps
  <2>2. ~torn => f.r = vga.y * COLS + vga.x
    BY <1>1, <2>1 DEF Goes, Pointing
  <2>3. /\ ~torn => f.r = vga'.y * COLS + vga'.x
        /\ vga'.index = 14
    BY <2>1, <2>2 DEF OnlyIndex, Only
  <2> QED BY <1>1, <2>1, <2>3, PointingGoes
<1>12. CASE WriteHigh(c)
  <2>1. /\ Goes(c, "write_high", "select_low", f.r, f.where, f.k, f.back)
        /\ OnlyRegister(vga.index, f.r \div BASE)
    BY <1>1, <1>12, PortSteps
  <2>2. ~torn => f.r = vga.y * COLS + vga.x /\ vga.index = 14
    BY <1>1, <2>1 DEF Goes, Pointing
  <2>3. ~torn => f.r = vga'.y * COLS + vga'.x /\ vga'.register[14] = f.r \div BASE
    BY <1>1, <2>1, <2>2 DEF OnlyRegister, Only
  <2> QED BY <1>1, <2>1, <2>3, PointingGoes
<1>13. CASE SelectLow(c)
  <2>1. Goes(c, "select_low", "write_low", f.r, f.where, f.k, f.back) /\ OnlyIndex(15)
    BY <1>1, <1>13, PortSteps
  <2>2. ~torn => f.r = vga.y * COLS + vga.x /\ vga.register[14] = f.r \div BASE
    BY <1>1, <2>1 DEF Goes, Pointing
  <2>3. /\ ~torn => f.r = vga'.y * COLS + vga'.x /\ vga'.register[14] = f.r \div BASE
        /\ vga'.index = 15
    BY <2>1, <2>2 DEF OnlyIndex, Only
  <2> QED BY <1>1, <2>1, <2>3, PointingGoes
<1>14. CASE WriteLow(c)
  <2>1. /\ Goes(c, "write_low", "done", f.r, f.where, f.k, f.back)
        /\ OnlyRegister(vga.index, f.r % BASE)
    BY <1>1, <1>14, PortSteps
  <2>2. ~torn => /\ f.r = vga.y * COLS + vga.x /\ vga.register[14] = f.r \div BASE
                 /\ vga.index = 15
    BY <1>1, <2>1 DEF Goes, Pointing
  <2>3. f.r \in 0 .. ROWS * COLS - 1
    <3>1. f.pc = "write_low"
      BY <2>1 DEF Goes
    <3>2. CASE c = "main"
      BY <1>14, <3>1, <3>2, MainReads DEF Placing
    <3>3. CASE c = "irq"
      BY <3>1, <3>3, IrqReads DEF Placing
    <3> QED BY <3>2, <3>3 DEF Context
  <2>4. (f.r \div BASE) * BASE + (f.r % BASE) = f.r
    BY <2>3, TwoBytes
  <2>5. ~torn => /\ vga'.register[14] = f.r \div BASE /\ vga'.register[15] = f.r % BASE
                 /\ vga'.y = vga.y /\ vga'.x = vga.x
    BY <1>1, <2>1, <2>2 DEF OnlyRegister, Only
  <2>6. ~torn => vga'.register[14] * BASE + vga'.register[15] = vga'.y * COLS + vga'.x
    BY <2>2, <2>4, <2>5, Zenon
  <2> QED BY <1>1, <2>1, <2>6, PointingGoes
<1> QED
  BY <1>2, <1>3, <1>4, <1>5, <1>6, <1>7, <1>8, <1>9, <1>10, <1>11, <1>12, <1>13, <1>14
  DEF Putch

(* Where a putch starts, there is nothing to show yet.                     *)
LEMMA EnterPoints ==
  ASSUME NEW text \in Seq(Glyph \cup Control), text # <<>>
  PROVE  Enter(text).pc \in {"where_y", "test_x", "load_x", "zero_x"}
BY EnterEffect DEF Control

(* So does every step.                                                     *)
LEMMA RecoveringStep ==
  ASSUME IInv, [Next]_vars
  PROVE  Recovering'
<1>1. Typed /\ Recovering
  BY DEF IInv
<1>2. ASSUME NEW ch \in MainChars, Puts(ch) PROVE Recovering'
  <2>1. /\ frame'["main"] = Enter(<<ch>>) /\ frame["irq"].pc = "idle"
        /\ frame'["irq"] = frame["irq"]
        /\ <<ch>> \in Seq(Glyph \cup Control) /\ <<ch>> # <<>>
    BY <1>1, <1>2, PutsEffect
  <2>2. frame'["main"].pc \in {"where_y", "test_x", "load_x", "zero_x"}
    BY <2>1, EnterPoints
  <2> QED BY <2>1, <2>2 DEF Recovering, Pointing, Quiet, Context
<1>3. ASSUME NEW text \in KeyTexts, Key(text) PROVE Recovering'
  <2>1. /\ frame'["irq"] = Enter(text) /\ frame'["main"] = frame["main"]
        /\ torn' = (frame["main"].pc # "idle")
        /\ text \in Seq(Glyph \cup Control) /\ text # <<>>
    BY <1>1, <1>3, KeyEffect
  <2>2. frame'["irq"].pc \in {"where_y", "test_x", "load_x", "zero_x"}
    BY <2>1, EnterPoints
  <2> QED BY <2>1, <2>2 DEF Recovering, Pointing, Quiet, Context
<1>4. ASSUME NEW c \in Context, Return(c) PROVE Recovering'
  <2> DEFINE rest == Tail(frame[c].text)
  <2>1. /\ vga' = vga /\ torn' = torn /\ frame[c].pc = "done"
        /\ frame'[c] = IF rest = <<>> THEN Idle ELSE Enter(rest)
        /\ rest \in Seq(Glyph \cup Control)
        /\ \A d \in Context \ {c} : frame'[d] = frame[d]
    BY <1>1, <1>4, ReturnEffect
  <2>2. frame'[c].pc \in {"idle", "where_y", "test_x", "load_x", "zero_x"}
    <3>1. Idle.pc = "idle"
      BY DEF Idle
    <3>2. rest # <<>> => Enter(rest).pc \in {"where_y", "test_x", "load_x", "zero_x"}
      BY <2>1, EnterPoints
    <3> QED BY <2>1, <3>1, <3>2
  <2>3. SUFFICES ASSUME ~torn PROVE Recovering'
    BY <2>1 DEF Recovering
  <2>4. HardwareCursor = vga.y * COLS + vga.x
    BY <1>1, <2>1, <2>3 DEF Recovering, Pointing
  <2>5. \A d \in Context \ {c} : frame'[d].pc = "idle"
    BY <1>1, <2>1, <2>3 DEF Recovering, Context
  <2>6. \A d \in Context : Pointing(frame[d])'
    BY <2>2, <2>5 DEF Pointing
  <2>7. HardwareCursor' = vga'.y * COLS + vga'.x
    BY <2>1, <2>4, Zenon DEF HardwareCursor
  <2> QED BY <2>5, <2>6, <2>7 DEF Recovering, Context
<1>5. ASSUME NEW c \in Context, Putch(c), ~Return(c) PROVE Recovering'
  BY <1>5, PutchPoints
<1>6. CASE UNCHANGED vars
  BY <1>1, <1>6 DEF vars, Recovering, Pointing, HardwareCursor, Quiet
<1> QED BY <1>2, <1>3, <1>4, <1>5, <1>6 DEF Next, Loop

-----------------------------------------------------------------------------
(***************************************************************************)
(* The invariant, and what follows.                                        *)
(***************************************************************************)
(* It holds when init_video() has returned.                                *)
LEMMA InitIInv == Init => IInv
<1> SUFFICES ASSUME Init PROVE IInv
  OBVIOUS
<1>1. /\ vga.x = 0 /\ vga.y = StartRow /\ vga.index = 15 /\ vga.cell = [n \in Cells |-> BLANK]
      /\ DOMAIN vga = {"x", "y", "cell", "index", "register"}
      /\ vga.register = [n \in {14, 15} |-> IF n = 14 THEN (StartRow * COLS) \div BASE
                                            ELSE (StartRow * COLS) % BASE]
  BY DEF Init
<1>2. frame = [c \in Context |-> Idle]
  BY DEF Init
<1>3. Idle \in Activation /\ Idle.pc = "idle" /\ Idle.r = 0 /\ Fitting(Idle)
  BY AllPlaces DEF Idle, Activation, Fitting, Aiming, Moving
<1>4. StartRow * COLS \in 0 .. ROWS * COLS - 1
  <2>1. OnScreen(0, StartRow) /\ StartRow \in Nat /\ StartRow <= ROWS
    BY Sizes DEF OnScreen
  <2>2. StartRow * COLS + 0 \in 0 .. ROWS * COLS - 1 /\ StartRow * COLS \in 0 .. ROWS * COLS
    BY <2>1, RowOf
  <2> QED BY <2>2
<1>5. /\ (StartRow * COLS) \div BASE \in 0 .. BASE - 1 /\ (StartRow * COLS) % BASE \in 0 .. BASE - 1
      /\ ((StartRow * COLS) \div BASE) * BASE + ((StartRow * COLS) % BASE) = StartRow * COLS
  BY <1>4, TwoBytes
<1>6. Typed
  BY <1>1, <1>2, <1>3, Sizes DEF Typed, Screen
<1>7. Bounded
  <2>1. vga.register \in [{14, 15} -> 0 .. BASE - 1]
    BY <1>1, <1>5
  <2>2. 0 \in 0 .. ROWS * COLS
    BY RowStarts
  <2> QED BY <1>1, <1>2, <1>3, <2>1, <2>2 DEF Bounded, Symbol
<1>8. MainFrame /\ frame["irq"].pc = "idle"
  BY <1>2, <1>3 DEF MainFrame, MainOwn, Placing, Context
<1>9. MainScreen
  BY <1>1, <1>2, <1>3, Sizes DEF MainScreen, MainAt, Near, Scrolling, Context
<1>10. Recovering
  <2>1. vga.register[14] * BASE + vga.register[15] = StartRow * COLS
    BY <1>1, <1>5
  <2>2. HardwareCursor = vga.y * COLS + vga.x
    <3>1. StartRow * COLS + 0 = StartRow * COLS
      BY <1>4
    <3> QED BY <1>1, <2>1, <3>1, Zenon DEF HardwareCursor
  <2> QED BY <1>2, <1>3, <2>2 DEF Recovering, Pointing, Context
<1> QED BY <1>6, <1>7, <1>8, <1>9, <1>10 DEF IInv

(* Every step keeps it.                                                    *)
LEMMA NextIInv == IInv /\ [Next]_vars => IInv'
<1> SUFFICES ASSUME IInv, [Next]_vars PROVE IInv'
  OBVIOUS
<1>1. Typed'
  BY TypedStep DEF IInv
<1> QED BY <1>1, ScreenStep, BoundedStep, RecoveringStep DEF IInv

(* The invariant of every run of putch and its interrupts.                 *)
THEOREM Invariance == Spec => []IInv
BY InitIInv, NextIInv, PTL DEF Spec

(* Where the cursor may be at all.                                         *)
LEMMA CursorBounds ==
  ASSUME IInv
  PROVE  vga.x \in 0 .. COLS + TAB /\ vga.y \in 0 .. ROWS + 1
<1>1. Near(vga.x, vga.y) => vga.x \in 0 .. COLS + TAB /\ vga.y \in 0 .. ROWS + 1
  BY Sizes DEF Near
<1>2. CASE frame["irq"].pc = "idle"
  BY <1>1, <1>2 DEF IInv, MainScreen, MainAt
<1>3. CASE frame["irq"].pc # "idle"
  <2> DEFINE f == frame["irq"]
  <2>1. IrqAt(f.pc, Head(f.text), f.r, f.where, f.k, vga.x, vga.y) /\ f.pc \in Places
    BY <1>3, IrqFinds, Values DEF Context
  <2>2. 0 \in 0 .. COLS + TAB /\ 0 .. COLS - 1 \subseteq 0 .. COLS + TAB
        /\ 0 .. ROWS \subseteq 0 .. ROWS + 1 /\ 0 .. ROWS - 1 \subseteq 0 .. ROWS + 1
    BY Sizes
  <2> QED BY <1>1, <1>3, <2>1, <2>2 DEF IrqAt, OnScreen, Places, Falling
<1> QED BY <1>2, <1>3

(* Type correctness: the cursor, video memory, the CRT's registers, and    *)
(* what putch holds of them in its register.                               *)
THEOREM TypeCorrect == Spec => []TypeOK
<1>1. IInv => TypeOK
  <2> SUFFICES ASSUME IInv PROVE TypeOK
    OBVIOUS
  <2>1. Typed /\ Bounded
    BY DEF IInv
  <2>2. 0 .. ROWS * COLS \subseteq -1 .. (ROWS + 2) * COLS
    <3>1. (ROWS + 2) * COLS = ROWS * COLS + 2 * COLS
      BY Sizes
    <3> QED BY <3>1, Sizes, RowStarts
  <2> QED BY <2>1, <2>2, CursorBounds DEF TypeOK, Bounded, Typed, Screen, Symbol
<1> QED BY <1>1, Invariance, PTL

(* csr_x and csr_y: whatever the handler interrupts, and however often,    *)
(* the cursor is on the screen again when every putch has returned.        *)
THEOREM CursorStaysOnScreen == Spec => []CursorOnScreen
<1>1. IInv => CursorOnScreen
  <2> SUFFICES ASSUME IInv, Quiet PROVE vga.x \in 0 .. COLS - 1 /\ vga.y \in 0 .. ROWS - 1
    BY DEF CursorOnScreen
  <2>1. MainAt("idle", vga.x, vga.y)
    BY DEF IInv, Quiet, Context, MainScreen
  <2> QED BY <2>1, Sizes DEF MainAt, Near, Scrolling
<1> QED BY <1>1, Invariance, PTL

(* putch and scroll, with whatever they read before an interrupt, write    *)
(* inside video memory.                                                    *)
THEOREM WritesStayInside == Spec => []WritesInVideoMemory
<1>1. IInv => WritesInVideoMemory
  <2> SUFFICES ASSUME IInv PROVE WritesInVideoMemory
    OBVIOUS
  <2>1. 0 .. ROWS * COLS - 1 \subseteq Cells
    BY Sizes, RowStarts DEF Cells
  <2>2. LET f == frame["main"]
        IN  /\ f.pc = "store" => f.where \in Cells
            /\ f.pc = "copy" => f.k \in Cells
    <3> DEFINE f == frame["main"]
    <3>1. MainOwn(f.pc, f.r, f.where, f.k)
      BY DEF IInv, MainFrame
    <3>2. f.pc = "store" => f.where \in Cells
      BY <2>1, <3>1 DEF MainOwn
    <3>3. f.pc = "copy" => f.k \in Cells
      <4>1. f.pc = "copy" => f.r \in 0 .. 2 /\ f.k \in 0 .. (ROWS + 1 - f.r) * COLS - 1
        BY <3>1 DEF MainOwn
      <4> QED BY <4>1, CopiedCells
    <3> QED BY <3>2, <3>3
  <2>3. LET f == frame["irq"]
        IN  /\ f.pc = "store" => f.where \in Cells
            /\ f.pc = "copy" => f.k \in Cells
    <3> DEFINE f == frame["irq"]
    <3>1. f.pc = "store" => f.where \in Cells
      <4>1. SUFFICES ASSUME f.pc = "store" PROVE f.where \in Cells
        OBVIOUS
      <4>2. Near(vga.x, vga.y) /\ f.where = vga.y * COLS + vga.x
        BY <4>1, IrqFinds DEF IrqAt, Aiming
      <4>3. vga.x \in Nat /\ vga.y \in Nat /\ vga.y <= ROWS
        BY <4>2, Sizes DEF Near
      <4> QED BY <4>2, <4>3, RowOf
    <3>2. f.pc = "copy" => f.k \in Cells
      <4>1. f.pc = "copy" => f.r \in 0 .. 2 /\ f.k \in 0 .. (ROWS + 1 - f.r) * COLS - 1
        BY IrqReads
      <4> QED BY <4>1, CopiedCells
    <3> QED BY <3>1, <3>2
  <2> QED BY <2>2, <2>3 DEF WritesInVideoMemory, Context
<1> QED BY <1>1, Invariance, PTL

(* move_csr: after a putch that nothing interrupted the hardware cursor is *)
(* where csr_x and csr_y are, wherever earlier ones had left it.           *)
THEOREM HardwareCursorRecovers == Spec => []CursorRecovers
<1>1. IInv => CursorRecovers
  BY DEF IInv, Recovering, CursorRecovers
<1> QED BY <1>1, Invariance, PTL
-----------------------------------------------------------------------------
(***************************************************************************)
(* putch is a terminal as long as no key interrupts a call of mainline     *)
(* code, for every size of screen and every text.                          *)
(*                                                                         *)
(* The terminal is a function of the whole log, which already has the      *)
(* character being printed.  The invariant says at each step of putch what *)
(* is still to come: the terminal is what the remaining part of putch      *)
(* makes of csr_x, csr_y and video memory (Shown).  In the copy of scroll  *)
(* it is the cells already moved and those still to move (Copying).        *)
(***************************************************************************)
Picture(x, y, cell) ==
  [x |-> x, y |-> y, screen |-> [n \in 0 .. ROWS * COLS - 1 |-> cell[n]]]

(* The picture when scroll has copied k cells.                             *)
Copying(x, k, cell) ==
  [x |-> x, y |-> ROWS - 1,
   screen |-> [n \in 0 .. ROWS * COLS - 1 |->
                 IF n < k THEN cell[n]
                 ELSE IF n < (ROWS - 1) * COLS THEN cell[n + COLS] ELSE BLANK]]

(* What one character makes of a terminal.                                 *)
Feed(t, ch) == Scrolled(Wrapped(Move(t, ch)))

(* The rest of putch of ch, from pc on, makes t of the cursor and video    *)
(* memory; its own variables are fresh.                                    *)
Shown(pc, ch, r, where, k, x, y, cell, t) ==
  /\ pc \in Aiming \cup Moving \cup Placing \cup {"test_x", "idle"} => OnScreen(x, y)
  /\ pc \in Aiming \cup {"test_x"} => t = Feed(Picture(x, y, cell), ch)
  /\ pc = "where_x" => where = y * COLS
  /\ pc = "store" => where = y * COLS + x
  /\ pc \in Moving => /\ t = Scrolled(Wrapped(Picture(NextX(ch, x), y, cell)))
                      /\ NextX(ch, x) >= 0
  /\ pc = "set_x" => r = x
  /\ pc \in Falling => y \in 0 .. ROWS - 1 /\ t = Scrolled(Picture(0, y + 1, cell))
  /\ pc \in {"load_y", "set_y"} => x = 0
  /\ pc = "set_y" => r = y
  /\ pc = "wrap" => /\ x \in 0 .. COLS + TAB /\ y \in 0 .. ROWS /\ (x >= COLS => y < ROWS)
                    /\ t = Scrolled(Wrapped(Picture(x, y, cell)))
  /\ pc \in Scrolling => x \in 0 .. COLS - 1 /\ y \in 0 .. ROWS
  /\ pc \in {"scroll", "lines"} => t = Scrolled(Picture(x, y, cell))
  /\ pc \in {"lines", "copy", "last_row"} => y = ROWS
  /\ pc = "copy" => r = 1 /\ k \in 0 .. ROWS * COLS - 1 /\ t = Copying(x, k, cell)
  /\ pc = "last_row" => t = Picture(x, ROWS - 1, cell)
  /\ pc \in Placing \cup {"idle"} => t = Picture(x, y, cell)

ShownBy(f) ==
  Shown(f.pc, Head(f.text), f.r, f.where, f.k, vga.x, vga.y, vga.cell, Terminal)

Showing ==
  ~raced => /\ frame["main"].pc = "idle" \/ frame["irq"].pc = "idle"
            /\ \A c \in Context : frame[c].pc # "idle" => ShownBy(frame[c])
            /\ Quiet => Shown("idle", BLANK, 0, 0, 0, vga.x, vga.y, vga.cell, Terminal)

TInv == IInv /\ log \in Seq(Glyph \cup Control) /\ Showing
-----------------------------------------------------------------------------
(***************************************************************************)
(* The terminal as a history.                                              *)
(***************************************************************************)
(* Induction: a set that has 0 and the successor of what it has, has every *)
(* natural number.                                                         *)
LEMMA EveryNumber ==
  ASSUME NEW T, 0 \in T, \A n \in Nat : n \in T => n + 1 \in T
  PROVE  \A n \in Nat : n \in T
<1> DEFINE R == {ss \in Nat \X Nat : ss[1] < ss[2]}
           bad == {n \in Nat : n \notin T}
<1>1. IsWellFoundedOn(R, Nat)
  BY NatLessThanWellFounded, Zenon DEF OpToRel
<1>2. ASSUME NEW a \in Nat, NEW b \in Nat, a < b PROVE <<a, b>> \in R
  BY <1>2
<1> HIDE DEF R
<1>3. SUFFICES ASSUME bad # {} PROVE FALSE
  OBVIOUS
<1>4. PICK n \in bad : \A m \in bad : ~(<<m, n>> \in R)
  BY <1>1, <1>3, WFMin
<1>5. n \in Nat /\ n # 0 /\ n - 1 \in Nat
  BY <1>4
<1>6. n - 1 \in T
  <2>1. <<n - 1, n>> \in R
    BY <1>2, <1>5
  <2> QED BY <1>4, <1>5, <2>1
<1> QED BY <1>4, <1>5, <1>6

Blank == [x |-> 0, y |-> StartRow, screen |-> [m \in 0 .. ROWS * COLS - 1 |-> BLANK]]

(* What the terminal is after each of the first m characters of l.         *)
IsHistory(g, l, m) ==
  g = [n \in 0 .. m |-> IF n = 0 THEN Blank ELSE Feed(g[n - 1], l[n])]

(* There is one.                                                           *)
LEMMA Histories == \A l : \A m \in Nat : \E g : IsHistory(g, l, m)
<1> SUFFICES ASSUME NEW l PROVE \A m \in Nat : \E g : IsHistory(g, l, m)
  OBVIOUS
<1> DEFINE T == {m \in Nat : \E g : IsHistory(g, l, m)}
<1>1. 0 \in T
  <2>1. [n \in 0 .. 0 |-> Blank]
          = [n \in 0 .. 0 |-> IF n = 0 THEN Blank ELSE Feed([k \in 0 .. 0 |-> Blank][n - 1], l[n])]
    OBVIOUS
  <2>2. IsHistory([n \in 0 .. 0 |-> Blank], l, 0)
    BY <2>1 DEF IsHistory
  <2> QED BY <2>2
<1>2. ASSUME NEW m \in Nat, m \in T PROVE m + 1 \in T
  <2>1. PICK g : IsHistory(g, l, m)
    BY <1>2
  <2> DEFINE h == [n \in 0 .. m + 1 |-> IF n = m + 1 THEN Feed(g[m], l[n]) ELSE g[n]]
  <2>2. ASSUME NEW n \in 0 .. m + 1
        PROVE  h[n] = IF n = 0 THEN Blank ELSE Feed(h[n - 1], l[n])
    <3>1. CASE n = m + 1
      BY <3>1
    <3>2. CASE n # m + 1
      <4>1. n \in 0 .. m /\ h[n] = g[n] /\ (n # 0 => h[n - 1] = g[n - 1])
        BY <3>2
      <4>2. g[n] = IF n = 0 THEN Blank ELSE Feed(g[n - 1], l[n])
        BY <2>1, <4>1 DEF IsHistory
      <4> QED BY <4>1, <4>2
    <3> QED BY <3>1, <3>2
  <2>3. IsHistory(h, l, m + 1)
    <3>1. h = [n \in 0 .. m + 1 |-> h[n]]
      OBVIOUS
    <3> HIDE DEF h
    <3> QED BY <2>2, <3>1 DEF IsHistory
  <2> QED BY <2>3
<1> HIDE DEF T
<1>3. \A m \in Nat : m \in T
  BY <1>1, <1>2, EveryNumber
<1> QED BY <1>3 DEF T

(* A history is the beginning of one with a character more.                *)
LEMMA HistoriesAgree ==
  ASSUME NEW l1, NEW l2, NEW m \in Nat, NEW g1, NEW g2,
         IsHistory(g1, l1, m), IsHistory(g2, l2, m + 1),
         \A n \in 1 .. m : l1[n] = l2[n]
  PROVE  g1[m] = g2[m]
<1> DEFINE T == {n \in Nat : n <= m => g1[n] = g2[n]}
<1>1. /\ \A n \in 0 .. m : g1[n] = IF n = 0 THEN Blank ELSE Feed(g1[n - 1], l1[n])
      /\ \A n \in 0 .. m + 1 : g2[n] = IF n = 0 THEN Blank ELSE Feed(g2[n - 1], l2[n])
  BY DEF IsHistory
<1>2. 0 \in T
  BY <1>1
<1>3. ASSUME NEW n \in Nat, n \in T PROVE n + 1 \in T
  <2> SUFFICES ASSUME n + 1 <= m PROVE g1[n + 1] = g2[n + 1]
    OBVIOUS
  <2>1. g1[n] = g2[n] /\ l1[n + 1] = l2[n + 1]
    BY <1>3
  <2>2. g1[n + 1] = Feed(g1[n], l1[n + 1]) /\ g2[n + 1] = Feed(g2[n], l2[n + 1])
    BY <1>1
  <2> QED BY <2>1, <2>2
<1> HIDE DEF T
<1>4. \A n \in Nat : n \in T
  BY <1>2, <1>3, EveryNumber
<1> QED BY <1>4 DEF T

(* The terminal is the last of the history of the log.                     *)
LEMMA TerminalIs ==
  ASSUME log \in Seq(Glyph \cup Control)
  PROVE  \E g : IsHistory(g, log, Len(log)) /\ Terminal = g[Len(log)]
<1>1. PICK g : IsHistory(g, log, Len(log))
  BY Histories
<1>2. g = [n \in 0 .. Len(log) |-> IF n = 0 THEN Blank
                                  ELSE Scrolled(Wrapped(Move(g[n - 1], log[n])))]
  BY <1>1 DEF IsHistory, Feed
<1> QED BY <1>2 DEF Terminal, IsHistory, Feed, Blank

(* No character yet: a blank screen.                                       *)
LEMMA TerminalStarts ==
  ASSUME log = <<>>
  PROVE  Terminal = Blank
<1>1. PICK g : IsHistory(g, log, Len(log)) /\ Terminal = g[Len(log)]
  BY TerminalIs
<1> QED BY <1>1 DEF IsHistory

(* One character more.                                                     *)
LEMMA TerminalGrows ==
  ASSUME log \in Seq(Glyph \cup Control), NEW ch \in Glyph \cup Control,
         log' = Append(log, ch)
  PROVE  Terminal' = Feed(Terminal, ch)
<1> DEFINE m == Len(log)
<1>1. PICK g : IsHistory(g, log, m) /\ Terminal = g[m]
  BY TerminalIs
<1>2. /\ log' \in Seq(Glyph \cup Control) /\ m \in Nat /\ Len(log') = m + 1
      /\ log'[m + 1] = ch /\ \A n \in 1 .. m : log'[n] = log[n]
  BY AppendProperties
<1>3. PICK h : IsHistory(h, log', Len(log')) /\ Terminal' = h[Len(log')]
  <2>1. PICK h : IsHistory(h, log', Len(log'))
    BY <1>2, Histories
  <2>2. h = [n \in 0 .. Len(log') |-> IF n = 0 THEN Blank
                                     ELSE Scrolled(Wrapped(Move(h[n - 1], log'[n])))]
    BY <2>1 DEF IsHistory, Feed
  <2> QED BY <2>2 DEF Terminal, IsHistory, Feed, Blank
<1>4. g[m] = h[m]
  <2>1. PICK l1, l2, n : l1 = log /\ l2 = log' /\ n = m
    OBVIOUS
  <2>2. IsHistory(g, l1, n) /\ IsHistory(h, l2, n + 1) /\ \A p \in 1 .. n : l1[p] = l2[p]
    BY <1>1, <1>2, <1>3, <2>1
  <2>3. n \in Nat
    BY <1>2, <2>1
  <2>4. g[n] = h[n]
    BY <2>2, <2>3, HistoriesAgree
  <2> QED BY <2>1, <2>4
<1>5. h[m + 1] = Feed(h[m], ch)
  BY <1>2, <1>3 DEF IsHistory
<1> QED BY <1>1, <1>2, <1>3, <1>4, <1>5

-----------------------------------------------------------------------------
(***************************************************************************)
(* What the terminal does to a picture, as putch goes about it.            *)
(***************************************************************************)
(* A column of a row on the screen is a cell of the screen.                *)
LEMMA OnScreenCell ==
  ASSUME NEW x, NEW y, OnScreen(x, y)
  PROVE  /\ y * COLS + x \in 0 .. ROWS * COLS - 1 /\ y * COLS + x \in Cells
         /\ y * COLS \in Int /\ x \in Int /\ y \in Int
<1>1. x \in Nat /\ y \in Nat /\ y <= ROWS
  BY Sizes DEF OnScreen
<1>2. y * COLS + x \in 0 .. ROWS * COLS - 1 /\ y * COLS \in 0 .. ROWS * COLS
  BY <1>1, RowOf
<1> QED BY <1>1, <1>2, Sizes, RowStarts DEF Cells

(* A character that shows, a tab, a backspace, a newline.                  *)
LEMMA MoveGlyph ==
  ASSUME NEW x, NEW y, OnScreen(x, y), NEW cell \in [Cells -> Symbol], NEW ch \in Glyph
  PROVE  /\ Move(Picture(x, y, cell), ch)
              = Picture(x + 1, y, [cell EXCEPT ![y * COLS + x] = ch])
         /\ NextX(ch, x) = x + 1
<1> DEFINE t == Picture(x, y, cell)
           w == y * COLS + x
           c == [cell EXCEPT ![w] = ch]
           s == [n \in 0 .. ROWS * COLS - 1 |-> cell[n]]
<1>1. w \in 0 .. ROWS * COLS - 1 /\ w \in Cells /\ x \in Int
  BY OnScreenCell
<1>2. ch \notin {NEWLINE, BACKSPACE, TABULATOR}
  BY Controls
<1>3. t.x = x /\ t.y = y /\ t.screen = s
  BY DEF Picture
<1>4. Move(t, ch) = [x |-> x + 1, y |-> y, screen |-> [s EXCEPT ![w] = ch]]
  <2>1. Move(t, ch) = [t EXCEPT !.x = @ + 1, !.screen[t.y * COLS + t.x] = ch]
    BY <1>2 DEF Move
  <2> QED BY <2>1 DEF Picture
<1>5. [s EXCEPT ![w] = ch] = [n \in 0 .. ROWS * COLS - 1 |-> c[n]]
  <2>1. 0 .. ROWS * COLS - 1 \subseteq Cells
    BY Sizes, RowStarts DEF Cells
  <2> HIDE DEF w
  <2> QED BY <1>1, <2>1
<1>6. NextX(ch, x) = x + 1
  BY <1>2 DEF NextX
<1> QED BY <1>4, <1>5, <1>6 DEF Picture

LEMMA MoveControl ==
  ASSUME NEW x \in 0 .. COLS - 1, NEW y, NEW cell
  PROVE  /\ Move(Picture(x, y, cell), NEWLINE) = Picture(0, y + 1, cell)
         /\ Move(Picture(x, y, cell), TABULATOR) = Picture(NextX(TABULATOR, x), y, cell)
         /\ Move(Picture(x, y, cell), BACKSPACE)
              = IF x = 0 THEN Picture(x, y, cell) ELSE Picture(NextX(BACKSPACE, x), y, cell)
<1> DEFINE t == Picture(x, y, cell)
           s == [n \in 0 .. ROWS * COLS - 1 |-> cell[n]]
<1>1. Move(t, NEWLINE) = Picture(0, y + 1, cell)
  BY DEF Move, Picture
<1>2. (x \div TAB + 1) * TAB = NextX(TABULATOR, x)
  <2> DEFINE q == x \div TAB
             m == x % TAB
  <2>1. q \in Int /\ m \in Int /\ x = TAB * q + m
    BY Sizes
  <2> HIDE DEF q, m
  <2>2. (q + 1) * TAB = x + TAB - m
    BY <2>1, Sizes
  <2> QED BY <2>2, Controls DEF NextX, q, m
<1>3. Move(t, TABULATOR) = Picture(NextX(TABULATOR, x), y, cell)
  <2>1. Move(t, TABULATOR) = [t EXCEPT !.x = (@ \div TAB + 1) * TAB]
    BY Controls DEF Move
  <2>2. Move(t, TABULATOR) = [x |-> (x \div TAB + 1) * TAB, y |-> y, screen |-> s]
    BY <2>1 DEF Picture
  <2> QED BY <1>2, <2>2 DEF Picture
<1>4. Move(t, BACKSPACE) = IF x = 0 THEN t ELSE Picture(NextX(BACKSPACE, x), y, cell)
  <2>1. Move(t, BACKSPACE) = [t EXCEPT !.x = IF @ = 0 THEN 0 ELSE @ - 1]
    BY Controls DEF Move
  <2>2. Move(t, BACKSPACE) = [x |-> IF x = 0 THEN 0 ELSE x - 1, y |-> y, screen |-> s]
    BY <2>1 DEF Picture
  <2>3. NextX(BACKSPACE, x) = x - 1
    BY Controls DEF NextX
  <2> QED BY <2>2, <2>3 DEF Picture
<1> QED BY <1>1, <1>3, <1>4

(* The end of a row, and of the screen.                                    *)
LEMMA PictureWraps ==
  ASSUME NEW x \in Int, NEW y \in Int, NEW cell
  PROVE  Wrapped(Picture(x, y, cell))
           = IF x >= COLS THEN Picture(0, y + 1, cell) ELSE Picture(x, y, cell)
<1> DEFINE t == Picture(x, y, cell)
<1>1. t.x = x
  BY DEF Picture
<1>2. Wrapped(t) = IF x >= COLS THEN [t EXCEPT !.x = 0, !.y = @ + 1] ELSE t
  BY <1>1 DEF Wrapped
<1>3. [t EXCEPT !.x = 0, !.y = @ + 1] = Picture(0, y + 1, cell)
  <2> DEFINE s == [n \in 0 .. ROWS * COLS - 1 |-> cell[n]]
             z == y + 1
  <2>1. t = [x |-> x, y |-> y, screen |-> s] /\ t.y = y
    BY DEF Picture
  <2>2. Picture(0, y + 1, cell) = [x |-> 0, y |-> z, screen |-> s]
    BY DEF Picture
  <2> HIDE DEF s, t
  <2>3. t.y + 1 = z
    BY <2>1
  <2> HIDE DEF z
  <2>4. [t EXCEPT !.x = 0, !.y = z] = [x |-> 0, y |-> z, screen |-> s]
    <3> DEFINE u == [t EXCEPT !.x = 0]
    <3>1. u = [x |-> 0, y |-> y, screen |-> s]
      BY <2>1
    <3> HIDE DEF u
    <3>2. [u EXCEPT !.y = z] = [x |-> 0, y |-> z, screen |-> s]
      BY <3>1
    <3> QED BY <3>2 DEF u
  <2>5. [t EXCEPT !.x = 0, !.y = @ + 1] = [t EXCEPT !.x = 0, !.y = z]
    BY <2>3, Zenon
  <2> QED BY <2>2, <2>4, <2>5
<1> QED BY <1>2, <1>3

LEMMA PictureStays ==
  ASSUME NEW x, NEW y \in 0 .. ROWS - 1, NEW cell
  PROVE  Scrolled(Picture(x, y, cell)) = Picture(x, y, cell)
BY Sizes DEF Scrolled, Picture

LEMMA PictureScrolls ==
  ASSUME NEW x, NEW cell
  PROVE  Scrolled(Picture(x, ROWS, cell)) = Copying(x, 0, cell)
<1> DEFINE t == Picture(x, ROWS, cell)
           b == ROWS * COLS
           a == (ROWS - 1) * COLS
<1>1. a \in Nat /\ b \in Nat /\ a + COLS = b
  BY RowStarts
<1>2. t.x = x /\ t.y = ROWS /\ t.screen = [n \in 0 .. b - 1 |-> cell[n]]
  BY DEF Picture
<1>3. Scrolled(t) = [t EXCEPT !.y = ROWS - 1,
                              !.screen = [n \in DOMAIN t.screen |->
                                            IF n + COLS \in DOMAIN t.screen
                                            THEN t.screen[n + COLS] ELSE BLANK]]
  BY <1>2, Sizes DEF Scrolled
<1> DEFINE s == [n \in DOMAIN t.screen |->
                   IF n + COLS \in DOMAIN t.screen THEN t.screen[n + COLS] ELSE BLANK]
           u == [n \in 0 .. b - 1 |-> IF n < 0 THEN cell[n]
                                      ELSE IF n < a THEN cell[n + COLS] ELSE BLANK]
<1>4. s = u
  <2>1. s = [n \in 0 .. b - 1 |-> IF n + COLS \in 0 .. b - 1 THEN cell[n + COLS] ELSE BLANK]
    BY <1>2
  <2> HIDE DEF s
  <2>2. \A n \in 0 .. b - 1 : n + COLS \in 0 .. b - 1 <=> n < a
    <3> HIDE DEF a, b
    <3> QED BY <1>1, Sizes
  <2> HIDE DEF a, b
  <2> QED BY <2>1, <2>2
<1>5. Scrolled(t) = [x |-> x, y |-> ROWS - 1, screen |-> s]
  <2> HIDE DEF s
  <2>1. Scrolled(t) = [t EXCEPT !.y = ROWS - 1, !.screen = s]
    BY <1>3 DEF s
  <2> QED BY <2>1 DEF Picture
<1> QED BY <1>4, <1>5 DEF Copying

(* One cell of the copy, and its end.                                      *)
LEMMA CopyingGoes ==
  ASSUME NEW x, NEW k \in 0 .. ROWS * COLS - 1, NEW cell \in [Cells -> Symbol]
  PROVE  LET v == IF k < (ROWS - 1) * COLS THEN cell[k + COLS] ELSE BLANK
         IN  Copying(x, k, cell) = Copying(x, k + 1, [cell EXCEPT ![k] = v])
<1> DEFINE b == ROWS * COLS
           a == (ROWS - 1) * COLS
           v == IF k < a THEN cell[k + COLS] ELSE BLANK
           c == [cell EXCEPT ![k] = v]
           s1 == [n \in 0 .. b - 1 |-> IF n < k THEN cell[n]
                                       ELSE IF n < a THEN cell[n + COLS] ELSE BLANK]
           s2 == [n \in 0 .. b - 1 |-> IF n < k + 1 THEN c[n]
                                       ELSE IF n < a THEN c[n + COLS] ELSE BLANK]
<1>1. a \in Nat /\ b \in Nat /\ a + COLS = b /\ 0 .. b - 1 \subseteq Cells /\ k \in 0 .. b - 1
  BY Sizes, RowStarts DEF Cells
<1>2. ASSUME NEW n \in 0 .. b - 1 PROVE s1[n] = s2[n]
  <2> HIDE DEF a, b
  <2>1. k \in Cells /\ n \in Cells /\ c \in [Cells -> {c[m] : m \in Cells}] /\ c[k] = v
        /\ \A m \in Cells : m # k => c[m] = cell[m]
    BY <1>1
  <2>2. CASE n < k
    BY <1>1, <2>1, <2>2
  <2>3. CASE n = k
    BY <1>1, <2>1, <2>3
  <2>4. CASE n > k
    <3>1. n < a => n + COLS \in Cells /\ n + COLS # k
      BY <1>1, <2>4, Sizes
    <3> HIDE DEF c
    <3> QED BY <1>1, <2>1, <2>4, <3>1
  <2> QED BY <1>1, <2>2, <2>3, <2>4
<1>3. s1 = s2
  <2> HIDE DEF a, b, c
  <2> QED BY <1>2
<1> HIDE DEF s1, s2
<1>4. /\ Copying(x, k, cell) = [x |-> x, y |-> ROWS - 1, screen |-> s1]
      /\ Copying(x, k + 1, c) = [x |-> x, y |-> ROWS - 1, screen |-> s2]
  BY DEF Copying, s1, s2
<1> QED BY <1>3, <1>4

LEMMA CopyingEnds ==
  ASSUME NEW x, NEW cell
  PROVE  Copying(x, ROWS * COLS, cell) = Picture(x, ROWS - 1, cell)
<1> DEFINE b == ROWS * COLS
           s == [n \in 0 .. b - 1 |->
                   IF n < b THEN cell[n]
                   ELSE IF n < (ROWS - 1) * COLS THEN cell[n + COLS] ELSE BLANK]
<1>1. b \in Nat
  BY RowStarts
<1>2. s = [n \in 0 .. b - 1 |-> cell[n]]
  <2>1. \A n \in 0 .. b - 1 : n < b
    <3> HIDE DEF b
    <3> QED BY <1>1
  <2> HIDE DEF b
  <2> QED BY <2>1
<1> QED BY <1>2 DEF Copying, Picture

-----------------------------------------------------------------------------
(***************************************************************************)
(* The steps.                                                              *)
(***************************************************************************)
(* What a step of putch must show.                                         *)
LEMMA ShowingGoes ==
  ASSUME Typed, Showing, NEW c \in Context, NEW pc, NEW next,
         NEW r, NEW where, NEW k, NEW back, Goes(c, pc, next, r, where, k, back),
         pc # "idle", next # "idle",
         ~raced => Shown(next, Head(frame[c].text), r, where, k, vga'.x, vga'.y, vga'.cell,
                         Terminal)
  PROVE  Showing'
<1>1. SUFFICES ASSUME ~raced PROVE Showing'
  BY Zenon DEF Goes, Showing
<1>2. /\ frame[c].pc = pc /\ frame'[c].pc = next /\ frame'[c].text = frame[c].text
      /\ frame'[c].r = r /\ frame'[c].where = where /\ frame'[c].k = k
      /\ \A d \in Context \ {c} : frame'[d] = frame[d]
      /\ log' = log
  BY Zenon DEF Goes
<1>3. \A d \in Context \ {c} : frame'[d].pc = "idle"
  BY <1>1, <1>2 DEF Showing, Context
<1>4. Terminal' = Terminal
  BY <1>2 DEF Terminal
<1>5. ShownBy(frame[c])'
  BY <1>1, <1>2, <1>4, Zenon DEF ShownBy
<1>6. ~Quiet'
  BY <1>2 DEF Quiet
<1> QED BY <1>3, <1>5, <1>6 DEF Showing, Context

(* What it finds.                                                          *)
LEMMA ShowingFinds ==
  ASSUME Typed, Bounded, Showing, ~raced, NEW c \in Context, frame[c].pc # "idle"
  PROVE  LET f == frame[c]
         IN  /\ Shown(f.pc, Head(f.text), f.r, f.where, f.k, vga.x, vga.y, vga.cell, Terminal)
             /\ vga.cell \in [Cells -> Symbol] /\ vga.x \in Int /\ vga.y \in Int
             /\ f.back \in {"wrap", "scroll"} /\ f.k \in Int /\ f.r \in Int
             /\ Head(f.text) \in Glyph \cup Control /\ Fitting(f)
<1>1. ShownBy(frame[c])
  BY DEF Showing
<1>2. frame[c].text \in Seq(Glyph \cup Control) /\ frame[c].text # <<>> /\ Fitting(frame[c])
  BY Values DEF Typed, Fitting
<1>3. Head(frame[c].text) \in Glyph \cup Control
  BY <1>2, HeadTailProperties
<1> QED BY <1>1, <1>2, <1>3, Values, Zenon DEF ShownBy, Bounded

(* Each step of putch leaves to the rest of it what it must.               *)
LEMMA PutchShows ==
  ASSUME IInv, Showing, NEW c \in Context, Putch(c), ~Return(c)
  PROVE  Showing'
<1> DEFINE f == frame[c]
           ch == Head(f.text)
           Found == /\ Shown(f.pc, ch, f.r, f.where, f.k, vga.x, vga.y, vga.cell, Terminal)
                    /\ vga.cell \in [Cells -> Symbol] /\ vga.x \in Int /\ vga.y \in Int
                    /\ f.back \in {"wrap", "scroll"} /\ f.k \in Int /\ f.r \in Int
<1>1. Typed /\ Bounded /\ Showing
  BY DEF IInv
<1>3. CASE WhereY(c)
  <2>1. /\ Goes(c, "where_y", "where_x", f.r, vga.y * COLS, f.k, f.back)
        /\ vga' = vga
    BY <1>1, <1>3, WhereSteps
  <2>2. f.pc = "where_y"
    BY <2>1 DEF Goes
  <2>3. ~raced => Found
    BY <1>1, <2>2, ShowingFinds
  <2>4. ASSUME ~raced
        PROVE  Shown("where_x", ch,
                     f.r, vga.y * COLS, f.k, vga.x, vga.y, vga.cell, Terminal)
    BY <2>2, <2>3, <2>4 DEF Shown, Aiming, Moving, Falling, Scrolling, Placing
  <2> QED BY <1>1, <2>1, <2>4, ShowingGoes
<1>4. CASE WhereX(c)
  <2>1. /\ Goes(c, "where_x", "store", f.r, f.where + vga.x, f.k, f.back)
        /\ vga' = vga
    BY <1>1, <1>4, WhereSteps
  <2>2. f.pc = "where_x"
    BY <2>1 DEF Goes
  <2>3. ~raced => Found
    BY <1>1, <2>2, ShowingFinds
  <2>4. ASSUME ~raced
        PROVE  Shown("store", ch,
                     f.r, f.where + vga.x, f.k, vga.x, vga.y, vga.cell, Terminal)
    BY <2>2, <2>3, <2>4 DEF Shown, Aiming, Moving, Falling, Scrolling, Placing
  <2> QED BY <1>1, <2>1, <2>4, ShowingGoes
<1>5. CASE Store(c)
  <2>1. /\ Goes(c, "store", "load_x", f.r, f.where, f.k, f.back)
        /\ OnlyCell(f.where, Char(c))
    BY <1>1, <1>5, StoreSteps
  <2>2. f.pc = "store"
    BY <2>1 DEF Goes
  <2>3. ~raced => Found
    BY <1>1, <2>2, ShowingFinds
  <2>4. ASSUME ~raced
        PROVE  Shown("load_x", ch,
                     f.r, f.where, f.k, vga.x, vga.y, [vga.cell EXCEPT ![f.where] = ch], Terminal)
    <3>1. ch \in Glyph
      BY <1>1, <2>2 DEF Typed, Fitting, Aiming
    <3>2. /\ OnScreen(vga.x, vga.y) /\ f.where = vga.y * COLS + vga.x
          /\ Terminal = Feed(Picture(vga.x, vga.y, vga.cell), ch)
      BY <2>2, <2>3, <2>4 DEF Shown, Aiming
    <3>3. /\ Terminal = Scrolled(Wrapped(Picture(NextX(ch, vga.x), vga.y,
                                                [vga.cell EXCEPT ![f.where] = ch])))
          /\ NextX(ch, vga.x) = vga.x + 1 /\ vga.x >= 0
      BY <2>2, <2>3, <2>4, <3>1, <3>2, MoveGlyph, OnScreenCell DEF Feed, OnScreen
    <3> QED BY <2>2, <2>3, <2>4, <3>2, <3>3 DEF Shown, Aiming, Moving, Falling, Scrolling, Placing
  <2> QED BY <1>1, <2>1, <2>4, ShowingGoes DEF OnlyCell, Only, Char
<1>6. CASE LoadX(c)
  <2>1. /\ Goes(c, "load_x", "set_x", vga.x, f.where, f.k, f.back)
        /\ vga' = vga
    BY <1>1, <1>6, LoadSteps
  <2>2. f.pc = "load_x"
    BY <2>1 DEF Goes
  <2>3. ~raced => Found
    BY <1>1, <2>2, ShowingFinds
  <2>4. ASSUME ~raced
        PROVE  Shown("set_x", ch,
                     vga.x, f.where, f.k, vga.x, vga.y, vga.cell, Terminal)
    BY <2>2, <2>3, <2>4 DEF Shown, Aiming, Moving, Falling, Scrolling, Placing
  <2> QED BY <1>1, <2>1, <2>4, ShowingGoes
<1>7. CASE SetX(c)
  <2>1. /\ Goes(c, "set_x", "wrap", f.r, f.where, f.k, f.back)
        /\ OnlyX(NextX(Char(c), f.r))
    BY <1>1, <1>7, StoreSteps
  <2>2. f.pc = "set_x"
    BY <2>1 DEF Goes
  <2>3. ~raced => Found
    BY <1>1, <2>2, ShowingFinds
  <2>4. ASSUME ~raced
        PROVE  Shown("wrap", ch,
                     f.r, f.where, f.k, NextX(ch, f.r), vga.y, vga.cell, Terminal)
    <3>1. /\ OnScreen(vga.x, vga.y) /\ f.r = vga.x /\ NextX(ch, vga.x) >= 0
          /\ Terminal = Scrolled(Wrapped(Picture(NextX(ch, vga.x), vga.y, vga.cell)))
      BY <2>2, <2>3, <2>4 DEF Shown, Moving
    <3>2. NextX(ch, vga.x) \in 0 .. COLS + TAB
      BY <3>1, NextColumn, Sizes DEF OnScreen
    <3>3. vga.y \in 0 .. ROWS /\ vga.y < ROWS
      BY <3>1, Sizes DEF OnScreen
    <3> QED BY <3>1, <3>2, <3>3 DEF Shown, Aiming, Moving, Falling, Scrolling, Placing
  <2> QED BY <1>1, <2>1, <2>4, ShowingGoes DEF OnlyX, Only, Char
<1>8. CASE ZeroX(c)
  <2>1. /\ Goes(c, "zero_x", "load_y", f.r, f.where, f.k, f.back)
        /\ OnlyX(0)
    BY <1>1, <1>8, StoreSteps
  <2>2. f.pc = "zero_x"
    BY <2>1 DEF Goes
  <2>3. ~raced => Found
    BY <1>1, <2>2, ShowingFinds
  <2>4. ASSUME ~raced
        PROVE  Shown("load_y", ch, f.r, f.where, f.k, 0, vga.y, vga.cell, Terminal)
    BY <2>2, <2>3, <2>4 DEF Shown, Aiming, Moving, Falling, Scrolling, Placing
  <2> QED BY <1>1, <2>1, <2>4, ShowingGoes DEF OnlyX, Only
<1>9. CASE LoadY(c)
  <2>1. /\ Goes(c, "load_y", "set_y", vga.y, f.where, f.k, f.back)
        /\ vga' = vga
    BY <1>1, <1>9, LoadSteps
  <2>2. f.pc = "load_y"
    BY <2>1 DEF Goes
  <2>3. ~raced => Found
    BY <1>1, <2>2, ShowingFinds
  <2>4. ASSUME ~raced
        PROVE  Shown("set_y", ch,
                     vga.y, f.where, f.k, vga.x, vga.y, vga.cell, Terminal)
    BY <2>2, <2>3, <2>4 DEF Shown, Aiming, Moving, Falling, Scrolling, Placing
  <2> QED BY <1>1, <2>1, <2>4, ShowingGoes
<1>10. CASE SetY(c)
  <2>1. /\ Goes(c, "set_y", f.back, f.r, f.where, f.k, f.back)
        /\ OnlyY(f.r + 1)
    BY <1>1, <1>10, SetYStep
  <2>2. f.pc = "set_y"
    BY <2>1 DEF Goes
  <2>3. ~raced => Found
    BY <1>1, <2>2, ShowingFinds
  <2>4. ASSUME ~raced
        PROVE  Shown(f.back, ch,
                     f.r, f.where, f.k, vga.x, f.r + 1, vga.cell, Terminal)
    <3>1. /\ vga.x = 0 /\ f.r = vga.y /\ vga.y \in 0 .. ROWS - 1
          /\ Terminal = Scrolled(Picture(0, vga.y + 1, vga.cell))
      BY <2>2, <2>3, <2>4 DEF Shown, Falling
    <3>2. Wrapped(Picture(0, vga.y + 1, vga.cell)) = Picture(0, vga.y + 1, vga.cell)
      BY <3>1, Sizes, PictureWraps
    <3>3. 0 \in 0 .. COLS + TAB /\ 0 \in 0 .. COLS - 1 /\ vga.y + 1 \in 0 .. ROWS /\ ~(0 >= COLS)
      BY <3>1, Sizes
    <3> QED BY <2>2, <2>3, <2>4, <3>1, <3>2, <3>3 DEF Shown, Aiming, Moving, Falling, Scrolling, Placing
  <2>5. f.back # "idle"
    BY <1>1, Values
  <2> QED BY <1>1, <2>1, <2>4, <2>5, ShowingGoes DEF OnlyY, Only
<1>11. CASE Wrap(c)
  <2>1. /\ Goes(c, "wrap", IF vga.x >= COLS THEN "zero_x" ELSE "scroll",
             f.r, f.where, f.k, "scroll")
        /\ vga' = vga
    BY <1>1, <1>11, WrapStep
  <2>2. f.pc = "wrap"
    BY <2>1 DEF Goes
  <2>3. ~raced => Found
    BY <1>1, <2>2, ShowingFinds
  <2>4. ASSUME ~raced
        PROVE  Shown(IF vga.x >= COLS THEN "zero_x" ELSE "scroll", ch,
                     f.r, f.where, f.k, vga.x, vga.y, vga.cell, Terminal)
    <3>1. /\ vga.x \in 0 .. COLS + TAB /\ vga.y \in 0 .. ROWS /\ (vga.x >= COLS => vga.y < ROWS)
          /\ Terminal = Scrolled(Wrapped(Picture(vga.x, vga.y, vga.cell)))
      BY <2>2, <2>3, <2>4 DEF Shown
    <3>2. Wrapped(Picture(vga.x, vga.y, vga.cell))
            = IF vga.x >= COLS THEN Picture(0, vga.y + 1, vga.cell)
              ELSE Picture(vga.x, vga.y, vga.cell)
      BY <2>2, <2>3, <2>4, PictureWraps
    <3>3. CASE vga.x >= COLS
      <4>1. vga.y \in 0 .. ROWS - 1
        BY <3>1, <3>3, Sizes
      <4> QED BY <3>1, <3>2, <3>3, <4>1 DEF Shown, Aiming, Moving, Falling, Scrolling, Placing
    <3>4. CASE ~(vga.x >= COLS)
      <4>1. vga.x \in 0 .. COLS - 1
        BY <3>1, <3>4, Sizes
      <4> QED BY <3>1, <3>2, <3>4, <4>1 DEF Shown, Aiming, Moving, Falling, Scrolling, Placing
    <3> QED BY <3>3, <3>4
  <2> QED BY <1>1, <2>1, <2>4, ShowingGoes
<1>12. CASE Scroll(c)
  <2>1. /\ Goes(c, "scroll", IF vga.y >= ROWS THEN "lines" ELSE "cursor_y",
             f.r, f.where, f.k, f.back)
        /\ vga' = vga
    BY <1>1, <1>12, TestSteps
  <2>2. f.pc = "scroll"
    BY <2>1 DEF Goes
  <2>3. ~raced => Found
    BY <1>1, <2>2, ShowingFinds
  <2>4. ASSUME ~raced
        PROVE  Shown(IF vga.y >= ROWS THEN "lines" ELSE "cursor_y", ch,
                     f.r, f.where, f.k, vga.x, vga.y, vga.cell, Terminal)
    <3>1. /\ vga.x \in 0 .. COLS - 1 /\ vga.y \in 0 .. ROWS
          /\ Terminal = Scrolled(Picture(vga.x, vga.y, vga.cell))
      BY <2>2, <2>3, <2>4 DEF Shown, Scrolling
    <3>2. CASE vga.y >= ROWS
      <4>1. vga.y = ROWS
        BY <3>1, <3>2, Sizes
      <4> QED BY <3>1, <3>2, <4>1 DEF Shown, Aiming, Moving, Falling, Scrolling, Placing
    <3>3. CASE ~(vga.y >= ROWS)
      <4>1. OnScreen(vga.x, vga.y) /\ vga.y \in 0 .. ROWS - 1
        BY <3>1, <3>3, Sizes DEF OnScreen
      <4>2. Terminal = Picture(vga.x, vga.y, vga.cell)
        BY <3>1, <4>1, PictureStays
      <4> QED BY <3>3, <4>1, <4>2 DEF Shown, Aiming, Moving, Falling, Scrolling, Placing
    <3> QED BY <3>2, <3>3
  <2> QED BY <1>1, <2>1, <2>4, ShowingGoes
<1>13. CASE Lines(c)
  <2>1. /\ Goes(c, "lines", "copy", vga.y - ROWS + 1, f.where, 0, f.back)
        /\ vga' = vga
    BY <1>1, <1>13, LinesStep
  <2>2. f.pc = "lines"
    BY <2>1 DEF Goes
  <2>3. ~raced => Found
    BY <1>1, <2>2, ShowingFinds
  <2>4. ASSUME ~raced
        PROVE  Shown("copy", ch,
                     vga.y - ROWS + 1, f.where, 0, vga.x, vga.y, vga.cell, Terminal)
    <3>1. /\ vga.x \in 0 .. COLS - 1 /\ vga.y = ROWS
          /\ Terminal = Scrolled(Picture(vga.x, vga.y, vga.cell))
      BY <2>2, <2>3, <2>4 DEF Shown, Scrolling
    <3>2. Terminal = Copying(vga.x, 0, vga.cell)
      BY <3>1, PictureScrolls
    <3>3. 0 \in 0 .. ROWS * COLS - 1 /\ vga.y - ROWS + 1 = 1 /\ ROWS \in 0 .. ROWS
      BY <3>1, Sizes, RowStarts
    <3> QED BY <3>1, <3>2, <3>3 DEF Shown, Aiming, Moving, Falling, Scrolling, Placing
  <2> QED BY <1>1, <2>1, <2>4, ShowingGoes
<1>14. CASE Copy(c)
  <2> DEFINE v == IF f.k < (ROWS - f.r) * COLS THEN vga.cell[f.k + f.r * COLS] ELSE BLANK
             next == IF f.k + 1 = (ROWS - f.r) * COLS + COLS THEN "last_row" ELSE "copy"
             cell == [vga.cell EXCEPT ![f.k] = v]
  <2>1. Goes(c, "copy", next, f.r, f.where, f.k + 1, f.back) /\ OnlyCell(f.k, v)
    BY <1>1, <1>14, CopyStep
  <2>2. f.pc = "copy"
    BY <2>1 DEF Goes
  <2>3. ~raced => Found
    BY <1>1, <2>2, ShowingFinds
  <2>4. ASSUME ~raced
        PROVE  Shown(next, ch, f.r, f.where, f.k + 1, vga.x, vga.y, cell, Terminal)
    <3>1. /\ vga.x \in 0 .. COLS - 1 /\ vga.y = ROWS /\ f.r = 1 /\ f.k \in 0 .. ROWS * COLS - 1
          /\ Terminal = Copying(vga.x, f.k, vga.cell)
      BY <2>2, <2>3, <2>4 DEF Shown, Scrolling
    <3>2. (ROWS - f.r) * COLS = (ROWS - 1) * COLS /\ f.r * COLS = COLS
          /\ (ROWS - 1) * COLS + COLS = ROWS * COLS
      BY <3>1, Sizes, RowStarts
    <3>3. v = IF f.k < (ROWS - 1) * COLS THEN vga.cell[f.k + COLS] ELSE BLANK
      BY <3>2
    <3>4. Terminal = Copying(vga.x, f.k + 1, cell)
      BY <2>3, <2>4, <3>1, <3>3, CopyingGoes
    <3>5. next = IF f.k + 1 = ROWS * COLS THEN "last_row" ELSE "copy"
      BY <3>2
    <3> HIDE DEF v, next, cell
    <3>6. CASE f.k + 1 = ROWS * COLS
      <4>1. Terminal = Picture(vga.x, ROWS - 1, cell)
        BY <3>4, <3>6, CopyingEnds
      <4> QED BY <3>1, <3>5, <3>6, <4>1, Sizes DEF Shown, Aiming, Moving, Falling, Scrolling, Placing
    <3>7. CASE f.k + 1 # ROWS * COLS
      <4>1. f.k + 1 \in 0 .. ROWS * COLS - 1
        <5> DEFINE e == ROWS * COLS
        <5>1. e \in Int /\ f.k \in 0 .. e - 1 /\ f.k + 1 # e
          BY <3>1, <3>7, RowStarts
        <5> HIDE DEF e
        <5> QED BY <5>1 DEF e
      <4> QED BY <3>1, <3>4, <3>5, <3>7, <4>1, Sizes
              DEF Shown, Aiming, Moving, Falling, Scrolling, Placing
    <3> QED BY <3>6, <3>7
  <2>5. next # "idle"
    OBVIOUS
  <2> HIDE DEF v, next
  <2> QED BY <1>1, <2>1, <2>4, <2>5, ShowingGoes DEF OnlyCell, Only, cell
<1>15. CASE LastRow(c)
  <2>1. /\ Goes(c, "last_row", "cursor_y", f.r, f.where, f.k, f.back)
        /\ OnlyY(ROWS - 1)
    BY <1>1, <1>15, StoreSteps
  <2>2. f.pc = "last_row"
    BY <2>1 DEF Goes
  <2>3. ~raced => Found
    BY <1>1, <2>2, ShowingFinds
  <2>4. ASSUME ~raced
        PROVE  Shown("cursor_y", ch,
                     f.r, f.where, f.k, vga.x, ROWS - 1, vga.cell, Terminal)
    <3>1. OnScreen(vga.x, ROWS - 1) /\ Terminal = Picture(vga.x, ROWS - 1, vga.cell)
      BY <2>2, <2>3, <2>4, Sizes DEF Shown, Scrolling, OnScreen
    <3> QED BY <3>1 DEF Shown, Aiming, Moving, Falling, Scrolling, Placing
  <2> QED BY <1>1, <2>1, <2>4, ShowingGoes DEF OnlyY, Only
<1>16. CASE CursorY(c)
  <2>1. /\ Goes(c, "cursor_y", "cursor_x", vga.y * COLS, f.where, f.k, f.back)
        /\ vga' = vga
    BY <1>1, <1>16, LoadSteps
  <2>2. f.pc = "cursor_y"
    BY <2>1 DEF Goes
  <2>3. ~raced => Found
    BY <1>1, <2>2, ShowingFinds
  <2>4. ASSUME ~raced
        PROVE  Shown("cursor_x", ch,
                     vga.y * COLS, f.where, f.k, vga.x, vga.y, vga.cell, Terminal)
    BY <2>2, <2>3, <2>4 DEF Shown, Aiming, Moving, Falling, Scrolling, Placing
  <2> QED BY <1>1, <2>1, <2>4, ShowingGoes
<1>17. CASE CursorX(c)
  <2>1. /\ Goes(c, "cursor_x", "select_high", f.r + vga.x, f.where, f.k, f.back)
        /\ vga' = vga
    BY <1>1, <1>17, LoadSteps
  <2>2. f.pc = "cursor_x"
    BY <2>1 DEF Goes
  <2>3. ~raced => Found
    BY <1>1, <2>2, ShowingFinds
  <2>4. ASSUME ~raced
        PROVE  Shown("select_high", ch,
                     f.r + vga.x, f.where, f.k, vga.x, vga.y, vga.cell, Terminal)
    BY <2>2, <2>3, <2>4 DEF Shown, Aiming, Moving, Falling, Scrolling, Placing
  <2> QED BY <1>1, <2>1, <2>4, ShowingGoes
<1>18. CASE SelectHigh(c)
  <2>1. /\ Goes(c, "select_high", "write_high", f.r, f.where, f.k, f.back)
        /\ Only("index")
    BY <1>1, <1>18, PortSteps DEF OnlyIndex, OnlyRegister, OnlyCell
  <2>2. f.pc = "select_high"
    BY <2>1 DEF Goes
  <2>3. ~raced => Found
    BY <1>1, <2>2, ShowingFinds
  <2>4. ASSUME ~raced
        PROVE  Shown("write_high", ch,
                     f.r, f.where, f.k, vga.x, vga.y, vga.cell, Terminal)
    BY <2>2, <2>3, <2>4 DEF Shown, Aiming, Moving, Falling, Scrolling, Placing
  <2> QED BY <1>1, <2>1, <2>4, ShowingGoes DEF Only
<1>19. CASE WriteHigh(c)
  <2>1. /\ Goes(c, "write_high", "select_low", f.r, f.where, f.k, f.back)
        /\ Only("register")
    BY <1>1, <1>19, PortSteps DEF OnlyIndex, OnlyRegister, OnlyCell
  <2>2. f.pc = "write_high"
    BY <2>1 DEF Goes
  <2>3. ~raced => Found
    BY <1>1, <2>2, ShowingFinds
  <2>4. ASSUME ~raced
        PROVE  Shown("select_low", ch,
                     f.r, f.where, f.k, vga.x, vga.y, vga.cell, Terminal)
    BY <2>2, <2>3, <2>4 DEF Shown, Aiming, Moving, Falling, Scrolling, Placing
  <2> QED BY <1>1, <2>1, <2>4, ShowingGoes DEF Only
<1>20. CASE SelectLow(c)
  <2>1. /\ Goes(c, "select_low", "write_low", f.r, f.where, f.k, f.back)
        /\ Only("index")
    BY <1>1, <1>20, PortSteps DEF OnlyIndex, OnlyRegister, OnlyCell
  <2>2. f.pc = "select_low"
    BY <2>1 DEF Goes
  <2>3. ~raced => Found
    BY <1>1, <2>2, ShowingFinds
  <2>4. ASSUME ~raced
        PROVE  Shown("write_low", ch,
                     f.r, f.where, f.k, vga.x, vga.y, vga.cell, Terminal)
    BY <2>2, <2>3, <2>4 DEF Shown, Aiming, Moving, Falling, Scrolling, Placing
  <2> QED BY <1>1, <2>1, <2>4, ShowingGoes DEF Only
<1>21. CASE WriteLow(c)
  <2>1. /\ Goes(c, "write_low", "done", f.r, f.where, f.k, f.back)
        /\ Only("register")
    BY <1>1, <1>21, PortSteps DEF OnlyIndex, OnlyRegister, OnlyCell
  <2>2. f.pc = "write_low"
    BY <2>1 DEF Goes
  <2>3. ~raced => Found
    BY <1>1, <2>2, ShowingFinds
  <2>4. ASSUME ~raced
        PROVE  Shown("done", ch, f.r, f.where, f.k, vga.x, vga.y, vga.cell, Terminal)
    BY <2>2, <2>3, <2>4 DEF Shown, Aiming, Moving, Falling, Scrolling, Placing
  <2> QED BY <1>1, <2>1, <2>4, ShowingGoes DEF Only
<1>22. CASE TestX(c)
  <2>1. /\ Goes(c, "test_x", IF vga.x # 0 THEN "load_x" ELSE "wrap",
             f.r, f.where, f.k, f.back)
        /\ vga' = vga
    BY <1>1, <1>22, TestSteps
  <2>2. f.pc = "test_x"
    BY <2>1 DEF Goes
  <2>3. ~raced => Found
    BY <1>1, <2>2, ShowingFinds
  <2>4. ASSUME ~raced
        PROVE  Shown(IF vga.x # 0 THEN "load_x" ELSE "wrap", ch,
                     f.r, f.where, f.k, vga.x, vga.y, vga.cell, Terminal)
    <3>1. ch = BACKSPACE
      BY <1>1, <2>2 DEF Typed, Fitting
    <3>2. /\ OnScreen(vga.x, vga.y)
          /\ Terminal = Feed(Picture(vga.x, vga.y, vga.cell), BACKSPACE)
      BY <2>2, <2>3, <2>4, <3>1 DEF Shown
    <3>3. vga.x \in 0 .. COLS - 1 /\ vga.y \in 0 .. ROWS - 1
      BY <3>2 DEF OnScreen
    <3>4. Move(Picture(vga.x, vga.y, vga.cell), BACKSPACE)
            = IF vga.x = 0 THEN Picture(vga.x, vga.y, vga.cell)
              ELSE Picture(NextX(BACKSPACE, vga.x), vga.y, vga.cell)
      BY <3>3, MoveControl
    <3>5. CASE vga.x # 0
      <4>1. NextX(ch, vga.x) = vga.x - 1 /\ vga.x - 1 >= 0
        BY <3>1, <3>3, <3>5, NextColumn, Sizes
      <4> QED BY <3>1, <3>2, <3>4, <3>5, <4>1 DEF Shown, Aiming, Moving, Falling, Scrolling, Placing, Feed
    <3>6. CASE vga.x = 0
      <4>1. vga.x \in 0 .. COLS + TAB /\ vga.y \in 0 .. ROWS /\ vga.y < ROWS
        BY <3>3, Sizes
      <4> QED BY <3>2, <3>4, <3>6, <4>1 DEF Shown, Aiming, Moving, Falling, Scrolling, Placing, Feed
    <3> QED BY <3>5, <3>6
  <2> QED BY <1>1, <2>1, <2>4, ShowingGoes
<1> QED
  BY <1>3, <1>4, <1>5, <1>6, <1>7, <1>8, <1>9, <1>10, <1>11, <1>12, <1>13, <1>14,
     <1>15, <1>16, <1>17, <1>18, <1>19, <1>20, <1>21, <1>22 DEF Putch

(* Where putch of a character starts, all of it is still to come.          *)
LEMMA PutchStarts ==
  ASSUME NEW x, NEW y, OnScreen(x, y), NEW cell,
         NEW text \in Seq(Glyph \cup Control), text # <<>>
  PROVE  LET a == Enter(text)
         IN  Shown(a.pc, Head(text), a.r, a.where, a.k, x, y, cell,
                   Feed(Picture(x, y, cell), Head(text)))
<1> DEFINE a == Enter(text)
           ch == Head(text)
           t == Feed(Picture(x, y, cell), ch)
<1>1. /\ ch \in Glyph => a.pc = "where_y"
      /\ ch = BACKSPACE => a.pc = "test_x"
      /\ ch = TABULATOR => a.pc = "load_x"
      /\ ch = NEWLINE => a.pc = "zero_x"
      /\ ch \in Glyph \cup Control
  BY EnterEffect
<1>2. x \in 0 .. COLS - 1 /\ y \in 0 .. ROWS - 1
  BY DEF OnScreen
<1> HIDE DEF a, ch
<1> SUFFICES Shown(a.pc, ch, a.r, a.where, a.k, x, y, cell, t)
  BY DEF a, ch
<1>3. CASE ch \in Glyph \/ ch = BACKSPACE
  BY <1>1, <1>3 DEF Shown, Aiming, Moving, Falling, Scrolling, Placing
<1>4. CASE ch = TABULATOR
  <2>1. t = Scrolled(Wrapped(Picture(NextX(ch, x), y, cell)))
    <3>1. Move(Picture(x, y, cell), TABULATOR) = Picture(NextX(TABULATOR, x), y, cell)
      BY <1>2, MoveControl
    <3> QED BY <1>4, <3>1 DEF Feed
  <2>2. NextX(ch, x) >= 0
    <3>1. x \in 0 .. COLS /\ TABULATOR # BACKSPACE
      BY <1>2, Sizes, Controls
    <3> QED BY <1>4, <3>1, NextColumn
  <2> HIDE DEF t
  <2> QED BY <1>1, <1>4, <2>1, <2>2 DEF Shown, Aiming, Moving, Falling, Scrolling, Placing
<1>5. CASE ch = NEWLINE
  <2>1. t = Scrolled(Wrapped(Picture(0, y + 1, cell)))
    <3>1. Move(Picture(x, y, cell), NEWLINE) = Picture(0, y + 1, cell)
      BY <1>2, MoveControl
    <3> QED BY <1>5, <3>1 DEF Feed
  <2>2. Wrapped(Picture(0, y + 1, cell)) = Picture(0, y + 1, cell)
    <3>1. 0 \in Int /\ y + 1 \in Int /\ ~(0 >= COLS)
      BY <1>2, Sizes
    <3> QED BY <3>1, PictureWraps
  <2>3. t = Scrolled(Picture(0, y + 1, cell))
    BY <2>1, <2>2
  <2> HIDE DEF t
  <2> QED BY <1>1, <1>2, <1>5, <2>3 DEF Shown, Aiming, Moving, Falling, Scrolling, Placing
<1> QED BY <1>1, <1>3, <1>4, <1>5 DEF Control

(* A putch starts on the screen, while no other one is at work.            *)
LEMMA ShowingEnters ==
  ASSUME log \in Seq(Glyph \cup Control), NEW c \in Context,
         NEW text \in Seq(Glyph \cup Control), text # <<>>,
         frame'[c] = Enter(text), vga' = vga, log' = Append(log, Head(text)),
         ~raced' => /\ \A d \in Context \ {c} : frame'[d].pc = "idle"
                    /\ OnScreen(vga.x, vga.y)
                    /\ Terminal = Picture(vga.x, vga.y, vga.cell)
  PROVE  Showing' /\ log' \in Seq(Glyph \cup Control)
<1>1. Head(text) \in Glyph \cup Control
  BY HeadTailProperties
<1>2. log' \in Seq(Glyph \cup Control)
  BY <1>1, AppendProperties
<1>3. SUFFICES ASSUME ~raced' PROVE Showing'
  BY <1>2 DEF Showing
<1>4. Terminal' = Feed(Terminal, Head(text))
  BY <1>1, TerminalGrows
<1>5. PICK x, y, cell : x = vga.x /\ y = vga.y /\ cell = vga.cell
  OBVIOUS
<1>6. OnScreen(x, y) /\ Terminal = Picture(x, y, cell)
  BY <1>3, <1>5
<1> DEFINE a == Enter(text)
<1>7. Shown(a.pc, Head(text), a.r, a.where, a.k, x, y, cell, Terminal')
  BY <1>4, <1>6, PutchStarts
<1>8. a.text = text /\ a.pc # "idle"
  BY EnterEffect
<1> HIDE DEF a
<1>9. frame'[c] = a
  BY DEF a
<1>10. ShownBy(frame[c])'
  BY <1>5, <1>7, <1>8, <1>9, Zenon DEF ShownBy
<1>11. ~Quiet'
  BY <1>8, <1>9 DEF Quiet
<1> QED BY <1>3, <1>10, <1>11 DEF Showing, Context

(* When no putch is at work, the screen is the terminal.                   *)
LEMMA QuietShows ==
  ASSUME Showing, ~raced, Quiet
  PROVE  OnScreen(vga.x, vga.y) /\ Terminal = Picture(vga.x, vga.y, vga.cell)
<1>1. Shown("idle", BLANK, 0, 0, 0, vga.x, vga.y, vga.cell, Terminal)
  BY DEF Showing
<1> QED BY <1>1 DEF Shown

(* A putch returns; the handler may start the next one.                    *)
LEMMA ReturnShows ==
  ASSUME TInv, NEW c \in Context, Return(c)
  PROVE  Showing' /\ log' \in Seq(Glyph \cup Control)
<1>1. Typed /\ Bounded /\ Showing /\ log \in Seq(Glyph \cup Control)
  BY DEF TInv, IInv
<1>2. PICK rest : rest = Tail(frame[c].text)
  OBVIOUS
<1>3. /\ c = "irq" \/ frame["irq"].pc = "idle"
      /\ frame[c].pc = "done"
      /\ frame'[c] = IF rest = <<>> THEN Idle ELSE Enter(rest)
      /\ \A d \in Context \ {c} : frame'[d] = frame[d]
      /\ rest \in Seq(Glyph \cup Control)
      /\ vga' = vga /\ raced' = raced
      /\ log' = IF rest = <<>> THEN log ELSE Append(log, Head(rest))
  BY <1>1, <1>2, ReturnEffect
<1>4. ~raced => /\ OnScreen(vga.x, vga.y) /\ Terminal = Picture(vga.x, vga.y, vga.cell)
                /\ \A d \in Context \ {c} : frame'[d].pc = "idle"
  <2> SUFFICES ASSUME ~raced
               PROVE  /\ OnScreen(vga.x, vga.y) /\ Terminal = Picture(vga.x, vga.y, vga.cell)
                      /\ \A d \in Context \ {c} : frame'[d].pc = "idle"
    OBVIOUS
  <2>1. ShownBy(frame[c])
    BY <1>1, <1>3 DEF Showing
  <2>2. OnScreen(vga.x, vga.y) /\ Terminal = Picture(vga.x, vga.y, vga.cell)
    BY <1>3, <2>1 DEF ShownBy, Shown, Placing
  <2>3. \A d \in Context \ {c} : frame'[d].pc = "idle"
    BY <1>1, <1>3 DEF Showing, Context
  <2> QED BY <2>2, <2>3
<1>5. CASE rest # <<>>
  BY <1>1, <1>3, <1>4, <1>5, ShowingEnters
<1>6. CASE rest = <<>>
  <2>1. frame'[c].pc = "idle" /\ log' = log
    BY <1>3, <1>6 DEF Idle
  <2>2. Terminal' = Terminal
    BY <2>1 DEF Terminal
  <2>3. SUFFICES ASSUME ~raced' PROVE Showing'
    BY <1>1, <2>1 DEF Showing
  <2>4. /\ OnScreen(vga'.x, vga'.y) /\ Terminal' = Picture(vga'.x, vga'.y, vga'.cell)
        /\ \A d \in Context : frame'[d].pc = "idle"
    BY <1>3, <1>4, <2>1, <2>2, <2>3, Zenon
  <2>5. Shown("idle", BLANK, 0, 0, 0, vga.x, vga.y, vga.cell, Terminal)'
    BY <2>4 DEF Shown, Aiming, Moving, Falling, Scrolling, Placing
  <2> QED BY <2>4, <2>5 DEF Showing, Context
<1> QED BY <1>5, <1>6

-----------------------------------------------------------------------------
(***************************************************************************)
(* The invariant, and what follows.                                        *)
(***************************************************************************)
(* After init_video() the screen is blank, and so is the terminal.         *)
LEMMA InitTInv == Init => TInv
<1> SUFFICES ASSUME Init PROVE TInv
  OBVIOUS
<1>1. /\ vga.x = 0 /\ vga.y = StartRow /\ vga.cell = [n \in Cells |-> BLANK]
      /\ log = <<>> /\ frame = [c \in Context |-> Idle]
  BY DEF Init
<1>2. Terminal = Blank
  BY <1>1, TerminalStarts
<1>3. Picture(vga.x, vga.y, vga.cell) = Blank
  <2>1. 0 .. ROWS * COLS - 1 \subseteq Cells
    BY Sizes, RowStarts DEF Cells
  <2> QED BY <1>1, <2>1 DEF Picture, Blank
<1>4. OnScreen(vga.x, vga.y)
  BY <1>1, Sizes DEF OnScreen
<1>5. Shown("idle", BLANK, 0, 0, 0, vga.x, vga.y, vga.cell, Terminal)
  BY <1>2, <1>3, <1>4 DEF Shown, Aiming, Moving, Falling, Scrolling, Placing
<1>6. \A c \in Context : frame[c].pc = "idle"
  BY <1>1 DEF Idle
<1> QED BY <1>1, <1>5, <1>6, InitIInv DEF TInv, Showing, Context

(* Every step keeps it.                                                    *)
LEMMA NextTInv == TInv /\ [Next]_vars => TInv'
<1> SUFFICES ASSUME TInv, [Next]_vars PROVE TInv'
  OBVIOUS
<1>1. IInv /\ Typed /\ Showing /\ log \in Seq(Glyph \cup Control)
  BY DEF TInv, IInv
<1>2. IInv'
  BY <1>1, NextIInv
<1> SUFFICES Showing' /\ log' \in Seq(Glyph \cup Control)
  BY <1>2 DEF TInv
<1>3. ASSUME NEW ch \in MainChars, Puts(ch)
      PROVE  Showing' /\ log' \in Seq(Glyph \cup Control)
  <2>1. /\ frame["main"].pc = "idle" /\ frame["irq"].pc = "idle"
        /\ frame'["main"] = Enter(<<ch>>) /\ frame'["irq"] = frame["irq"]
        /\ <<ch>> \in Seq(Glyph \cup Control) /\ <<ch>> # <<>> /\ Head(<<ch>>) = ch
        /\ vga' = vga /\ raced' = raced /\ log' = Append(log, ch)
    BY <1>1, <1>3, PutsEffect
  <2>2. Quiet
    BY <2>1 DEF Quiet, Context
  <2>3. ~raced' => /\ OnScreen(vga.x, vga.y) /\ Terminal = Picture(vga.x, vga.y, vga.cell)
                   /\ \A d \in Context \ {"main"} : frame'[d].pc = "idle"
    BY <1>1, <2>1, <2>2, QuietShows DEF Context
  <2> QED BY <1>1, <2>1, <2>3, ShowingEnters DEF Context
<1>4. ASSUME NEW text \in KeyTexts, Key(text)
      PROVE  Showing' /\ log' \in Seq(Glyph \cup Control)
  <2>1. /\ frame["irq"].pc = "idle"
        /\ frame'["irq"] = Enter(text) /\ frame'["main"] = frame["main"]
        /\ text \in Seq(Glyph \cup Control) /\ text # <<>>
        /\ vga' = vga /\ torn' = (frame["main"].pc # "idle") /\ raced' = (raced \/ torn')
        /\ log' = Append(log, Head(text))
    BY <1>1, <1>4, KeyEffect
  <2>2. ~raced' => ~raced /\ frame["main"].pc = "idle" /\ Quiet
    BY <2>1 DEF Quiet, Context
  <2>3. ~raced' => /\ OnScreen(vga.x, vga.y) /\ Terminal = Picture(vga.x, vga.y, vga.cell)
                   /\ \A d \in Context \ {"irq"} : frame'[d].pc = "idle"
    BY <1>1, <2>1, <2>2, QuietShows DEF Context
  <2> QED BY <1>1, <2>1, <2>3, ShowingEnters DEF Context
<1>5. ASSUME NEW c \in Context, Return(c)
      PROVE  Showing' /\ log' \in Seq(Glyph \cup Control)
  BY <1>5, ReturnShows
<1>6. ASSUME NEW c \in Context, Putch(c), ~Return(c)
      PROVE  Showing' /\ log' \in Seq(Glyph \cup Control)
  <2>1. Showing'
    BY <1>1, <1>6, PutchShows
  <2>2. log' = log
    BY <1>6 DEF Putch, WhereY, WhereX, Store, TestX, LoadX, SetX, ZeroX, LoadY, SetY, Wrap,
                Scroll, Lines, Copy, LastRow, CursorY, CursorX, SelectHigh, WriteHigh,
                SelectLow, WriteLow, Read, Write, Test, Step
  <2> QED BY <1>1, <2>1, <2>2
<1>7. CASE UNCHANGED vars
  <2>1. vga' = vga /\ frame' = frame /\ log' = log /\ raced' = raced
    BY <1>7 DEF vars
  <2>2. Terminal' = Terminal
    BY <2>1 DEF Terminal
  <2> QED BY <1>1, <2>1, <2>2, Zenon DEF Showing, ShownBy, Quiet
<1> QED BY <1>3, <1>4, <1>5, <1>6, <1>7 DEF Next, Loop

(* putch, scroll and move_csr, step by step, keep the screen and the       *)
(* cursor of a terminal that is given the same characters, whatever keys   *)
(* come between two calls, as long as none comes inside one.               *)
THEOREM PutchIsATerminal == Spec => []ShowsTerminal
<1>1. TInv => ShowsTerminal
  <2> SUFFICES ASSUME TInv, Quiet, ~raced
               PROVE  /\ vga.x = Terminal.x /\ vga.y = Terminal.y
                      /\ \A n \in DOMAIN Terminal.screen : vga.cell[n] = Terminal.screen[n]
    BY DEF ShowsTerminal
  <2>1. Terminal = Picture(vga.x, vga.y, vga.cell)
    BY QuietShows DEF TInv
  <2> QED BY <2>1 DEF Picture
<1> QED BY <1>1, InitTInv, NextTInv, PTL DEF Spec
=============================================================================
