-------------------------- MODULE InterruptsProofs --------------------------
(***************************************************************************)
(* Proofs about the boot sequence, the interrupt handlers and the devices  *)
(* (Interrupts), for every divisor, keyboard, slave device and bound.      *)
(*                                                                         *)
(* No invariant the run checks is inductive alone.  Vectors are right      *)
(* because the controllers got their four words in order (MasterWords,     *)
(* SlaveWords) before sti; the two ends of interrupt clear what is in      *)
(* service because of what the acknowledged line put there (Serviced);     *)
(* keyboard_handler finds a byte because each raise of line 1 stands for   *)
(* one byte (Buffered); and the modifiers are right because the codes on   *)
(* their way, from the hand of the user to keyboard_handler, form a chain  *)
(* that starts at keyboard_state and ends at the keys held (Handed,        *)
(* Followed).                                                              *)
(***************************************************************************)
EXTENDS Interrupts, TLAPS

(***************************************************************************)
(* The inductive invariant: boot, processor, controllers, timer, keyboard. *)
(***************************************************************************)
Running == cpu.state = "running"
Places == {"irq_handler", "timer_handler", "keyboard_handler", "key_method",
           "eoi_slave", "eoi_master", "iret"}
InHandler == Running /\ cpu.at \in Places

Opened == main >= 15        \* sti was executed

(* The tables and the words the controllers have got, call by call.        *)
Tables ==
  /\ main \in 1 .. 18
  /\ idt = IF main <= 2 THEN {} ELSE IF main <= 13 THEN 0 .. 31 ELSE 0 .. 47
  /\ irq_routines = [n \in 0 .. 15 |->
       IF n = TIMER /\ main >= 17 THEN "timer_handler"
       ELSE IF n = KEYBOARD /\ main >= 18 THEN "keyboard_handler" ELSE "NULL"]

MasterWords ==
  /\ pic.master.icw = IF main \in {4, 5} THEN 2 ELSE IF main \in {6, 7} THEN 3
                      ELSE IF main \in {8, 9} THEN 4 ELSE 0
  /\ pic.master.base = IF main <= 5 THEN 8 ELSE 32
  /\ pic.master.wire = 4 /\ pic.master.mask = {}

SlaveWords ==
  /\ pic.slave.icw = IF main \in {5, 6} THEN 2 ELSE IF main \in {7, 8} THEN 3
                     ELSE IF main \in {9, 10} THEN 4 ELSE 0
  /\ pic.slave.base = IF main <= 6 THEN 112 ELSE 40
  /\ pic.slave.wire = 2 /\ pic.slave.mask = {}

(* The lines the devices raise.                                            *)
Requested ==
  /\ pic \in [Chip -> ChipType]
  /\ pic.master.irr \subseteq {TIMER, KEYBOARD}
  /\ pic.slave.irr \subseteq {SlaveLine - 8}

(* A record of cpu, and where the processor can be.                        *)
Placed ==
  /\ DOMAIN cpu = {"IF", "state", "at", "vector", "line", "code", "text"}
  /\ cpu.IF \in BOOLEAN /\ cpu.state \in {"running", "panic"}
  /\ cpu.at \in {"main"} \cup Places
  /\ ~Running => cpu.at = "main" /\ ~cpu.IF
  /\ Running /\ cpu.at = "main" => (cpu.IF <=> Opened)
  /\ InHandler =>
       /\ Opened /\ ~cpu.IF
       /\ \/ cpu.line \in Slow \cup {KEYBOARD} /\ cpu.vector = 32 + cpu.line
          \/ cpu.line = NONE /\ cpu.vector \in {39, 47}
       /\ cpu.at = "timer_handler" => cpu.line = TIMER
       /\ cpu.at \in {"keyboard_handler", "key_method"} => cpu.line = KEYBOARD

(* What is in service is what the two ends of interrupt will clear.        *)
Serviced ==
  Running =>
    /\ pic.master.isr =
         IF cpu.at \in {"main", "iret"} \/ cpu.vector = 39 THEN {}
         ELSE IF cpu.vector < 40 THEN {cpu.vector - 32} ELSE {CASCADE}
    /\ pic.slave.isr =
         IF cpu.at \in {"main", "eoi_master", "iret"} \/ cpu.line < 8 THEN {}
         ELSE {cpu.line - 8}

(* A tick that will be counted keeps the timer from raising its line.      *)
Counting == cpu.line = TIMER /\ cpu.at \in {"irq_handler", "timer_handler"}
TickDue == TIMER \in pic.master.irr \/ Counting

Ticking ==
  /\ clock \in [timer_ticks : 0 .. MaxTicks, ticker : Nat, eticks : Int, ripe : SUBSET Slow]
  /\ clock.ticker = clock.timer_ticks \div TICKS_A_SECOND
  /\ main <= 16 => clock.timer_ticks = 0
  /\ Running /\ main >= 17 /\ TickDue =>
       TIMER \notin clock.ripe /\ clock.timer_ticks < MaxTicks
  /\ Running /\ main >= 17 /\ Counting => TIMER \notin pic.master.irr
  /\ Running /\ cpu.at = "timer_handler" => main >= 17

(* A byte that will be read is in the 8042, and has one interrupt.         *)
ByteDue == cpu.line = KEYBOARD /\ cpu.at \in {"irq_handler", "keyboard_handler"}

Buffered ==
  Running =>
    /\ KEYBOARD \in pic.master.irr => kbd.full
    /\ ByteDue => kbd.full /\ KEYBOARD \notin pic.master.irr

(* A code on its way, and the keys held after it.                          *)
Code == [key : Key, up : BOOLEAN, held : SUBSET Key, regular : BOOLEAN]
After(c) == IF c.up THEN c.held \ {c.key} ELSE c.held \cup {c.key}

(* A code of a regular history flips the modifier that it should.          *)
Regular(c) ==
  /\ ~(Shifts \subseteq c.held)
  /\ c.up => c.key \in c.held
  /\ ~c.up /\ c.key \in Modifier => c.key \notin c.held
  /\ ~c.up /\ c.key \in Shifts => c.held \cap Shifts = {}

(* The code c, and after it the keys held and the history so far.          *)
Linked(c, held, regular) ==
  c \in Code /\ held = After(c) /\ (regular => c.regular) /\ (c.regular => Regular(c))

(* The keys held before the first code still in the queue, or in the 8042, *)
(* or not yet acted upon.                                                  *)
QueueHeld == IF kbd.queue = <<>> THEN user.held ELSE kbd.queue[1].held
QueueRegular == IF kbd.queue = <<>> THEN user.regular ELSE kbd.queue[1].regular
BufferHeld == IF kbd.full THEN kbd.code.held ELSE QueueHeld
BufferRegular == IF kbd.full THEN kbd.code.regular ELSE QueueRegular
FirstHeld == IF cpu.at = "key_method" THEN cpu.code.held ELSE BufferHeld
FirstRegular == IF cpu.at = "key_method" THEN cpu.code.regular ELSE BufferRegular

Handed ==
  /\ kbd \in [queue : Seq(Code), full : BOOLEAN, code : {NoCode} \cup Code]
  /\ user \in [held : SUBSET Key, last : {"none"} \cup Key, regular : BOOLEAN,
               codes : Nat, noise : Nat]
  /\ user.last # "none" => user.last \in user.held
  /\ user.regular => ~(Shifts \subseteq user.held)
  /\ \A i \in 1 .. Len(kbd.queue) :
       Linked(kbd.queue[i],
              IF i = Len(kbd.queue) THEN user.held ELSE kbd.queue[i + 1].held,
              IF i = Len(kbd.queue) THEN user.regular ELSE kbd.queue[i + 1].regular)
  /\ kbd.full => Linked(kbd.code, QueueHeld, QueueRegular)

(* keyboard_state is right for the keys held.                              *)
Matches(held) ==
  /\ keyboard_state.shift <=> held \cap Shifts # {}
  /\ keyboard_state.ctrl <=> "ctrl" \in held
  /\ keyboard_state.alt <=> "alt" \in held

Followed ==
  /\ keyboard_state \in Modifiers
  /\ Running /\ cpu.at = "key_method" => Linked(cpu.code, BufferHeld, BufferRegular)
  /\ Running /\ FirstRegular => Matches(FirstHeld)

IInv ==
  /\ Tables /\ MasterWords /\ SlaveWords /\ Requested
  /\ Placed /\ Serviced /\ Ticking /\ Buffered /\ Handed /\ Followed /\ EchoesKeys
-----------------------------------------------------------------------------

(* The bytes irq_remap writes to a data port, bit by bit.                  *)
LEMMA PortBits == Bits(0) = {} /\ Bits(4) = {2}
<1>1. ASSUME NEW n \in 0 .. 7
      PROVE  (0 \div 2^n) % 2 # 1 /\ ((4 \div 2^n) % 2 = 1 <=> n = 2)
  <2>1. n \in {0, 1, 2, 3, 4, 5, 6, 7}
    OBVIOUS
  <2>2. CASE n = 0 BY <2>2
  <2>3. CASE n = 1 BY <2>3
  <2>4. CASE n = 2 BY <2>4
  <2>5. CASE n = 3 BY <2>5
  <2>6. CASE n = 4 BY <2>6
  <2>7. CASE n = 5 BY <2>7
  <2>8. CASE n = 6 BY <2>8
  <2>9. CASE n = 7 BY <2>9
  <2> QED BY <2>1, <2>2, <2>3, <2>4, <2>5, <2>6, <2>7, <2>8, <2>9
<1>2. 2 \in 0 .. 7
  OBVIOUS
<1> QED BY <1>1, <1>2, Zenon DEF Bits

(* The boot sequence, call by call.                                        *)
LEMMA BootCalls ==
  /\ Len(Boot) = 17
  /\ Boot[1].op = "idt_install" /\ Boot[2].op = "isrs_install"
  /\ Boot[3] = Out(32, 17) /\ Boot[4] = Out(160, 17)
  /\ Boot[5] = Out(33, 32) /\ Boot[6] = Out(161, 40)
  /\ Boot[7] = Out(33, 4) /\ Boot[8] = Out(161, 2)
  /\ Boot[9] = Out(33, 1) /\ Boot[10] = Out(161, 1)
  /\ Boot[11] = Out(33, 0) /\ Boot[12] = Out(161, 0)
  /\ Boot[13].op = "irq_gates" /\ Boot[14].op = "sti"
  /\ Boot[15].op = "init_video" /\ Boot[16].op = "timer_install"
  /\ Boot[17].op = "keyboardInstall"
BY DEF Boot, irq_remap, Call, Out, ICW1
-----------------------------------------------------------------------------
(***************************************************************************)
(* What the operators of Pic do to a pair of controllers.                  *)
(***************************************************************************)
(* Two pairs were given the same words.                                    *)
SameWords(p, q) ==
  \A c \in Chip : /\ q[c].icw = p[c].icw /\ q[c].base = p[c].base
                  /\ q[c].wire = p[c].wire /\ q[c].mask = p[c].mask

(* A chip with other requests, or with other lines in service.             *)
LEMMA OtherRequests ==
  ASSUME NEW c \in ChipType, NEW lines \in SUBSET (0 .. 7), NEW d, d = [c EXCEPT !.irr = lines]
  PROVE  /\ d \in ChipType /\ d.irr = lines /\ d.isr = c.isr
         /\ d.icw = c.icw /\ d.base = c.base /\ d.wire = c.wire /\ d.mask = c.mask
BY DEF ChipType

LEMMA OtherService ==
  ASSUME NEW c \in ChipType, NEW lines \in SUBSET (0 .. 7), NEW d, d = [c EXCEPT !.isr = lines]
  PROVE  /\ d \in ChipType /\ d.isr = lines /\ d.irr = c.irr
         /\ d.icw = c.icw /\ d.base = c.base /\ d.wire = c.wire /\ d.mask = c.mask
BY DEF ChipType

(* A request reaches one chip and changes nothing else.                    *)
LEMMA RaiseEffect ==
  ASSUME NEW p \in [Chip -> ChipType], NEW line \in Line,
         NEW q, q = Raise(p, line)
  PROVE  /\ q \in [Chip -> ChipType] /\ SameWords(p, q)
         /\ q.master.isr = p.master.isr /\ q.slave.isr = p.slave.isr
         /\ q.master.irr = p.master.irr \cup (IF line < 8 THEN {line} ELSE {})
         /\ q.slave.irr = p.slave.irr \cup (IF line < 8 THEN {} ELSE {line - 8})
<1>1. CASE line < 8
  <2>1. line \in 0 .. 7
    BY <1>1 DEF Line
  <2>2. PICK c, lines, d : c = p.master /\ lines = c.irr \cup {line} /\ d = [c EXCEPT !.irr = lines]
    OBVIOUS
  <2>3. q = [p EXCEPT !.master = d]
    BY <1>1, <2>2 DEF Raise
  <2>4. c \in ChipType
    BY <2>2 DEF Chip
  <2>5. lines \in SUBSET (0 .. 7)
    BY <2>1, <2>2, <2>4 DEF ChipType
  <2>6. /\ d \in ChipType /\ d.irr = lines /\ d.isr = c.isr
        /\ d.icw = c.icw /\ d.base = c.base /\ d.wire = c.wire /\ d.mask = c.mask
    <3>1. d = [c EXCEPT !.irr = lines]
      BY <2>2
    <3> QED BY <2>4, <2>5, <3>1, OtherRequests
  <2>7. q \in [Chip -> ChipType] /\ q.master = d /\ q.slave = p.slave
    BY <2>3, <2>6 DEF Chip
  <2> QED BY <1>1, <2>2, <2>6, <2>7 DEF SameWords, Chip
<1>2. CASE ~(line < 8)
  <2>1. line - 8 \in 0 .. 7
    BY <1>2 DEF Line
  <2>2. PICK c, lines, d : c = p.slave /\ lines = c.irr \cup {line - 8} /\ d = [c EXCEPT !.irr = lines]
    OBVIOUS
  <2>3. q = [p EXCEPT !.slave = d]
    BY <1>2, <2>2 DEF Raise
  <2>4. c \in ChipType
    BY <2>2 DEF Chip
  <2>5. lines \in SUBSET (0 .. 7)
    BY <2>1, <2>2, <2>4 DEF ChipType
  <2>6. /\ d \in ChipType /\ d.irr = lines /\ d.isr = c.isr
        /\ d.icw = c.icw /\ d.base = c.base /\ d.wire = c.wire /\ d.mask = c.mask
    <3>1. d = [c EXCEPT !.irr = lines]
      BY <2>2
    <3> QED BY <2>4, <2>5, <3>1, OtherRequests
  <2>7. q \in [Chip -> ChipType] /\ q.slave = d /\ q.master = p.master
    BY <2>3, <2>6 DEF Chip
  <2> QED BY <1>2, <2>2, <2>6, <2>7 DEF SameWords, Chip
<1> QED BY <1>1, <1>2

(* An acknowledged line goes from requested to in service.                 *)
LEMMA AcknowledgeEffect ==
  ASSUME NEW p \in [Chip -> ChipType], NEW line \in Line,
         NEW q, q = InService(p, line)
  PROVE  /\ q \in [Chip -> ChipType] /\ SameWords(p, q)
         /\ q.master.irr = p.master.irr \ (IF line < 8 THEN {line} ELSE {})
         /\ q.slave.irr = p.slave.irr \ (IF line < 8 THEN {} ELSE {line - 8})
         /\ q.master.isr = p.master.isr \cup (IF line < 8 THEN {line} ELSE {CASCADE})
         /\ q.slave.isr = p.slave.isr \cup (IF line < 8 THEN {} ELSE {line - 8})
<1> DEFINE Moved(c, n) == [c EXCEPT !.irr = c.irr \ {n}, !.isr = c.isr \cup {n}]
           Joined(c, n) == [c EXCEPT !.isr = c.isr \cup {n}]
<1>1. p.master \in ChipType /\ p.slave \in ChipType
  BY DEF Chip
<1>2. ASSUME NEW c \in ChipType, NEW n \in 0 .. 7
      PROVE  /\ Moved(c, n) \in ChipType
             /\ Moved(c, n).irr = c.irr \ {n} /\ Moved(c, n).isr = c.isr \cup {n}
             /\ Moved(c, n).icw = c.icw /\ Moved(c, n).base = c.base
             /\ Moved(c, n).wire = c.wire /\ Moved(c, n).mask = c.mask
  <2>1. c.irr \ {n} \in SUBSET (0 .. 7) /\ c.isr \cup {n} \in SUBSET (0 .. 7)
    BY DEF ChipType
  <2> DEFINE I == c.irr \ {n}
             J == c.isr \cup {n}
             d == Moved(c, n)
             e == [c EXCEPT !.irr = I]
  <2>2. I \in SUBSET (0 .. 7) /\ J \in SUBSET (0 .. 7)
    BY <2>1
  <2> HIDE DEF I, J
  <2>3. /\ e \in ChipType /\ e.irr = I
        /\ e.icw = c.icw /\ e.base = c.base /\ e.wire = c.wire /\ e.mask = c.mask
    BY <2>2 DEF ChipType
  <2>4. d = [e EXCEPT !.isr = J]
    BY DEF I, J
  <2> HIDE DEF d, e
  <2>5. /\ d \in ChipType /\ d.irr = I /\ d.isr = J
        /\ d.icw = c.icw /\ d.base = c.base /\ d.wire = c.wire /\ d.mask = c.mask
    BY <2>2, <2>3, <2>4 DEF ChipType
  <2> QED BY <2>5 DEF I, J, d
<1>3. ASSUME NEW c \in ChipType, NEW n \in 0 .. 7
      PROVE  /\ Joined(c, n) \in ChipType
             /\ Joined(c, n).irr = c.irr /\ Joined(c, n).isr = c.isr \cup {n}
             /\ Joined(c, n).icw = c.icw /\ Joined(c, n).base = c.base
             /\ Joined(c, n).wire = c.wire /\ Joined(c, n).mask = c.mask
  BY DEF ChipType
<1>4. CASE line < 8
  <2>1. line \in 0 .. 7
    BY <1>4 DEF Line
  <2>2. q = [p EXCEPT !.master = Moved(p.master, line)]
    BY <1>4 DEF InService, Chip
  <2> HIDE DEF Moved, Joined
  <2>3. q.slave = p.slave /\ q.master = Moved(p.master, line) /\ q \in [Chip -> ChipType]
    BY <1>1, <1>2, <2>1, <2>2 DEF Chip
  <2> QED BY <1>1, <1>2, <1>4, <2>1, <2>3 DEF SameWords, Chip
<1>5. CASE ~(line < 8)
  <2>1. line - 8 \in 0 .. 7 /\ CASCADE \in 0 .. 7
    BY <1>5 DEF Line, CASCADE
  <2>2. q = [p EXCEPT !.master = Joined(p.master, CASCADE),
                      !.slave = Moved(p.slave, line - 8)]
    BY <1>5 DEF InService, Chip
  <2> HIDE DEF Moved, Joined
  <2>3. Joined(p.master, CASCADE) \in ChipType /\ Moved(p.slave, line - 8) \in ChipType
    BY <1>1, <1>2, <1>3, <2>1
  <2>4. /\ q.master = Joined(p.master, CASCADE) /\ q.slave = Moved(p.slave, line - 8)
        /\ q \in [Chip -> ChipType]
    <3> DEFINE r == [p EXCEPT !.master = Joined(p.master, CASCADE)]
    <3>1. /\ r \in [Chip -> ChipType] /\ r.master = Joined(p.master, CASCADE)
          /\ q = [r EXCEPT !.slave = Moved(p.slave, line - 8)]
      BY <2>2, <2>3 DEF Chip
    <3> HIDE DEF r
    <3> QED BY <2>3, <3>1 DEF Chip
  <2> QED BY <1>1, <1>2, <1>3, <1>5, <2>1, <2>4 DEF SameWords, Chip
<1> QED BY <1>4, <1>5

(* The end of interrupt of a chip with at most one line in service.        *)
LEMMA EndEffect ==
  ASSUME NEW c \in ChipType, NEW x, c.isr = {} \/ c.isr = {x},
         NEW d, d = Command(c, EOI)
  PROVE  /\ d \in ChipType
         /\ d.icw = c.icw /\ d.base = c.base /\ d.wire = c.wire
         /\ d.mask = c.mask /\ d.irr = c.irr /\ d.isr = {}
<1>1. EOI = 32 /\ ICW1 = 17
  BY DEF EOI, ICW1
<1>2. CASE c.isr = {}
  BY <1>1, <1>2 DEF Command, ChipType
<1>3. CASE c.isr = {x}
  <2>1. x \in 0 .. 7
    BY <1>3 DEF ChipType
  <2>2. Min({x}) = x
    BY <2>1 DEF Min
  <2>3. d = [c EXCEPT !.isr = c.isr \ {x}]
    BY <1>1, <1>3, <2>2 DEF Command
  <2> QED BY <1>3, <2>3 DEF ChipType
<1> QED BY <1>2, <1>3

(* The first initialisation word.                                          *)
LEMMA ResetEffect ==
  ASSUME NEW c \in ChipType, NEW d, d = Command(c, 17)
  PROVE  /\ d \in ChipType /\ d.icw = 2 /\ d.base = c.base /\ d.wire = c.wire
         /\ d.mask = {} /\ d.irr = {} /\ d.isr = {}
<1> DEFINE e1 == [c EXCEPT !.icw = 2]
           e2 == [e1 EXCEPT !.mask = {}]
           e3 == [e2 EXCEPT !.irr = {}]
<1>1. d = [e3 EXCEPT !.isr = {}]
  BY DEF Command, ICW1
<1>2. e1 \in ChipType /\ e1.icw = 2 /\ e1.base = c.base /\ e1.wire = c.wire
  BY DEF ChipType
<1> HIDE DEF e1
<1>3. e2 \in ChipType /\ e2.icw = 2 /\ e2.base = c.base /\ e2.wire = c.wire /\ e2.mask = {}
  BY <1>2 DEF ChipType
<1> HIDE DEF e2
<1>4. /\ e3 \in ChipType /\ e3.icw = 2 /\ e3.base = c.base /\ e3.wire = c.wire
      /\ e3.mask = {} /\ e3.irr = {}
  BY <1>3 DEF ChipType
<1> HIDE DEF e3
<1> QED BY <1>1, <1>4 DEF ChipType

(* The words after it, and then the mask.                                  *)
LEMMA DataEffect ==
  ASSUME NEW c, c \in ChipType, NEW v, v \in 0 .. 255
  PROVE  /\ Data(c, v) \in ChipType
         /\ Data(c, v).irr = c.irr /\ Data(c, v).isr = c.isr
         /\ Data(c, v).icw = IF c.icw = 2 THEN 3 ELSE IF c.icw = 3 THEN 4 ELSE 0
         /\ Data(c, v).base = IF c.icw = 2 THEN v ELSE c.base
         /\ Data(c, v).wire = IF c.icw = 3 THEN v ELSE c.wire
         /\ Data(c, v).mask = IF c.icw = 0 THEN Bits(v) ELSE c.mask
<1>1. CASE c.icw = 2
  <2> DEFINE e == [c EXCEPT !.icw = 3]
  <2>1. Data(c, v) = [e EXCEPT !.base = v]
    BY <1>1 DEF Data
  <2>2. /\ e \in ChipType /\ e.icw = 3 /\ e.wire = c.wire /\ e.mask = c.mask
        /\ e.irr = c.irr /\ e.isr = c.isr
    BY DEF ChipType
  <2> HIDE DEF e
  <2> QED BY <1>1, <2>1, <2>2 DEF ChipType
<1>2. CASE c.icw = 3
  <2> DEFINE e == [c EXCEPT !.icw = 4]
  <2>1. Data(c, v) = [e EXCEPT !.wire = v]
    BY <1>2 DEF Data
  <2>2. /\ e \in ChipType /\ e.icw = 4 /\ e.base = c.base /\ e.mask = c.mask
        /\ e.irr = c.irr /\ e.isr = c.isr
    BY DEF ChipType
  <2> HIDE DEF e
  <2> QED BY <1>2, <2>1, <2>2 DEF ChipType
<1>3. CASE c.icw = 4
  <2>1. Data(c, v) = [c EXCEPT !.icw = 0]
    BY <1>3 DEF Data
  <2> QED BY <1>3, <2>1 DEF ChipType
<1>4. CASE c.icw = 0
  <2>1. Data(c, v) = [c EXCEPT !.mask = Bits(v)]
    BY <1>4 DEF Data
  <2>2. Bits(v) \in SUBSET (0 .. 7)
    BY Zenon DEF Bits
  <2> QED BY <1>4, <2>1, <2>2 DEF ChipType
<1>5. c.icw \in {0, 2, 3, 4}
  BY DEF ChipType
<1> QED BY <1>1, <1>2, <1>3, <1>4, <1>5

(* The outputs to the command ports.                                       *)
LEMMA CommandPorts ==
  ASSUME NEW p, NEW v
  PROVE  /\ OutPort(p, 32, v) = [p EXCEPT !.master = Command(p.master, v)]
         /\ OutPort(p, 33, v) = [p EXCEPT !.master = Data(p.master, v)]
         /\ OutPort(p, 160, v) = [p EXCEPT !.slave = Command(p.slave, v)]
         /\ OutPort(p, 161, v) = [p EXCEPT !.slave = Data(p.slave, v)]
BY DEF OutPort

(* With nothing masked or in service, any request interrupts, and the      *)
(* timer comes before the keyboard and the keyboard before the slave.      *)
LEMMA NextRequest ==
  ASSUME Requested, MasterWords, SlaveWords,
         pic.master.isr = {}, pic.slave.isr = {}
  PROVE  /\ Interrupting(pic) <=> pic.master.irr # {} \/ pic.slave.irr # {}
         /\ Interrupting(pic) =>
              \/ NextLine(pic) = TIMER /\ TIMER \in pic.master.irr
              \/ /\ NextLine(pic) = KEYBOARD /\ KEYBOARD \in pic.master.irr
                 /\ TIMER \notin pic.master.irr
              \/ /\ NextLine(pic) = SlaveLine /\ SlaveLine - 8 \in pic.slave.irr
                 /\ pic.master.irr = {}
<1>1. SlaveRequests(pic) = pic.slave.irr
  BY DEF SlaveRequests, Eligible, SlaveWords
<1>2. MasterRequests(pic) =
        pic.master.irr \cup (IF pic.slave.irr = {} THEN {} ELSE {CASCADE})
  BY <1>1 DEF MasterRequests, Eligible, MasterWords
<1>3. Interrupting(pic) <=> pic.master.irr # {} \/ pic.slave.irr # {}
  BY <1>2 DEF Interrupting
<1>4. CASE TIMER \in pic.master.irr
  <2>1. Min(MasterRequests(pic)) = 0
    BY <1>2, <1>4 DEF Min, Requested, TIMER, KEYBOARD, CASCADE
  <2> QED BY <1>3, <1>4, <2>1 DEF NextLine, TIMER, CASCADE
<1>5. CASE TIMER \notin pic.master.irr /\ KEYBOARD \in pic.master.irr
  <2>1. Min(MasterRequests(pic)) = 1
    BY <1>2, <1>5 DEF Min, Requested, TIMER, KEYBOARD, CASCADE
  <2> QED BY <1>3, <1>5, <2>1 DEF NextLine, KEYBOARD, CASCADE
<1>6. CASE pic.master.irr = {} /\ pic.slave.irr # {}
  <2>1. pic.slave.irr = {SlaveLine - 8} /\ SlaveLine \in Int
    BY <1>6, InterruptsAssumption DEF Requested
  <2>2. Min(MasterRequests(pic)) = CASCADE
    BY <1>2, <1>6 DEF Min, CASCADE
  <2>3. Min(SlaveRequests(pic)) = SlaveLine - 8
    BY <1>1, <2>1 DEF Min
  <2> QED BY <1>3, <1>6, <2>1, <2>2, <2>3 DEF NextLine
<1>7. CASE pic.master.irr = {} /\ pic.slave.irr = {}
  BY <1>3, <1>7
<1> QED BY <1>3, <1>4, <1>5, <1>6, <1>7 DEF Requested

(* Which call of the boot sequence a step makes.                           *)
LEMMA BootPlace ==
  ASSUME Tables, NEW op, Step(op)
  PROVE  /\ main \in 1 .. 17 /\ main' = main + 1
         /\ op = "idt_install" => main = 1
         /\ op = "isrs_install" => main = 2
         /\ op = "outportb" => main \in 3 .. 12
         /\ op = "irq_gates" => main = 13
         /\ op = "sti" => main = 14
         /\ op = "init_video" => main = 15
         /\ op = "timer_install" => main = 16
         /\ op = "keyboardInstall" => main = 17
<1>1. main \in 1 .. 17 /\ main' = main + 1 /\ op = Boot[main].op
  BY BootCalls DEF Tables, Step, Booted
<1>2. main \in {1, 2, 3, 4, 5, 6, 7, 8, 9, 10, 11, 12, 13, 14, 15, 16, 17}
  BY <1>1
<1>3. /\ \A k \in {3, 4, 5, 6, 7, 8, 9, 10, 11, 12} : Boot[k].op = "outportb"
  BY BootCalls DEF Out
<1> QED BY <1>1, <1>2, <1>3, BootCalls

(* The first state.                                                        *)
LEMMA InitIInv == Init => IInv
<1> SUFFICES ASSUME Init PROVE IInv
  OBVIOUS
<1> USE DEF Init
<1>1. Tables
  BY DEF Tables
<1>2. MasterWords /\ SlaveWords /\ Requested
  BY InterruptsAssumption
  DEF MasterWords, SlaveWords, Requested, BiosPair, BiosChip, Chip, ChipType
<1>3. Placed
  BY DEF Placed, Idle, Running, InHandler, Places, Opened
<1>9. Serviced
  BY DEF Serviced, Idle, NONE, BiosPair, BiosChip
<1>4. Ticking
  <2>1. 0 \div TICKS_A_SECOND = 0
    BY InterruptsAssumption
  <2> QED BY <2>1, InterruptsAssumption DEF Ticking, Idle, NONE, Running
<1>5. Buffered
  BY DEF Buffered, BiosPair, BiosChip, ByteDue, Idle, NONE, KEYBOARD
<1>6. Handed
  BY DEF Handed, NoCode, Shifts
<1>7. Followed
  <2>1. cpu.at = "main"
    BY DEF Idle
  <2>2. FirstHeld = {}
    BY <2>1 DEF FirstHeld, BufferHeld, QueueHeld
  <2>3. keyboard_state \in Modifiers /\ Matches({})
    BY DEF Modifiers, NoModifiers, Matches
  <2> QED BY <2>1, <2>2, <2>3 DEF Followed
<1>8. EchoesKeys
  BY DEF EchoesKeys, Idle
<1> QED BY <1>1, <1>2, <1>3, <1>4, <1>5, <1>6, <1>7, <1>8, <1>9 DEF IInv

-----------------------------------------------------------------------------
(***************************************************************************)
(* Each part of the invariant, after any step.                             *)
(***************************************************************************)
(* The steps that are no call of the boot sequence.                        *)
Later ==
  \/ Spin \/ WaitReturn \/ Take \/ Handling
  \/ \E ticks \in Waits : WaitCall(ticks)
  \/ \E chip \in Chip : Spurious(chip)
  \/ Exception
  \/ \E line \in Slow : Interrupt(line)
  \/ Deliver
  \/ \E key \in Keys : Press(key) \/ Release(key)
  \/ Repeat
  \/ UNCHANGED vars

(* A step is a call of the boot sequence or leaves what boot sets alone.   *)
LEMMA Steps ==
  ASSUME [Next]_vars
  PROVE  \/ IdtInstall \/ IsrsInstall \/ Outportb \/ IrqGates \/ Sti \/ InitVideo
         \/ TimerInstall \/ KeyboardInstall
         \/ Later
BY DEF Next, Processor, Mainline, HaltLoop, Later

(* None of them touches what the calls of the boot sequence set up.        *)
LEMMA LaterTables ==
  ASSUME Later PROVE UNCHANGED <<main, idt, irq_routines>>
BY DEF Later, Spin, WaitReturn, Take, Handling, IrqHandler, TimerHandler, Inport,
       KeyMethod, EoiSlave, EoiMaster, Iret, Handler, WaitCall, Spurious, Exception,
       Interrupt, Deliver, Press, Release, Repeat, Send, vars

(* idt_install to keyboardInstall: the gates and the routines.             *)
LEMMA TablesStep == IInv /\ [Next]_vars => Tables'
<1> SUFFICES ASSUME IInv, [Next]_vars PROVE Tables'
  OBVIOUS
<1>1. Tables
  BY DEF IInv
<1> USE DEF TIMER, KEYBOARD
<1>2. CASE IdtInstall
  BY <1>1, <1>2, BootPlace DEF IdtInstall, Tables
<1>3. CASE IsrsInstall
  BY <1>1, <1>3, BootPlace DEF IsrsInstall, Tables
<1>4. CASE Outportb
  BY <1>1, <1>4, BootPlace DEF Outportb, Tables
<1>5. CASE IrqGates
  <2>1. main = 13 /\ main' = 14
    BY <1>1, <1>5, BootPlace DEF IrqGates
  <2> QED BY <1>1, <1>5, <2>1 DEF IrqGates, Tables
<1>6. CASE Sti
  BY <1>1, <1>6, BootPlace DEF Sti, Tables
<1>7. CASE InitVideo
  BY <1>1, <1>7, BootPlace DEF InitVideo, Tables
<1>8. CASE TimerInstall
  <2>1. main = 16 /\ main' = 17
    BY <1>1, <1>8, BootPlace DEF TimerInstall
  <2>2. irq_routines' = [irq_routines EXCEPT ![0] = "timer_handler"]
    BY <1>8 DEF TimerInstall, irq_install_handler
  <2>3. irq_routines = [n \in 0 .. 15 |-> "NULL"]
    BY <1>1, <2>1 DEF Tables
  <2>4. irq_routines' = [n \in 0 .. 15 |-> IF n = 0 THEN "timer_handler" ELSE "NULL"]
    BY <2>2, <2>3, Zenon
  <2> QED BY <1>1, <1>8, <2>1, <2>4 DEF TimerInstall, Tables
<1>9. CASE KeyboardInstall
  <2>1. main = 17 /\ main' = 18
    BY <1>1, <1>9, BootPlace DEF KeyboardInstall
  <2>2. irq_routines' = [irq_routines EXCEPT ![1] = "keyboard_handler"]
    BY <1>9 DEF KeyboardInstall, irq_install_handler
  <2>3. irq_routines = [n \in 0 .. 15 |-> IF n = 0 THEN "timer_handler" ELSE "NULL"]
    BY <1>1, <2>1 DEF Tables
  <2>4. irq_routines' = [n \in 0 .. 15 |-> IF n = 0 THEN "timer_handler"
                                           ELSE IF n = 1 THEN "keyboard_handler" ELSE "NULL"]
    BY <2>2, <2>3, 1 # 0, Zenon
  <2> QED BY <1>1, <1>9, <2>1, <2>4 DEF KeyboardInstall, Tables
<1>10. CASE Later
  BY <1>1, <1>10, LaterTables DEF Tables
<1> QED
  BY <1>2, <1>3, <1>4, <1>5, <1>6, <1>7, <1>8, <1>9, <1>10, Steps

(* Between irq_remap and the devices: what a step does to the controllers. *)
LEMMA PicSteps ==
  ASSUME IInv, [Next]_vars
  PROVE  \/ UNCHANGED pic
         \/ Outportb
         \/ Take
         \/ \E chip \in Chip : Spurious(chip)
         \/ EoiSlave \/ EoiMaster
         \/ \E line \in Slow : Interrupt(line)
         \/ Deliver
BY DEF Next, Processor, Mainline, HaltLoop, vars, IdtInstall, IsrsInstall, IrqGates,
       Sti, InitVideo, TimerInstall, KeyboardInstall, Spin, WaitReturn, Handling,
       IrqHandler, TimerHandler, Inport, KeyMethod, Iret, WaitCall, Exception,
       Press, Release, Repeat, Send

(* The lines that can raise are lines of the pair.                         *)
LEMMA DeviceLines ==
  /\ Slow \cup {KEYBOARD} \subseteq Line
  /\ SlaveLine \in Int /\ SlaveLine >= 8 /\ SlaveLine <= 15
BY InterruptsAssumption DEF Slow, TIMER, KEYBOARD, Line

(* Interrupts are on in mainline code only, with nothing in service.       *)
LEMMA WhenOpen ==
  ASSUME IInv, cpu.IF
  PROVE  /\ Running /\ cpu.at = "main" /\ Opened
         /\ pic.master.isr = {} /\ pic.slave.isr = {}
BY DEF IInv, Placed, Serviced, InHandler

(* The line the processor acknowledges.                                    *)
LEMMA TakenLine ==
  ASSUME IInv, Take
  PROVE  /\ NextLine(pic) \in Slow \cup {KEYBOARD}
         /\ NextLine(pic) \in Line
         /\ NextLine(pic) = TIMER => TIMER \in pic.master.irr
         /\ NextLine(pic) = KEYBOARD => KEYBOARD \in pic.master.irr
         /\ NextLine(pic) # TIMER => TIMER \notin pic.master.irr
BY WhenOpen, NextRequest, DeviceLines
DEF IInv, Take, Slow, TIMER, KEYBOARD

(* The end of interrupt of the slave.                                      *)
LEMMA EoiSlaveEffect ==
  ASSUME IInv, EoiSlave
  PROVE  /\ pic' \in [Chip -> ChipType] /\ SameWords(pic, pic')
         /\ pic'.master = pic.master
         /\ pic'.slave.irr = pic.slave.irr /\ pic'.slave.isr = {}
<1>1. /\ pic \in [Chip -> ChipType]
      /\ cpu.at = "eoi_slave" /\ Running /\ InHandler
  BY DEF IInv, Requested, EoiSlave, Handler, Running, InHandler, Places
<1>2. CASE cpu.vector >= 40
  <2>1. pic' = [pic EXCEPT !.slave = Command(pic.slave, EOI)]
    BY <1>2, CommandPorts DEF EoiSlave
  <2>2. pic.slave \in ChipType
        /\ (pic.slave.isr = {} \/ pic.slave.isr = {cpu.line - 8})
    BY <1>1 DEF IInv, Serviced, Chip
  <2>3. /\ Command(pic.slave, EOI) \in ChipType
        /\ Command(pic.slave, EOI).icw = pic.slave.icw
        /\ Command(pic.slave, EOI).base = pic.slave.base
        /\ Command(pic.slave, EOI).wire = pic.slave.wire
        /\ Command(pic.slave, EOI).mask = pic.slave.mask
        /\ Command(pic.slave, EOI).irr = pic.slave.irr
        /\ Command(pic.slave, EOI).isr = {}
    BY <2>2, EndEffect
  <2> QED BY <1>1, <2>1, <2>3 DEF SameWords, Chip
<1>3. CASE ~(cpu.vector >= 40)
  <2>1. pic' = pic
    BY <1>3 DEF EoiSlave
  <2>2. cpu.line < 8
    BY <1>1, <1>3, DeviceLines
    DEF IInv, Placed, Slow, TIMER, KEYBOARD, NONE
  <2>3. pic.slave.isr = {}
    BY <1>1, <2>2 DEF IInv, Serviced
  <2> QED BY <1>1, <2>1, <2>3 DEF SameWords
<1> QED BY <1>2, <1>3

(* The master's.                                                           *)
LEMMA EoiMasterEffect ==
  ASSUME IInv, EoiMaster
  PROVE  /\ pic' \in [Chip -> ChipType] /\ SameWords(pic, pic')
         /\ pic'.slave = pic.slave
         /\ pic'.master.irr = pic.master.irr /\ pic'.master.isr = {}
<1>1. /\ pic \in [Chip -> ChipType]
      /\ cpu.at = "eoi_master" /\ Running
  BY DEF IInv, Requested, EoiMaster, Handler, Running
<1>2. pic' = [pic EXCEPT !.master = Command(pic.master, EOI)]
  BY CommandPorts DEF EoiMaster
<1>3. /\ pic.master \in ChipType
      /\ \/ pic.master.isr = {} \/ pic.master.isr = {cpu.vector - 32}
         \/ pic.master.isr = {CASCADE}
  BY <1>1 DEF IInv, Serviced, Chip
<1>4. /\ Command(pic.master, EOI) \in ChipType
      /\ Command(pic.master, EOI).icw = pic.master.icw
      /\ Command(pic.master, EOI).base = pic.master.base
      /\ Command(pic.master, EOI).wire = pic.master.wire
      /\ Command(pic.master, EOI).mask = pic.master.mask
      /\ Command(pic.master, EOI).irr = pic.master.irr
      /\ Command(pic.master, EOI).isr = {}
  BY <1>3, EndEffect
<1> QED BY <1>1, <1>2, <1>4 DEF SameWords, Chip

(* A spurious request puts the cascade line in service at most.            *)
LEMMA SpuriousEffect ==
  ASSUME IInv, NEW chip \in Chip, Spurious(chip)
  PROVE  /\ pic' \in [Chip -> ChipType] /\ SameWords(pic, pic')
         /\ pic'.master.irr = pic.master.irr /\ pic'.slave = pic.slave
         /\ pic'.master.isr = pic.master.isr \cup (IF chip = "master" THEN {} ELSE {CASCADE})
<1>1. pic \in [Chip -> ChipType]
  BY DEF IInv, Requested
<1>2. CASE chip = "master"
  BY <1>1, <1>2 DEF Spurious, SameWords
<1>3. CASE chip # "master"
  <2>1. PICK c, lines, d : c = pic.master /\ lines = c.isr \cup {2} /\ d = [c EXCEPT !.isr = lines]
    OBVIOUS
  <2>2. pic' = [pic EXCEPT !.master = d]
    BY <1>3, <2>1 DEF Spurious
  <2>3. c \in ChipType
    BY <1>1, <2>1 DEF Chip
  <2>4. lines \in SUBSET (0 .. 7)
    BY <2>1, <2>3 DEF ChipType
  <2>5. /\ d \in ChipType /\ d.isr = lines /\ d.irr = c.irr
        /\ d.icw = c.icw /\ d.base = c.base /\ d.wire = c.wire /\ d.mask = c.mask
    <3>1. d = [c EXCEPT !.isr = lines]
      BY <2>1
    <3> QED BY <2>3, <2>4, <3>1, OtherService
  <2>6. pic' \in [Chip -> ChipType] /\ pic'.master = d /\ pic'.slave = pic.slave
    BY <1>1, <2>2, <2>5 DEF Chip
  <2> QED BY <1>3, <2>1, <2>5, <2>6 DEF SameWords, Chip, CASCADE
<1> QED BY <1>2, <1>3

(* But for irq_remap no step gives the controllers a word, and only the    *)
(* devices' lines are ever requested.                                      *)
LEMMA PicEffect ==
  ASSUME IInv, [Next]_vars, ~Outportb
  PROVE  SameWords(pic, pic') /\ Requested'
<1>1. Requested /\ pic \in [Chip -> ChipType]
  BY DEF IInv, Requested
<1>2. CASE UNCHANGED pic
  BY <1>1, <1>2 DEF SameWords, Requested
<1>3. CASE Take
  <2>1. NextLine(pic) \in Line /\ pic' = InService(pic, NextLine(pic))
    BY <1>3, TakenLine DEF Take
  <2> QED BY <1>1, <2>1, AcknowledgeEffect DEF Requested
<1>4. ASSUME NEW chip \in Chip, Spurious(chip)
      PROVE  SameWords(pic, pic') /\ Requested'
  BY <1>1, <1>4, SpuriousEffect DEF Requested
<1>5. CASE EoiSlave
  BY <1>1, <1>5, EoiSlaveEffect DEF Requested
<1>6. CASE EoiMaster
  BY <1>1, <1>6, EoiMasterEffect DEF Requested
<1>7. ASSUME NEW line \in Slow, Interrupt(line)
      PROVE  SameWords(pic, pic') /\ Requested'
  <2>1. pic' = Raise(pic, line) /\ line \in Line
    BY <1>7, DeviceLines DEF Interrupt
  <2>2. line = TIMER \/ (line = SlaveLine /\ ~(line < 8))
    BY DeviceLines DEF Slow
  <2> QED BY <1>1, <2>1, <2>2, RaiseEffect DEF Requested, TIMER
<1>8. CASE Deliver
  <2>1. pic' = Raise(pic, KEYBOARD) /\ KEYBOARD \in Line /\ KEYBOARD < 8
    BY <1>8, DeviceLines DEF Deliver, KEYBOARD
  <2> QED BY <1>1, <2>1, RaiseEffect DEF Requested
<1> QED BY <1>2, <1>3, <1>4, <1>5, <1>6, <1>7, <1>8, PicSteps

(* irq_remap: the controllers take its ten words in order.                 *)
LEMMA RemapEffect ==
  ASSUME IInv, Outportb
  PROVE  /\ MasterWords' /\ SlaveWords' /\ Requested'
         /\ pic'.master.irr \subseteq pic.master.irr
         /\ pic'.slave.irr \subseteq pic.slave.irr
         /\ pic'.master.isr = {} /\ pic'.slave.isr = {}
<1>1. /\ main \in 3 .. 12 /\ main' = main + 1
      /\ pic' = OutPort(pic, Boot[main].port, Boot[main].value)
  BY BootPlace DEF IInv, Outportb
<1>2. /\ pic \in [Chip -> ChipType]
      /\ pic.master.irr \subseteq {TIMER, KEYBOARD}
      /\ pic.slave.irr \subseteq {SlaveLine - 8}
      /\ pic.master.isr = {} /\ pic.slave.isr = {}
      /\ MasterWords /\ SlaveWords
  BY DEF IInv, Requested, Outportb, Step, MainRuns, Serviced, Running
<1>3. pic.master \in ChipType /\ pic.slave \in ChipType
  BY <1>2 DEF Chip
<1>4. CASE main = 3
  <2>1. pic' = [pic EXCEPT !.master = Command(pic.master, 17)]
    BY <1>1, <1>4, BootCalls, CommandPorts DEF Out
  <2>2. pic'.master = Command(pic.master, 17) /\ pic'.slave = pic.slave
    BY <1>2, <2>1 DEF Chip
  <2>3. pic.master.icw = 0 /\ pic.master.base = 8 /\ pic.master.wire = 4 /\ pic.master.mask = {}
    BY <1>2, <1>4 DEF MasterWords
  <2>4. /\ pic'.master \in ChipType /\ pic'.master.icw = 2 /\ pic'.master.base = 8
        /\ pic'.master.wire = 4 /\ pic'.master.mask = {}
        /\ pic'.master.irr \subseteq pic.master.irr /\ pic'.master.isr = {}
    BY <1>2, <1>3, <2>2, <2>3, ResetEffect
  <2>5. pic' \in [Chip -> ChipType]
    BY <1>2, <2>1, <2>2, <2>4 DEF Chip
  <2>6. MasterWords'
    BY <1>1, <1>4, <2>4 DEF MasterWords
  <2>7. SlaveWords'
    BY <1>1, <1>2, <1>4, <2>2 DEF SlaveWords
  <2> QED BY <1>2, <2>2, <2>4, <2>5, <2>6, <2>7 DEF Requested
<1>5. CASE main = 4
  <2>1. pic' = [pic EXCEPT !.slave = Command(pic.slave, 17)]
    BY <1>1, <1>5, BootCalls, CommandPorts DEF Out
  <2>2. pic'.slave = Command(pic.slave, 17) /\ pic'.master = pic.master
    BY <1>2, <2>1 DEF Chip
  <2>3. pic.slave.icw = 0 /\ pic.slave.base = 112 /\ pic.slave.wire = 2 /\ pic.slave.mask = {}
    BY <1>2, <1>5 DEF SlaveWords
  <2>4. /\ pic'.slave \in ChipType /\ pic'.slave.icw = 2 /\ pic'.slave.base = 112
        /\ pic'.slave.wire = 2 /\ pic'.slave.mask = {}
        /\ pic'.slave.irr \subseteq pic.slave.irr /\ pic'.slave.isr = {}
    BY <1>2, <1>3, <2>2, <2>3, ResetEffect
  <2>5. pic' \in [Chip -> ChipType]
    BY <1>2, <2>1, <2>2, <2>4 DEF Chip
  <2>6. SlaveWords'
    BY <1>1, <1>5, <2>4 DEF SlaveWords
  <2>7. MasterWords'
    BY <1>1, <1>2, <1>5, <2>2 DEF MasterWords
  <2> QED BY <1>2, <2>2, <2>4, <2>5, <2>6, <2>7 DEF Requested
<1>6. CASE main = 5
  <2>1. pic' = [pic EXCEPT !.master = Data(pic.master, 32)]
    BY <1>1, <1>6, BootCalls, CommandPorts DEF Out
  <2>2. pic'.master = Data(pic.master, 32) /\ pic'.slave = pic.slave
    BY <1>2, <2>1 DEF Chip
  <2>3. pic.master.icw = 2 /\ pic.master.base = 8 /\ pic.master.wire = 4 /\ pic.master.mask = {}
    BY <1>2, <1>6 DEF MasterWords
  <2>4. /\ pic'.master \in ChipType /\ pic'.master.icw = 3 /\ pic'.master.base = 32
        /\ pic'.master.wire = 4 /\ pic'.master.mask = {}
        /\ pic'.master.irr \subseteq pic.master.irr /\ pic'.master.isr = {}
    BY <1>2, <1>3, <2>2, <2>3, DataEffect
  <2>5. pic' \in [Chip -> ChipType]
    BY <1>2, <2>1, <2>2, <2>4 DEF Chip
  <2>6. MasterWords'
    BY <1>1, <1>6, <2>4 DEF MasterWords
  <2>7. SlaveWords'
    BY <1>1, <1>2, <1>6, <2>2 DEF SlaveWords
  <2> QED BY <1>2, <2>2, <2>4, <2>5, <2>6, <2>7 DEF Requested
<1>7. CASE main = 6
  <2>1. pic' = [pic EXCEPT !.slave = Data(pic.slave, 40)]
    BY <1>1, <1>7, BootCalls, CommandPorts DEF Out
  <2>2. pic'.slave = Data(pic.slave, 40) /\ pic'.master = pic.master
    BY <1>2, <2>1 DEF Chip
  <2>3. pic.slave.icw = 2 /\ pic.slave.base = 112 /\ pic.slave.wire = 2 /\ pic.slave.mask = {}
    BY <1>2, <1>7 DEF SlaveWords
  <2>4. /\ pic'.slave \in ChipType /\ pic'.slave.icw = 3 /\ pic'.slave.base = 40
        /\ pic'.slave.wire = 2 /\ pic'.slave.mask = {}
        /\ pic'.slave.irr \subseteq pic.slave.irr /\ pic'.slave.isr = {}
    BY <1>2, <1>3, <2>2, <2>3, DataEffect
  <2>5. pic' \in [Chip -> ChipType]
    BY <1>2, <2>1, <2>2, <2>4 DEF Chip
  <2>6. SlaveWords'
    BY <1>1, <1>7, <2>4 DEF SlaveWords
  <2>7. MasterWords'
    BY <1>1, <1>2, <1>7, <2>2 DEF MasterWords
  <2> QED BY <1>2, <2>2, <2>4, <2>5, <2>6, <2>7 DEF Requested
<1>8. CASE main = 7
  <2>1. pic' = [pic EXCEPT !.master = Data(pic.master, 4)]
    BY <1>1, <1>8, BootCalls, CommandPorts DEF Out
  <2>2. pic'.master = Data(pic.master, 4) /\ pic'.slave = pic.slave
    BY <1>2, <2>1 DEF Chip
  <2>3. pic.master.icw = 3 /\ pic.master.base = 32 /\ pic.master.wire = 4 /\ pic.master.mask = {}
    BY <1>2, <1>8 DEF MasterWords
  <2>4. /\ pic'.master \in ChipType /\ pic'.master.icw = 4 /\ pic'.master.base = 32
        /\ pic'.master.wire = 4 /\ pic'.master.mask = {}
        /\ pic'.master.irr \subseteq pic.master.irr /\ pic'.master.isr = {}
    BY <1>2, <1>3, <2>2, <2>3, DataEffect
  <2>5. pic' \in [Chip -> ChipType]
    BY <1>2, <2>1, <2>2, <2>4 DEF Chip
  <2>6. MasterWords'
    BY <1>1, <1>8, <2>4 DEF MasterWords
  <2>7. SlaveWords'
    BY <1>1, <1>2, <1>8, <2>2 DEF SlaveWords
  <2> QED BY <1>2, <2>2, <2>4, <2>5, <2>6, <2>7 DEF Requested
<1>9. CASE main = 8
  <2>1. pic' = [pic EXCEPT !.slave = Data(pic.slave, 2)]
    BY <1>1, <1>9, BootCalls, CommandPorts DEF Out
  <2>2. pic'.slave = Data(pic.slave, 2) /\ pic'.master = pic.master
    BY <1>2, <2>1 DEF Chip
  <2>3. pic.slave.icw = 3 /\ pic.slave.base = 40 /\ pic.slave.wire = 2 /\ pic.slave.mask = {}
    BY <1>2, <1>9 DEF SlaveWords
  <2>4. /\ pic'.slave \in ChipType /\ pic'.slave.icw = 4 /\ pic'.slave.base = 40
        /\ pic'.slave.wire = 2 /\ pic'.slave.mask = {}
        /\ pic'.slave.irr \subseteq pic.slave.irr /\ pic'.slave.isr = {}
    BY <1>2, <1>3, <2>2, <2>3, DataEffect
  <2>5. pic' \in [Chip -> ChipType]
    BY <1>2, <2>1, <2>2, <2>4 DEF Chip
  <2>6. SlaveWords'
    BY <1>1, <1>9, <2>4 DEF SlaveWords
  <2>7. MasterWords'
    BY <1>1, <1>2, <1>9, <2>2 DEF MasterWords
  <2> QED BY <1>2, <2>2, <2>4, <2>5, <2>6, <2>7 DEF Requested
<1>10. CASE main = 9
  <2>1. pic' = [pic EXCEPT !.master = Data(pic.master, 1)]
    BY <1>1, <1>10, BootCalls, CommandPorts DEF Out
  <2>2. pic'.master = Data(pic.master, 1) /\ pic'.slave = pic.slave
    BY <1>2, <2>1 DEF Chip
  <2>3. pic.master.icw = 4 /\ pic.master.base = 32 /\ pic.master.wire = 4 /\ pic.master.mask = {}
    BY <1>2, <1>10 DEF MasterWords
  <2>4. /\ pic'.master \in ChipType /\ pic'.master.icw = 0 /\ pic'.master.base = 32
        /\ pic'.master.wire = 4 /\ pic'.master.mask = {}
        /\ pic'.master.irr \subseteq pic.master.irr /\ pic'.master.isr = {}
    BY <1>2, <1>3, <2>2, <2>3, DataEffect
  <2>5. pic' \in [Chip -> ChipType]
    BY <1>2, <2>1, <2>2, <2>4 DEF Chip
  <2>6. MasterWords'
    BY <1>1, <1>10, <2>4 DEF MasterWords
  <2>7. SlaveWords'
    BY <1>1, <1>2, <1>10, <2>2 DEF SlaveWords
  <2> QED BY <1>2, <2>2, <2>4, <2>5, <2>6, <2>7 DEF Requested
<1>11. CASE main = 10
  <2>1. pic' = [pic EXCEPT !.slave = Data(pic.slave, 1)]
    BY <1>1, <1>11, BootCalls, CommandPorts DEF Out
  <2>2. pic'.slave = Data(pic.slave, 1) /\ pic'.master = pic.master
    BY <1>2, <2>1 DEF Chip
  <2>3. pic.slave.icw = 4 /\ pic.slave.base = 40 /\ pic.slave.wire = 2 /\ pic.slave.mask = {}
    BY <1>2, <1>11 DEF SlaveWords
  <2>4. /\ pic'.slave \in ChipType /\ pic'.slave.icw = 0 /\ pic'.slave.base = 40
        /\ pic'.slave.wire = 2 /\ pic'.slave.mask = {}
        /\ pic'.slave.irr \subseteq pic.slave.irr /\ pic'.slave.isr = {}
    BY <1>2, <1>3, <2>2, <2>3, DataEffect
  <2>5. pic' \in [Chip -> ChipType]
    BY <1>2, <2>1, <2>2, <2>4 DEF Chip
  <2>6. SlaveWords'
    BY <1>1, <1>11, <2>4 DEF SlaveWords
  <2>7. MasterWords'
    BY <1>1, <1>2, <1>11, <2>2 DEF MasterWords
  <2> QED BY <1>2, <2>2, <2>4, <2>5, <2>6, <2>7 DEF Requested
<1>12. CASE main = 11
  <2>1. pic' = [pic EXCEPT !.master = Data(pic.master, 0)]
    BY <1>1, <1>12, BootCalls, CommandPorts DEF Out
  <2>2. pic'.master = Data(pic.master, 0) /\ pic'.slave = pic.slave
    BY <1>2, <2>1 DEF Chip
  <2>3. pic.master.icw = 0 /\ pic.master.base = 32 /\ pic.master.wire = 4 /\ pic.master.mask = {}
    BY <1>2, <1>12 DEF MasterWords
  <2>4. /\ pic'.master \in ChipType /\ pic'.master.icw = 0 /\ pic'.master.base = 32
        /\ pic'.master.wire = 4 /\ pic'.master.mask = {}
        /\ pic'.master.irr \subseteq pic.master.irr /\ pic'.master.isr = {}
    BY <1>2, <1>3, <2>2, <2>3, DataEffect, PortBits
  <2>5. pic' \in [Chip -> ChipType]
    BY <1>2, <2>1, <2>2, <2>4 DEF Chip
  <2>6. MasterWords'
    BY <1>1, <1>12, <2>4 DEF MasterWords
  <2>7. SlaveWords'
    BY <1>1, <1>2, <1>12, <2>2 DEF SlaveWords
  <2> QED BY <1>2, <2>2, <2>4, <2>5, <2>6, <2>7 DEF Requested
<1>13. CASE main = 12
  <2>1. pic' = [pic EXCEPT !.slave = Data(pic.slave, 0)]
    BY <1>1, <1>13, BootCalls, CommandPorts DEF Out
  <2>2. pic'.slave = Data(pic.slave, 0) /\ pic'.master = pic.master
    BY <1>2, <2>1 DEF Chip
  <2>3. pic.slave.icw = 0 /\ pic.slave.base = 40 /\ pic.slave.wire = 2 /\ pic.slave.mask = {}
    BY <1>2, <1>13 DEF SlaveWords
  <2>4. /\ pic'.slave \in ChipType /\ pic'.slave.icw = 0 /\ pic'.slave.base = 40
        /\ pic'.slave.wire = 2 /\ pic'.slave.mask = {}
        /\ pic'.slave.irr \subseteq pic.slave.irr /\ pic'.slave.isr = {}
    BY <1>2, <1>3, <2>2, <2>3, DataEffect, PortBits
  <2>5. pic' \in [Chip -> ChipType]
    BY <1>2, <2>1, <2>2, <2>4 DEF Chip
  <2>6. SlaveWords'
    BY <1>1, <1>13, <2>4 DEF SlaveWords
  <2>7. MasterWords'
    BY <1>1, <1>2, <1>13, <2>2 DEF MasterWords
  <2> QED BY <1>2, <2>2, <2>4, <2>5, <2>6, <2>7 DEF Requested
<1>14. main \in {3, 4, 5, 6, 7, 8, 9, 10, 11, 12}
  BY <1>1
<1> QED BY <1>4, <1>5, <1>6, <1>7, <1>8, <1>9, <1>10, <1>11, <1>12, <1>13, <1>14

(* The words of the controllers, after any step.                           *)
LEMMA WordsStep == IInv /\ [Next]_vars => MasterWords' /\ SlaveWords' /\ Requested'
<1> SUFFICES ASSUME IInv, [Next]_vars
             PROVE  MasterWords' /\ SlaveWords' /\ Requested'
  OBVIOUS
<1>1. CASE Outportb
  BY <1>1, RemapEffect
<1>2. CASE ~Outportb
  <2>1. SameWords(pic, pic') /\ Requested'
    BY <1>2, PicEffect
  <2>2. main' = main \/ (main' = main + 1 /\ main \in {1, 2, 13, 14, 15, 16, 17})
    BY <1>2, Steps, LaterTables, BootPlace
    DEF IInv, IdtInstall, IsrsInstall, IrqGates, Sti, InitVideo, TimerInstall,
        KeyboardInstall
  <2> QED BY <2>1, <2>2 DEF IInv, MasterWords, SlaveWords, SameWords, Chip
<1> QED BY <1>1, <1>2


(* sti is the one step that turns interrupts on for good.                  *)
LEMMA OpenedStep ==
  ASSUME IInv, [Next]_vars
  PROVE  /\ Opened' <=> Opened \/ Sti
         /\ Sti => main = 14 /\ cpu.at = "main" /\ Running
         /\ main' >= main
<1>1. Tables
  BY DEF IInv
<1>2. CASE Later
  BY <1>1, <1>2, LaterTables, BootPlace DEF Opened, Sti, Tables
<1>3. CASE Sti
  BY <1>1, <1>3, BootPlace DEF Opened, Sti, Step, MainRuns, Running
<1>4. CASE ~Later /\ ~Sti
  <2>1. main \in 1 .. 17 /\ main' = main + 1 /\ main # 14
    BY <1>1, <1>4, Steps, BootPlace
    DEF IdtInstall, IsrsInstall, Outportb, IrqGates, InitVideo, TimerInstall,
        KeyboardInstall
  <2> QED BY <1>4, <2>1 DEF Opened
<1> QED BY <1>2, <1>3, <1>4

(* What a step does to the processor.                                      *)
LEMMA CpuSteps ==
  ASSUME IInv, [Next]_vars
  PROVE  \/ UNCHANGED cpu /\ ~Sti
         \/ Sti
         \/ Take
         \/ \E chip \in Chip : Spurious(chip)
         \/ Exception
         \/ Handling
BY DEF Next, Processor, Mainline, HaltLoop, vars, IdtInstall, IsrsInstall, IrqGates,
       Outportb, InitVideo, TimerInstall, KeyboardInstall, Spin, WaitReturn,
       WaitCall, Interrupt, Deliver, Press, Release, Repeat, Send

(* With interrupts on, each line has its vector and a gate.                *)
LEMMA VectorOf ==
  ASSUME IInv, Opened, NEW line \in Line
  PROVE  Vector(pic, line) = 32 + line /\ Vector(pic, line) \in idt
<1>1. Vector(pic, line) = 32 + line
  <2>1. line \in Int
    BY DEF Line
  <2> QED
    BY <2>1, PortBits DEF Vector, IInv, MasterWords, SlaveWords, Opened, Tables
<1> QED BY <1>1 DEF IInv, Tables, Opened, Line

(* The processor enters the handler of a line from 32 up.                  *)
LEMMA EnterEffect ==
  ASSUME Placed, NEW line, NEW vector \in Int, vector >= 32, vector \in idt,
         Running, Enter(line, vector)
  PROVE  /\ DOMAIN cpu' = {"IF", "state", "at", "vector", "line", "code", "text"}
         /\ cpu'.IF = FALSE /\ cpu'.state = "running" /\ cpu'.at = "irq_handler"
         /\ cpu'.line = line /\ cpu'.vector = vector /\ cpu'.text = <<>>
         /\ cpu'.code = cpu.code
BY DEF Placed, Running, Enter

(* A handler is entered with its line and vector, or with noise.           *)
LEMMA EnteredEffect ==
  ASSUME IInv, Take \/ \E chip \in Chip : Spurious(chip)
  PROVE  /\ Opened /\ Running /\ cpu.at = "main"
         /\ DOMAIN cpu' = {"IF", "state", "at", "vector", "line", "code", "text"}
         /\ cpu'.IF = FALSE /\ cpu'.state = "running" /\ cpu'.at = "irq_handler"
         /\ cpu'.code = cpu.code
         /\ Take => cpu'.line = NextLine(pic) /\ cpu'.vector = 32 + cpu'.line
         /\ ~Take => /\ cpu'.line = NONE
                     /\ \/ cpu'.vector = 39 /\ Spurious("master")
                        \/ cpu'.vector = 47 /\ Spurious("slave")
<1>1. CASE Take
  <2>1. /\ Opened /\ Running /\ cpu.at = "main" /\ Placed
        /\ NextLine(pic) \in Line
    BY <1>1, WhenOpen, TakenLine DEF Take, IInv
  <2>2. Vector(pic, NextLine(pic)) = 32 + NextLine(pic) /\ Vector(pic, NextLine(pic)) \in idt
    BY <2>1, VectorOf
  <2>3. Enter(NextLine(pic), 32 + NextLine(pic))
    BY <1>1, <2>2 DEF Take
  <2>4. 32 + NextLine(pic) \in Int /\ 32 + NextLine(pic) >= 32
    BY <2>1 DEF Line
  <2> QED BY <1>1, <2>1, <2>2, <2>3, <2>4, EnterEffect
<1>2. ASSUME NEW chip \in Chip, Spurious(chip), ~Take
      PROVE  /\ Opened /\ Running /\ cpu.at = "main"
             /\ DOMAIN cpu' = {"IF", "state", "at", "vector", "line", "code", "text"}
             /\ cpu'.IF = FALSE /\ cpu'.state = "running" /\ cpu'.at = "irq_handler"
             /\ cpu'.code = cpu.code
             /\ cpu'.line = NONE
             /\ \/ cpu'.vector = 39 /\ Spurious("master")
                \/ cpu'.vector = 47 /\ Spurious("slave")
  <2>1. Opened /\ Running /\ cpu.at = "main" /\ Placed
    BY <1>2, WhenOpen DEF Spurious, IInv
  <2>2. 7 \in Line /\ 15 \in Line
    BY DEF Line
  <2>3. /\ Vector(pic, 7) = 39 /\ Vector(pic, 15) = 47 /\ 39 \in idt /\ 47 \in idt
    BY <2>1, <2>2, VectorOf
  <2>5. CASE chip = "master"
    <3>1. Enter(NONE, Vector(pic, 7)) /\ Spurious("master")
      BY <1>2, <2>5 DEF Spurious
    <3> DEFINE vector == Vector(pic, 7)
    <3>2. vector = 39 /\ vector \in Int /\ vector >= 32 /\ vector \in idt
      BY <2>3
    <3> HIDE DEF vector
    <3>3. Enter(NONE, vector)
      BY <3>1 DEF vector
    <3>4. /\ DOMAIN cpu' = {"IF", "state", "at", "vector", "line", "code", "text"}
          /\ cpu'.IF = FALSE /\ cpu'.state = "running" /\ cpu'.at = "irq_handler"
          /\ cpu'.code = cpu.code /\ cpu'.line = NONE /\ cpu'.vector = vector
      BY <2>1, <3>2, <3>3, EnterEffect
    <3> QED BY <2>1, <3>1, <3>2, <3>4
  <2>6. CASE chip = "slave"
    <3>1. Enter(NONE, Vector(pic, 15)) /\ Spurious("slave")
      BY <1>2, <2>6 DEF Spurious
    <3> DEFINE vector == Vector(pic, 15)
    <3>2. vector = 47 /\ vector \in Int /\ vector >= 32 /\ vector \in idt
      BY <2>3
    <3> HIDE DEF vector
    <3>3. Enter(NONE, vector)
      BY <3>1 DEF vector
    <3>4. /\ DOMAIN cpu' = {"IF", "state", "at", "vector", "line", "code", "text"}
          /\ cpu'.IF = FALSE /\ cpu'.state = "running" /\ cpu'.at = "irq_handler"
          /\ cpu'.code = cpu.code /\ cpu'.line = NONE /\ cpu'.vector = vector
      BY <2>1, <3>2, <3>3, EnterEffect
    <3> QED BY <2>1, <3>1, <3>2, <3>4
  <2> QED BY <2>5, <2>6 DEF Chip
<1> QED BY <1>1, <1>2

(* The parts of a handler that change only the place.                      *)
LEMMA HandlerEffect ==
  ASSUME Placed, NEW from, NEW to, Handler(from, to)
  PROVE  /\ DOMAIN cpu' = {"IF", "state", "at", "vector", "line", "code", "text"}
         /\ Running /\ cpu.at = from /\ cpu'.at = to
         /\ cpu'.IF = cpu.IF /\ cpu'.state = cpu.state /\ cpu'.line = cpu.line
         /\ cpu'.vector = cpu.vector /\ cpu'.code = cpu.code /\ cpu'.text = cpu.text
BY DEF Placed, Handler, Running

(* irq_handler goes to the routine of its line; the timer's and the        *)
(* keyboard's are on their lines, and noise has none.                      *)
LEMMA RoutineEffect ==
  ASSUME IInv, IrqHandler
  PROVE  /\ InHandler
         /\ DOMAIN cpu' = {"IF", "state", "at", "vector", "line", "code", "text"}
         /\ cpu'.IF = cpu.IF /\ cpu'.state = cpu.state /\ cpu'.line = cpu.line
         /\ cpu'.vector = cpu.vector /\ cpu'.code = cpu.code /\ cpu'.text = cpu.text
         /\ cpu.at = "irq_handler"
         /\ cpu'.at = IF cpu.line = TIMER /\ main >= 17 THEN "timer_handler"
                      ELSE IF cpu.line = KEYBOARD /\ main >= 18 THEN "keyboard_handler"
                      ELSE "eoi_slave"
<1>1. Placed /\ Tables
  BY DEF IInv
<1> DEFINE routine == irq_routines[cpu.vector - 32]
           to == IF routine = "NULL" THEN "eoi_slave" ELSE routine
<1>2. Handler("irq_handler", to)
  BY DEF IrqHandler
<1>3. cpu.at = "irq_handler" /\ InHandler
  BY <1>2 DEF Handler, InHandler, Running, Places
<1>4. \/ cpu.line \in Slow \cup {KEYBOARD} /\ cpu.vector = 32 + cpu.line
      \/ cpu.line = NONE /\ cpu.vector \in {39, 47}
  BY <1>1, <1>3 DEF Placed
<1>5. routine = IF cpu.line = TIMER /\ main >= 17 THEN "timer_handler"
                ELSE IF cpu.line = KEYBOARD /\ main >= 18 THEN "keyboard_handler" ELSE "NULL"
  <2>1. CASE cpu.line \in Slow \cup {KEYBOARD} /\ cpu.vector = 32 + cpu.line
    <3>1. cpu.line \in 0 .. 15 /\ cpu.vector - 32 = cpu.line
      BY <2>1, DeviceLines DEF Line
    <3> QED BY <1>1, <3>1 DEF Tables
  <2>2. CASE cpu.line = NONE /\ cpu.vector \in {39, 47}
    <3>1. cpu.vector - 32 \in {7, 15} /\ cpu.line = -1
      BY <2>2 DEF NONE
    <3> QED BY <1>1, <3>1 DEF Tables, TIMER, KEYBOARD
  <2> QED BY <1>4, <2>1, <2>2
<1> HIDE DEF routine
<1>6. to = IF cpu.line = TIMER /\ main >= 17 THEN "timer_handler"
           ELSE IF cpu.line = KEYBOARD /\ main >= 18 THEN "keyboard_handler"
           ELSE "eoi_slave"
  BY <1>5
<1> HIDE DEF to
<1> QED BY <1>1, <1>2, <1>3, <1>6, HandlerEffect

(* inportb(0x60) and the method of the key.                                *)
LEMMA KeyEffect ==
  ASSUME Placed, Inport \/ KeyMethod
  PROVE  /\ DOMAIN cpu' = {"IF", "state", "at", "vector", "line", "code", "text"}
         /\ Running
         /\ cpu'.IF = cpu.IF /\ cpu'.state = cpu.state /\ cpu'.line = cpu.line
         /\ cpu'.vector = cpu.vector
         /\ Inport => /\ cpu.at = "keyboard_handler" /\ cpu'.at = "key_method"
                      /\ cpu'.code = kbd.code
         /\ KeyMethod => /\ cpu.at = "key_method" /\ cpu'.at = "eoi_slave"
                         /\ cpu'.code = cpu.code
                         /\ cpu'.text = Printed(keyboard_state, cpu.code)
BY DEF Placed, Inport, KeyMethod, Running

(* iret.                                                                   *)
LEMMA IretEffect ==
  ASSUME Iret
  PROVE  /\ DOMAIN cpu' = {"IF", "state", "at", "vector", "line", "code", "text"}
         /\ Running /\ cpu.at = "iret"
         /\ cpu'.IF = TRUE /\ cpu'.state = "running" /\ cpu'.at = "main"
         /\ cpu'.line = NONE /\ cpu'.vector = NONE
BY DEF Iret, Idle, Running

(* An exception stops the machine.                                         *)
LEMMA ExceptionEffect ==
  ASSUME Exception
  PROVE  /\ DOMAIN cpu' = {"IF", "state", "at", "vector", "line", "code", "text"}
         /\ Running
         /\ cpu'.IF = FALSE /\ cpu'.state = "panic" /\ cpu'.at = "main"
         /\ cpu'.line = NONE
BY DEF Exception, Idle, Running

(* The processor is where it may be, after any step.                       *)
LEMMA PlacedStep == IInv /\ [Next]_vars => Placed'
<1> SUFFICES ASSUME IInv, [Next]_vars PROVE Placed'
  OBVIOUS
<1>1. Placed /\ Tables
  BY DEF IInv
<1>2. (Opened' <=> Opened \/ Sti) /\ (Sti => cpu.at = "main" /\ Running)
  BY OpenedStep
<1> USE DEF Running, InHandler, Places
<1>3. CASE UNCHANGED cpu /\ ~Sti
  BY <1>1, <1>2, <1>3 DEF Placed
<1>4. CASE Sti
  <2>1. cpu' = [cpu EXCEPT !.IF = TRUE]
    BY <1>4 DEF Sti
  <2> QED BY <1>1, <1>2, <1>4, <2>1 DEF Placed
<1>5. CASE Take \/ \E chip \in Chip : Spurious(chip)
  <2>1. /\ Opened
        /\ DOMAIN cpu' = {"IF", "state", "at", "vector", "line", "code", "text"}
        /\ cpu'.IF = FALSE /\ cpu'.state = "running" /\ cpu'.at = "irq_handler"
        /\ \/ cpu'.line \in Slow \cup {KEYBOARD} /\ cpu'.vector = 32 + cpu'.line
           \/ cpu'.line = NONE /\ cpu'.vector \in {39, 47}
    BY <1>5, EnteredEffect, TakenLine
  <2> QED BY <1>2, <2>1 DEF Placed
<1>6. CASE Exception
  BY <1>6, ExceptionEffect DEF Placed
<1>7. CASE Handling
  <2>1. CASE IrqHandler
    <3>1. Opened'
      BY <1>1, <1>2, <2>1, RoutineEffect DEF Placed
    <3> QED BY <1>1, <2>1, <3>1, RoutineEffect DEF Placed, TIMER, KEYBOARD
  <2>2. CASE Inport \/ KeyMethod
    <3>1. Opened'
      BY <1>1, <1>2, <2>2, KeyEffect DEF Placed
    <3> QED BY <1>1, <2>2, <3>1, KeyEffect DEF Placed
  <2>3. CASE TimerHandler \/ EoiSlave \/ EoiMaster
    <3>1. PICK from \in {"timer_handler", "eoi_slave", "eoi_master"},
               to \in {"eoi_slave", "eoi_master", "iret"} : Handler(from, to)
      BY <2>3 DEF TimerHandler, EoiSlave, EoiMaster
    <3>2. Opened'
      BY <1>1, <1>2, <3>1, HandlerEffect DEF Placed
    <3> QED BY <1>1, <3>1, <3>2, HandlerEffect DEF Placed
  <2>4. CASE Iret
    <3>1. Opened'
      BY <1>1, <1>2, <2>4, IretEffect DEF Placed
    <3> QED BY <2>4, <3>1, IretEffect DEF Placed
  <2> QED BY <1>7, <2>1, <2>2, <2>3, <2>4 DEF Handling
<1> QED BY <1>3, <1>4, <1>5, <1>6, <1>7, CpuSteps

(* Steps of no handler and of no interrupt leave the processor, and what   *)
(* is in service, alone.                                                   *)
LEMMA QuietSteps ==
  ASSUME IInv, [Next]_vars
  PROVE  \/ Sti \/ Outportb \/ Take \/ (\E chip \in Chip : Spurious(chip))
         \/ Exception \/ Handling
         \/ /\ UNCHANGED cpu
            /\ \/ UNCHANGED pic
               \/ \E line \in Slow : Interrupt(line)
               \/ Deliver
BY DEF Next, Processor, Mainline, HaltLoop, vars, IdtInstall, IsrsInstall, IrqGates,
       InitVideo, TimerInstall, KeyboardInstall, Spin, WaitReturn,
       WaitCall, Interrupt, Deliver, Press, Release, Repeat, Send

(* Devices change nothing that is in service.                              *)
LEMMA DeviceEffect ==
  ASSUME IInv, (\E line \in Slow : Interrupt(line)) \/ Deliver
  PROVE  /\ pic'.master.isr = pic.master.isr /\ pic'.slave.isr = pic.slave.isr
         /\ UNCHANGED cpu
<1>1. pic \in [Chip -> ChipType]
  BY DEF IInv, Requested
<1>2. PICK line \in Line : pic' = Raise(pic, line) /\ UNCHANGED cpu
  BY DeviceLines DEF Interrupt, Deliver
<1> QED BY <1>1, <1>2, RaiseEffect

(* The acknowledged request, in the controllers.                           *)
LEMMA TakeEffect ==
  ASSUME IInv, Take
  PROVE  LET line == NextLine(pic)
         IN  /\ pic'.master.irr = pic.master.irr \ (IF line < 8 THEN {line} ELSE {})
             /\ pic'.slave.irr = pic.slave.irr \ (IF line < 8 THEN {} ELSE {line - 8})
             /\ pic'.master.isr = IF line < 8 THEN {line} ELSE {CASCADE}
             /\ pic'.slave.isr = IF line < 8 THEN {} ELSE {line - 8}
<1> DEFINE line == NextLine(pic)
<1>1. /\ pic.master.isr = {} /\ pic.slave.isr = {} /\ pic \in [Chip -> ChipType]
      /\ pic' = InService(pic, line) /\ line \in Line
  BY WhenOpen, TakenLine DEF Take, IInv, Requested
<1> HIDE DEF line
<1>2. /\ pic'.master.irr = pic.master.irr \ (IF line < 8 THEN {line} ELSE {})
      /\ pic'.slave.irr = pic.slave.irr \ (IF line < 8 THEN {} ELSE {line - 8})
      /\ pic'.master.isr = pic.master.isr \cup (IF line < 8 THEN {line} ELSE {CASCADE})
      /\ pic'.slave.isr = pic.slave.isr \cup (IF line < 8 THEN {} ELSE {line - 8})
  <2>1. pic \in [Chip -> ChipType] /\ line \in Line /\ pic' = InService(pic, line)
    BY <1>1
  <2> QED BY <2>1, AcknowledgeEffect, Zenon
<1>3. /\ pic'.master.isr = IF line < 8 THEN {line} ELSE {CASCADE}
      /\ pic'.slave.isr = IF line < 8 THEN {} ELSE {line - 8}
  BY <1>1, <1>2
<1> QED BY <1>2, <1>3 DEF line

(* Nothing is in service but what the handler will end, after any step.    *)
LEMMA ServicedStep == IInv /\ [Next]_vars => Serviced'
<1> SUFFICES ASSUME IInv, [Next]_vars PROVE Serviced'
  OBVIOUS
<1>1. Placed /\ Serviced
  BY DEF IInv
<1>2. CASE Sti
  BY <1>1, <1>2, OpenedStep DEF Sti, Serviced, Running, Placed
<1>3. CASE Outportb
  <2>1. UNCHANGED cpu /\ Running /\ cpu.at = "main"
    BY <1>3 DEF Outportb, Step, MainRuns, Running
  <2> QED BY <1>3, <2>1, RemapEffect DEF Serviced, Running
<1>4. CASE Take
  <2>1. /\ pic.master.isr = {} /\ pic.slave.isr = {} /\ pic \in [Chip -> ChipType]
        /\ pic' = InService(pic, NextLine(pic))
    BY <1>4, WhenOpen DEF Take, IInv, Requested
  <2>2. /\ NextLine(pic) \in Line /\ NextLine(pic) \in {0, 1, SlaveLine}
        /\ SlaveLine >= 8 /\ SlaveLine <= 15 /\ SlaveLine \in Int
    BY <1>4, TakenLine, DeviceLines DEF Slow, TIMER, KEYBOARD
  <2>3. /\ cpu'.at = "irq_handler"
        /\ cpu'.line = NextLine(pic) /\ cpu'.vector = 32 + cpu'.line
    BY <1>4, EnteredEffect
  <2>4. /\ pic'.master.isr = IF cpu'.line < 8 THEN {cpu'.line} ELSE {CASCADE}
        /\ pic'.slave.isr = IF cpu'.line < 8 THEN {} ELSE {cpu'.line - 8}
    BY <1>4, <2>1, <2>3, TakeEffect
  <2> HIDE DEF Running
  <2> QED BY <2>2, <2>3, <2>4 DEF Serviced
<1>5. ASSUME NEW chip \in Chip, Spurious(chip), ~Take PROVE Serviced'
  <2>1. pic.master.isr = {} /\ pic.slave.isr = {}
    BY <1>5, WhenOpen DEF Spurious
  <2>2. /\ cpu'.at = "irq_handler" /\ cpu'.line = NONE
        /\ \/ cpu'.vector = 39 /\ Spurious("master")
           \/ cpu'.vector = 47 /\ Spurious("slave")
    BY <1>5, EnteredEffect
  <2>3. CASE cpu'.vector = 39 /\ Spurious("master")
    <3>1. pic' = pic
      BY <2>3 DEF Spurious
    <3> QED BY <2>1, <2>2, <2>3, <3>1 DEF Serviced, NONE
  <2>4. CASE cpu'.vector = 47 /\ Spurious("slave")
    <3>1. pic'.master.isr = {CASCADE} /\ pic'.slave = pic.slave
      BY <2>1, <2>4, SpuriousEffect DEF Chip
    <3> QED BY <2>1, <2>2, <2>4, <3>1 DEF Serviced, NONE
  <2> QED BY <2>2, <2>3, <2>4
<1>6. CASE Exception
  BY <1>6, ExceptionEffect DEF Serviced, Running
<1>7. CASE Handling
  <2>1. CASE IrqHandler
    <3>1. /\ UNCHANGED pic /\ cpu.at = "irq_handler"
          /\ cpu'.at \in {"timer_handler", "keyboard_handler", "eoi_slave"}
          /\ cpu'.line = cpu.line /\ cpu'.vector = cpu.vector /\ cpu'.state = cpu.state
      BY <2>1, RoutineEffect DEF IrqHandler
    <3> QED BY <1>1, <3>1 DEF Serviced, Running
  <2>2. CASE Inport \/ KeyMethod
    <3>1. /\ UNCHANGED pic /\ cpu.at \in {"keyboard_handler", "key_method"}
          /\ cpu'.at \in {"key_method", "eoi_slave"}
          /\ cpu'.line = cpu.line /\ cpu'.vector = cpu.vector /\ cpu'.state = cpu.state
      BY <1>1, <2>2, KeyEffect DEF Inport, KeyMethod
    <3> QED BY <1>1, <3>1 DEF Serviced, Running
  <2>3. CASE TimerHandler
    <3>1. UNCHANGED pic /\ Handler("timer_handler", "eoi_slave")
      BY <2>3 DEF TimerHandler
    <3> QED BY <1>1, <3>1, HandlerEffect DEF Serviced, Running
  <2>4. CASE EoiSlave
    <3>1. Handler("eoi_slave", "eoi_master") /\ pic'.master = pic.master /\ pic'.slave.isr = {}
      BY <2>4, EoiSlaveEffect DEF EoiSlave
    <3> QED BY <1>1, <3>1, HandlerEffect DEF Serviced, Running
  <2>5. CASE EoiMaster
    <3>1. Handler("eoi_master", "iret") /\ pic'.slave = pic.slave /\ pic'.master.isr = {}
      BY <2>5, EoiMasterEffect DEF EoiMaster
    <3> QED BY <1>1, <3>1, HandlerEffect DEF Serviced, Running
  <2>6. CASE Iret
    <3>1. UNCHANGED pic
      BY <2>6 DEF Iret
    <3> QED BY <1>1, <2>6, <3>1, IretEffect DEF Serviced, Running
  <2> QED BY <1>7, <2>1, <2>2, <2>3, <2>4, <2>5, <2>6 DEF Handling
<1>8. CASE UNCHANGED cpu /\ UNCHANGED pic
  BY <1>1, <1>8 DEF Serviced, Running
<1>9. CASE (\E line \in Slow : Interrupt(line)) \/ Deliver
  BY <1>1, <1>9, DeviceEffect DEF Serviced, Running
<1> QED BY <1>2, <1>3, <1>4, <1>5, <1>6, <1>7, <1>8, <1>9, QuietSteps

(* Division by the length of a second: the quotient grows when nothing is  *)
(* left over.                                                              *)
LEMMA QuotientStep ==
  ASSUME NEW t \in Nat, NEW k \in Nat \ {0}
  PROVE  (t + 1) \div k = IF (t + 1) % k = 0 THEN t \div k + 1 ELSE t \div k
<1> DEFINE q == t \div k
           r == t % k
           p == (t + 1) \div k
           s == (t + 1) % k
<1>1. q \in Int /\ r \in Int /\ t = k * q + r /\ 0 <= r /\ r < k
  OBVIOUS
<1>2. p \in Int /\ s \in Int /\ t + 1 = k * p + s /\ 0 <= s /\ s < k
  OBVIOUS
<1> HIDE DEF q, r, p, s
<1>3. \E d \in Int : d = p - q /\ k * d = k * p - k * q
  BY <1>1, <1>2
<1>4. PICK d \in Int : d = p - q /\ k * d = 1 + r - s
  BY <1>1, <1>2, <1>3
<1>5. /\ d >= 2 => k * d >= k + k
      /\ d >= 1 => k * d >= k
      /\ d <= 0 => k * d <= 0
      /\ d <= -1 => k * d <= -k
  OBVIOUS
<1>6. d = IF s = 0 THEN 1 ELSE 0
  BY <1>1, <1>2, <1>4, <1>5
<1> QED BY <1>1, <1>2, <1>4, <1>6 DEF q, p, s

(* Mainline code runs with nothing requested, once interrupts are on.      *)
LEMMA MainQuiet ==
  ASSUME IInv, MainRuns
  PROVE  /\ Running /\ cpu.at = "main"
         /\ Opened => cpu.IF /\ pic.master.irr = {} /\ pic.slave.irr = {}
<1>1. Running /\ cpu.at = "main" /\ (cpu.IF => ~Interrupting(pic))
  BY DEF MainRuns, Running
<1>2. Opened => cpu.IF
  BY <1>1 DEF IInv, Placed
<1>3. cpu.IF => pic.master.irr = {} /\ pic.slave.irr = {}
  BY <1>1, WhenOpen, NextRequest DEF IInv
<1> QED BY <1>1, <1>2, <1>3

(* The calls and loops of mainline code.                                   *)
MainStep == Mainline \/ \E ticks \in Waits : WaitCall(ticks)

(* They leave the processor where it is and the timer's counts alone.      *)
LEMMA MainEffect ==
  ASSUME IInv, MainStep
  PROVE  /\ MainRuns
         /\ cpu'.at = cpu.at /\ cpu'.state = cpu.state
         /\ main' \in {main, main + 1} /\ main \in Int
         /\ pic' = pic \/ (Outportb /\ main <= 12)
         /\ clock' \in [timer_ticks : {clock.timer_ticks}, ticker : {clock.ticker},
                        eticks : Int, ripe : {Slow}]
<1>1. Tables /\ Placed /\ Ticking
  BY DEF IInv
<1>2. clock \in [timer_ticks : Nat, ticker : Nat, eticks : Int, ripe : SUBSET Slow]
  BY <1>1 DEF Ticking
<1>3. ASSUME NEW op, Step(op)
      PROVE  clock' \in [timer_ticks : {clock.timer_ticks}, ticker : {clock.ticker},
                         eticks : Int, ripe : {Slow}]
             /\ main' = main + 1 /\ MainRuns
  BY <1>2, <1>3 DEF Step
<1>4. CASE Outportb
  BY <1>1, <1>3, <1>4, BootPlace DEF Outportb, Tables
<1>5. CASE \/ IdtInstall \/ IsrsInstall \/ IrqGates \/ InitVideo \/ TimerInstall
           \/ KeyboardInstall
  <2>1. UNCHANGED <<cpu, pic>> /\ \E op : Step(op)
    BY <1>5 DEF IdtInstall, IsrsInstall, IrqGates, InitVideo, TimerInstall, KeyboardInstall
  <2> QED BY <1>1, <1>3, <2>1 DEF Tables
<1>6. CASE Sti
  <2>1. cpu' = [cpu EXCEPT !.IF = TRUE] /\ UNCHANGED pic /\ Step("sti")
    BY <1>6 DEF Sti
  <2> QED BY <1>1, <1>3, <2>1 DEF Tables, Placed
<1>7. CASE Spin
  BY <1>1, <1>2, <1>7 DEF Spin, Tables
<1>8. CASE WaitReturn
  <2> DEFINE e == [clock EXCEPT !.eticks = NONE]
  <2>1. e \in [timer_ticks : {clock.timer_ticks}, ticker : {clock.ticker},
               eticks : Int, ripe : SUBSET Slow]
    BY <1>2 DEF NONE
  <2>2. clock' = [e EXCEPT !.ripe = Slow]
    BY <1>8 DEF WaitReturn
  <2> HIDE DEF e
  <2> QED BY <1>1, <1>8, <2>1, <2>2 DEF WaitReturn, Tables
<1>9. ASSUME NEW ticks \in Waits, WaitCall(ticks)
      PROVE  /\ MainRuns
             /\ cpu'.at = cpu.at /\ cpu'.state = cpu.state
             /\ main' \in {main, main + 1} /\ main \in Int
             /\ pic' = pic
             /\ clock' \in [timer_ticks : {clock.timer_ticks}, ticker : {clock.ticker},
                            eticks : Int, ripe : {Slow}]
  <2>1. clock.timer_ticks + ticks \in Int
    BY <1>2, InterruptsAssumption
  <2> DEFINE e == [clock EXCEPT !.eticks = clock.timer_ticks + ticks]
  <2>2. e \in [timer_ticks : {clock.timer_ticks}, ticker : {clock.ticker},
               eticks : Int, ripe : SUBSET Slow]
    BY <1>2, <2>1
  <2>3. clock' = [e EXCEPT !.ripe = Slow]
    BY <1>9 DEF WaitCall
  <2> HIDE DEF e
  <2> QED BY <1>1, <1>9, <2>2, <2>3 DEF WaitCall, Tables
<1> QED BY <1>4, <1>5, <1>6, <1>7, <1>8, <1>9 DEF MainStep, Mainline

(* Steps that leave boot and the timer alone.                              *)
LEMMA ClockSteps ==
  ASSUME IInv, [Next]_vars
  PROVE  \/ MainStep
         \/ TimerHandler
         \/ \E line \in Slow : Interrupt(line)
         \/ UNCHANGED <<main, clock>>
BY DEF Next, Processor, Mainline, MainStep, HaltLoop, vars, Take, Handling, IrqHandler,
       Handler, Inport, KeyMethod, EoiSlave, EoiMaster, Iret, Spurious, Exception,
       Deliver, Press, Release, Repeat, Send

(* Where the timer's interrupt can be after a step that is not the         *)
(* mainline's, the handler's or the timer's.                               *)
LEMMA TickStays ==
  ASSUME IInv, [Next]_vars, ~MainStep, ~TimerHandler,
         ~(\E line \in Slow : Interrupt(line)), Running'
  PROVE  /\ Running
         /\ TIMER \in pic'.master.irr => TIMER \in pic.master.irr
         /\ Counting' => TickDue /\ (Counting \/ TIMER \notin pic'.master.irr)
         /\ cpu'.at = "timer_handler" =>
              cpu.at = "timer_handler" \/ (cpu.at = "irq_handler" /\ main >= 17)
<1>1. Placed
  BY DEF IInv
<1>2. CASE Take
  <2>1. /\ TIMER \in pic'.master.irr => TIMER \in pic.master.irr
        /\ NextLine(pic) = TIMER => TIMER \notin pic'.master.irr /\ TIMER \in pic.master.irr
    BY <1>2, TakeEffect, TakenLine DEF TIMER
  <2> QED BY <1>2, <2>1, EnteredEffect DEF Counting, TickDue
<1>3. ASSUME NEW chip \in Chip, Spurious(chip), ~Take
      PROVE  /\ Running
             /\ TIMER \in pic'.master.irr => TIMER \in pic.master.irr
             /\ ~Counting' /\ cpu'.at # "timer_handler"
  <2>1. pic'.master.irr = pic.master.irr
    BY <1>3, SpuriousEffect
  <2>2. Running /\ cpu'.at = "irq_handler" /\ cpu'.line = NONE
    BY <1>3, EnteredEffect
  <2> QED BY <2>1, <2>2 DEF Counting, TIMER, NONE
<1>4. CASE Exception
  BY <1>4, ExceptionEffect DEF Running
<1>5. CASE IrqHandler
  <2>1. UNCHANGED pic
    BY <1>5 DEF IrqHandler
  <2> QED BY <1>5, <2>1, RoutineEffect DEF Counting, TickDue, InHandler
<1>6. CASE Inport \/ KeyMethod
  <2>1. UNCHANGED pic
    BY <1>6 DEF Inport, KeyMethod
  <2> QED BY <1>1, <1>6, <2>1, KeyEffect DEF Counting
<1>7. CASE EoiSlave
  BY <1>1, <1>7, EoiSlaveEffect, HandlerEffect DEF Counting, EoiSlave
<1>8. CASE EoiMaster
  BY <1>1, <1>8, EoiMasterEffect, HandlerEffect DEF Counting, EoiMaster
<1>9. CASE Iret
  <2>1. UNCHANGED pic
    BY <1>9 DEF Iret
  <2> QED BY <1>9, <2>1, IretEffect DEF Counting
<1>10. CASE Deliver
  <2>1. /\ pic' = Raise(pic, KEYBOARD) /\ UNCHANGED cpu
        /\ KEYBOARD \in Line /\ pic \in [Chip -> ChipType]
    BY <1>10, DeviceLines DEF Deliver, IInv, Requested
  <2>2. pic'.master.irr = pic.master.irr \cup {KEYBOARD}
    BY <2>1, RaiseEffect DEF KEYBOARD
  <2> QED BY <2>1, <2>2 DEF Counting, TickDue, Running, TIMER, KEYBOARD
<1>11. CASE UNCHANGED <<cpu, pic>>
  BY <1>1, <1>11 DEF Counting, TickDue, Running
<1>12. \/ Take \/ (\E chip \in Chip : Spurious(chip)) \/ Exception \/ Handling
       \/ Deliver \/ UNCHANGED <<cpu, pic>>
  BY DEF Next, Processor, MainStep, HaltLoop, vars, Press, Release, Repeat, Send
<1> QED
  BY <1>2, <1>3, <1>4, <1>5, <1>6, <1>7, <1>8, <1>9, <1>10, <1>11, <1>12
  DEF Handling

(* No tick is lost or counted twice, and none comes after the last one.    *)
LEMMA TickingStep == IInv /\ [Next]_vars => Ticking'
<1> SUFFICES ASSUME IInv, [Next]_vars PROVE Ticking'
  OBVIOUS
<1>1. /\ Ticking /\ Placed /\ Tables
      /\ main' >= main /\ main' \in 1 .. 18
  BY OpenedStep, TablesStep DEF IInv, Tables
<1>2. CASE MainStep
  <2>1. /\ Running /\ cpu.at = "main"
        /\ Opened => pic.master.irr = {}
        /\ cpu'.at = cpu.at /\ cpu'.state = cpu.state
        /\ main' \in {main, main + 1} /\ main \in Int
        /\ (pic' = pic \/ (Outportb /\ main <= 12))
        /\ clock' \in [timer_ticks : {clock.timer_ticks}, ticker : {clock.ticker},
                       eticks : Int, ripe : {Slow}]
    BY <1>2, MainEffect, MainQuiet
  <2>2. main' >= 17 => ~TickDue'
    BY <2>1 DEF TickDue, Counting, Opened
  <2>3. clock' \in [timer_ticks : 0 .. MaxTicks, ticker : Nat, eticks : Int, ripe : SUBSET Slow]
        /\ clock'.timer_ticks = clock.timer_ticks /\ clock'.ticker = clock.ticker
    BY <1>1, <2>1 DEF Ticking
  <2> QED BY <1>1, <2>1, <2>2, <2>3 DEF Ticking, TickDue
<1>3. CASE TimerHandler
  <2>1. /\ Running /\ cpu.at = "timer_handler" /\ cpu'.at = "eoi_slave"
        /\ UNCHANGED <<pic, main>> /\ cpu.line = TIMER
    BY <1>1, <1>3, HandlerEffect
    DEF TimerHandler, Handler, Placed, InHandler, Places, Running
  <2>2. /\ main >= 17 /\ TIMER \notin clock.ripe /\ clock.timer_ticks < MaxTicks
        /\ TIMER \notin pic.master.irr
    BY <1>1, <2>1 DEF Ticking, TickDue, Counting
  <2>3. ~TickDue'
    BY <2>1, <2>2 DEF TickDue, Counting
  <2> DEFINE ticks == clock.timer_ticks + 1
             second == IF ticks % TICKS_A_SECOND = 0 THEN clock.ticker + 1 ELSE clock.ticker
             e == [clock EXCEPT !.timer_ticks = ticks]
  <2>4. clock' = [e EXCEPT !.ticker = second]
    BY <1>3 DEF TimerHandler
  <2>5. second = ticks \div TICKS_A_SECOND /\ second \in Nat /\ ticks \in 0 .. MaxTicks
    <3>1. /\ clock.timer_ticks \in Nat /\ clock.ticker \in Nat /\ MaxTicks \in Nat
          /\ clock.ticker = clock.timer_ticks \div TICKS_A_SECOND
      BY <1>1, InterruptsAssumption DEF Ticking
    <3>2. ticks \div TICKS_A_SECOND =
            IF ticks % TICKS_A_SECOND = 0 THEN clock.timer_ticks \div TICKS_A_SECOND + 1
            ELSE clock.timer_ticks \div TICKS_A_SECOND
      BY <3>1, InterruptsAssumption, QuotientStep
    <3> QED BY <2>2, <3>1, <3>2
  <2> HIDE DEF second
  <2>6. e \in [timer_ticks : {ticks}, ticker : Nat, eticks : Int, ripe : SUBSET Slow]
    BY <1>1, <2>5 DEF Ticking
  <2> HIDE DEF e, ticks
  <2>7. clock' \in [timer_ticks : {ticks}, ticker : {second}, eticks : Int, ripe : SUBSET Slow]
    BY <2>4, <2>5, <2>6
  <2>8. /\ clock' \in [timer_ticks : 0 .. MaxTicks, ticker : Nat, eticks : Int, ripe : SUBSET Slow]
        /\ clock'.ticker = clock'.timer_ticks \div TICKS_A_SECOND
    BY <2>5, <2>7
  <2> QED BY <1>1, <2>1, <2>2, <2>3, <2>8 DEF Ticking, TickDue
<1>4. ASSUME NEW line \in Slow, Interrupt(line) PROVE Ticking'
  <2>1. /\ Running /\ line \in clock.ripe /\ UNCHANGED <<cpu, main>>
        /\ line = TIMER => clock.timer_ticks < MaxTicks
        /\ pic' = Raise(pic, line) /\ clock' = [clock EXCEPT !.ripe = clock.ripe \ {line}]
        /\ line \in Line /\ pic \in [Chip -> ChipType]
    BY <1>4, DeviceLines DEF Interrupt, Running, IInv, Requested
  <2>2. pic'.master.irr = pic.master.irr \cup (IF line < 8 THEN {line} ELSE {})
    BY <2>1, RaiseEffect
  <2>3. /\ clock' \in [timer_ticks : 0 .. MaxTicks, ticker : Nat, eticks : Int, ripe : SUBSET Slow]
        /\ clock'.ripe = clock.ripe \ {line} /\ clock'.timer_ticks = clock.timer_ticks
        /\ clock'.ticker = clock.ticker
    BY <1>1, <2>1 DEF Ticking
  <2>4. CASE line = TIMER
    BY <1>1, <2>1, <2>2, <2>3, <2>4 DEF Ticking, TickDue, Counting, Running
  <2>5. CASE line = SlaveLine
    <3>1. pic'.master.irr = pic.master.irr
      BY <2>2, <2>5, DeviceLines
    <3> QED BY <1>1, <2>1, <2>3, <3>1 DEF Ticking, TickDue, Counting, Running
  <2> QED BY <2>4, <2>5 DEF Slow
<1>5. CASE /\ UNCHANGED <<main, clock>> /\ ~MainStep /\ ~TimerHandler
           /\ ~(\E line \in Slow : Interrupt(line))
  <2>1. CASE Running'
    <3>1. /\ Running
          /\ TIMER \in pic'.master.irr => TIMER \in pic.master.irr
          /\ Counting' => TickDue /\ (Counting \/ TIMER \notin pic'.master.irr)
          /\ cpu'.at = "timer_handler" =>
               cpu.at = "timer_handler" \/ (cpu.at = "irq_handler" /\ main >= 17)
      BY <1>5, <2>1, TickStays
    <3> QED BY <1>1, <1>5, <2>1, <3>1 DEF Ticking, TickDue
  <2>2. CASE ~Running'
    BY <1>1, <1>5, <2>2 DEF Ticking
  <2> QED BY <2>1, <2>2
<1> QED BY <1>2, <1>3, <1>4, <1>5, ClockSteps

-----------------------------------------------------------------------------
(***************************************************************************)
(* The keyboard: the codes on their way and the modifiers.                 *)
(***************************************************************************)
(* The user hits or releases a key.                                        *)
UserStep == (\E key \in Keys : Press(key) \/ Release(key)) \/ Repeat

(* Every step, by who takes it.                                            *)
LEMMA AllSteps ==
  ASSUME [Next]_vars
  PROVE  \/ MainStep \/ Take \/ (\E chip \in Chip : Spurious(chip)) \/ Exception
         \/ Handling \/ (\E line \in Slow : Interrupt(line)) \/ Deliver \/ UserStep
         \/ UNCHANGED vars
BY DEF Next, Processor, MainStep, UserStep, HaltLoop

(* A code the user sends is regular when its history says so.              *)
LEMMA SendEffect ==
  ASSUME IInv, UserStep
  PROVE  \E c \in Code :
           /\ kbd'.queue = Append(kbd.queue, c)
           /\ kbd'.full = kbd.full /\ kbd'.code = kbd.code
           /\ kbd' \in [queue : Seq(Code), full : BOOLEAN, code : {NoCode} \cup Code]
           /\ user' \in [held : SUBSET Key, last : {"none"} \cup Key, regular : BOOLEAN,
                         codes : Nat, noise : Nat]
           /\ c.held = user.held /\ c.regular = user'.regular
           /\ user'.regular => user.regular
           /\ user'.last # "none" => user'.last \in user'.held
           /\ user'.regular => ~(Shifts \subseteq user'.held)
           /\ Linked(c, user'.held, user'.regular)
           /\ UNCHANGED <<main, cpu, idt, irq_routines, pic, clock, keyboard_state>>
<1>1. /\ kbd \in [queue : Seq(Code), full : BOOLEAN, code : {NoCode} \cup Code]
      /\ user \in [held : SUBSET Key, last : {"none"} \cup Key, regular : BOOLEAN,
                   codes : Nat, noise : Nat]
      /\ user.last # "none" => user.last \in user.held
      /\ user.regular => ~(Shifts \subseteq user.held)
  BY DEF IInv, Handed
<1>2. PICK key \in Key, up \in BOOLEAN, held \in SUBSET Key, regular \in BOOLEAN :
        /\ Send(key, up, held, regular)
        /\ regular => user.regular
        /\ held = IF up THEN user.held \ {key} ELSE user.held \cup {key}
        /\ up => key \in user.held
        /\ regular => ~(Shifts \subseteq held)
        /\ regular /\ ~up /\ key \in Modifier => key \notin user.held
        /\ regular /\ ~up /\ key \in Shifts => user.held \cap Shifts = {}
  <2>1. ASSUME NEW key \in Keys, Press(key)
        PROVE  \E regular \in BOOLEAN :
                 /\ Send(key, FALSE, user.held \cup {key}, regular)
                 /\ regular => user.regular
                 /\ regular => ~(Shifts \subseteq user.held \cup {key})
                 /\ key \notin user.held
                 /\ regular /\ key \in Shifts => user.held \cap Shifts = {}
    <3> DEFINE regular == user.regular /\ ~(key \in Shifts /\ user.held \cap Shifts # {})
    <3>1. regular \in BOOLEAN
      BY <1>1
    <3>2. Send(key, FALSE, user.held \cup {key}, regular) /\ key \notin user.held
      BY <2>1 DEF Press
    <3>3. regular => ~(Shifts \subseteq user.held \cup {key})
      BY <1>1 DEF Shifts
    <3> QED BY <3>1, <3>2, <3>3
  <2>2. ASSUME NEW key \in Keys, Release(key)
        PROVE  /\ Send(key, TRUE, user.held \ {key}, user.regular)
               /\ key \in user.held
               /\ user.regular => ~(Shifts \subseteq user.held \ {key})
    BY <1>1, <2>2 DEF Release
  <2>3. ASSUME Repeat
        PROVE  LET regular == user.regular /\ user.last \notin Modifier
               IN  /\ Send(user.last, FALSE, user.held, regular)
                   /\ user.last \in Key /\ user.last \in user.held
    BY <1>1, <2>3 DEF Repeat
  <2>4. Keys \subseteq Key
    BY InterruptsAssumption
  <2>5. CASE \E key \in Keys : Press(key)
    <3>1. PICK key \in Keys : Press(key)
      BY <2>5
    <3>2. PICK regular \in BOOLEAN :
             /\ Send(key, FALSE, user.held \cup {key}, regular)
             /\ regular => user.regular
             /\ regular => ~(Shifts \subseteq user.held \cup {key})
             /\ key \notin user.held
             /\ regular /\ key \in Shifts => user.held \cap Shifts = {}
      BY <2>1, <3>1
    <3>3. key \in Key /\ user.held \cup {key} \in SUBSET Key /\ FALSE \in BOOLEAN
      BY <1>1, <2>4
    <3> QED BY <3>2, <3>3
  <2>6. CASE \E key \in Keys : Release(key)
    <3>1. PICK key \in Keys : Release(key)
      BY <2>6
    <3>2. /\ key \in Key /\ user.held \ {key} \in SUBSET Key /\ TRUE \in BOOLEAN
          /\ user.regular \in BOOLEAN
      BY <1>1, <2>4
    <3> QED BY <2>2, <3>1, <3>2
  <2>7. CASE Repeat
    <3> DEFINE regular == user.regular /\ user.last \notin Modifier
    <3>1. /\ Send(user.last, FALSE, user.held, regular)
          /\ user.last \in Key /\ user.last \in user.held
      BY <2>3, <2>7
    <3>2. /\ regular \in BOOLEAN /\ FALSE \in BOOLEAN /\ user.held \in SUBSET Key
          /\ regular => user.regular /\ user.last \notin Modifier /\ user.last \notin Shifts
          /\ user.held = user.held \cup {user.last}
      BY <1>1, <3>1 DEF Modifier
    <3>3. regular => ~(Shifts \subseteq user.held)
      BY <1>1, <3>2
    <3> HIDE DEF regular
    <3> QED BY <3>1, <3>2, <3>3
  <2> QED BY <2>5, <2>6, <2>7 DEF UserStep
<1> DEFINE c == [key |-> key, up |-> up, held |-> user.held, regular |-> regular]
<1>3. c \in Code
  BY <1>1 DEF Code
<1>4. Linked(c, held, regular)
  BY <1>1, <1>2, <1>3 DEF Linked, After, Regular
<1>5. /\ kbd' = [kbd EXCEPT !.queue = Append(kbd.queue, c)]
      /\ UNCHANGED <<main, cpu, idt, irq_routines, pic, clock, keyboard_state>>
  BY <1>2 DEF Send
<1>6. /\ DOMAIN user' = DOMAIN user
      /\ user'.held = held /\ user'.last = (IF up THEN "none" ELSE key)
      /\ user'.regular = regular /\ user'.codes = user.codes + 1
      /\ user'.noise = user.noise
  BY <1>1, <1>2 DEF Send
<1>7. c.held = user.held /\ c.regular = regular
  OBVIOUS
<1> HIDE DEF c
<1>8. /\ kbd'.queue = Append(kbd.queue, c)
      /\ kbd'.full = kbd.full /\ kbd'.code = kbd.code
      /\ kbd' \in [queue : Seq(Code), full : BOOLEAN, code : {NoCode} \cup Code]
  <2> DEFINE q == Append(kbd.queue, c)
  <2>1. q \in Seq(Code) /\ kbd' = [kbd EXCEPT !.queue = q]
    BY <1>1, <1>3, <1>5
  <2> HIDE DEF q
  <2>2. /\ kbd'.queue = q /\ kbd'.full = kbd.full /\ kbd'.code = kbd.code
        /\ kbd' \in [queue : Seq(Code), full : BOOLEAN, code : {NoCode} \cup Code]
    BY <1>1, <2>1
  <2> QED BY <2>2 DEF q
<1>9. user' \in [held : SUBSET Key, last : {"none"} \cup Key, regular : BOOLEAN,
                 codes : Nat, noise : Nat]
  <2> DEFINE last == IF up THEN "none" ELSE key
             e1 == [user EXCEPT !.held = held]
             e2 == [e1 EXCEPT !.last = last]
             e3 == [e2 EXCEPT !.regular = regular]
             UserType == [held : SUBSET Key, last : {"none"} \cup Key, regular : BOOLEAN,
                          codes : Nat, noise : Nat]
  <2>1. user' = [e3 EXCEPT !.codes = user.codes + 1]
    BY <1>2 DEF Send
  <2>2. last \in {"none"} \cup Key /\ user.codes + 1 \in Nat
    BY <1>1
  <2> HIDE DEF last
  <2>3. e1 \in UserType
    BY <1>1, <1>2
  <2> HIDE DEF e1
  <2>4. e2 \in UserType
    BY <2>2, <2>3
  <2> HIDE DEF e2
  <2>5. e3 \in UserType
    BY <1>2, <2>4
  <2> HIDE DEF e3
  <2> QED BY <2>1, <2>2, <2>5
<1> QED BY <1>2, <1>3, <1>4, <1>5, <1>6, <1>7, <1>8, <1>9

(* The 8042 takes the next code.                                           *)
LEMMA DeliverEffect ==
  ASSUME IInv, Deliver
  PROVE  /\ kbd.queue # <<>> /\ ~kbd.full /\ Running
         /\ kbd'.queue = Tail(kbd.queue) /\ kbd'.full = TRUE
         /\ kbd'.code = kbd.queue[1]
         /\ kbd' \in [queue : Seq(Code), full : BOOLEAN, code : {NoCode} \cup Code]
         /\ UNCHANGED <<main, cpu, idt, irq_routines, clock, keyboard_state, user>>
         /\ pic'.master.irr = pic.master.irr \cup {KEYBOARD}
<1>1. /\ kbd.queue \in Seq(Code) /\ kbd.queue # <<>> /\ ~kbd.full /\ Running
      /\ kbd' = [queue |-> Tail(kbd.queue), full |-> TRUE, code |-> Head(kbd.queue)]
      /\ UNCHANGED <<main, cpu, idt, irq_routines, clock, keyboard_state, user>>
      /\ pic' = Raise(pic, KEYBOARD)
  BY DEF IInv, Handed, Deliver, Running
<1>2. Tail(kbd.queue) \in Seq(Code) /\ Head(kbd.queue) = kbd.queue[1]
      /\ Head(kbd.queue) \in Code
  BY <1>1
<1>3. KEYBOARD \in Line /\ KEYBOARD < 8 /\ pic \in [Chip -> ChipType]
  BY DeviceLines DEF KEYBOARD, IInv, Requested
<1>4. pic'.master.irr = pic.master.irr \cup {KEYBOARD}
  BY <1>1, <1>3, RaiseEffect
<1> QED BY <1>1, <1>2, <1>4

(* keyboard_handler reads a byte, after any step: one interrupt, one byte. *)
LEMMA BufferedStep == IInv /\ [Next]_vars => Buffered'
<1> SUFFICES ASSUME IInv, [Next]_vars, Running' PROVE Buffered'
  BY DEF Buffered
<1>1. /\ Placed /\ Buffered
      /\ kbd \in [queue : Seq(Code), full : BOOLEAN, code : {NoCode} \cup Code]
  BY DEF IInv, Handed
<1> USE DEF Running
<1>2. CASE MainStep
  <2>1. /\ MainRuns /\ cpu.at = "main" /\ cpu'.at = cpu.at /\ cpu'.state = cpu.state
        /\ pic'.master.irr \subseteq pic.master.irr /\ UNCHANGED kbd
    BY <1>2, MainEffect, RemapEffect DEF MainRuns
  <2> QED BY <1>1, <2>1 DEF Buffered, ByteDue, MainRuns
<1>3. CASE Take
  <2>1. /\ pic'.master.irr \subseteq pic.master.irr
        /\ NextLine(pic) = KEYBOARD =>
             KEYBOARD \notin pic'.master.irr /\ KEYBOARD \in pic.master.irr
    BY <1>3, TakeEffect, TakenLine DEF KEYBOARD
  <2>2. cpu'.line = NextLine(pic) /\ UNCHANGED kbd
    BY <1>3, EnteredEffect DEF Take
  <2>3. cpu.state = "running"
    BY <1>3, EnteredEffect
  <2> QED BY <1>1, <2>1, <2>2, <2>3 DEF Buffered, ByteDue
<1>4. ASSUME NEW chip \in Chip, Spurious(chip), ~Take PROVE Buffered'
  <2>1. pic'.master.irr = pic.master.irr /\ UNCHANGED kbd
    BY <1>4, SpuriousEffect DEF Spurious
  <2>2. cpu'.line = NONE /\ cpu.state = "running"
    BY <1>4, EnteredEffect
  <2>3. NONE # KEYBOARD
    BY DEF NONE, KEYBOARD
  <2> QED BY <1>1, <2>1, <2>2, <2>3 DEF Buffered, ByteDue
<1>5. CASE Exception
  BY <1>5, ExceptionEffect
<1>6. CASE Handling
  <2>1. CASE IrqHandler
    <3>1. UNCHANGED <<pic, kbd>>
      BY <2>1 DEF IrqHandler
    <3> QED BY <1>1, <2>1, <3>1, RoutineEffect DEF Buffered, ByteDue, InHandler
  <2>2. CASE Inport
    <3>1. /\ cpu.at = "keyboard_handler" /\ cpu.line = KEYBOARD /\ cpu.state = "running"
          /\ cpu'.at = "key_method" /\ UNCHANGED pic
      BY <1>1, <2>2, KeyEffect DEF Inport, Placed, InHandler, Places
    <3>2. KEYBOARD \notin pic.master.irr
      BY <1>1, <3>1 DEF Buffered, ByteDue
    <3> QED BY <3>1, <3>2 DEF Buffered, ByteDue
  <2>3. CASE KeyMethod
    <3>1. UNCHANGED <<pic, kbd>>
      BY <2>3 DEF KeyMethod
    <3> QED BY <1>1, <2>3, <3>1, KeyEffect DEF Buffered, ByteDue
  <2>4. CASE TimerHandler
    <3>1. UNCHANGED <<pic, kbd>> /\ Handler("timer_handler", "eoi_slave")
      BY <2>4 DEF TimerHandler
    <3> QED BY <1>1, <3>1, HandlerEffect DEF Buffered, ByteDue
  <2>5. CASE EoiSlave
    <3>1. UNCHANGED kbd /\ pic'.master = pic.master /\ Handler("eoi_slave", "eoi_master")
      BY <2>5, EoiSlaveEffect DEF EoiSlave
    <3> QED BY <1>1, <3>1, HandlerEffect DEF Buffered, ByteDue
  <2>6. CASE EoiMaster
    <3>1. UNCHANGED kbd /\ pic'.master.irr = pic.master.irr /\ Handler("eoi_master", "iret")
      BY <2>6, EoiMasterEffect DEF EoiMaster
    <3> QED BY <1>1, <3>1, HandlerEffect DEF Buffered, ByteDue
  <2>7. CASE Iret
    <3>1. UNCHANGED <<pic, kbd>>
      BY <2>7 DEF Iret
    <3> QED BY <1>1, <2>7, <3>1, IretEffect DEF Buffered, ByteDue
  <2> QED BY <1>6, <2>1, <2>2, <2>3, <2>4, <2>5, <2>6, <2>7 DEF Handling
<1>7. ASSUME NEW line \in Slow, Interrupt(line) PROVE Buffered'
  <2>1. /\ pic' = Raise(pic, line) /\ line \in Line /\ pic \in [Chip -> ChipType]
        /\ UNCHANGED <<cpu, kbd>>
    BY <1>7, DeviceLines DEF Interrupt, IInv, Requested
  <2>2. pic'.master.irr = pic.master.irr \cup (IF line < 8 THEN {line} ELSE {})
    BY <2>1, RaiseEffect
  <2>3. KEYBOARD \in pic'.master.irr => KEYBOARD \in pic.master.irr
    BY <2>2, DeviceLines DEF Slow, TIMER, KEYBOARD
  <2> QED BY <1>1, <2>1, <2>3 DEF Buffered, ByteDue
<1>8. CASE Deliver
  <2>1. ~ByteDue /\ UNCHANGED cpu /\ kbd'.full
    BY <1>1, <1>8, DeliverEffect DEF Buffered
  <2> QED BY <2>1 DEF Buffered, ByteDue
<1>9. CASE UserStep
  BY <1>1, <1>9, SendEffect DEF Buffered, ByteDue
<1>10. CASE UNCHANGED vars
  BY <1>1, <1>10 DEF Buffered, ByteDue, vars
<1> QED BY <1>2, <1>3, <1>4, <1>5, <1>6, <1>7, <1>8, <1>9, <1>10, AllSteps

(* The chain of codes grows at its end when the user acts.                 *)
LEMMA SendChain ==
  ASSUME IInv, UserStep
  PROVE  /\ Handed'
         /\ QueueHeld' = QueueHeld /\ (QueueRegular' => QueueRegular)
<1>1. PICK c \in Code :
        /\ kbd'.queue = Append(kbd.queue, c)
        /\ kbd'.full = kbd.full /\ kbd'.code = kbd.code
        /\ kbd' \in [queue : Seq(Code), full : BOOLEAN, code : {NoCode} \cup Code]
        /\ user' \in [held : SUBSET Key, last : {"none"} \cup Key, regular : BOOLEAN,
                      codes : Nat, noise : Nat]
        /\ c.held = user.held /\ c.regular = user'.regular
        /\ user'.regular => user.regular
        /\ user'.last # "none" => user'.last \in user'.held
        /\ user'.regular => ~(Shifts \subseteq user'.held)
        /\ Linked(c, user'.held, user'.regular)
  BY SendEffect
<1>2. Handed /\ kbd.queue \in Seq(Code)
  BY DEF IInv, Handed
<1> DEFINE q == kbd.queue
           p == kbd'.queue
<1>3. /\ q \in Seq(Code) /\ Len(q) \in Nat /\ p = Append(q, c) /\ Len(p) = Len(q) + 1
      /\ p[Len(p)] = c /\ \A i \in 1 .. Len(q) : p[i] = q[i]
  BY <1>1, <1>2
<1>4. /\ p # <<>>
      /\ q = <<>> => p[1] = c
      /\ q # <<>> => p[1] = q[1]
  <2>1. p \in Seq(Code) /\ (q = <<>> <=> Len(q) = 0) /\ (p = <<>> <=> Len(p) = 0)
    BY <1>1, <1>3
  <2> HIDE DEF p, q
  <2>2. Len(q) = 0 => p[1] = c
    BY <1>3
  <2>3. Len(q) # 0 => p[1] = q[1]
    BY <1>3
  <2> QED BY <1>3, <2>1, <2>2, <2>3
<1>5. QueueHeld' = QueueHeld /\ (QueueRegular' => QueueRegular)
  BY <1>1, <1>4 DEF QueueHeld, QueueRegular
<1> DEFINE Held(k) == IF k = Len(q) THEN user.held ELSE q[k + 1].held
           Reg(k) == IF k = Len(q) THEN user.regular ELSE q[k + 1].regular
<1>6. \A i \in 1 .. Len(q) : Linked(q[i], Held(i), Reg(i))
  BY <1>2 DEF Handed
<1>7. ASSUME NEW i \in 1 .. Len(p)
      PROVE  Linked(p[i], IF i = Len(p) THEN user'.held ELSE p[i + 1].held,
                    IF i = Len(p) THEN user'.regular ELSE p[i + 1].regular)
  <2>1. CASE i = Len(p)
    BY <1>1, <1>3, <2>1
  <2>2. CASE i # Len(p)
    <3>1. i \in 1 .. Len(q) /\ i + 1 \in 1 .. Len(p) /\ p[i] = q[i]
      BY <1>3, <2>2
    <3>2. Linked(q[i], Held(i), Reg(i))
      BY <1>6, <3>1
    <3>3. p[i + 1].held = Held(i) /\ (p[i + 1].regular => Reg(i))
      <4>1. CASE i = Len(q)
        BY <1>1, <1>3, <4>1
      <4>2. CASE i # Len(q)
        BY <1>3, <3>1, <4>2
      <4> QED BY <4>1, <4>2
    <3> HIDE DEF Held, Reg, p, q
    <3> QED BY <2>2, <3>1, <3>2, <3>3 DEF Linked
  <2> QED BY <2>1, <2>2
<1>8. kbd'.full => Linked(kbd'.code, QueueHeld', QueueRegular')
  <2>1. kbd.full => Linked(kbd.code, QueueHeld, QueueRegular)
    BY <1>2 DEF Handed
  <2> QED BY <1>1, <1>5, <2>1 DEF Linked
<1>9. Handed'
  BY <1>1, <1>7, <1>8 DEF Handed
<1> QED BY <1>5, <1>9

(* It shrinks at its start when the 8042 takes a code.                     *)
LEMMA DeliverChain ==
  ASSUME IInv, Deliver
  PROVE  /\ Handed'
         /\ BufferHeld' = BufferHeld /\ BufferRegular' = BufferRegular
<1>1. /\ kbd.queue # <<>> /\ ~kbd.full
      /\ kbd'.queue = Tail(kbd.queue) /\ kbd'.full = TRUE
      /\ kbd'.code = kbd.queue[1]
      /\ kbd' \in [queue : Seq(Code), full : BOOLEAN, code : {NoCode} \cup Code]
      /\ UNCHANGED user
  BY DeliverEffect
<1>2. Handed /\ kbd.queue \in Seq(Code)
  BY DEF IInv, Handed
<1> DEFINE q == kbd.queue
           p == kbd'.queue
<1>3. /\ q \in Seq(Code) /\ Len(q) \in Nat \ {0} /\ p = Tail(q) /\ Len(p) = Len(q) - 1
      /\ \A i \in 1 .. Len(p) : p[i] = q[i + 1]
  BY <1>1, <1>2
<1>4. /\ p = <<>> <=> Len(q) = 1
      /\ p # <<>> => p[1] = q[2]
  <2>1. p \in Seq(Code)
    BY <1>1
  <2> HIDE DEF p, q
  <2>3. p = <<>> <=> Len(p) = 0
    BY <2>1
  <2>2. Len(p) # 0 => p[1] = q[1 + 1]
    BY <1>3
  <2> QED BY <1>3, <2>1, <2>2, <2>3
<1>5. BufferHeld' = BufferHeld /\ BufferRegular' = BufferRegular
  BY <1>1 DEF BufferHeld, BufferRegular, QueueHeld, QueueRegular
<1>6. \A i \in 1 .. Len(q) :
        Linked(q[i], IF i = Len(q) THEN user.held ELSE q[i + 1].held,
               IF i = Len(q) THEN user.regular ELSE q[i + 1].regular)
  BY <1>2 DEF Handed
<1>7. ASSUME NEW i \in 1 .. Len(p)
      PROVE  Linked(p[i], IF i = Len(p) THEN user'.held ELSE p[i + 1].held,
                    IF i = Len(p) THEN user'.regular ELSE p[i + 1].regular)
  <2>1. /\ i + 1 \in 1 .. Len(q) /\ p[i] = q[i + 1]
        /\ i = Len(p) <=> i + 1 = Len(q)
        /\ i # Len(p) => p[i + 1] = q[(i + 1) + 1]
    BY <1>3
  <2> QED BY <1>1, <1>6, <2>1
<1>8. Linked(kbd'.code, QueueHeld', QueueRegular')
  <2>1. 1 \in 1 .. Len(q) /\ q[1] = kbd'.code
    BY <1>1, <1>3
  <2>2. Linked(q[1], IF Len(q) = 1 THEN user.held ELSE q[2].held,
               IF Len(q) = 1 THEN user.regular ELSE q[2].regular)
    BY <1>6, <2>1, 1 + 1 = 2, Zenon
  <2> QED BY <1>1, <1>4, <2>1, <2>2 DEF QueueHeld, QueueRegular
<1>9. Handed'
  <2>1. user' \in [held : SUBSET Key, last : {"none"} \cup Key, regular : BOOLEAN,
                   codes : Nat, noise : Nat]
        /\ (user'.last # "none" => user'.last \in user'.held)
        /\ (user'.regular => ~(Shifts \subseteq user'.held))
    BY <1>1, <1>2 DEF Handed
  <2> QED BY <1>1, <1>7, <1>8, <2>1 DEF Handed
<1> QED BY <1>5, <1>9

(* Steps that leave the codes on their way alone.                          *)
LEMMA OtherSteps ==
  ASSUME IInv, [Next]_vars, ~UserStep, ~Deliver, ~Inport
  PROVE  UNCHANGED <<kbd, user.held, user.regular>> /\ Handed'
<1>1. user \in [held : SUBSET Key, last : {"none"} \cup Key, regular : BOOLEAN,
                codes : Nat, noise : Nat]
  BY DEF IInv, Handed
<1>2. UNCHANGED <<kbd, user>> \/ \E chip \in Chip : Spurious(chip)
  BY DEF Next, Processor, Mainline, HaltLoop, vars, IdtInstall, IsrsInstall, IrqGates,
         Outportb, Sti, InitVideo, TimerInstall, KeyboardInstall, Step, MainRuns, Spin,
         WaitReturn, WaitCall, Take, Handling, IrqHandler, TimerHandler, KeyMethod,
         EoiSlave, EoiMaster, Iret, Handler, Exception, Interrupt, UserStep
<1>3. ASSUME NEW chip \in Chip, Spurious(chip)
      PROVE  /\ UNCHANGED <<kbd, user.held, user.regular, user.last>>
             /\ user' \in [held : SUBSET Key, last : {"none"} \cup Key, regular : BOOLEAN,
                           codes : Nat, noise : Nat]
  BY <1>1, <1>3 DEF Spurious
<1>4. Handed
  BY DEF IInv
<1>5. UNCHANGED <<kbd, user.held, user.regular, user.last>>
  BY <1>2, <1>3
<1>6. user' \in [held : SUBSET Key, last : {"none"} \cup Key, regular : BOOLEAN,
                 codes : Nat, noise : Nat]
  BY <1>1, <1>2, <1>3
<1>7. /\ kbd' = kbd /\ user'.held = user.held /\ user'.regular = user.regular
      /\ user'.last = user.last
      /\ QueueHeld' = QueueHeld /\ QueueRegular' = QueueRegular
  BY <1>5 DEF QueueHeld, QueueRegular
<1>8. Handed'
  BY <1>4, <1>6, <1>7 DEF Handed
<1> QED BY <1>5, <1>8

(* Reading port 0x60 takes the byte from the chain.                        *)
LEMMA InportChain ==
  ASSUME IInv, Inport
  PROVE  /\ Handed' /\ Running /\ cpu.at = "keyboard_handler" /\ kbd.full
         /\ cpu'.at = "key_method" /\ cpu'.state = cpu.state
         /\ cpu'.code = kbd.code
         /\ kbd'.full = FALSE
         /\ QueueHeld' = QueueHeld /\ QueueRegular' = QueueRegular
         /\ UNCHANGED <<user, keyboard_state>>
<1>1. /\ Placed /\ Buffered /\ Handed
      /\ kbd \in [queue : Seq(Code), full : BOOLEAN, code : {NoCode} \cup Code]
  BY DEF IInv, Handed
<1>2. /\ Running /\ cpu.at = "keyboard_handler" /\ cpu'.at = "key_method"
      /\ cpu'.code = kbd.code /\ cpu'.state = cpu.state
      /\ UNCHANGED <<user, keyboard_state>>
  BY <1>1, KeyEffect DEF Inport
<1>3. kbd.full
  BY <1>1, <1>2 DEF Buffered, ByteDue, Placed, InHandler, Places
<1> DEFINE e == [kbd EXCEPT !.full = FALSE]
<1>4. /\ e \in [queue : Seq(Code), full : {FALSE}, code : {NoCode} \cup Code]
      /\ e.queue = kbd.queue
  BY <1>1
<1>5. kbd' = [e EXCEPT !.code = NoCode]
  BY DEF Inport
<1> HIDE DEF e
<1>6. /\ kbd' \in [queue : Seq(Code), full : BOOLEAN, code : {NoCode} \cup Code]
      /\ kbd'.queue = kbd.queue /\ kbd'.full = FALSE
  BY <1>4, <1>5
<1>7. QueueHeld' = QueueHeld /\ QueueRegular' = QueueRegular
  BY <1>2, <1>6 DEF QueueHeld, QueueRegular
<1>8. user' = user /\ kbd'.queue = kbd.queue /\ ~kbd'.full
  BY <1>2, <1>6
<1>9. Handed'
  BY <1>1, <1>6, <1>8 DEF Handed
<1> QED BY <1>2, <1>3, <1>6, <1>7, <1>9

(* The codes on their way form a chain, after any step.                    *)
LEMMA HandedStep == IInv /\ [Next]_vars => Handed'
BY SendChain, DeliverChain, InportChain, OtherSteps

(* shft, altk and ctlk keep the modifiers right for a regular code.        *)
LEMMA ToggledRight ==
  ASSUME keyboard_state \in Modifiers, NEW c \in Code, Regular(c), Matches(c.held)
  PROVE  LET s == Toggled(keyboard_state, c)
         IN  /\ s \in Modifiers
             /\ s.shift <=> After(c) \cap Shifts # {}
             /\ s.ctrl <=> "ctrl" \in After(c)
             /\ s.alt <=> "alt" \in After(c)
<1> DEFINE s == Toggled(keyboard_state, c)
<1>1. /\ c.up \in BOOLEAN /\ c.held \in SUBSET Key /\ c.key \in Key
      /\ After(c) = IF c.up THEN c.held \ {c.key} ELSE c.held \cup {c.key}
  BY DEF Code, After
<1>2. /\ keyboard_state.shift \in BOOLEAN /\ keyboard_state.ctrl \in BOOLEAN
      /\ keyboard_state.alt \in BOOLEAN
  BY DEF Modifiers
<1>3. CASE c.key \in Shifts
  <2>1. s = [keyboard_state EXCEPT !.shift = ~keyboard_state.shift]
    BY <1>3 DEF Toggled, key_method, Shifts
  <2>2. s \in Modifiers /\ s.shift = ~keyboard_state.shift
        /\ s.ctrl = keyboard_state.ctrl /\ s.alt = keyboard_state.alt
    BY <1>2, <2>1 DEF Modifiers
  <2>3. (After(c) \cap Shifts # {}) <=> ~(c.held \cap Shifts # {})
    BY <1>1, <1>3 DEF Regular, Shifts
  <2>4. /\ "ctrl" \in After(c) <=> "ctrl" \in c.held
        /\ "alt" \in After(c) <=> "alt" \in c.held
    BY <1>1, <1>3 DEF Shifts
  <2> HIDE DEF s
  <2>5. s.shift <=> ~keyboard_state.shift
    BY <1>2, <2>2
  <2>6. s.ctrl <=> keyboard_state.ctrl
    BY <2>2
  <2>7. s.alt <=> keyboard_state.alt
    BY <2>2
  <2> QED BY <2>2, <2>3, <2>4, <2>5, <2>6, <2>7, Zenon DEF Matches, s
<1>4. CASE c.key = "ctrl"
  <2>1. s = [keyboard_state EXCEPT !.ctrl = ~keyboard_state.ctrl]
    BY <1>4 DEF Toggled, key_method
  <2>2. s \in Modifiers /\ s.ctrl = ~keyboard_state.ctrl
        /\ s.shift = keyboard_state.shift /\ s.alt = keyboard_state.alt
    BY <1>2, <2>1 DEF Modifiers
  <2>3. "ctrl" \in After(c) <=> "ctrl" \notin c.held
    BY <1>1, <1>4 DEF Regular, Modifier
  <2>4. /\ (After(c) \cap Shifts # {}) <=> (c.held \cap Shifts # {})
        /\ "alt" \in After(c) <=> "alt" \in c.held
    BY <1>1, <1>4 DEF Shifts
  <2> HIDE DEF s
  <2>5. s.shift <=> keyboard_state.shift
    BY <2>2
  <2>6. s.ctrl <=> ~keyboard_state.ctrl
    BY <1>2, <2>2
  <2>7. s.alt <=> keyboard_state.alt
    BY <2>2
  <2> QED BY <2>2, <2>3, <2>4, <2>5, <2>6, <2>7, Zenon DEF Matches, s
<1>5. CASE c.key = "alt"
  <2>1. s = [keyboard_state EXCEPT !.alt = ~keyboard_state.alt]
    BY <1>5 DEF Toggled, key_method
  <2>2. s \in Modifiers /\ s.alt = ~keyboard_state.alt
        /\ s.shift = keyboard_state.shift /\ s.ctrl = keyboard_state.ctrl
    BY <1>2, <2>1 DEF Modifiers
  <2>3. "alt" \in After(c) <=> "alt" \notin c.held
    BY <1>1, <1>5 DEF Regular, Modifier
  <2>4. /\ (After(c) \cap Shifts # {}) <=> (c.held \cap Shifts # {})
        /\ "ctrl" \in After(c) <=> "ctrl" \in c.held
    BY <1>1, <1>5 DEF Shifts
  <2> HIDE DEF s
  <2>5. s.shift <=> keyboard_state.shift
    BY <2>2
  <2>6. s.ctrl <=> keyboard_state.ctrl
    BY <2>2
  <2>7. s.alt <=> ~keyboard_state.alt
    BY <1>2, <2>2
  <2> QED BY <2>2, <2>3, <2>4, <2>5, <2>6, <2>7, Zenon DEF Matches, s
<1>6. CASE c.key \notin Modifier
  <2>1. s = keyboard_state
    BY <1>6, <1>1 DEF Toggled, key_method, Modifier, Shifts, Key
  <2>2. /\ (After(c) \cap Shifts # {}) <=> (c.held \cap Shifts # {})
        /\ "ctrl" \in After(c) <=> "ctrl" \in c.held
        /\ "alt" \in After(c) <=> "alt" \in c.held
    BY <1>1, <1>6 DEF Modifier, Shifts
  <2> QED BY <2>1, <2>2 DEF Matches
<1> QED BY <1>3, <1>4, <1>5, <1>6 DEF Modifier

(* norm prints what the keys held mean.                                    *)
LEMMA PrintedRight ==
  ASSUME NEW c \in Code, Matches(c.held)
  PROVE  Printed(keyboard_state, c) = Meant(c)
BY DEF Matches, Printed, Meant, Text, key_method, Code, Key, Shifts

(* keyboard_state stays a record of three flags, after any step.           *)
LEMMA ModifiersStep ==
  ASSUME IInv, KeyMethod
  PROVE  /\ keyboard_state' = Toggled(keyboard_state, cpu.code)
         /\ keyboard_state' \in Modifiers
<1>1. /\ keyboard_state \in Modifiers
      /\ keyboard_state' = Toggled(keyboard_state, cpu.code)
  BY DEF IInv, Followed, KeyMethod
<1> QED BY <1>1 DEF Toggled, Modifiers

(* The modifiers fit the keys held before the first code to be handled,    *)
(* after any step.                                                         *)
LEMMA FollowedStep == IInv /\ [Next]_vars => Followed'
<1> SUFFICES ASSUME IInv, [Next]_vars PROVE Followed'
  OBVIOUS
<1>1. Followed /\ Handed /\ Placed
  BY DEF IInv
<1>2. CASE UserStep
  <2>1. /\ QueueHeld' = QueueHeld /\ (QueueRegular' => QueueRegular)
        /\ kbd'.full = kbd.full /\ kbd'.code = kbd.code
        /\ UNCHANGED <<cpu, keyboard_state>>
    BY <1>2, SendChain, SendEffect
  <2>2. BufferHeld' = BufferHeld /\ (BufferRegular' => BufferRegular)
    BY <2>1 DEF BufferHeld, BufferRegular
  <2>3. FirstHeld' = FirstHeld /\ (FirstRegular' => FirstRegular)
    BY <2>1, <2>2 DEF FirstHeld, FirstRegular
  <2> QED BY <1>1, <2>1, <2>2, <2>3 DEF Followed, Linked, Matches, Running
<1>3. CASE Deliver
  <2>1. /\ BufferHeld' = BufferHeld /\ BufferRegular' = BufferRegular
        /\ UNCHANGED <<cpu, keyboard_state>>
    BY <1>3, DeliverChain, DeliverEffect
  <2>2. FirstHeld' = FirstHeld /\ FirstRegular' = FirstRegular
    BY <2>1 DEF FirstHeld, FirstRegular
  <2> QED BY <1>1, <2>1, <2>2 DEF Followed, Matches, Running
<1>4. CASE Inport
  <2>1. /\ Running /\ cpu.at = "keyboard_handler" /\ kbd.full
        /\ cpu'.at = "key_method" /\ cpu'.code = kbd.code
        /\ kbd'.full = FALSE /\ cpu'.state = cpu.state
        /\ QueueHeld' = QueueHeld /\ QueueRegular' = QueueRegular
        /\ UNCHANGED keyboard_state
    BY <1>4, InportChain
  <2>2. BufferHeld' = QueueHeld /\ BufferRegular' = QueueRegular
    BY <2>1 DEF BufferHeld, BufferRegular
  <2>3. FirstHeld' = FirstHeld /\ FirstRegular' = FirstRegular
    BY <2>1 DEF FirstHeld, FirstRegular, BufferHeld, BufferRegular
  <2>4. Linked(cpu'.code, BufferHeld', BufferRegular')
    BY <1>1, <2>1, <2>2 DEF Handed
  <2> QED BY <1>1, <2>1, <2>3, <2>4 DEF Followed, Matches, Running
<1>5. CASE KeyMethod
  <2> DEFINE c == cpu.code
  <2>1. /\ Running /\ cpu.at = "key_method" /\ cpu'.at = "eoi_slave"
        /\ keyboard_state' = Toggled(keyboard_state, c)
        /\ keyboard_state' \in Modifiers /\ UNCHANGED <<kbd, user>>
    BY <1>1, <1>5, KeyEffect, ModifiersStep DEF KeyMethod
  <2>2. Linked(c, BufferHeld, BufferRegular)
    BY <1>1, <2>1 DEF Followed
  <2>3. BufferHeld' = BufferHeld /\ BufferRegular' = BufferRegular
    BY <2>1 DEF BufferHeld, BufferRegular, QueueHeld, QueueRegular
  <2>4. /\ FirstHeld' = After(c) /\ (FirstRegular' => c.regular)
        /\ (c.regular => Regular(c)) /\ c \in Code
    BY <2>1, <2>2, <2>3 DEF Linked, FirstHeld, FirstRegular
  <2>5. c.regular => Matches(c.held)
    BY <1>1, <2>1 DEF Followed, FirstRegular, FirstHeld
  <2> HIDE DEF c
  <2>6. c.regular => /\ keyboard_state'.shift <=> After(c) \cap Shifts # {}
                     /\ keyboard_state'.ctrl <=> "ctrl" \in After(c)
                     /\ keyboard_state'.alt <=> "alt" \in After(c)
    BY <1>1, <2>1, <2>4, <2>5, ToggledRight DEF Followed
  <2>7. FirstRegular' => Matches(FirstHeld)'
    BY <2>4, <2>6 DEF Matches
  <2> QED BY <2>1, <2>7 DEF Followed
<1>6. CASE ~UserStep /\ ~Deliver /\ ~Inport /\ ~KeyMethod
  <2>1. UNCHANGED <<kbd, user.held, user.regular>>
    BY <1>6, OtherSteps
  <2>2. BufferHeld' = BufferHeld /\ BufferRegular' = BufferRegular
    BY <2>1 DEF BufferHeld, BufferRegular, QueueHeld, QueueRegular
  <2>3. UNCHANGED keyboard_state
    BY <1>6
    DEF Next, Processor, Mainline, HaltLoop, vars, IdtInstall, IsrsInstall, IrqGates,
        Outportb, Sti, InitVideo, TimerInstall, KeyboardInstall, Step, MainRuns, Spin,
        WaitReturn, WaitCall, Take, Handling, IrqHandler, TimerHandler, Spurious,
        EoiSlave, EoiMaster, Iret, Handler, Exception, Interrupt, UserStep
  <2>4. Running' => Running /\ (cpu'.at = "key_method" <=> cpu.at = "key_method")
                    /\ (cpu'.at = "key_method" => cpu'.code = cpu.code)
    <3>1. CASE UNCHANGED cpu
      BY <3>1 DEF Running
    <3>2. CASE MainStep
      BY <3>2, MainEffect, MainQuiet DEF Running
    <3>3. CASE Take \/ \E chip \in Chip : Spurious(chip)
      BY <3>3, EnteredEffect
    <3>4. CASE Exception
      BY <3>4, ExceptionEffect DEF Running
    <3>5. CASE IrqHandler
      BY <3>5, RoutineEffect DEF Running, InHandler
    <3>6. CASE TimerHandler \/ EoiSlave \/ EoiMaster
      BY <1>1, <3>6, HandlerEffect DEF TimerHandler, EoiSlave, EoiMaster, Running
    <3>7. CASE Iret
      BY <3>7, IretEffect
    <3>8. UNCHANGED cpu \/ MainStep \/ Take \/ (\E chip \in Chip : Spurious(chip))
          \/ Exception \/ IrqHandler \/ TimerHandler \/ EoiSlave \/ EoiMaster \/ Iret
      BY <1>6, AllSteps DEF Handling, vars, Interrupt
    <3> QED BY <3>1, <3>2, <3>3, <3>4, <3>5, <3>6, <3>7, <3>8
  <2>5. Running' => FirstHeld' = FirstHeld /\ FirstRegular' = FirstRegular
    BY <2>2, <2>4 DEF FirstHeld, FirstRegular
  <2> QED BY <1>1, <2>2, <2>3, <2>4, <2>5 DEF Followed, Matches
<1> QED BY <1>2, <1>3, <1>4, <1>5, <1>6

(* A regular code has printed what it meant, after any step.               *)
LEMMA EchoesStep == IInv /\ [Next]_vars => EchoesKeys'
<1> SUFFICES ASSUME IInv, [Next]_vars,
                    cpu'.at = "eoi_slave", cpu'.line = KEYBOARD,
                    irq_routines'[KEYBOARD] # "NULL"
             PROVE  /\ cpu'.code.regular => cpu'.text = Meant(cpu'.code)
                    /\ \E n \in 1 .. main' - 1 : Boot[n].op = "init_video"
  BY DEF EchoesKeys, Meant
<1>1. Tables /\ Placed /\ EchoesKeys /\ Followed /\ Tables' /\ Placed'
  BY TablesStep, PlacedStep DEF IInv
<1>2. main' >= 18 /\ main' \in Int
  BY <1>1 DEF Tables, KEYBOARD, TIMER
<1>3. \E n \in 1 .. main' - 1 : Boot[n].op = "init_video"
  <2>1. 15 \in 1 .. main' - 1
    <3>1. \A m \in Int : m >= 18 => 15 \in 1 .. m - 1
      OBVIOUS
    <3> QED BY <1>2, <3>1, Zenon
  <2>2. Boot[15].op = "init_video"
    BY BootCalls
  <2> QED BY <2>1, <2>2, Zenon
<1>4. CASE KeyMethod
  <2>1. /\ Running /\ cpu.at = "key_method" /\ cpu'.code = cpu.code
        /\ cpu'.text = Printed(keyboard_state, cpu.code)
    BY <1>1, <1>4, KeyEffect
  <2>2. Linked(cpu.code, BufferHeld, BufferRegular)
    BY <1>1, <2>1 DEF Followed
  <2>3. cpu.code \in Code /\ (cpu.code.regular => Matches(cpu.code.held))
    BY <1>1, <2>1, <2>2 DEF Followed, FirstRegular, FirstHeld, Linked
  <2>4. cpu.code.regular => Printed(keyboard_state, cpu.code) = Meant(cpu.code)
    BY <2>3, PrintedRight
  <2> QED BY <1>3, <2>1, <2>4
<1>5. CASE UNCHANGED cpu
  <2>1. cpu.vector = 32 + KEYBOARD
    <3>1. InHandler
      BY <1>1, <1>5 DEF Placed, InHandler, Running, Places
    <3> QED BY <1>1, <1>5, <3>1 DEF Placed, NONE, KEYBOARD
  <2>2. irq_routines[KEYBOARD] # "NULL"
    <3>1. main = main'
      BY <1>1, <1>5, <1>2, MainEffect, MainQuiet, ClockSteps
      DEF Placed, TimerHandler, Handler, Interrupt
    <3> QED BY <1>1, <1>2, <3>1 DEF Tables, KEYBOARD, TIMER
  <2> QED BY <1>1, <1>3, <1>5, <2>1, <2>2 DEF EchoesKeys
<1>6. CASE MainStep
  BY <1>6, MainEffect, MainQuiet
<1>7. CASE Take \/ \E chip \in Chip : Spurious(chip)
  BY <1>7, EnteredEffect
<1>8. CASE Exception
  BY <1>8, ExceptionEffect
<1>9. CASE IrqHandler
  <2>1. main' = main
    BY <1>9 DEF IrqHandler, Handler
  <2> QED BY <1>2, <1>9, <2>1, RoutineEffect
<1>10. CASE TimerHandler
  BY <1>1, <1>10, HandlerEffect
  DEF TimerHandler, Placed, InHandler, Places, Running, TIMER, KEYBOARD
<1>11. CASE Inport
  BY <1>11, InportChain
<1>12. CASE EoiSlave \/ EoiMaster
  BY <1>1, <1>12, HandlerEffect DEF EoiSlave, EoiMaster
<1>13. CASE Iret
  BY <1>13, IretEffect
<1>14. UNCHANGED cpu \/ MainStep \/ Take \/ (\E chip \in Chip : Spurious(chip))
       \/ Exception \/ Handling
  BY AllSteps, SendEffect DEF vars, Interrupt, Deliver
<1> QED
  BY <1>4, <1>5, <1>6, <1>7, <1>8, <1>9, <1>10, <1>11, <1>12, <1>13, <1>14 DEF Handling
-----------------------------------------------------------------------------
(***************************************************************************)
(* What it all comes to.                                                   *)
(***************************************************************************)
(* The inductive invariant is one.                                         *)
LEMMA NextIInv == IInv /\ [Next]_vars => IInv'
BY TablesStep, WordsStep, PlacedStep, ServicedStep, TickingStep, BufferedStep,
   HandedStep, FollowedStep, EchoesStep
DEF IInv

(* It holds in every state of the kernel.                                  *)
THEOREM Invariance == Spec => []IInv
BY InitIInv, NextIInv, PTL DEF Spec

(* Its states have the right types.                                        *)
LEMMA IInvType == IInv => TypeOK
<1> SUFFICES ASSUME IInv PROVE TypeOK
  OBVIOUS
<1>1. main \in 1 .. Len(Boot) + 1 /\ idt \subseteq 0 .. 255
  BY BootCalls DEF IInv, Tables
<1> QED
  BY <1>1 DEF TypeOK, IInv, Placed, Requested, Followed, Ticking

(* Interrupts are on only when the controllers have their words.           *)
LEMMA IInvVectors == IInv => VectorsRight
BY WhenOpen, VectorOf DEF VectorsRight

(* In mainline code nothing is in service.                                 *)
LEMMA IInvService == IInv => NothingInService
BY DEF NothingInService, IInv, Serviced, Running, Chip, Placed

(* keyboard_handler is entered for a byte only.                            *)
LEMMA IInvRead == IInv => NoStaleRead
BY DEF NoStaleRead, IInv, Buffered, ByteDue, Placed, InHandler, Places, Running

(* Types, and the seconds of timer_handler: ticker counts the full groups  *)
(* of TICKS_A_SECOND ticks.                                                *)
THEOREM TypeCorrect == Spec => []TypeOK
BY Invariance, IInvType, PTL

(* With interrupts on, every vector the controllers may give has a gate    *)
(* and is 32 more than its line, whatever irq_remap found them in.         *)
THEOREM EveryLineHasItsVector == Spec => []VectorsRight
BY Invariance, IInvVectors, PTL

(* The two ends of interrupt of irq_handler fit every interrupt, noise on  *)
(* either chip included.                                                   *)
THEOREM EndsOfInterruptSuffice == Spec => []NothingInService
BY Invariance, IInvService, PTL

(* keyboard_handler reads each byte of the 8042 at most once.              *)
THEOREM EveryReadIsFresh == Spec => []NoStaleRead
BY Invariance, IInvRead, PTL

(* However late a key is handled, it prints what was meant, and on a       *)
(* screen that init_video has set up.                                      *)
THEOREM KeysPrintWhatWasMeant == Spec => []EchoesKeys
<1>1. IInv => EchoesKeys
  BY DEF IInv
<1> QED BY <1>1, Invariance, PTL
-----------------------------------------------------------------------------
(***************************************************************************)
(* The window between sti and keyboardInstall().                           *)
(***************************************************************************)
(* A step that leaves the byte in the 8042 without an interrupt to come,   *)
(* and the processor running, finds no handler on the keyboard's line.     *)
LEMMA WedgingStep ==
  ASSUME IInv, [Next]_vars, Wedged', ~Wedged, cpu'.state = "running"
  PROVE  irq_routines[KEYBOARD] = "NULL"
<1> SUFFICES ASSUME main >= 18 PROVE FALSE
  BY DEF IInv, Tables, KEYBOARD, TIMER
<1>1. /\ Tables /\ Placed /\ Requested
      /\ kbd'.full /\ KEYBOARD \notin pic'.master.irr
      /\ ~(cpu'.line = KEYBOARD /\ cpu'.at \in {"irq_handler", "keyboard_handler"})
  BY DEF IInv, Wedged
<1>2. ~Wedged =>
        \/ ~kbd.full \/ KEYBOARD \in pic.master.irr
        \/ cpu.line = KEYBOARD /\ cpu.at \in {"irq_handler", "keyboard_handler"}
  BY DEF Wedged
<1>3. CASE MainStep
  BY <1>1, <1>2, <1>3, MainEffect DEF MainRuns
<1>4. CASE Take
  <2>1. /\ cpu.at = "main" /\ cpu'.line = NextLine(pic) /\ cpu'.at = "irq_handler"
        /\ kbd' = kbd
    BY <1>4, EnteredEffect DEF Take
  <2>2. KEYBOARD \in pic.master.irr /\ NextLine(pic) # KEYBOARD
    BY <1>1, <1>2, <2>1
  <2>3. pic'.master.irr = pic.master.irr
                          \ (IF NextLine(pic) < 8 THEN {NextLine(pic)} ELSE {})
    BY <1>4, TakeEffect
  <2> QED BY <1>1, <2>2, <2>3
<1>5. ASSUME NEW chip \in Chip, Spurious(chip) PROVE FALSE
  BY <1>1, <1>2, <1>5, EnteredEffect, SpuriousEffect DEF Spurious
<1>6. CASE Exception
  BY <1>6, ExceptionEffect
<1>7. CASE IrqHandler
  BY <1>1, <1>2, <1>7, RoutineEffect DEF IrqHandler, KEYBOARD, TIMER
<1>8. CASE TimerHandler
  BY <1>1, <1>2, <1>8 DEF TimerHandler, Handler
<1>9. CASE Inport
  BY <1>1, <1>9, InportChain
<1>10. CASE KeyMethod
  BY <1>1, <1>2, <1>10 DEF KeyMethod
<1>11. CASE EoiSlave
  BY <1>1, <1>2, <1>11, EoiSlaveEffect DEF EoiSlave, Handler
<1>12. CASE EoiMaster
  BY <1>1, <1>2, <1>12, EoiMasterEffect DEF EoiMaster, Handler
<1>13. CASE Iret
  BY <1>1, <1>2, <1>13 DEF Iret
<1>14. ASSUME NEW line \in Slow, Interrupt(line) PROVE FALSE
  <2>1. pic' = Raise(pic, line) /\ line \in Line /\ kbd' = kbd /\ cpu' = cpu
    BY <1>14, DeviceLines DEF Interrupt
  <2>2. KEYBOARD \notin pic.master.irr
    BY <1>1, <2>1, RaiseEffect DEF Requested
  <2> QED BY <1>1, <1>2, <2>1, <2>2
<1>15. CASE Deliver
  BY <1>1, <1>15, DeliverEffect
<1>16. CASE UserStep
  BY <1>1, <1>2, <1>16, SendEffect
<1>17. CASE UNCHANGED vars
  BY <1>1, <1>2, <1>17 DEF vars
<1> QED
  BY <1>3, <1>4, <1>5, <1>6, <1>7, <1>8, <1>9, <1>10, <1>11, <1>12, <1>13, <1>14,
     <1>15, <1>16, <1>17, AllSteps
  DEF Handling

(* After keyboardInstall() no interleaving of keys, ticks, noise and       *)
(* handlers wedges the keyboard.                                           *)
THEOREM NoWedgeOnceInstalled == Spec => WedgedOnlyEarly
<1> DEFINE Early == Wedged' /\ ~Wedged /\ cpu'.state = "running" =>
                      irq_routines[KEYBOARD] = "NULL"
<1>1. IInv /\ [Next]_vars => Early
  BY WedgingStep
<1>2. IInv /\ [Next]_vars => [Early]_vars
  BY <1>1
<1> HIDE DEF Early
<1> QED BY <1>2, Invariance, PTL DEF Spec, WedgedOnlyEarly, Early

-----------------------------------------------------------------------------
(***************************************************************************)
(* The kernel takes only steps of Service.                                 *)
(***************************************************************************)
(* What Service sees of the kernel.                                        *)
Phase == IF cpu.state # "running" THEN "halted"
         ELSE IF \E n \in 1 .. main - 1 : Boot[n].op = "sti" THEN "open" ELSE "setup"
Pending == pic.master.irr \cup {8 + n : n \in pic.slave.irr}
Serving == IF cpu.at = "main" THEN NONE ELSE cpu.line

(* The actions of Service, said of that.                                   *)
LEMMA ServiceActions ==
  /\ \A l : S!Request(l) <=> Pending' = Pending \cup {l} /\ Phase' = Phase /\ Serving' = Serving
  /\ \A L : S!Forget(L) <=>
       Phase = "setup" /\ Pending' = Pending \ L /\ Phase' = Phase /\ Serving' = Serving
  /\ S!Open <=> /\ Phase = "setup" /\ Phase' = "open"
                /\ Pending' = Pending /\ Serving' = Serving
  /\ \A l : S!Serve(l) <=>
       /\ Phase = "open" /\ Serving = NONE
       /\ l \in Pending /\ \A k \in Pending : S!Rank(l) <= S!Rank(k)
       /\ Serving' = l /\ Pending' = Pending \ {l} /\ Phase' = Phase
  /\ S!Finish <=> /\ Phase = "open" /\ Serving # NONE /\ Serving' = NONE
                  /\ Phase' = Phase /\ Pending' = Pending
  /\ S!Halt <=> /\ Phase \in {"setup", "open"} /\ Phase' = "halted"
                /\ Serving' = NONE /\ Pending' = Pending
  /\ UNCHANGED S!vars <=> Phase' = Phase /\ Pending' = Pending /\ Serving' = Serving
  /\ S!Next <=> \/ \E l \in Slow \cup {KEYBOARD} : S!Request(l) \/ S!Serve(l)
               \/ \E L \in SUBSET Pending : S!Forget(L)
               \/ S!Open \/ S!Finish \/ S!Halt
BY Zenon DEF S!Next, S!Request, S!Forget, S!Open, S!Serve, S!Finish, S!Halt, S!vars, Phase, Pending, Serving

(* sti is the fourteenth call.                                             *)
LEMMA StiPlace ==
  ASSUME NEW m \in 1 .. 18
  PROVE  (\E n \in 1 .. m - 1 : Boot[n].op = "sti") <=> m >= 15
<1>1. CASE m >= 15
  <2>1. 14 \in 1 .. m - 1
    BY <1>1
  <2> QED BY <1>1, <2>1, BootCalls
<1>2. CASE ~(m >= 15)
  <2>1. \A n \in 1 .. m - 1 : n \in {1, 2, 3, 4, 5, 6, 7, 8, 9, 10, 11, 12, 13}
    BY <1>2
  <2>2. \A k \in {3, 4, 5, 6, 7, 8, 9, 10, 11, 12} : Boot[k].op = "outportb"
    BY BootCalls DEF Out
  <2> QED BY <1>2, <2>1, <2>2, BootCalls
<1> QED BY <1>1, <1>2

(* The phase, before and after a step.                                     *)
LEMMA PhaseIs ==
  ASSUME IInv
  PROVE  Phase = IF ~Running THEN "halted" ELSE IF Opened THEN "open" ELSE "setup"
BY StiPlace DEF IInv, Tables, Phase, Running, Opened

(* The same of the next state.                                             *)
LEMMA PhaseNext ==
  ASSUME IInv, [Next]_vars
  PROVE  Phase' = IF cpu'.state # "running" THEN "halted"
                  ELSE IF Opened' THEN "open" ELSE "setup"
BY TablesStep, StiPlace DEF Tables, Phase, Opened

(* What is pending changes as the requests of the chips do.                *)
LEMMA PendingNext ==
  ASSUME pic'.master.irr = pic.master.irr, pic'.slave.irr = pic.slave.irr
  PROVE  Pending' = Pending
BY DEF Pending

(* A request of a device.                                                  *)
LEMMA RequestStep ==
  ASSUME IInv, [Next]_vars,
         NEW line \in Slow \cup {KEYBOARD}, pic' = Raise(pic, line),
         cpu' = cpu, main' = main
  PROVE  S!Request(line)
<1>1. pic \in [Chip -> ChipType] /\ line \in Line /\ line \in Int
  BY DeviceLines DEF IInv, Requested, Line
<1>2. /\ pic'.master.irr = pic.master.irr \cup (IF line < 8 THEN {line} ELSE {})
      /\ pic'.slave.irr = pic.slave.irr \cup (IF line < 8 THEN {} ELSE {line - 8})
  BY <1>1, RaiseEffect
<1>3. Pending' = Pending \cup {line}
  <2>1. CASE line < 8
    BY <1>2, <2>1 DEF Pending
  <2>2. CASE ~(line < 8)
    <3>1. pic'.master.irr = pic.master.irr /\ pic'.slave.irr = pic.slave.irr \cup {line - 8}
      BY <1>2, <2>2
    <3>2. 8 + (line - 8) = line
      BY <1>1
    <3>3. {8 + n : n \in pic.slave.irr \cup {line - 8}}
            = {8 + n : n \in pic.slave.irr} \cup {line}
      BY <3>2
    <3> QED BY <3>1, <3>3 DEF Pending
  <2> QED BY <2>1, <2>2
<1>4. Phase' = Phase /\ Serving' = Serving
  BY PhaseIs, PhaseNext DEF Running, Opened, Serving
<1> QED BY <1>3, <1>4, ServiceActions

(* The processor acknowledges the request of highest priority.             *)
LEMMA ServeStep ==
  ASSUME IInv, [Next]_vars, Take, NEW line, line = NextLine(pic)
  PROVE  S!Serve(line)
<1>1. /\ Opened /\ Running /\ cpu.at = "main" /\ cpu'.state = "running"
      /\ cpu'.at = "irq_handler" /\ cpu'.line = line
  BY EnteredEffect
<1>2. Phase = "open" /\ Phase' = "open" /\ Serving = NONE /\ Serving' = line
  <2>1. Opened'
    BY <1>1 DEF Take, Opened
  <2> QED BY <1>1, <2>1, PhaseIs, PhaseNext DEF Serving
<1>3. /\ pic.master.irr \subseteq {TIMER, KEYBOARD}
      /\ pic.slave.irr \subseteq {SlaveLine - 8}
  BY DEF IInv, Requested
<1>4. \/ line = TIMER /\ TIMER \in pic.master.irr
      \/ line = KEYBOARD /\ KEYBOARD \in pic.master.irr /\ TIMER \notin pic.master.irr
      \/ line = SlaveLine /\ SlaveLine - 8 \in pic.slave.irr /\ pic.master.irr = {}
  BY WhenOpen, NextRequest DEF IInv, Take
<1>5. /\ pic'.master.irr = pic.master.irr \ (IF line < 8 THEN {line} ELSE {})
      /\ pic'.slave.irr = pic.slave.irr \ (IF line < 8 THEN {} ELSE {line - 8})
  BY TakeEffect
<1>6. Pending \subseteq {TIMER, KEYBOARD, SlaveLine}
  BY <1>3, DeviceLines DEF Pending
<1>7. /\ SlaveLine \in Pending => SlaveLine - 8 \in pic.slave.irr
      /\ SlaveLine - 8 \in pic.slave.irr => SlaveLine \in Pending
      /\ TIMER \in Pending <=> TIMER \in pic.master.irr
      /\ KEYBOARD \in Pending <=> KEYBOARD \in pic.master.irr
  BY <1>3, DeviceLines DEF Pending, TIMER, KEYBOARD
<1>8. line \in Pending /\ \A k \in Pending : S!Rank(line) <= S!Rank(k)
  <2>1. S!Rank(TIMER) = 0 /\ S!Rank(KEYBOARD) = 1 /\ S!Rank(SlaveLine) = SlaveLine - 6
    BY DeviceLines DEF S!Rank, TIMER, KEYBOARD
  <2> QED BY <1>4, <1>6, <1>7, <2>1, DeviceLines
<1>9. Pending' = Pending \ {line}
  <2>1. ASSUME line < 8, line \in {TIMER, KEYBOARD} PROVE Pending' = Pending \ {line}
    BY <1>3, <1>5, <2>1, DeviceLines DEF Pending, TIMER, KEYBOARD
  <2>2. ASSUME line = SlaveLine, pic.master.irr = {}
        PROVE  Pending' = Pending \ {line}
    <3>1. pic'.master.irr = {} /\ pic'.slave.irr = {}
      BY <1>3, <1>5, <2>2, DeviceLines
    <3> QED BY <1>6, <1>7, <2>2, <3>1 DEF Pending, TIMER, KEYBOARD
  <2> QED BY <1>4, <2>1, <2>2 DEF TIMER, KEYBOARD
<1> QED BY <1>2, <1>8, <1>9, ServiceActions

(* The parts of a handler show nothing; its iret finishes the line.        *)
LEMMA HandlingStep ==
  ASSUME IInv, [Next]_vars, Handling
  PROVE  S!Finish \/ UNCHANGED S!vars
<1>1. Placed /\ main' = main
  BY DEF IInv, Handling, IrqHandler, TimerHandler, Inport, KeyMethod, EoiSlave,
         EoiMaster, Iret, Handler
<1>2. /\ pic'.master.irr = pic.master.irr /\ pic'.slave.irr = pic.slave.irr
  BY EoiSlaveEffect, EoiMasterEffect
  DEF Handling, IrqHandler, TimerHandler, Inport, KeyMethod, Iret
<1>3. Pending' = Pending
  BY <1>2, PendingNext
<1>4. CASE Iret
  <2>1. Running /\ InHandler /\ Opened /\ Opened' /\ cpu'.state = "running" /\ cpu'.at = "main"
    BY <1>1, <1>4, IretEffect DEF Placed, InHandler, Places, Opened
  <2>2. Phase = "open" /\ Phase' = "open" /\ Serving' = NONE
    BY <2>1, PhaseIs, PhaseNext DEF Serving
  <2> QED BY <1>3, <2>2, ServiceActions
<1>5. CASE ~Iret
  <2>1. /\ Running /\ cpu.at # "main" /\ cpu'.at # "main"
        /\ cpu'.line = cpu.line /\ cpu'.state = cpu.state
    <3>1. ASSUME NEW from, NEW to, Handler(from, to), from # "main", to # "main"
          PROVE  /\ Running /\ cpu.at # "main" /\ cpu'.at # "main"
                 /\ cpu'.line = cpu.line /\ cpu'.state = cpu.state
      BY <1>1, <3>1, HandlerEffect
    <3>2. CASE TimerHandler \/ EoiSlave \/ EoiMaster
      BY <3>1, <3>2 DEF TimerHandler, EoiSlave, EoiMaster
    <3>3. CASE IrqHandler
      BY <3>3, RoutineEffect DEF InHandler, Places
    <3>4. CASE Inport \/ KeyMethod
      BY <1>1, <3>4, KeyEffect
    <3> QED BY <1>5, <3>2, <3>3, <3>4 DEF Handling
  <2>2. Phase' = Phase /\ Serving' = Serving
    BY <1>1, <2>1, PhaseIs, PhaseNext DEF Running, Opened, Serving
  <2> QED BY <1>3, <2>2, ServiceActions
<1> QED BY <1>4, <1>5

(* Of the mainline's steps sti opens, irq_remap forgets requests, and the  *)
(* others show nothing.                                                    *)
LEMMA MainlineStep ==
  ASSUME IInv, [Next]_vars, MainStep
  PROVE  S!Open \/ (\E L \in SUBSET Pending : S!Forget(L)) \/ UNCHANGED S!vars
<1>1. /\ Running /\ cpu.at = "main" /\ cpu'.at = "main" /\ cpu'.state = "running"
      /\ (pic' = pic \/ (Outportb /\ main <= 12))
      /\ main \in Int /\ main' \in {main, main + 1}
  BY MainEffect, MainQuiet DEF Running
<1>2. Serving' = Serving /\ (Opened' <=> Opened \/ Sti) /\ (Sti => main = 14)
  BY <1>1, OpenedStep DEF Serving
<1>3. CASE Outportb /\ main <= 12
  <2>1. Pending' \subseteq Pending
    BY <1>3, RemapEffect DEF Pending
  <2>2. PICK L \in SUBSET Pending : Pending' = Pending \ L
    BY <2>1
  <2>3. Phase = "setup" /\ Phase' = "setup"
    BY <1>1, <1>3, PhaseIs, PhaseNext DEF Opened
  <2> QED BY <1>2, <2>2, <2>3, ServiceActions
<1>4. CASE pic' = pic /\ Sti
  <2>1. Phase = "setup" /\ Phase' = "open"
    BY <1>1, <1>2, <1>4, PhaseIs, PhaseNext DEF Opened
  <2> QED BY <1>2, <1>4, <2>1, PendingNext, ServiceActions
<1>5. CASE pic' = pic /\ ~Sti
  <2>1. Phase' = Phase
    BY <1>1, <1>2, <1>5, PhaseIs, PhaseNext
  <2> QED BY <1>2, <1>5, <2>1, PendingNext, ServiceActions
<1> QED BY <1>1, <1>3, <1>4, <1>5

(* Every step of the kernel, of its devices and of its user is a step of   *)
(* Service or shows nothing.                                               *)
LEMMA StepRefines == IInv /\ [Next]_vars => [S!Next]_(S!vars)
<1> SUFFICES ASSUME IInv, [Next]_vars PROVE S!Next \/ UNCHANGED S!vars
  OBVIOUS
<1>1. CASE MainStep
  BY <1>1, MainlineStep, ServiceActions
<1>2. CASE Take
  <2>1. PICK line \in Slow \cup {KEYBOARD} : line = NextLine(pic)
    BY <1>2, TakenLine
  <2>2. S!Serve(line)
    BY <1>2, <2>1, ServeStep
  <2> QED BY <2>2, ServiceActions
<1>3. ASSUME NEW chip \in Chip, Spurious(chip) PROVE UNCHANGED S!vars
  <2>1. /\ Running /\ cpu.at = "main" /\ cpu'.state = "running" /\ main' = main
        /\ cpu'.line = NONE
    BY <1>3, EnteredEffect DEF Take, Spurious
  <2>2. Phase' = Phase /\ Serving' = Serving
    BY <2>1, PhaseIs, PhaseNext DEF Opened, Serving
  <2> QED BY <1>3, <2>2, SpuriousEffect, PendingNext, ServiceActions
<1>4. CASE Exception
  <2>1. Phase \in {"setup", "open"} /\ Phase' = "halted" /\ Serving' = NONE
    BY <1>4, ExceptionEffect, PhaseIs, PhaseNext DEF Serving
  <2> QED BY <1>4, <2>1, PendingNext, ServiceActions DEF Exception
<1>5. CASE Handling
  BY <1>5, HandlingStep, ServiceActions
<1>6. ASSUME NEW line \in Slow, Interrupt(line) PROVE S!Next
  BY <1>6, RequestStep, ServiceActions DEF Interrupt
<1>7. CASE Deliver
  BY <1>7, RequestStep, ServiceActions DEF Deliver
<1>8. CASE UserStep \/ UNCHANGED vars
  <2>1. main' = main /\ cpu' = cpu /\ pic' = pic
    BY <1>8, SendEffect DEF vars
  <2> QED BY <2>1, ServiceActions DEF Phase, Pending, Serving
<1> QED
  BY <1>1, <1>2, <1>3, <1>4, <1>5, <1>6, <1>7, <1>8, AllSteps

(* The safety part of ImplementsService: requests are served once, by      *)
(* priority, one at a time, after sti, and until the kernel halts.         *)
THEOREM ServesAsPromised == Spec => S!Init /\ [][S!Next]_(S!vars)
<1>1. Init => S!Init
  <2> SUFFICES ASSUME Init PROVE S!Init
    OBVIOUS
  <2>1. IInv /\ Running /\ ~Opened /\ cpu.at = "main"
    BY InitIInv DEF Init, Idle, Running, Opened
  <2>2. Phase = "setup" /\ Serving = NONE
    BY <2>1, PhaseIs DEF Serving
  <2>3. Pending = {}
    BY DEF Pending, Init, BiosPair, BiosChip
  <2> QED BY <2>2, <2>3, Zenon DEF S!Init, Phase, Pending, Serving
<1> QED BY <1>1, StepRefines, Invariance, PTL DEF Spec

=============================================================================
