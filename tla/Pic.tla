-------------------------------- MODULE Pic --------------------------------
(***************************************************************************)
(* The pair of 8259 interrupt controllers, as far as core/irq.c uses it:   *)
(* four ports, the initialisation words, the non-specific end of interrupt *)
(* and fixed priorities.  It is hardware, so the module is the part of the *)
(* environment that Interrupts assumes.                                    *)
(*                                                                         *)
(* The slave's output is line 2 of the master.  A request line is an edge: *)
(* it sets a bit of irr, once.                                             *)
(***************************************************************************)
EXTENDS Integers, FiniteSetsExt

Chip == {"master", "slave"}

(* Lines of the pair: 0 to 7 of the master, 8 to 15 of the slave.          *)
Line == (0 .. 15) \ {2}
CASCADE == 2

ICW1 == 17       \* 0x11: edge triggered, a pair, ICW4 will follow
EOI == 32        \* 0x20: non-specific end of interrupt

Bits(value) == {n \in 0 .. 7 : (value \div 2^n) % 2 = 1}

(* icw      the initialisation word the data port expects next, 0: none    *)
(* base     vector of line 0                                               *)
(* wire     ICW3: lines with a slave, or the line the slave is on          *)
(* mask, irr, isr   lines masked, requested, in service                    *)
ChipType == [icw : {0, 2, 3, 4}, base : 0 .. 255, wire : 0 .. 255,
             mask : SUBSET (0 .. 7), irr : SUBSET (0 .. 7), isr : SUBSET (0 .. 7)]

(* What the BIOS leaves.                                                   *)
BiosChip(base, wire) ==
  [icw |-> 0, base |-> base, wire |-> wire, mask |-> {}, irr |-> {}, isr |-> {}]

BiosPair == [master |-> BiosChip(8, 4), slave |-> BiosChip(112, 2)]

(* ICW1 forgets requests and mask; the end of interrupt clears the line of *)
(* highest priority in service.                                            *)
Command(chip, value) ==
  IF value = ICW1 THEN [chip EXCEPT !.icw = 2, !.mask = {}, !.irr = {}, !.isr = {}]
  ELSE IF value = EOI /\ chip.isr # {} THEN [chip EXCEPT !.isr = @ \ {Min(@)}]
  ELSE chip

Data(chip, value) ==
  CASE chip.icw = 2 -> [chip EXCEPT !.icw = 3, !.base = value]
    [] chip.icw = 3 -> [chip EXCEPT !.icw = 4, !.wire = value]
    [] chip.icw = 4 -> [chip EXCEPT !.icw = 0]
    [] OTHER        -> [chip EXCEPT !.mask = Bits(value)]

(* outportb() to one of the four ports.                                    *)
OutPort(pair, port, value) ==
  CASE port = 32  -> [pair EXCEPT !.master = Command(@, value)]
    [] port = 33  -> [pair EXCEPT !.master = Data(@, value)]
    [] port = 160 -> [pair EXCEPT !.slave = Command(@, value)]
    [] port = 161 -> [pair EXCEPT !.slave = Data(@, value)]

(* A device raises its line.                                               *)
Raise(pair, line) ==
  IF line < 8 THEN [pair EXCEPT !.master.irr = @ \cup {line}]
  ELSE [pair EXCEPT !.slave.irr = @ \cup {line - 8}]

(* Requests of a chip that nothing of the same or a higher priority, in    *)
(* service, holds back.                                                    *)
Eligible(chip, irr) ==
  {n \in irr \ chip.mask : \A s \in chip.isr : n < s}

SlaveRequests(pair) == Eligible(pair.slave, pair.slave.irr)

MasterRequests(pair) ==
  Eligible(pair.master,
           pair.master.irr \cup (IF SlaveRequests(pair) = {} THEN {} ELSE {CASCADE}))

(* The processor is interrupted.                                           *)
Interrupting(pair) == MasterRequests(pair) # {}

(* The line it gets, and the pair after it has acknowledged it.            *)
NextLine(pair) ==
  LET n == Min(MasterRequests(pair))
  IN  IF n = CASCADE THEN 8 + Min(SlaveRequests(pair)) ELSE n

(* The line goes from irr to isr; of the slave's lines, in both chips.     *)
InService(pair, line) ==
  IF line < 8
  THEN [pair EXCEPT !.master.irr = @ \ {line}, !.master.isr = @ \cup {line}]
  ELSE [pair EXCEPT !.slave.irr = @ \ {line - 8}, !.slave.isr = @ \cup {line - 8},
                    !.master.isr = @ \cup {CASCADE}]

(* The vector a chip gives.  A slave that the two ICW3 do not agree on     *)
(* gives none: -1.                                                         *)
Vector(pair, line) ==
  IF line < 8 THEN pair.master.base + line
  ELSE IF Bits(pair.master.wire) = {pair.slave.wire} THEN pair.slave.base + line - 8
  ELSE -1
=============================================================================
