----------------------------- MODULE Interrupts -----------------------------
(***************************************************************************)
(* main(), the interrupt handlers it installs, and the devices that        *)
(* interrupt it: core/irq.c, core/isrs.c, core/IDT.c, core/timer.c,        *)
(* core/kbd.c, the stubs of start.asm and core/panic.c.  The controllers   *)
(* are those of Pic, the scan codes those of Keyboard.                     *)
(*                                                                         *)
(* A step of the processor is one call of the boot sequence, one port      *)
(* access, or one part of a handler; devices act between any two.          *)
(***************************************************************************)
EXTENDS Pic, Keyboard

CONSTANTS
  TICKS_A_SECOND,  \* 18, the divisor of timer_handler
  Keys,            \* the keys of the user
  SlaveLine,       \* a line of the slave with a device on it
  Waits,           \* arguments of timer_wait
  MaxTicks,        \* bound: timer_ticks
  MaxCodes,        \* bound: scan codes
  MaxNoise         \* bound: spurious interrupts

ASSUME InterruptsAssumption ==
  /\ TICKS_A_SECOND \in Nat \ {0}
  /\ Keys \subseteq Key
  /\ SlaveLine \in 8 .. 15
  /\ Waits \subseteq Nat
  /\ {MaxTicks, MaxCodes, MaxNoise} \subseteq Nat

VARIABLES
  main,           \* the next step of Boot
  cpu,            \* the processor and the handler it runs, see Init
  idt,            \* vectors with a gate
  irq_routines,   \* handler of each line
  pic,            \* the controllers
  clock,          \* the timer and timer_wait, see Init
  kbd,            \* the keyboard and the 8042, see Init
  keyboard_state, \* shift, alt, ctrl
  user            \* keys held, and history, see Init

vars == <<main, cpu, idt, irq_routines, pic, clock, kbd, keyboard_state, user>>

NONE == -1
NoCode == [key |-> "mute", up |-> TRUE, held |-> {}, regular |-> FALSE]

(* The processor in mainline code, interrupts off.                         *)
Idle == [IF |-> FALSE, state |-> "running", at |-> "main", vector |-> NONE,
         line |-> NONE, code |-> NoCode, text |-> <<>>]

(* The lines of the timer, the keyboard and the slave's device.            *)
TIMER == 0
KEYBOARD == 1
Slow == {TIMER, SlaveLine}

(* cpu.at    "main", or where the handler is                               *)
(* cpu.line  the line acknowledged, NONE for noise                         *)
(* cpu.code, cpu.text  what keyboard_handler read and printed              *)
(* clock.ripe  the slow devices that may raise their line: mainline code   *)
(*           has made a step since they last did                           *)
(* clock.eticks  what timer_wait waits for                                 *)
(* user.last the key that repeats, user.regular no modifier was repeated   *)
(*           or doubled so far                                             *)
Init ==
  /\ main = 1
  /\ cpu = Idle
  /\ idt = {}
  /\ irq_routines = [n \in 0 .. 15 |-> "NULL"]
  /\ pic = BiosPair
  /\ clock = [timer_ticks |-> 0, ticker |-> 0, eticks |-> NONE, ripe |-> Slow]
  /\ kbd = [queue |-> <<>>, full |-> FALSE, code |-> NoCode]
  /\ keyboard_state = NoModifiers
  /\ user = [held |-> {}, last |-> "none", regular |-> TRUE, codes |-> 0, noise |-> 0]
-----------------------------------------------------------------------------
(* The boot sequence.  Calls of main() that touch none of this state are   *)
(* left out; paging_install() is where it ends here.                       *)
Call(op) == [op |-> op, port |-> 0, value |-> 0]
Out(port, value) == [op |-> "outportb", port |-> port, value |-> value]

irq_remap ==
  <<Out(32, ICW1), Out(160, ICW1), Out(33, 32), Out(161, 40), Out(33, 4),
    Out(161, 2), Out(33, 1), Out(161, 1), Out(33, 0), Out(161, 0)>>

Boot ==
  <<Call("idt_install"), Call("isrs_install")>> \o irq_remap \o
  <<Call("irq_gates"), Call("sti"), Call("init_video"), Call("timer_install"),
    Call("keyboardInstall")>>

Booted == main > Len(Boot)

(* Mainline code runs when no handler does and no interrupt is due.        *)
MainRuns ==
  /\ cpu.state = "running" /\ cpu.at = "main"
  /\ ~(cpu.IF /\ Interrupting(pic))
  /\ UNCHANGED <<kbd, keyboard_state, user>>

Step(op) ==
  /\ MainRuns /\ ~Booted /\ Boot[main].op = op
  /\ main' = main + 1
  /\ clock' = [clock EXCEPT !.ripe = Slow]

IdtInstall ==
  Step("idt_install") /\ idt' = {} /\ UNCHANGED <<cpu, irq_routines, pic>>

IsrsInstall ==
  Step("isrs_install") /\ idt' = idt \cup 0 .. 31
  /\ UNCHANGED <<cpu, irq_routines, pic>>

Outportb ==
  /\ Step("outportb")
  /\ pic' = OutPort(pic, Boot[main].port, Boot[main].value)
  /\ UNCHANGED <<cpu, idt, irq_routines>>

(* Mutated form: one gate too few.                                         *)
IrqGatesShort ==
  Step("irq_gates") /\ idt' = idt \cup 32 .. 39 + SlaveLine - 8
  /\ UNCHANGED <<cpu, irq_routines, pic>>

(* irq_install(): the gates of the sixteen lines, then sti.                *)
IrqGates ==
  Step("irq_gates") /\ idt' = idt \cup 32 .. 47
  /\ UNCHANGED <<cpu, irq_routines, pic>>

Sti ==
  Step("sti") /\ cpu' = [cpu EXCEPT !.IF = TRUE]
  /\ UNCHANGED <<idt, irq_routines, pic>>

InitVideo == Step("init_video") /\ UNCHANGED <<cpu, idt, irq_routines, pic>>

irq_install_handler(irq, handler) ==
  irq_routines' = [irq_routines EXCEPT ![irq] = handler]

(* Mutated form: the handler goes to the line of the clock, 8.             *)
TimerInstallRtc ==
  Step("timer_install") /\ irq_install_handler(8, "timer_handler")
  /\ UNCHANGED <<cpu, idt, pic>>

TimerInstall ==
  Step("timer_install") /\ irq_install_handler(TIMER, "timer_handler")
  /\ UNCHANGED <<cpu, idt, pic>>

KeyboardInstall ==
  Step("keyboardInstall") /\ irq_install_handler(KEYBOARD, "keyboard_handler")
  /\ UNCHANGED <<cpu, idt, pic>>

(* jmp $, and the loop of timer_wait while it waits.                       *)
Spin ==
  /\ MainRuns /\ Booted
  /\ clock.eticks = NONE \/ clock.timer_ticks < clock.eticks
  /\ clock' = [clock EXCEPT !.ripe = Slow]
  /\ UNCHANGED <<main, cpu, idt, irq_routines, pic>>

(* timer_wait(ticks): eticks, then the loop until timer_ticks reaches it.  *)
WaitCall(ticks) ==
  /\ MainRuns /\ Booted
  /\ clock.eticks = NONE /\ clock.timer_ticks + ticks <= MaxTicks
  /\ clock' = [clock EXCEPT !.eticks = clock.timer_ticks + ticks, !.ripe = Slow]
  /\ UNCHANGED <<main, cpu, idt, irq_routines, pic>>

WaitReturn ==
  /\ MainRuns /\ Booted
  /\ clock.eticks # NONE /\ clock.timer_ticks >= clock.eticks
  /\ clock' = [clock EXCEPT !.eticks = NONE, !.ripe = Slow]
  /\ UNCHANGED <<main, cpu, idt, irq_routines, pic>>
-----------------------------------------------------------------------------
(* Mutated form: a trap gate and no cli, interrupts stay on.               *)
EnterTrap(line, vector) ==
  cpu' = [cpu EXCEPT !.line = line, !.vector = vector, !.text = <<>>,
                     !.state = IF vector \notin idt THEN "reset"
                               ELSE IF vector < 32 THEN "panic" ELSE @,
                     !.at = "irq_handler"]

(* The processor takes the vector of line.  The gates are interrupt gates  *)
(* (0x8E) and the stubs begin with cli: IF is off.  Below 32 the handler   *)
(* is fault_handler, which prints and halts; without a gate the machine    *)
(* resets.                                                                 *)
Enter(line, vector) ==
  cpu' = [cpu EXCEPT !.IF = FALSE, !.line = line, !.vector = vector, !.text = <<>>,
                     !.state = IF vector \notin idt THEN "reset"
                               ELSE IF vector < 32 THEN "panic" ELSE @,
                     !.at = "irq_handler"]

(* It acknowledges the request of highest priority.                        *)
Take ==
  /\ cpu.IF /\ Interrupting(pic)
  /\ pic' = InService(pic, NextLine(pic))
  /\ Enter(NextLine(pic), Vector(pic, NextLine(pic)))
  /\ UNCHANGED <<main, idt, irq_routines, clock, kbd, keyboard_state, user>>

(* A request gone before it is acknowledged: the chip answers with its     *)
(* line 7 and puts nothing in service.                                     *)
Spurious(chip) ==
  /\ cpu.IF /\ ~Interrupting(pic)
  /\ user.noise < MaxNoise
  /\ user' = [user EXCEPT !.noise = @ + 1]
  /\ IF chip = "master" THEN Enter(NONE, Vector(pic, 7)) /\ UNCHANGED pic
     ELSE Enter(NONE, Vector(pic, 15)) /\ pic' = [pic EXCEPT !.master.isr = @ \cup {2}]
  /\ UNCHANGED <<main, idt, irq_routines, clock, kbd, keyboard_state>>

(* An exception, in mainline code or in a handler: fault_handler, and for  *)
(* 14 page_fault, end in halt_and_catch_fire.                              *)
Exception ==
  /\ cpu.state = "running" /\ 0 .. 31 \subseteq idt
  /\ cpu' = [Idle EXCEPT !.state = "panic"]
  /\ UNCHANGED <<main, idt, irq_routines, pic, clock, kbd, keyboard_state, user>>

(* One part of a handler.                                                  *)
Handler(from, to) ==
  /\ cpu.state = "running" /\ cpu.at = from
  /\ cpu' = [cpu EXCEPT !.at = to]
  /\ UNCHANGED <<main, idt, irq_routines, user>>

(* irq_handler(): the routine of the line, if there is one.                *)
IrqHandler ==
  /\ Handler("irq_handler", LET routine == irq_routines[cpu.vector - 32]
                            IN  IF routine = "NULL" THEN "eoi_slave" ELSE routine)
  /\ UNCHANGED <<pic, clock, kbd, keyboard_state>>

(* Mutated form: the second is counted in the other ticks.                 *)
TimerHandlerOther ==
  /\ Handler("timer_handler", "eoi_slave")
  /\ LET ticks == clock.timer_ticks + 1
     IN  clock' = [clock EXCEPT !.timer_ticks = ticks,
                                !.ticker = IF ticks % TICKS_A_SECOND # 0 THEN @ + 1 ELSE @]
  /\ UNCHANGED <<pic, kbd, keyboard_state>>

TimerHandler ==
  /\ Handler("timer_handler", "eoi_slave")
  /\ LET ticks == clock.timer_ticks + 1
     IN  clock' = [clock EXCEPT !.timer_ticks = ticks,
                                !.ticker = IF ticks % TICKS_A_SECOND = 0 THEN @ + 1 ELSE @]
  /\ UNCHANGED <<pic, kbd, keyboard_state>>

(* Mutated form: the status port is read, the byte stays.                  *)
InportStatus ==
  /\ cpu.state = "running" /\ cpu.at = "keyboard_handler"
  /\ cpu' = [cpu EXCEPT !.at = "key_method", !.code = kbd.code]
  /\ UNCHANGED <<main, idt, irq_routines, pic, clock, kbd, keyboard_state, user>>

(* Mutated form: reads until nothing more is there.                        *)
InportAgain ==
  /\ cpu.state = "running" /\ cpu.at = "keyboard_handler"
  /\ cpu' = [cpu EXCEPT !.at = IF kbd.full THEN "keyboard_handler" ELSE "key_method",
                        !.code = kbd.code]
  /\ kbd' = [kbd EXCEPT !.full = FALSE, !.code = NoCode]
  /\ UNCHANGED <<main, idt, irq_routines, pic, clock, keyboard_state, user>>

(* keyboard_handler(): scancode = inportb(0x60), which frees the 8042, ... *)
Inport ==
  /\ cpu.state = "running" /\ cpu.at = "keyboard_handler"
  /\ cpu' = [cpu EXCEPT !.at = "key_method", !.code = kbd.code]
  /\ kbd' = [kbd EXCEPT !.full = FALSE, !.code = NoCode]
  /\ UNCHANGED <<main, idt, irq_routines, pic, clock, keyboard_state, user>>

(* ... then the method of the key.                                         *)
KeyMethod ==
  /\ cpu.state = "running" /\ cpu.at = "key_method"
  /\ cpu' = [cpu EXCEPT !.at = "eoi_slave", !.text = Printed(keyboard_state, cpu.code)]
  /\ keyboard_state' = Toggled(keyboard_state, cpu.code)
  /\ UNCHANGED <<main, idt, irq_routines, pic, clock, kbd, user>>

(* Mutated form: line 8, vector 40, is taken for the master's.             *)
EoiSlaveLate ==
  /\ Handler("eoi_slave", "eoi_master")
  /\ pic' = IF cpu.vector > 40 THEN OutPort(pic, 160, EOI) ELSE pic
  /\ UNCHANGED <<clock, kbd, keyboard_state>>

(* The end of interrupt, of the slave for its lines, of the master always. *)
EoiSlave ==
  /\ Handler("eoi_slave", "eoi_master")
  /\ pic' = IF cpu.vector >= 40 THEN OutPort(pic, 160, EOI) ELSE pic
  /\ UNCHANGED <<clock, kbd, keyboard_state>>

(* Mutated form: a line without a routine is not acknowledged.             *)
EoiMasterHandled ==
  /\ Handler("eoi_master", "iret")
  /\ pic' = IF irq_routines[cpu.vector - 32] = "NULL" THEN pic
            ELSE OutPort(pic, 32, EOI)
  /\ UNCHANGED <<clock, kbd, keyboard_state>>

EoiMaster ==
  /\ Handler("eoi_master", "iret")
  /\ pic' = OutPort(pic, 32, EOI)
  /\ UNCHANGED <<clock, kbd, keyboard_state>>

Iret ==
  /\ cpu.state = "running" /\ cpu.at = "iret"
  /\ cpu' = [Idle EXCEPT !.IF = TRUE]
  /\ UNCHANGED <<main, idt, irq_routines, pic, clock, kbd, keyboard_state, user>>
-----------------------------------------------------------------------------
(* The devices, of interest while the kernel runs.  A slow one raises its  *)
(* line: the timer up to MaxTicks ticks counted.                           *)
Interrupt(line) ==
  /\ cpu.state = "running" /\ line \in clock.ripe
  /\ line = TIMER => clock.timer_ticks < MaxTicks
  /\ pic' = Raise(pic, line)
  /\ clock' = [clock EXCEPT !.ripe = @ \ {line}]
  /\ UNCHANGED <<main, cpu, idt, irq_routines, kbd, keyboard_state, user>>

(* The 8042 takes the next code of the keyboard when its buffer is free,   *)
(* and raises line 1.                                                      *)
Deliver ==
  /\ cpu.state = "running" /\ ~kbd.full /\ kbd.queue # <<>>
  /\ kbd' = [queue |-> Tail(kbd.queue), full |-> TRUE, code |-> Head(kbd.queue)]
  /\ pic' = Raise(pic, KEYBOARD)
  /\ UNCHANGED <<main, cpu, idt, irq_routines, clock, keyboard_state, user>>

Shifts == {"lshift", "rshift"}
Modifier == Shifts \cup {"ctrl", "alt"}

(* The user: a code carries the keys held before it, and whether all has   *)
(* been regular so far.                                                    *)
Send(key, up, held, regular) ==
  /\ user.codes < MaxCodes /\ cpu.state = "running"
  /\ kbd' = [kbd EXCEPT !.queue = Append(@, [key |-> key, up |-> up, held |-> user.held,
                                             regular |-> regular])]
  /\ user' = [user EXCEPT !.held = held, !.last = IF up THEN "none" ELSE key,
                          !.regular = regular, !.codes = @ + 1]
  /\ UNCHANGED <<main, cpu, idt, irq_routines, pic, clock, keyboard_state>>

Press(key) ==
  /\ key \notin user.held
  /\ Send(key, FALSE, user.held \cup {key},
          user.regular /\ ~(key \in Shifts /\ user.held \cap Shifts # {}))

Release(key) ==
  key \in user.held /\ Send(key, TRUE, user.held \ {key}, user.regular)

(* The key pressed last repeats while it is held.                          *)
Repeat ==
  user.last # "none"
  /\ Send(user.last, FALSE, user.held, user.regular /\ user.last \notin Modifier)
-----------------------------------------------------------------------------
(* for (;;); of halt_and_catch_fire.                                       *)
HaltLoop == cpu.state # "running" /\ UNCHANGED vars

Mainline ==
  \/ IdtInstall \/ IsrsInstall \/ Outportb \/ IrqGates \/ Sti \/ InitVideo
  \/ TimerInstall \/ KeyboardInstall \/ Spin \/ WaitReturn

Handling ==
  \/ IrqHandler \/ TimerHandler \/ Inport \/ KeyMethod \/ EoiSlave \/ EoiMaster
  \/ Iret

Processor == Mainline \/ Take \/ Handling

Next ==
  \/ Processor
  \/ \E ticks \in Waits : WaitCall(ticks)
  \/ \E chip \in Chip : Spurious(chip)
  \/ Exception
  \/ \E line \in Slow : Interrupt(line)
  \/ Deliver
  \/ \E key \in Keys : Press(key) \/ Release(key)
  \/ Repeat
  \/ HaltLoop

(* The processor runs, the timer ticks, the 8042 passes on what it has.    *)
(* Nothing is assumed of the user, of noise and of callers of timer_wait.  *)
Spec ==
  /\ Init /\ [][Next]_vars
  /\ WF_vars(Processor) /\ WF_vars(Interrupt(TIMER)) /\ WF_vars(Deliver)
-----------------------------------------------------------------------------
TypeOK ==
  /\ main \in 1 .. Len(Boot) + 1
  /\ cpu.IF \in BOOLEAN /\ cpu.state \in {"running", "panic", "reset"}
  /\ idt \subseteq 0 .. 255
  /\ pic \in [Chip -> ChipType]
  /\ keyboard_state \in Modifiers
  /\ clock.timer_ticks \in 0 .. MaxTicks
  /\ clock.ticker = clock.timer_ticks \div TICKS_A_SECOND

(* irq_remap and irq_install before sti: with interrupts on, each vector   *)
(* the controllers may give has a gate, and it is 32 more than its line,   *)
(* which is how irq_handler finds the routine.                             *)
VectorsRight ==
  cpu.IF => \A line \in Line : Vector(pic, line) \in idt /\ Vector(pic, line) = 32 + line

(* irq_handler: whatever line interrupted, or none, the two ends of        *)
(* interrupt leave nothing in service when mainline code runs again.       *)
NothingInService ==
  cpu.state = "running" /\ cpu.at = "main" => \A c \in Chip : pic[c].isr = {}

(* keyboard_handler reads port 0x60 only when a byte is there: each byte   *)
(* is read at most once, or a modifier would flip twice.                   *)
NoStaleRead == cpu.state = "running" /\ cpu.at = "keyboard_handler" => kbd.full

(* What the key means, given the keys held when it was hit.                *)
Meant(code) ==
  IF code.key # "text" \/ code.up THEN <<>>
  ELSE IF code.held \cap Shifts # {} THEN <<"upper">>
  ELSE IF "ctrl" \in code.held THEN <<"caret", "upper">>
  ELSE <<"lower">>

(* norm, shft, ctlk: while no modifier key repeats and the two shift keys  *)
(* are not held together, a key prints what the modifiers held when it was *)
(* hit make of it, however late it is handled, and on a screen that is     *)
(* ready.                                                                  *)
EchoesKeys ==
  cpu.at = "eoi_slave" /\ cpu.vector = 32 + KEYBOARD /\ cpu.line = KEYBOARD
  /\ irq_routines[KEYBOARD] # "NULL" =>
    /\ cpu.code.regular => cpu.text = Meant(cpu.code)
    /\ \E n \in 1 .. main - 1 : Boot[n].op = "init_video"

(* The byte in the 8042 has no interrupt to come: it is never read, and    *)
(* the keyboard is dead.                                                   *)
Wedged ==
  /\ kbd.full /\ KEYBOARD \notin pic.master.irr
  /\ ~(cpu.line = KEYBOARD /\ cpu.at \in {"irq_handler", "keyboard_handler"})

(* Before keyboardInstall() a byte is lost when ICW1 in irq_remap forgets *)
(* its request, or when it is acknowledged after sti and nobody reads it;  *)
(* none that comes later wedges the keyboard.                              *)
WedgedOnlyEarly ==
  [][Wedged' /\ ~Wedged /\ cpu'.state = "running" =>
       irq_routines[KEYBOARD] = "NULL"]_vars

(* From keyboardInstall() on, all codes are handled, unless the keyboard   *)
(* was wedged before or the kernel panics.                                 *)
KeysHandled ==
  (irq_routines[KEYBOARD] # "NULL" /\ ~Wedged)
    ~> (kbd.queue = <<>> /\ ~kbd.full) \/ cpu.state = "panic"

(* timer_wait returns, unless the kernel panics.                           *)
WaitReturns == (clock.eticks # NONE) ~> (clock.eticks = NONE \/ cpu.state = "panic")

S == INSTANCE Service WITH
  Line <- Slow \cup {KEYBOARD},
  NoLine <- NONE,
  phase <- IF cpu.state # "running" THEN "halted"
           ELSE IF \E n \in 1 .. main - 1 : Boot[n].op = "sti" THEN "open" ELSE "setup",
  pending <- pic.master.irr \cup {8 + n : n \in pic.slave.irr},
  serving <- IF cpu.at = "main" THEN NONE ELSE cpu.line

(* The kernel serves the devices as Service says.                          *)
ImplementsService == S!Spec
=============================================================================
