------------------------------ MODULE Kprintf ------------------------------
(***************************************************************************)
(* core/kprintf.c and its callers in core/panic.c, core/isrs.c and         *)
(* core/mem.c.  Every call of kprintf expands its format into one static   *)
(* buffer and prints that with puts.  An exception between any two steps   *)
(* enters fault_handler, which prints through the same buffer and never    *)
(* returns; so does a %s that points at memory which is not mapped.        *)
(*                                                                         *)
(* A step is one turn of the loop over the format (with it the copy that   *)
(* %s makes), or one putch.  A character is its code.  The texts of the    *)
(* panic path are abbreviated; so are the four bits page_fault prints.     *)
(***************************************************************************)
EXTENDS Integers, SequencesExt

CONSTANTS
  BufSize,     \* 1024, the size of buf
  Calls,       \* calls of kprintf the kernel makes: [fmt, args]
  Strings,     \* pointer |-> [text, ends]: the memory %s may read
  Message,     \* pointers to the constant strings of the panic path
  MaxCalls,    \* bound: calls of kprintf outside the panic path
  MaxFaults    \* bound: exceptions

(* The characters kprintf and the panic path know.                         *)
Ascii == [percent |-> 37, backslash |-> 92, a |-> 97, b |-> 98, c |-> 99, d |-> 100,
          n |-> 110, r |-> 114, s |-> 115, t |-> 116, x |-> 120,
          File |-> 70, Line |-> 76, PageFault |-> 80, PANIC |-> 33,
          ASSERTION |-> 65]
NUL == 0

(* A word of 32 bits, and a string without its NUL.                        *)
IsWord(w) == w \in Nat /\ w \div 2^16 < 2^16
IsString(s) == s \in Seq(1 .. 255)

(* Texts lie below the top of memory.  The lines of the panic path fit:    *)
(* the longest but Message takes 11.                                       *)
ASSUME KprintfAssumption ==
  /\ {BufSize, MaxCalls, MaxFaults} \subseteq Nat
  /\ \A p \in DOMAIN Strings :
       IsString(Strings[p].text) /\ IsWord(p + Len(Strings[p].text))
  /\ Message \in DOMAIN Strings /\ Strings[Message].ends /\ IsWord(Message)
  /\ BufSize > 11 /\ BufSize > Len(Strings[Message].text) + 1

VARIABLES
  at,       \* "idle", "scan", "puts" or "halted"
  call,     \* the call that runs
  i, arg,   \* kprintf: index into the format, arguments taken
  buf, ptr, \* static
  out,      \* puts: what it still has to print
  todo,     \* the calls the panic path makes after this one
  screen,   \* printed since the call, or the panic, began
  count     \* calls and exceptions so far, and the last exception's kind

vars == <<at, call, i, arg, buf, ptr, out, todo, screen, count>>

kprintf(fmt, args) == [op |-> "kprintf", fmt |-> fmt, args |-> args]
puts(p) == [op |-> "puts", fmt |-> <<>>, args |-> <<p>>]

Init ==
  /\ at = "idle" /\ call = kprintf(<<>>, <<>>)
  /\ i = 0 /\ arg = 0
  /\ buf = [k \in 0 .. BufSize - 1 |-> IF k = 0 THEN 255 ELSE NUL]
  /\ ptr = -1
  /\ out = <<>> /\ todo = <<>> /\ screen = <<>>
  /\ count = [calls |-> 0, faults |-> 0, kind |-> "none", address |-> 0]
-----------------------------------------------------------------------------
(* Mutated form: the digits come out lowest first.                         *)
ParseNumReversed(value) ==
  LET digits[v \in 0 .. value] ==
        <<48 + (v % 10)>> \o (IF v >= 10 THEN digits[v \div 10] ELSE <<>>)
  IN  digits[value]

(* parse_num(value, 10): the digits above, then the last one.              *)
parse_num(value) ==
  LET digits[v \in 0 .. value] ==
        (IF v >= 10 THEN digits[v \div 10] ELSE <<>>) \o <<48 + (v % 10)>>
  IN  digits[value]

HexDigit(n) == IF n < 10 THEN 48 + n ELSE 87 + n

(* parse_hex(value): always eight digits.                                  *)
parse_hex(value) == [k \in 1 .. 8 |-> HexDigit((value \div 16^(8 - k)) % 16)]

(* What an escape appends: nothing for a letter it does not know.          *)
Escape(c) ==
  CASE c = Ascii.a         -> <<7>>
    [] c = Ascii.b         -> <<8>>
    [] c = Ascii.t         -> <<9>>
    [] c = Ascii.n         -> <<10>>
    [] c = Ascii.r         -> <<13>>
    [] c = Ascii.backslash -> <<Ascii.backslash>>
    [] OTHER               -> <<>>

(* The memory at p, up to its NUL or to the page that is not mapped.       *)
Memory(p) == IF p \in DOMAIN Strings THEN Strings[p] ELSE [text |-> <<>>, ends |-> FALSE]

(* fmt[n], and buf[ptr++] = c for each c of text.                          *)
Fmt(n) == IF n < Len(call.fmt) THEN call.fmt[n + 1] ELSE NUL

Stored(text) ==
  [k \in DOMAIN buf |->
     IF k \in ptr .. ptr + Len(text) - 1 THEN text[k - ptr + 1] ELSE buf[k]]

Store(text) == buf' = Stored(text) /\ ptr' = ptr + Len(text)

(* The string in s, a function from 0.                                     *)
CString(s) ==
  LET end == CHOOSE k \in DOMAIN s : s[k] = NUL /\ \A l \in 0 .. k - 1 : s[l] # NUL
  IN  [k \in 1 .. end |-> s[k - 1]]
-----------------------------------------------------------------------------
(* Mutated form: ptr is where the last call left it.                       *)
EnterUnreset(c) ==
  /\ call' = c /\ i' = 0 /\ arg' = 0
  /\ IF c.op = "kprintf" THEN at' = "scan" /\ ptr' = IF ptr < 0 THEN 0 ELSE ptr
     ELSE at' = "puts" /\ UNCHANGED ptr
  /\ out' = IF c.op = "puts" THEN Memory(c.args[1]).text ELSE <<>>
  /\ UNCHANGED buf

(* The entry of kprintf, where ptr is reset, or of puts.                   *)
Enter(c) ==
  /\ call' = c /\ i' = 0 /\ arg' = 0
  /\ IF c.op = "kprintf" THEN at' = "scan" /\ ptr' = 0 ELSE at' = "puts" /\ UNCHANGED ptr
  /\ out' = IF c.op = "puts" THEN Memory(c.args[1]).text ELSE <<>>
  /\ UNCHANGED buf

(* A call of the kernel.                                                   *)
Kprintf(c) ==
  /\ at = "idle" /\ count.calls < MaxCalls
  /\ count' = [count EXCEPT !.calls = @ + 1]
  /\ screen' = <<>>
  /\ Enter(c)
  /\ UNCHANGED todo

(* halt_and_catch_fire and assert_failed differ in what they begin with.   *)
Halt(title) ==
  <<kprintf(<<title, Ascii.percent, Ascii.s>>, <<Message>>),
    kprintf(<<Ascii.File, Ascii.percent, Ascii.s>>, <<Message>>),
    kprintf(<<Ascii.Line, Ascii.percent, Ascii.d>>, <<230>>)>>

(* What fault_handler prints, page_fault being isrs_routines[14] and the   *)
(* others having no routine, and what ASSERT does.  One %d stands for the  *)
(* four of page_fault, which show bits of the error code.                  *)
Panic(kind, address) ==
  CASE kind = "page fault" ->
         <<kprintf(<<Ascii.PageFault, Ascii.percent, Ascii.d, Ascii.percent, Ascii.x,
                     Ascii.n>>, <<1, address>>)>> \o Halt(Ascii.PANIC)
    [] kind = "exception" ->
         <<kprintf(<<Ascii.percent, Ascii.s, Ascii.n>>, <<Message>>), puts(Message)>>
         \o Halt(Ascii.PANIC)
    [] kind = "assertion" -> Halt(Ascii.ASSERTION)

Fault(kind, address) ==
  LET calls == Panic(kind, address)
  IN  /\ count' = [count EXCEPT !.faults = @ + 1, !.kind = kind, !.address = address]
      /\ todo' = Tail(calls)
      /\ call' = Head(calls) /\ i' = 0 /\ arg' = 0
      /\ at' = "scan" /\ ptr' = 0 /\ out' = <<>> /\ screen' = <<>>

(* An exception that is not kprintf's doing, anywhere, or an ASSERT of the *)
(* kernel between two calls.                                               *)
Exception(kind) ==
  /\ at # "halted" /\ count.faults < MaxFaults
  /\ kind = "assertion" => at = "idle"
  /\ Fault(kind, 4096) /\ UNCHANGED buf
-----------------------------------------------------------------------------
(* The loop over the format.                                               *)
Scan == at = "scan" /\ UNCHANGED <<at, call, out, todo, screen, count>>

Literal ==
  /\ Scan /\ Fmt(i) \notin {NUL, Ascii.percent, Ascii.backslash}
  /\ Store(<<Fmt(i)>>)
  /\ i' = i + 1 /\ UNCHANGED arg

Escaped ==
  /\ Scan /\ Fmt(i) = Ascii.backslash
  /\ Store(Escape(Fmt(i + 1)))
  /\ i' = i + 2 /\ UNCHANGED arg

(* A directive without an argument: %% and those it does not know.         *)
Verbatim ==
  /\ Scan /\ Fmt(i) = Ascii.percent
  /\ Fmt(i + 1) \notin {Ascii.s, Ascii.c, Ascii.x, Ascii.d}
  /\ Store(<<Fmt(i + 1)>>)
  /\ i' = i + 2 /\ UNCHANGED arg

(* args_next() takes the next word.                                        *)
Word == call.args[arg + 1]

Convert(c, text) ==
  /\ Scan /\ Fmt(i) = Ascii.percent /\ Fmt(i + 1) = c
  /\ Store(text)
  /\ i' = i + 2 /\ arg' = arg + 1

(* The loop of %s, when the string ends, and when it does not.             *)
Text == Convert(Ascii.s, Memory(Word).text) /\ Memory(Word).ends

(* cr2 has the first address that is not mapped.                           *)
TextFaults ==
  /\ at = "scan" /\ Fmt(i) = Ascii.percent /\ Fmt(i + 1) = Ascii.s
  /\ ~Memory(Word).ends
  /\ buf' = Stored(Memory(Word).text)
  /\ Fault("page fault", Word + Len(Memory(Word).text))

Conversion ==
  \/ Text
  \/ Convert(Ascii.c, <<Word % 256>>)
  \/ Convert(Ascii.x, parse_hex(Word))
  \/ Convert(Ascii.d, parse_num(Word))

(* Mutated form: the text is not ended.                                    *)
TerminateNot ==
  /\ at = "scan" /\ Fmt(i) = NUL
  /\ UNCHANGED buf
  /\ at' = "puts" /\ out' = CString(buf')
  /\ UNCHANGED <<call, i, arg, ptr, todo, screen, count>>

(* buf[ptr] = '\0', and puts takes the length of buf.                      *)
Terminate ==
  /\ at = "scan" /\ Fmt(i) = NUL
  /\ buf' = [buf EXCEPT ![ptr] = NUL]
  /\ at' = "puts" /\ out' = CString(buf')
  /\ UNCHANGED <<call, i, arg, ptr, todo, screen, count>>
-----------------------------------------------------------------------------
Putch ==
  /\ at = "puts" /\ out # <<>>
  /\ screen' = Append(screen, Head(out)) /\ out' = Tail(out)
  /\ UNCHANGED <<at, call, i, arg, buf, ptr, todo, count>>

(* To the caller: the kernel, or the panic path, which ends in for (;;).   *)
Return ==
  /\ at = "puts" /\ out = <<>> /\ todo = <<>>
  /\ at' = IF count.faults = 0 THEN "idle" ELSE "halted"
  /\ UNCHANGED <<call, i, arg, buf, ptr, out, todo, screen, count>>

NextMessage ==
  /\ at = "puts" /\ out = <<>> /\ todo # <<>>
  /\ Enter(Head(todo)) /\ todo' = Tail(todo)
  /\ UNCHANGED <<screen, count>>

(* The caller goes on with other work, or the machine has halted.          *)
Rest == (at = "halted" \/ (at = "idle" /\ count.calls = MaxCalls)) /\ UNCHANGED vars

Next ==
  \/ \E c \in Calls : Kprintf(c)
  \/ \E kind \in {"page fault", "exception", "assertion"} : Exception(kind)
  \/ Literal \/ Escaped \/ Verbatim \/ Conversion \/ TextFaults \/ Terminate
  \/ Putch \/ Return \/ NextMessage \/ Rest

Spec == Init /\ [][Next]_vars
-----------------------------------------------------------------------------
(* What a format means, by its positions and not by a cursor.              *)

(* The positions at which something begins.                                *)
Begins(fmt) ==
  LET begins[p \in 1 .. Len(fmt)] ==
        \/ p = 1
        \/ begins[p - 1] /\ fmt[p - 1] \notin {Ascii.percent, Ascii.backslash}
        \/ p > 1 /\ ~begins[p - 1]
  IN  {p \in 1 .. Len(fmt) : begins[p]}

Converts(fmt, p) ==
  fmt[p] = Ascii.percent /\ fmt[p + 1] \in {Ascii.s, Ascii.c, Ascii.x, Ascii.d}

(* The word of the conversion at p.                                        *)
Argument(c, p) ==
  c.args[Cardinality({q \in Begins(c.fmt) : q <= p /\ Converts(c.fmt, q)})]

(* A number in base 10, without leading zeros.                             *)
Decimal(n) ==
  LET width == CHOOSE w \in 1 .. 10 : n < 10^w /\ (w = 1 \/ n >= 10^(w - 1))
  IN  [k \in 1 .. width |-> 48 + ((n \div 10^(width - k)) % 10)]

Means(c, p) ==
  CASE Converts(c.fmt, p) ->
         (LET word == Argument(c, p)
          IN  CASE c.fmt[p + 1] = Ascii.s -> Memory(word).text
                [] c.fmt[p + 1] = Ascii.c -> <<word % 256>>
                [] c.fmt[p + 1] = Ascii.x -> parse_hex(word)
                [] c.fmt[p + 1] = Ascii.d -> Decimal(word))
    [] c.fmt[p] = Ascii.percent /\ ~Converts(c.fmt, p) -> <<c.fmt[p + 1]>>
    [] c.fmt[p] = Ascii.backslash -> Escape(c.fmt[p + 1])
    [] OTHER -> <<c.fmt[p]>>

Expansion(c) ==
  FlattenSeq([p \in 1 .. Len(c.fmt) |-> IF p \in Begins(c.fmt) THEN Means(c, p) ELSE <<>>])

(* What the call prints: puts stops at a NUL that %c put there.            *)
Expected(c) ==
  IF c.op = "puts" THEN Memory(c.args[1]).text
  ELSE LET end == SelectInSeq(Expansion(c), LAMBDA ch : ch = NUL)
       IN  IF end = 0 THEN Expansion(c) ELSE SubSeq(Expansion(c), 1, end - 1)

(* What callers see to: a directive has its letter and a conversion its    *)
(* word, and the text fits the buffer.                                     *)
WellFormed(c) ==
  /\ c.op = "kprintf" /\ IsString(c.fmt)
  /\ c.args \in Seq(Nat) /\ \A k \in DOMAIN c.args : IsWord(c.args[k])
  /\ Len(c.fmt) \in Begins(c.fmt) => c.fmt[Len(c.fmt)] \notin {Ascii.percent, Ascii.backslash}
  /\ Cardinality({p \in Begins(c.fmt) : Converts(c.fmt, p)}) <= Len(c.args)
  /\ Len(Expansion(c)) < BufSize

ASSUME CallsAssumption == \A c \in Calls : WellFormed(c)

TypeOK ==
  /\ at \in {"idle", "scan", "puts", "halted"}
  /\ ptr \in -1 .. BufSize - 1
  /\ at = "scan" => ptr >= 0 /\ i \in 0 .. Len(call.fmt) /\ arg \in 0 .. Len(call.args)
  /\ buf \in [0 .. BufSize - 1 -> 0 .. 255]

(* kprintf prints what its format and its arguments mean, to the last      *)
(* character of the buffer and whatever the calls before it left there.    *)
PrintsFormat ==
  at \in {"puts", "idle"} /\ count.calls > 0 /\ count.faults = 0 =>
    screen \o out = Expected(call)

(* fault_handler, page_fault, halt_and_catch_fire: the report of a panic   *)
(* is complete, in the buffer of the call it interrupted and whichever     *)
(* part of it, or of another panic, was done.                              *)
PanicReported ==
  at = "halted" =>
    LET calls == Panic(count.kind, count.address)
    IN  screen = FlattenSeq([k \in DOMAIN calls |-> Expected(calls[k])])
=============================================================================
