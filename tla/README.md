# PRos: specifications, model checking and proofs

PRos is a 32-bit x86 kernel in C: it boots from GRUB, installs descriptor
tables and interrupt handlers, turns on paging, and offers a heap (`sbrk` and a
slab allocator), a text console, a keyboard and a timer. This directory holds
TLA+ modules for it, the TLC runs that check them and the TLAPS proofs about
them. `PROJECT.json` is the index: components, runs, mutants, which definition
stands for which lines, findings, hazards and theorems.

All paths below are relative to `src/`.

## 1. The system

| Part | State it keeps | Operations | Used by |
|---|---|---|---|
| Slab allocator, `core/alloc.c` | a page list per small class, a stack of free cells per page, a skip list of free big blocks, a physical list of big blocks | `malloc`, `free`, `realloc`, `calloc` | nothing in `main()` yet; the kernel's library |
| Skip list, `core/alloc.c` | `forward[0..6]` of each big block and of the head, `level` | findbest, insert, delete | the slab allocator |
| Memory manager, `core/mem.c` | `placement_pointer`, frame bitmap, page directory and tables, `heap_end` | `kmalloc` family, `paging_install`, `heap_install`, `get_page`, `alloc_frame`, `sbrk`, `page_fault` | `main()`, the slab allocator |
| Multiboot header, `core/multiboot.c` | a copy of the boot loader's header | `copy_multiboot`, `dump_multiboot` | `main()` |
| Interrupt dispatch, `core/irq.c`, `core/isrs.c`, `core/IDT.c`, `start.asm` | IDT, two handler tables, the 8259 pair, IF | install, uninstall, dispatch, end of interrupt | timer, keyboard, paging |
| Console, `core/vga.c` | `csr_x`, `csr_y`, `attrib`, the screen, the CRT index register | `putch`, `puts`, `cls`, `scroll`, `settextcolor` | `kprintf`, keyboard handler |
| Keyboard, `core/kbd.c` | shift, alt, ctrl; the 8042's output buffer | `keyboard_handler` | interrupt 1 |
| Timer, `core/timer.c` | `timer_ticks`, `ticker` | `timer_handler`, `timer_wait` | interrupt 0 |
| `kprintf`, `core/kprintf.c` | static `buf` and `ptr` | `kprintf` | everything |
| Panic, `core/panic.c` | none | `halt_and_catch_fire`, `assert_failed` | everything |
| VFS and initrd, `core/vfs.c`, `core/fs/ext2_initrd.c` | nodes with flags and callbacks | make a node from an inode, read, write, open, close, readdir, finddir | nothing yet |

What interacts: `klmalloc` calls `sbrk`, which calls `get_page` (and through it
the placement allocator) and `alloc_frame`, which may halt. `main()` runs the
boot sequence with interrupts on from `irq_install()` onwards; interrupt
handlers run with interrupts off (`cli` in the stub), so the only concurrency is
a handler inside mainline code. No handler allocates memory, so the allocator
and the memory manager see no interleaving.

What is hard here:

- the allocator: long call sequences, the two meanings of one `size` field,
  pointers in memory nobody cleared, sizes at class and page boundaries, running
  out of frames in the middle of a call;
- the memory manager: structures placed on top of one another, a loop whose
  bound moves, a table whose address is `NULL`, wild pointers read from shared
  words;
- console, keyboard and interrupts: `putch` interrupted by `putch`, interrupts
  enabled before handlers exist, toggled modifiers, requests that arrive while a
  handler runs, spurious interrupts;
- `kprintf`: one static buffer for all callers, entered again by a panic in the
  middle of a call.

What makes each part correct:

- allocator: blocks do not overlap, one another or the headers; every cell is
  free or held, never both, never neither; a list holds what it should, so no
  memory leaks; the heap grows only when nothing free fits;
- skip list: it is a best-fit free list; walks follow only written pointers;
- memory manager: the kernel stays mapped to itself, each heap page has a frame
  of its own, no frame is lost, the image is never written, the boot ends;
- console: cursor on the screen, no character or row lost; keyboard: modifiers
  follow the keys; interrupts: every accepted interrupt is acknowledged and every
  device is served;
- `kprintf`: what is printed is what format and arguments mean, whatever the buffer
  held; a panic is reported whole.

## 2. Modules

| Module | Role |
|---|---|
| `BestFit` | the best-fit policy and two helpers on functions |
| `FreeList` | contract: what the allocator needs of its list of free big blocks |
| `SkipList`, `MCSkipList` | the skip list on forward pointers, implementing `FreeList` |
| `SkipListProofs` | the theorems about `SkipList` |
| `SizeClass`, `MCSizeClass` | the arithmetic of size classes and page layout, with the constants of the build |
| `SizeClassLemmas`, `SizeClassProofs` | facts about the classes that other proofs cite, and the theorems about `MCSizeClass` |
| `Malloc` | contract: what `malloc`, `realloc`, `calloc`, `free` promise |
| `KlMalloc`, `MCKlMalloc` | the slab allocator, implementing `Malloc` |
| `KlMallocProofs` | the theorems about `KlMalloc` |
| `Mem`, `MCMem` | boot-time memory, paging and `sbrk` on shared words |
| `MemProofs` | the theorems about `Mem` |
| `Console`, `MCConsole` | `putch` in mainline code and in the keyboard handler, step by step |
| `ConsoleProofs` | the theorems about `Console`: with interruptions, and without |
| `Pic` | external: the pair of 8259 controllers, as operators |
| `Keyboard` | what a scan code does to the modifiers and what it prints, as operators |
| `Service` | contract: what the kernel promises devices that interrupt |
| `Interrupts`, `MCInterrupts` | boot sequence, handlers, timer, 8042 and user, on `Pic` and `Keyboard`, implementing `Service` |
| `InterruptsProofs` | the theorems about `Interrupts` |
| `Kprintf`, `MCKprintf` | the loop of `kprintf`, its buffer, and the panic path through it |
| `KprintfProofs` | the theorems about `Kprintf` |
| `Vfs`, `MCVfs` | nodes made from inodes and the calls through them |

### KlMalloc

`heap` is the allocator's own state: `brk` (`heap_end`), `size` and `head` of the
header at each address, `bins` (`klmalloc_bin_head`), `skip` (what is in the skip
list) and `bigs` (the physical list). A list is a sequence. `live` is what
callers hold; `held` counts hand-outs less returns, so that handing out a block
twice is a visible step. Addresses are real byte addresses, and `HeaderOf` is the
mask of the code.

One call is one action: `MallocCall`, `FreeCall` (also `realloc(p, 0)`),
`ReallocInPlace`, `ReallocMove`, `ReallocSpill`, `OutOfFrames`. `calloc` is
`malloc` and a `memset` of the bytes asked for. `klmalloc(0)`, `klfree(NULL)` and
`realloc(NULL, n)` add no transition. Callers keep the C contract. Splitting and
coalescing are compiled out (`#if 0`) and not modelled.

`ReallocSpill` is the call whose copy overruns its new block (finding 1). After
it nothing more can be said of the heap, so the model stops; properties hold up
to and at that point.

### SkipList

`forward[n][k]` for each block and the head; `JUNK` is memory nobody wrote. The
three functions share one inner loop, `LastBelow`, whose condition is `Ahead`. A walk that came
to `JUNK` would read a size from a wild pointer; the model stops it there, and `NoJunkFollowed`
says that none ever does. The random level is any level.
`Take` is findbest followed by delete, as in `klmalloc`. In `KlMalloc` the list is
the set `skip` with the operator `BestFits`: `ImplementsFreeList` is what
justifies that.

### Mem

Memory is one function from word addresses to numbers, because in this program
structures overlap: `kvmalloc` rounds down. The actions follow `main()`:
`CopyMultiboot`, `PagingInstall`, `MapPage` (one turn of the loop),
`SwitchPageDirectory`, `HeapInstall`; then `Sbrk`, `SbrkPage` (one turn),
`SbrkReturn`. `Translate` is the processor's walk of `physical_tables`. The
machine is scaled so that TLC can hold it: pages of 8 words and 64 pages in all
against 1024 words and 2^20 pages. The ratios that decide what happens are kept:
an entry is a word, a table is a page, an address is a word, the header takes
part of a page, and the heap meets the first shared table before the bitmap
reaches the words it shares with `physical_tables`. On the real machine the bitmap
grows past the directory above 253 MB; the scaled one has no such memory size.
Flags the processor sets (accessed, dirty) are left out.

Whether the structures share words harmlessly depends on where placement starts and on how
much memory there is. `FitsIn(start, mem_upper)` says when: the bitmap and the directory are
placed on one page; the bitmap words in use lie on `tables`, never on `physical_tables`; the tables
made from address 0 up end below the image; and the boot ends before it reaches the slots under the
bitmap. On the real machine `end` is at the start of a page (`link.ld`), and with its header of 24 words
it fits up to some 500 MB. Every choice of `MCMem` fits, which TLC checks (`EveryChoiceFits`).

### Console

`vga` is what mainline code and the keyboard handler share: `csr_x`, `csr_y`, video
memory, the index register of the CRT and its two cursor registers. `frame` holds the
activation of `putch` in each context: where it is and the values it has loaded. A step
reads or writes one shared variable or one port, which is how the build (`-O0`)
compiles the code: `csr_x++` loads (`LoadX`) and later stores (`SetX`), and `move_csr`
reads both coordinates before its four port writes. `Copy` moves one cell. `Key` may
come between any two steps of mainline code; the handler then runs to its end, because
the stub keeps interrupts off. So a handler sees every half-done state of mainline,
and mainline goes on with values the handler made stale.

`log`, `torn` and `raced` are history: the characters in the order of the calls, whether
mainline's last `putch` was interrupted with none since, and whether any was. `Terminal`
is the reference: what a terminal does with `log`, written from the meaning of the
control characters, with none of the steps.

Left out: colours; `cls` and carriage return, which nothing uses. Backspace and tab come
from keys only, `kprintf` prints none. The screen starts blank, as the boot loader leaves
it. Which key prints what is an input (`KeyTexts`); the modifiers are those of
`Keyboard`, checked in `Interrupts`.

### Interrupts, Pic, Keyboard, Service

`main` walks `Boot`, the calls of `main()` that matter to interrupts, each port write of
`irq_remap` a step. `cpu` is IF, where the processor is (`at`: `main`, or a part of
a handler), the vector taken and the line acknowledged. `pic` is the pair of
controllers, `idt` the vectors that have a gate, `irq_routines` the code's table, `clock` the ticks and the
argument of `timer_wait`, `kbd` the keyboard's queue and the 8042's one byte.

`Take` is the processor accepting an interrupt; then `IrqHandler`, the routine
(`TimerHandler`, or `Inport` and `KeyMethod`), `EoiSlave`, `EoiMaster`, `Iret`. Devices, the
user, exceptions and spurious interrupts act between any two steps, so a request may arrive
while its own line is in service, or between the two ends of interrupt. An exception ends in
`halt_and_catch_fire` and is not refined here: `Kprintf` says what it prints.

`Keyboard` has one key per entry of `key_method`: `text`, each modifier, `mute`. A code in
the queue carries, as history, the keys held before it and whether anything irregular came before
it: a modifier that repeated, or both shift keys at once. `EchoesKeys` compares what a
key prints when it is handled with what the keys held when it was hit make of it.

`Service` has three variables: phase, lines pending, line served. Its steps are
request, serve the highest, finish, halt. Its fairness is weak, of `Serve` for each line: the
processor never rests while requests are left, and a line that stays the highest is served. A
line that is overtaken again and again is promised nothing, because priorities are fixed: the
contract is not that every request is served. `ImplementsService` refines it, liveness
included; for the keyboard, `KeysHandled` says more.

`Pic` is hardware, modelled from how `core/irq.c` programs it: initialisation words in
order, the non-specific end of interrupt, fixed priority, edges. A slave the two ICW3
do not agree on gives no vector.

### Kprintf

`buf` and `ptr` are the statics. A step is one turn of the loop over the format (`Literal`,
`Escaped`, `Verbatim`, `Conversion`), the closing NUL (`Terminate`), or one `putch`. A `%s` whose
memory is not mapped copies what it can and page-faults (`TextFaults`); `Exception` may come
between any two steps, in the panic path as well, and an `ASSERT` between two calls. What
the panic path prints is a list of calls (`Panic`), abbreviated in wording, with
their conversions, the four `%d` of `page_fault` as one. `Expansion` is the reference: positions at which something begins,
the argument of each, closed formulas for digits; no cursor and no buffer. `WellFormed` is
what callers see to, as the code does not look: a directive has its letter, a conversion its
word, and the text fits the buffer. TLC evaluates it (`CallsAssumption`) for the calls of the run.

### Vfs

`node` is an `fs_node_t`: flags, mask, callbacks. `initrd_node_from_file` makes one from a mode,
`initrd_node_from_file_NULL` is the early return without a node,
`Forward` and `Lookup` are the calls through it, `reached` is the callback they got to. The
callbacks of the initrd are stubs that return 0 or NULL.

## 3. Runs

| Run | Question | Bounds |
|---|---|---|
| `skip_list` | Is the skip list a best-fit free list, following only written pointers? | four blocks of three sizes, three levels: ties, empty levels, any order of frees; about 2000 states |
| `size_class` | Is the class arithmetic right? | each request to 9000 (two page boundaries past the last class), then 2^k - 1, 2^k, 2^k + 1 to 2^29 |
| `slab` | Do small and big blocks share a heap soundly, are they reused and resized soundly? | three pages; classes of 1 KB (three cells) and 2 KB (one cell), big blocks of one and two pages; 100,179 states |
| `mem` | Does the kernel come up and keep its mapping as the heap grows to the end? | seven memory sizes from too small to one that meets the shared tables, two ends of the image, `sbrk` of one to three pages; 897 states |
| `console` | What can the keyboard handler do to a `putch` it interrupts? | 3 rows of 4 columns, tab stops every 2, cursor registers of base 4, from row 1: three mainline characters (letter or newline) and two keys (letter, newline, backspace, tab, or two characters with ctrl); 1,680,112 states |
| `interrupts` | Are requests served by priority and once, do keys print what they mean, does `timer_wait` return? | two ticks, one wait, three scan codes of a text key and a shift key, line 8 as the slave's device, one spurious interrupt of either chip; 251,376 states |
| `kprintf` | Does `kprintf` print what it is told, and a panic its report? | two calls of up to two pieces (16 pieces: each directive, escapes, strings that end, are empty, fault at once or after a character), two exceptions, a buffer that the longest text fills to the last character; 212,346 states |
| `cursor` | finding 5 | |
| `realloc_shrink` | finding 1 | |
| `initrd_flags` | finding 2 | |
| `header` | finding 3 | |
| `tables` | finding 4 | |

Why the bounds suffice: the allocator treats pages alike and classes alike, so
three pages give a full page, a page coming back to its list and a page that has
to be asked for, in each order; a class with one cell makes a page full at its
first `malloc`. What `skip_list`, `size_class` and `slab` check, the invariants of `console`, `interrupts`,
`kprintf` and, on machines that fit, `mem`, and the safety part of `Service` do not rest on the bounds: they are proved for
every value of the constants (section 5). In `slab` the heap is exhausted in most behaviours, so
`OutOfFrames` is taken from many states. In `mem`, the two starts make the loop of
`paging_install` need one or two tables; sizes 40 to 48 run out of frames during
boot or at once after it, the middle ones inside the heap, 240 reaches a page
fault on a shared table. In `console` two newlines reach the last row, so that scrolling
happens in mainline, in the handler and in the handler inside mainline's scroll
(`temp` then is 0 or 2); a row holds two tab stops, so that a tab wraps and does not
wrap; and a position needs both cursor registers. Two keys suffice for one putch to be
interrupted twice, or two putches once each. In `interrupts` three codes are the fewest
for press, release and a text key after it, and for a queue behind a full 8042 while
another code is handled; with two ticks `ticker` advances (a second has two here)
and a wait starts before or after the first. Ctrl behaves as shift does except
for what is printed, so one modifier is enough. In `kprintf` the second
call meets every text the first may leave in the buffer, longer or shorter.

Every property has a mutant: a definition changed the way a plausible bug would
change the code, which makes TLC find the property violated.

Fairness. `KlMalloc`, `SkipList`, `Console`, `Kprintf`, `Vfs`, `Malloc` and `FreeList` assume none: nobody has
to call the allocator, print or press a key. `Mem` assumes weak fairness of `Kernel`, the steps the processor
takes by itself; that `sbrk` is called is not assumed. `Boots`: with enough memory the loop whose bound moves ends and the kernel
reaches the end of `main()`. `Interrupts` assumes that the processor goes on (`Processor`),
that the timer ticks while it may (`Interrupt(TIMER)`), and that the 8042 passes on what it has
(`Deliver`): each is hardware, or a processor nothing blocks. Nothing is assumed of the
user, of noise, of exceptions or of callers of `timer_wait`. The timer and the
slave's device raise their line at most once between two steps of mainline code (`clock.ripe`):
at 100 Hz a handler ends long before the next tick, and without that a device could starve
mainline for ever. `KeysHandled`, `WaitReturns` and the fairness of `Service` rest
on these.

## 4. Findings

1. `core/alloc.c:830`, run `realloc_shrink`. `klrealloc` copies all bytes of the old
   block into the new one, even when the new one is smaller: `realloc` of a 2 KB
   cell to 1000 bytes writes 2048 bytes into a 1 KB cell. The comment above says
   only as much as was in the old block is copied; it should be the smaller of the
   two.
2. `core/fs/ext2_initrd.c:100`, run `initrd_flags`. Under "File Flags" the flags of a node
   are cleared and then combined with `&=`, so they are 0 whatever the inode is.
   `readdir_fs` and `finddir_fs` want `FS_DIRECTORY` and never reach the initrd. (With `|=` it
   would still be wrong: the types of ext2 share bits, and a block device has those of a directory.)
3. `core/mem.c:171`, run `header`. `kernel_directory` is rounded down onto the page
   where `copy_multiboot` put the header and is then cleared, so `dump_multiboot`
   prints zeros and table addresses.
4. `core/mem.c:93`, run `tables`. The bitmap lies inside `kernel_directory->tables`.
   `get_page` takes its words for pointers to tables; with the 24-word header the heap
   page-faults on reaching 96 MB.

5. `core/vga.c:38`, run `cursor`. "Update the hardware cursor" (`vga.c:27`) fails when a key
   comes between the computation of the position and the last port write: mainline then
   writes its stale position over the handler's. `console` shows the rest of the story:
   the next undisturbed `putch` repairs it (`CursorRecovers`), `csr_x` and `csr_y` are
   back on the screen (`CursorOnScreen`), and nothing is written outside video memory
   (`WritesInVideoMemory`). A character may be overwritten or a row lost; that is why
   `ShowsTerminal` is stated for output that was never interrupted in a `putch`.

Also seen, and not counted as findings: `core/mem.c:233-239` says not to use
`kalloc` after `heap_install()`, while `sbrk` itself does through `get_page`, from address
0 up (`ImageIntact`, `HeapBacked` show that this works while low memory lasts);
`first_frame` never finds the last `nframes % 32` frames; `free_frame` passes a frame
number where an address is expected, and has no caller. The early return of `klrealloc`
(`core/alloc.c:802`) is said to happen for big blocks only; a small block has its class (0
to 9) in `size`, so a resize to at most that many bytes takes it too, harmlessly
(`Roomy`; the requests of run `slab` take it for big blocks only, the theorem `RoomForRequests`
covers small ones). A new big block of `n` bytes takes one page more than it needs when `n + 44` is a
multiple of 4096 (`core/alloc.c:626`, `BigBlockHolds`). The 8042 interrupts no more when its byte is
never read: a key hit before ICW1 of `irq_remap`, which forgets its request, or between `sti` and
`keyboardInstall()`, which is acknowledged with no routine to read it. `WedgedOnlyEarly` says
that no later key can be lost like that.
A modifier that repeats while it is held flips with every repeat (`core/kbd.c:106`).
`finddir_fs` tests `readdir` and calls `finddir`. `kprintf` has no bound on what `%s` copies, and
reads past a format that ends in a lone percent sign or backslash.

## 5. Proofs

Each theorem but `ParseNumIs`, which is about an operator, is of the form `Spec => ...`; all hold for
every value of the constants that meets the module's own assumptions, which TLC evaluates
on every run. In each component with state (`SizeClassProofs` is arithmetic) one inductive invariant `IInv` is proved (`Invariance`): it holds at first and every action keeps it;
the other theorems follow from it. Proofs go action by action, and under each action
conjunct by conjunct.

| Module | Theorem | Property of the run |
|---|---|---|
| `KlMallocProofs` | `TypeCorrect`, `TilingHolds`, `Conservation`, `ExactLists` | `TypeOK`, `HeapTiled`, `CellsConserved`, `ListsExact` |
| | `RoomForRequests`, `Disjointness`, `HeadersUntouched` | `Roomy`, `BlocksDisjoint`, `HeadersSafe` |
| | `GrowthIsNeeded` | `GrowOnlyWhenFull`, an action property |
| | `Refinement` | `ImplementsMalloc` |
| `SizeClassProofs` | `ClassTightest`, `BigBlocksHold`, `CellsFillPages` | `ClassIsTightest`, `BigBlockHolds`, `CellsFillPage` |
| `SkipListProofs` | `TypeCorrect`, `NoWildWalk`, `SortedLevels`, `ExactLevel` | `TypeOK`, `NoJunkFollowed`, `LevelsSorted`, `LevelExact` |
| | `Refinement` | `ImplementsFreeList` |
| `InterruptsProofs` | `TypeCorrect`, `EveryLineHasItsVector`, `EndsOfInterruptSuffice` | `TypeOK`, `VectorsRight`, `NothingInService` |
| | `EveryReadIsFresh`, `KeysPrintWhatWasMeant` | `NoStaleRead`, `EchoesKeys` |
| | `NoWedgeOnceInstalled` | `WedgedOnlyEarly`, an action property |
| | `ServesAsPromised` | the safety part of `ImplementsService` |
| `ConsoleProofs` | `TypeCorrect`, `CursorStaysOnScreen`, `WritesStayInside`, `HardwareCursorRecovers` | `TypeOK`, `CursorOnScreen`, `WritesInVideoMemory`, `CursorRecovers` |
| | `PutchIsATerminal` | `ShowsTerminal` |
| `KprintfProofs` | `TypeCorrect`, `AlwaysPrintsFormat`, `AlwaysPanicReported` | `TypeOK`, `PrintsFormat`, `PanicReported` |
| | `ParseNumIs` | none: a fact about an operator, for every word |
| `MemProofs` | `TypeCorrect`, `KernelStaysMapped`, `SbrkIsBacked` | `TypeOK`, `IdentityMapped`, `HeapBacked`, on machines that fit |
| | `BitmapIsExact`, `ImageSurvivesSbrk` | `FramesExact`, `ImageIntact`, on machines that fit |
| | `HaltsForAReason` | none: `HaltsOnlyWhenFull` is stated in `Mem`, on machines that fit |

### The slab allocator

For every set of requests below 1 GB, every page-aligned heap base and every heap limit, with
the real constants of the build (`KlMallocAssumption`).

None of `BlocksDisjoint`, `HeadersSafe` or the refinement is inductive:
that a new block is disjoint from the old ones follows from where cells are.
`IInv` therefore joins the shape of the heap, the tiling of its pages, the soundness of the
stacks, conservation of cells, and the exactness of the three lists. The lemmas
follow the code: size classes (a cell holds the request, the cells of a class lie
inside the page, cells of one or of two headers are disjoint, masking an address of
a cell finds its header), then each allocator operation (`NewBin`, `PopCell`,
`ReuseBig`, `NewBig`, `FreeBlock`) preserves each conjunct, then each action.
Disjointness and headers are then consequences of `IInv`, and refinement is one
lemma per action. `GrowthIsNeeded` is about steps: a call that moves `heap_end` found the list
of its class empty, or no free block at least as large, and by the exactness of the
lists there then is none in the heap.

`SizeClassProofs` is what `MCSizeClass` samples, for every request. The solver knows a power
of two only for a given exponent, so `ClassOf` goes through the ten classes once, and the
other lemmas cite it.

### The skip list

For any set of blocks, any sizes and any number of levels (`SkipListAssumption`).

The walks of the code are recursive functions of a graph of pointers, and the properties speak of
what is reached. The invariant describes the graph instead: there is a rank of the blocks, in
the order of their sizes, such that on every level the pointer of a node leads to the next block in rank
that has that level, and a block has the levels whose pointers insertion wrote. From it
`TurnUnique`: where a search for a size leaves a level depends neither on where it
entered the level nor on ties, so that insertion and deletion change the same place on every level
and both leave a ranked list. That the recursive walk is defined at all, and returns the node at which a
search turns, is shown downwards from the node of greatest rank. `NIL` and `JUNK` differ by
assumption: an uninitialised pointer is told apart from one that was written.

### Interrupts and keyboard

For every divisor, set of keys, line of the slave, arguments of `timer_wait` and bounds
(`InterruptsAssumption`).

Vectors are right because the controllers got their four words in order before `sti` (`MasterWords`,
`SlaveWords`). The ends of interrupt suffice because of what the accepted line put in service
(`Serviced`): a line of the slave puts two, and `irq_handler` ends both. A read is fresh because
each raise of line 1 stands for one byte in the 8042 (`Buffered`). A key prints what was
meant because the codes on their way, from the user's hand over queue and 8042 to `keyboard_handler`,
form a chain that begins with `keyboard_state` and ends with the keys held (`Handed`, `Followed`):
each regular code finds the modifiers which the ones before it leave. `ServesAsPromised` maps each
step of the kernel to a step of `Service` or a stutter; the fairness of `Service` is checked by TLC.

### The console

For every size of screen, every text and every number of keys (`ConsoleAssumption`: at least
two rows, tab stops divide a row, two registers hold a position).

A `putch` of mainline code may go on with what it read long before, as the handler may come between any two
of its steps. The invariant says for each place what mainline's variables hold (`MainFrame`) and what the
cursor may be when it goes on (`MainScreen`); a handler is never interrupted, so its variables agree with
the cursor (`IrqScreen`). It may find the cursor a column past its row or a row past the screen, and leaves
it on the screen. `Recovering` adds what an undisturbed `putch` knows of the index register and the two
cursor registers.

`ShowsTerminal` is about the result of whole calls, while `log` has the character from the first step on.
A second invariant (`TInv`) therefore says at each step what is still to come: the terminal
of `log` is what the rest of `putch` makes of `csr_x`, `csr_y` and video memory (`Shown`), and within the copy
of `scroll` the cells already moved and those still to move (`Copying`).

### kprintf

For every format, word, memory and buffer of more than 11 characters, which the report of a page fault takes,
and for any set of calls that are `WellFormed` (`KprintfAssumption`, `CallsAssumption`).

The reference says what a format means by its positions: where something begins depends on all the
characters before, which conversion takes which word on a count. The loop has a cursor, an argument
pointer and a buffer that earlier calls, or half a call that a panic ended, left full. `IInv` ties them: the
cursor is where something begins (`Reached`), as many words are taken as conversions begin before it
(`Taken`), and the buffer up to `ptr` is the text of the positions so far (`Upto`, `Scanning`); what is on the
screen and what `puts` still has are together the text (`Printing`). `NextPiece` says that
a turn of the loop, of one or two characters, takes one piece and no more. In a panic the invariant counts which
call of the report runs; what was printed before it is the text of the calls before (`Reporting`),
so an exception in the middle of a report starts the next from nothing. The calls of the
panic path themselves are proved `WellFormed` for every address (`PanicCalls`).

`parse_num` is recursive on quotients, the reference a formula with powers of ten: `ParseNumIs` is a
least-counterexample argument, on the two facts that a number of one digit is its digit (`OneDigit`) and a
longer one the digits of its tenth and the last (`MoreDigits`).

### Memory

For every number of entries, size of word and of header, start of the image, and any starts, memory sizes and
increments (`MemAssumption`), so for the real machine as for the scaled one. `Spec => []IInv` holds for every
choice of the boot loader; the theorems read from it are `Fits => ...`, as on a machine that does not fit
the properties need not hold (finding 4 is what remains of it on one that does).

None of the properties is inductive, as any of the structures can overwrite any other. `IInv` is
the exact picture (`Shape`): frames are found in order and pages are mapped in order, so page `p` always has frame `p`.
Of the directory's page `D`, the number `J` of slots of `tables` below the bitmap, the number `B` of tables the boot
makes, of the tables `made` and the pages `n` mapped so far, `Layout` says every word: the slots, the physical slots,
the entries of each table, the words of the bitmap under `tables`, the image. `Chosen` says what `D` and `J` are,
`Booting` and `Running` how many tables there are at that page, and `Stopped` why a kernel that stopped did.

A word is spoken of by its page and its place (`At`), so that two words are told apart by two numbers. Then one lemma
for each thing the code does to memory: `Walk` for the processor's walk, `Mapping` for the pages the layout maps,
`TableAdded` for `get_page` with a new table, `TableWasted` for the table at address 0 that is stored as NULL and
made again, `FrameTaken` for `alloc_frame`, `WildPage` for the slot under the bitmap: its word, all frames of which are
taken, is followed as a pointer and faults; and one for each action. A bitmap word is a number whose bits are the
frames taken: `Fill` and `FillStep` add one bit to it, `Ones` and `NoBits` read it. `Pow2` is a recursive
function; `Doubling` shows that it is one.

`FramesExact` speaks of every frame that is not `Shadowed`, and on a machine that fits none that is used is.
`HaltsForAReason` says what the picture implies for its end: running out of frames means that all of the `Usable` ones are
mapped, and the fault of finding 4 comes at page `Reach`, not before.

### What the proofs rest on, and what stays with TLC

The only assumptions are the named ones of the modules. The library's induction theorems take an operator as a
parameter, which the provers cannot instantiate; where an induction is needed it is first-order: a set of
numbers has a least element (`LeastElement`, from well-foundedness), a set of ranks a greatest one.

Only model-checked:

- `HeaderKept` and `TablesArePointers`, which the code breaks (findings 3 and 4). Nothing is claimed of memory on machines
  that do not fit.
- `Boots`, `KeysHandled`, `WaitReturns` and the fairness in `ImplementsService`: liveness, out of this
  prover's reach.
- `Vfs`, which has one finding and uses the bit operations of a module the prover cannot read.

## 6. Not modelled

- GDT set-up packs three constants once. Colours, `cls`, the two `uninstall` functions,
  `keyboard_wait`, `clear_frame`, `free_frame`, `kopen`: data, or without a caller.
- The contents of `kbd_us` and `kbd_us_l2`, of `exception_messages` and of the texts
  that `dump_multiboot` and the panic path print.
- Between exceptions and the screen: `Kprintf` lets `putch` do what it should; `Console` is
  where it is interrupted. An exception before `init_video()` would print to address 0.
- Inside an exception the state of the controllers no longer matters, as the kernel halts;
  a non-maskable interrupt is one exception among others.
- Overflow of `timer_ticks` (248 days) and strings longer than the buffer of `kprintf`:
  what they overwrite depends on the link.
- Names, owners and lengths of files; the ext2 superblock and group descriptors, which the
  headers declare and no code reads.

## 7. Plan

Done: the allocator, the skip list, size classes, console, interrupts, keyboard, `kprintf` and memory with their
proofs; nodes model-checked. Next:

1. What `Mem` does on machines that do not fit, above all modules that do not end at a page and more
   than 500 MB: which of the properties is the first to fail, and where.
2. `Interrupts` with ctrl and both shift keys, once the liveness checks allow its size.
