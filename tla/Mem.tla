-------------------------------- MODULE Mem --------------------------------
(***************************************************************************)
(* core/mem.c: the placement allocator, the frame bitmap, paging and sbrk, *)
(* in the order main() runs them, on the words of physical memory.         *)
(*                                                                         *)
(* Memory is one function from word addresses to numbers, so that two      *)
(* structures the placement allocator puts in the same place do share      *)
(* their words, as they do in the program: kvmalloc rounds its address     *)
(* DOWN, and kernel_directory lands on the copied multiboot header and on  *)
(* the bitmap.  The machine is scaled: the real one has ENTRIES = 1024,    *)
(* WORD = 4 and WORD_BITS = 32.                                            *)
(***************************************************************************)
EXTENDS Integers, FiniteSets

CONSTANTS
  ENTRIES,       \* pointers in a page, entries in a page table or directory
  WORD,          \* bytes in a word
  WORD_BITS,     \* bits in a word, and in an address
  HEADER,        \* words of struct multiboot
  KernelStart,   \* phys in link.ld: the image starts here, low memory ends
  Starts,        \* where placement may start: &end, or the end of a module
  MemUppers,     \* what GRUB may report as mem_upper, in kB
  Increments     \* what callers pass to sbrk

PAGE == ENTRIES * WORD
TableSpan == ENTRIES * PAGE
TopOfMemory == ENTRIES * TableSpan

(* The value of bit k.                                                     *)
Pow2[k \in Nat] == IF k = 0 THEN 1 ELSE 2 * Pow2[k - 1]

ASSUME MemAssumption ==
  /\ {ENTRIES, WORD, WORD_BITS, HEADER} \subseteq Nat \ {0}
  /\ Pow2[WORD_BITS] = TopOfMemory
  /\ PAGE % 8 = 0                     \* the flags of an entry: its low bits
  /\ 2 < HEADER /\ HEADER < ENTRIES   \* mem_upper is the third field
  /\ KernelStart \in Nat
  /\ \A s \in Starts : s \in Nat /\ s % WORD = 0 /\ s > KernelStart
  /\ \A u \in MemUppers : u \in Nat /\ u < TopOfMemory
                         /\ u \div 4 <= TopOfMemory \div PAGE
  /\ \A inc \in Increments : inc \in Nat \ {0} /\ inc % PAGE = 0   \* ASSERT in sbrk

VARIABLES
  mem,                \* the words of memory, by address
  placement_pointer,
  frames,             \* the address of the bitmap
  nframes,
  kernel_directory,   \* the address of the directory
  mboot_ptr,          \* the address of the copied multiboot header
  heap_end,
  paging,             \* the paging bit of cr0, with cr3 = physical_tables
  i,                  \* the loop variable of paging_install and of sbrk
  pc,                 \* where main() or sbrk is
  grub,               \* what the boot loader chose: start and mem_upper
  heap_start          \* heap_end as heap_install() set it

vars == <<mem, placement_pointer, frames, nframes, kernel_directory,
          mboot_ptr, heap_end, paging, i, pc, grub, heap_start>>

Words == {WORD * k : k \in 0 .. TopOfMemory \div WORD - 1}
PageOf(a) == a - (a % PAGE)
Bit(v, k) == (v \div Pow2[k]) % 2

(* Any mark for a word of the kernel's image, or of a module.              *)
IMAGE == 9

(* memset(a, 0, bytes); a last part of a word counts as a word.            *)
Clear(m, a, bytes) ==
  [w \in Words |-> IF a <= w /\ w < a + bytes THEN 0 ELSE m[w]]

(* Mutated form: the address is not aligned.                               *)
AlignedLoose(pp) == pp

(* The address kvmalloc returns: placement_pointer rounded down, when any  *)
(* bit above the page offset is set.                                       *)
Aligned(pp) == IF pp >= PAGE THEN PageOf(pp) ELSE pp
-----------------------------------------------------------------------------
(* Frames.                                                                 *)

INDEX_FROM_BIT(b) == b \div WORD_BITS
BitmapWord(f) == frames + WORD * INDEX_FROM_BIT(f)
test_frame(m, f) == Bit(m[BitmapWord(f)], f % WORD_BITS) = 1

(* Mutated form: the first bit of each word is set over and over.          *)
SetFrameFirst(m, f) ==
  IF test_frame(m, f - (f % WORD_BITS)) THEN m
  ELSE [m EXCEPT ![BitmapWord(f)] = @ + 1]

set_frame(m, f) ==
  IF test_frame(m, f) THEN m
  ELSE [m EXCEPT ![BitmapWord(f)] = @ + Pow2[f % WORD_BITS]]

(* Mutated form: the loop over the words stops one word early.             *)
UsableShort == (INDEX_FROM_BIT(nframes) - 1) * WORD_BITS

(* What first_frame may return: it looks at whole words only, so the last  *)
(* nframes % WORD_BITS frames are never found.                             *)
Usable == INDEX_FROM_BIT(nframes) * WORD_BITS
FreeFrames(m) == {f \in 0 .. Usable - 1 : ~test_frame(m, f)}
first_frame(m) ==
  LET free == FreeFrames(m) IN CHOOSE f \in free : \A g \in free : f <= g

FrameOf(entry) == entry \div PAGE
PRESENT_USER == 5        \* present = 1, rw = 0, user = 1
PRESENT_RW_USER == 7

(* alloc_frame(page, 0, 0), page being the address of the entry.           *)
alloc_frame(m, page) ==
  IF FrameOf(m[page]) # 0 THEN m
  ELSE LET f == first_frame(m)
       IN  [set_frame(m, f) EXCEPT ![page] = f * PAGE + PRESENT_USER]

NoFrame(m, page) == FrameOf(m[page]) = 0 /\ FreeFrames(m) = {}
-----------------------------------------------------------------------------
(* Page tables.                                                            *)

TableSlot(a) == kernel_directory + WORD * (a \div TableSpan)
PhysicalSlot(a) == TableSlot(a) + PAGE
EntryOffset(a) == WORD * ((a \div PAGE) % ENTRIES)

(* get_page(a, 1, kernel_directory): the entry of a, in a new table when   *)
(* the directory has none.  A table placed at address 0 is stored as NULL, *)
(* so the next call makes another.                                         *)
get_page(m, pp, a) ==
  IF m[TableSlot(a)] # 0
  THEN [mem |-> m, placement |-> pp, page |-> m[TableSlot(a)] + EntryOffset(a)]
  ELSE LET table == Aligned(pp)
           m1 == Clear([m EXCEPT ![TableSlot(a)] = table], table, PAGE)
       IN  [mem |-> [m1 EXCEPT ![PhysicalSlot(a)] = table + PRESENT_RW_USER],
            placement |-> table + PAGE,
            page |-> table + EntryOffset(a)]

(* What the processor makes of a virtual address: it walks physical_tables *)
(* and never looks at tables.  NOWHERE is a page fault.                    *)
NOWHERE == -1
Translate(m, a) ==
  LET directory == m[PhysicalSlot(a)]
      entry == m[PageOf(directory) + EntryOffset(a)]
  IN  IF Bit(directory, 0) = 1 /\ Bit(entry, 0) = 1
      THEN PageOf(entry) + (a % PAGE) ELSE NOWHERE
-----------------------------------------------------------------------------
Init ==
  /\ grub \in [start : Starts, mem_upper : MemUppers]
  /\ mem = [w \in Words |-> IF KernelStart <= w /\ w < grub.start THEN IMAGE
                            ELSE 0]
  /\ placement_pointer = grub.start         \* &end, or kmalloc_startat
  /\ frames = 0 /\ nframes = 0 /\ kernel_directory = 0 /\ mboot_ptr = 0
  /\ heap_end = 0 /\ heap_start = 0
  /\ paging = FALSE
  /\ i = 0
  /\ pc = "copy_multiboot"

(* The fields of the multiboot header; mem_upper is the third, the others  *)
(* are any number but 0.                                                   *)
HeaderField(k) == IF k = 2 THEN grub.mem_upper ELSE 1

(* copy_multiboot(): kmalloc, then memcpy.                                 *)
CopyMultiboot ==
  /\ pc = "copy_multiboot"
  /\ mboot_ptr' = placement_pointer
  /\ placement_pointer' = placement_pointer + HEADER * WORD
  /\ mem' = [w \in Words |->
               IF placement_pointer <= w /\ w < placement_pointer'
               THEN HeaderField((w - placement_pointer) \div WORD) ELSE mem[w]]
  /\ pc' = "paging_install"
  /\ UNCHANGED <<frames, nframes, kernel_directory, heap_end, paging, i, grub,
                 heap_start>>

(* paging_install() up to its loop.  The bitmap is given one byte, not one *)
(* word, for each word of it.                                              *)
PagingInstall ==
  /\ pc = "paging_install"
  /\ nframes' = mem[mboot_ptr + 2 * WORD] \div 4
  /\ frames' = placement_pointer
  /\ LET bytes == INDEX_FROM_BIT(nframes')
         cleared == Clear(mem, frames', bytes)
         sizeof == (2 * ENTRIES + 1) * WORD
     IN  /\ kernel_directory' = Aligned(placement_pointer + bytes)
         /\ mem' = Clear(cleared, kernel_directory', sizeof)
         /\ placement_pointer' = kernel_directory' + sizeof
  /\ i' = 0
  /\ pc' = "map"
  /\ UNCHANGED <<mboot_ptr, heap_end, paging, grub, heap_start>>

(* Mutated form: the loop ends a page early.                               *)
MappedAllShort == i + PAGE >= placement_pointer

(* The end of the loop: placement_pointer also grows inside it, as         *)
(* get_page makes tables.                                                  *)
MappedAll == i >= placement_pointer

(* One turn of the loop: a frame for page i.                               *)
MapPage ==
  /\ pc = "map"
  /\ ~MappedAll
  /\ \E got \in {get_page(mem, placement_pointer, i)} :
       /\ placement_pointer' = got.placement
       /\ IF NoFrame(got.mem, got.page)
          THEN mem' = got.mem /\ pc' = "out_of_frames" /\ UNCHANGED i
          ELSE mem' = alloc_frame(got.mem, got.page) /\ i' = i + PAGE
               /\ UNCHANGED pc
  /\ UNCHANGED <<frames, nframes, kernel_directory, mboot_ptr, heap_end, paging,
                 grub, heap_start>>

SwitchPageDirectory ==
  /\ pc = "map"
  /\ MappedAll
  /\ paging' = TRUE
  /\ pc' = "heap_install"
  /\ UNCHANGED <<mem, placement_pointer, frames, nframes, kernel_directory,
                 mboot_ptr, heap_end, i, grub, heap_start>>

(* Mutated form: placement goes on from the kernel's image.                *)
HeapInstallHigh ==
  /\ pc = "heap_install"
  /\ heap_end' = placement_pointer
  /\ heap_start' = placement_pointer
  /\ placement_pointer' = KernelStart
  /\ pc' = "run"
  /\ UNCHANGED <<mem, frames, nframes, kernel_directory, mboot_ptr, paging, i, grub>>

HeapInstall ==
  /\ pc = "heap_install"
  /\ heap_end' = placement_pointer
  /\ heap_start' = placement_pointer
  /\ placement_pointer' = 0
  /\ pc' = "run"
  /\ UNCHANGED <<mem, frames, nframes, kernel_directory, mboot_ptr, paging, i, grub>>

(* sbrk(inc): its caller is klmalloc.                                      *)
Sbrk(inc) ==
  /\ pc = "run"
  /\ i' = heap_end
  /\ heap_end' = heap_end + inc
  /\ pc' = "sbrk"
  /\ UNCHANGED <<mem, placement_pointer, frames, nframes, kernel_directory,
                 mboot_ptr, paging, grub, heap_start>>

(* Mutated form: get_page is called once, in the call of alloc_frame.      *)
SbrkTablesOnce == {get_page(mem, placement_pointer, i)}

(* The two calls of get_page in the loop of sbrk.                          *)
SbrkTables ==
  {get_page(first.mem, first.placement, i) :
     first \in {get_page(mem, placement_pointer, i)}}

(* One turn of the loop.  alloc_frame reads the entry through the page     *)
(* tables: get_page may have returned a wild pointer.                      *)
SbrkPage ==
  /\ pc = "sbrk"
  /\ i < heap_end
  /\ \E got \in SbrkTables : \E page \in {Translate(got.mem, got.page)} :
       /\ placement_pointer' = got.placement
       /\ \/ /\ page = NOWHERE                         \* page_fault()
             /\ pc' = "page_fault"
             /\ mem' = got.mem /\ UNCHANGED i
          \/ /\ page # NOWHERE
             /\ NoFrame(got.mem, page)
             /\ pc' = "out_of_frames"
             /\ mem' = got.mem /\ UNCHANGED i
          \/ /\ page # NOWHERE
             /\ ~NoFrame(got.mem, page)
             /\ mem' = alloc_frame(got.mem, page)
             /\ i' = i + PAGE /\ UNCHANGED pc
  /\ UNCHANGED <<frames, nframes, kernel_directory, mboot_ptr, heap_end, paging,
                 grub, heap_start>>

SbrkReturn ==
  /\ pc = "sbrk"
  /\ i >= heap_end
  /\ pc' = "run"
  /\ UNCHANGED <<mem, placement_pointer, frames, nframes, kernel_directory,
                 mboot_ptr, heap_end, paging, i, grub, heap_start>>

(* for (;;); at the end of halt_and_catch_fire.                            *)
HaltLoop == pc \in {"out_of_frames", "page_fault"} /\ UNCHANGED vars

Kernel ==
  CopyMultiboot \/ PagingInstall \/ MapPage \/ SwitchPageDirectory
    \/ HeapInstall \/ SbrkPage \/ SbrkReturn

Next == Kernel \/ (\E inc \in Increments : Sbrk(inc)) \/ HaltLoop

(* The processor goes on; that sbrk is called is not assumed.              *)
Spec == Init /\ [][Next]_vars /\ WF_vars(Kernel)
-----------------------------------------------------------------------------
Page == {PAGE * k : k \in 0 .. TopOfMemory \div PAGE - 1}

(* heap_end is the end of a page: klmalloc masks addresses to find headers *)
(* and KlMalloc assumes it of HeapBase.                                    *)
TypeOK ==
  /\ mem \in [Words -> 0 .. TopOfMemory - 1]
  /\ {frames, mboot_ptr} \subseteq Words
  /\ placement_pointer \in 0 .. TopOfMemory
  /\ nframes \in 0 .. TopOfMemory \div PAGE
  /\ {kernel_directory, heap_start, heap_end, i} \subseteq Page
  /\ paging \in BOOLEAN

(* From the moment paging is on, every page up to the heap, which holds    *)
(* the image, the directory, the bitmap and the tables, stays mapped to    *)
(* itself: the kernel survives switch_page_directory and every sbrk.       *)
IdentityMapped ==
  paging => \A a \in Page :
              a < (IF heap_start = 0 THEN placement_pointer ELSE heap_start)
                => Translate(mem, a) = a

(* Every page sbrk is done with is backed by a frame of real memory.       *)
HeapBacked ==
  heap_start # 0 =>
    \A a \in Page :
      heap_start <= a /\ a < (IF pc = "run" THEN heap_end ELSE i) =>
        Translate(mem, a) \in 0 .. nframes * PAGE - 1

(* A bitmap word that lies in physical_tables.                             *)
Shadowed(f) == BitmapWord(f) >= kernel_directory + PAGE

(* The bitmap and the page tables agree: no frame backs two pages, a frame *)
(* that backs one is not free, and no frame is lost (but those whose bits  *)
(* the directory overlays).                                                *)
FramesExact ==
  paging =>
    \A f \in 0 .. Usable - 1 :
      LET mapped == {a \in Page : Translate(mem, a) = f * PAGE}
      IN  /\ Cardinality(mapped) <= 1
          /\ mapped # {} => test_frame(mem, f)
          /\ test_frame(mem, f) /\ ~Shadowed(f) => mapped # {}

(* Nothing mem.c clears or places ever touches the image, although the     *)
(* tables made after heap_install() are placed again from address 0 up.    *)
ImageIntact ==
  \A w \in Words : KernelStart <= w /\ w < PageOf(grub.start) => mem[w] = IMAGE

(* The loop of paging_install, whose bound grows as it runs, ends, and the *)
(* kernel comes up whenever the frames the bitmap can find suffice: those  *)
(* below the start, two for the directory, one for each of two tables.     *)
EnoughMemory ==
  INDEX_FROM_BIT(grub.mem_upper \div 4) * WORD_BITS * PAGE >= grub.start + 4 * PAGE
Boots == EnoughMemory => <>(pc = "run")

(* The first slot of tables that the bitmap lies on, and the pages that    *)
(* the tables of the slots below it can map.                               *)
Spare(start) == (start % PAGE) \div WORD + HEADER
Reach(start) == Spare(start) * ENTRIES

(* Starting there, with that much memory, the structures have their room:  *)
(* the bitmap and the directory are placed on one page, and the words of   *)
(* the bitmap that are used lie on tables, not on physical_tables; the     *)
(* tables made from address 0 end below the image; and the boot ends       *)
(* before it reaches the slots under the bitmap.  The real machine fits    *)
(* when &end, or the end of the module, is at the start of a page and it   *)
(* has up to 500 MB.                                                       *)
FitsIn(start, mem_upper) ==
  LET bytes == INDEX_FROM_BIT(mem_upper \div 4)
  IN  /\ WORD * Spare(start) + bytes < PAGE
      /\ \A f \in 0 .. bytes * WORD_BITS - 1 :
           f < Reach(start) => Spare(start) + INDEX_FROM_BIT(f) < ENTRIES
      /\ WORD_BITS <= Reach(start)
      /\ Spare(start) * PAGE <= KernelStart
      /\ start \div PAGE + 2 + Spare(start) <= Reach(start)
      /\ \A inc \in Increments : Reach(start) * PAGE + inc < TopOfMemory

Fits == FitsIn(grub.start, grub.mem_upper)

(* The kernel halts for want of frames only when all that first_frame can  *)
(* find are mapped, and sbrk faults only when the tables below the bitmap  *)
(* are full.                                                               *)
HaltsOnlyWhenFull ==
  /\ pc = "out_of_frames" => i = Usable * PAGE
  /\ pc = "page_fault" => i = Reach(grub.start) * PAGE

(* multiboot.c:19: "MULTIBOOT header at 0x%x" is where dump_multiboot      *)
(* reads the copy of the header that main made before paging_install.      *)
HeaderKept ==
  pc = "run" => \A k \in 0 .. HEADER - 1 :
                  mem[mboot_ptr + WORD * k] = HeaderField(k)

(* kernel.h:109: "1024 pointers to page tables": what get_page follows in  *)
(* tables is what the processor finds in physical_tables.                  *)
TablesArePointers ==
  pc = "run" => \A t \in 0 .. ENTRIES - 1 :
    LET slot == kernel_directory + WORD * t
    IN  mem[slot] # 0 => mem[slot + PAGE] = mem[slot] + PRESENT_RW_USER
=============================================================================
