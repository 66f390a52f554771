------------------------------ MODULE KlMalloc ------------------------------
(***************************************************************************)
(* The slab allocator of core/alloc.c: klmalloc, klfree and klrealloc over *)
(* pages taken from sbrk.  klcalloc is klmalloc followed by a memset of    *)
(* the bytes asked for.                                                    *)
(*                                                                         *)
(* Addresses, header sizes and size classes are those of the 32-bit build. *)
(* A page list (klmalloc_bin_head[b]) and a stack of free cells            *)
(* (header->head) are sequences, first element first.  The list of free    *)
(* big blocks is the set that SkipList shows it to be.  No caller runs at  *)
(* interrupt level, so a call is one step.                                 *)
(*                                                                         *)
(* The caller keeps the C contract: it frees or resizes only blocks it     *)
(* holds, once.  klmalloc(0) and klfree(NULL) return at once and change    *)
(* nothing; klrealloc(NULL, n) is klmalloc(n).                             *)
(***************************************************************************)
EXTENDS Sequences, BestFit, SizeClass

CONSTANTS
  Requests,     \* the sizes callers pass, in bytes
  HeapBase,     \* heap_end after heap_install(), page aligned
  HeapLimit     \* the address up to which there are frames for sbrk

(* Requests stay below 1 GB: the code's arithmetic on a signed 32-bit      *)
(* size_t does not overflow there.                                         *)
ASSUME KlMallocAssumption ==
  /\ Requests \subseteq 1 .. MaxRequest
  /\ HeapBase \in Nat \ {0}
  /\ HeapBase % PAGE_SIZE = 0
  /\ HeapLimit \in Nat

VARIABLES
  heap,      \* the allocator's own state, see Heap below
  live,      \* the blocks callers hold: the size asked for, by address
  held,      \* blocks handed out less blocks taken back
  halted,    \* halt_and_catch_fire: sbrk found no frame
  spill      \* bytes by which a copy in klrealloc ran past its new block

vars == <<heap, live, held, halted, spill>>

-----------------------------------------------------------------------------
(***************************************************************************)
(* The allocator's state, a record:                                        *)
(*   brk   heap_end of mem.c                                               *)
(*   size  header->size by header address: a size class, or usable bytes   *)
(*   head  header->head by header address: the stack of free cells         *)
(*   bins  klmalloc_bin_head: for each small class its pages with space    *)
(*   skip  the big blocks in the skip list                                 *)
(*   bigs  the big blocks in order of creation, the doubly linked list     *)
(*         that ends at klmalloc_newest_big                                *)
(***************************************************************************)
EmptyHeap ==
  [brk  |-> HeapBase,
   size |-> [p \in {} |-> 0],
   head |-> [p \in {} |-> <<>>],
   bins |-> [b \in SmallBin |-> <<>>],
   skip |-> {},
   bigs |-> <<>>]

(* A page from sbrk made into a full stack of cells, at the front of the   *)
(* list of its class.                                                      *)
NewBin(h, b) ==
  LET p == h.brk
  IN  [h EXCEPT !.brk = p + PAGE_SIZE,
                !.size = Extend(h.size, p, b),
                !.head = Extend(h.head, p,
                           [i \in 1 .. Available(b) + 1 |-> Cell(p, b, i - 1)]),
                !.bins[b] = <<p>> \o h.bins[b]]

(* Mutated form: head is not advanced past the popped cell.                *)
PopCellAgain(h, b) ==
  LET p == Head(h.bins[b])
  IN  [heap |-> [h EXCEPT !.bins[b] = IF Tail(h.head[p]) = <<>>
                                      THEN Tail(h.bins[b]) ELSE h.bins[b]],
       ptr  |-> Head(h.head[p])]

(* klmalloc_stack_pop on the first page of the list; a page whose stack    *)
(* is now empty leaves the list (klmalloc_list_decouple).                  *)
PopCell(h, b) ==
  LET p == Head(h.bins[b])
      rest == Tail(h.head[p])
  IN  [heap |-> [h EXCEPT !.head = Extend(h.head, p, rest),
                          !.bins[b] = IF rest = <<>> THEN Tail(h.bins[b])
                                                     ELSE h.bins[b]],
       ptr  |-> Head(h.head[p])]

SmallAlloc(h, b) == PopCell(IF h.bins[b] = <<>> THEN NewBin(h, b) ELSE h, b)

(* klmalloc_skip_list_delete and klmalloc_stack_pop on a free big block.   *)
ReuseBig(h, p) ==
  [heap |-> [h EXCEPT !.skip = h.skip \ {p},
                      !.head = Extend(h.head, p, Tail(h.head[p]))],
   ptr  |-> Head(h.head[p])]

(* Mutated form: the header is not taken off the usable size.              *)
NewBigGross(h, n) ==
  LET p == h.brk
      bytes == BigPages(n) * PAGE_SIZE
  IN  [heap |-> [h EXCEPT !.brk = p + bytes,
                          !.size = Extend(h.size, p, bytes),
                          !.head = Extend(h.head, p, <<>>),
                          !.bigs = Append(h.bigs, p)],
       ptr  |-> p + BIG_HEADER]

(* A big block from sbrk, linked behind klmalloc_newest_big.               *)
NewBig(h, n) ==
  LET p == h.brk
      bytes == BigPages(n) * PAGE_SIZE
  IN  [heap |-> [h EXCEPT !.brk = p + bytes,
                          !.size = Extend(h.size, p, bytes - BIG_HEADER),
                          !.head = Extend(h.head, p, <<>>),
                          !.bigs = Append(h.bigs, p)],
       ptr  |-> p + BIG_HEADER]

(* klmalloc(n): what it may return, and the state it leaves.               *)
Allocs(h, n) ==
  IF BinSize(n) < BIG_BIN THEN {SmallAlloc(h, BinSize(n))}
  ELSE IF BestFits(h.skip, h.size, n) = {} THEN {NewBig(h, n)}
  ELSE {ReuseBig(h, p) : p \in BestFits(h.skip, h.size, n)}

(* The bytes klmalloc(n) asks sbrk for.                                    *)
Growth(h, n) ==
  IF BinSize(n) < BIG_BIN
  THEN IF h.bins[BinSize(n)] = <<>> THEN PAGE_SIZE ELSE 0
  ELSE IF BestFits(h.skip, h.size, n) = {} THEN BigPages(n) * PAGE_SIZE ELSE 0

HeaderOf(ptr) == ptr - (ptr % PAGE_SIZE)

(* Mutated form: a page that was full is not listed again.                 *)
FreeBlockUnlisted(h, ptr) ==
  LET p == HeaderOf(ptr)
  IN  IF h.size[p] > NUM_BINS
      THEN [h EXCEPT !.head = Extend(h.head, p, <<p + BIG_HEADER>> \o h.head[p]),
                     !.skip = h.skip \cup {p}]
      ELSE [h EXCEPT !.head = Extend(h.head, p, <<ptr>> \o h.head[p])]

(* klfree(ptr).                                                            *)
FreeBlock(h, ptr) ==
  LET p == HeaderOf(ptr)
  IN  IF h.size[p] > NUM_BINS
      THEN [h EXCEPT !.head = Extend(h.head, p, <<p + BIG_HEADER>> \o h.head[p]),
                     !.skip = h.skip \cup {p}]
      ELSE [h EXCEPT !.head = Extend(h.head, p, <<ptr>> \o h.head[p]),
                     !.bins[h.size[p]] = IF h.head[p] = <<>>
                                         THEN <<p>> \o h.bins[h.size[p]]
                                         ELSE h.bins[h.size[p]]]

(* The bytes klrealloc takes a block at ptr to have.                       *)
Usable(h, ptr) ==
  LET s == h.size[HeaderOf(ptr)]
  IN  IF s < BIG_BIN THEN CellSize(s) ELSE s
-----------------------------------------------------------------------------
Init ==
  /\ heap = EmptyHeap
  /\ live = [p \in {} |-> 0]
  /\ held = 0
  /\ halted = FALSE
  /\ spill = 0

Running == ~halted /\ spill = 0

Fits(n) == heap.brk + Growth(heap, n) <= HeapLimit

MallocCall(n) ==
  /\ Running
  /\ Fits(n)
  /\ \E r \in Allocs(heap, n) :
       /\ heap' = r.heap
       /\ live' = Extend(live, r.ptr, n)
  /\ held' = held + 1
  /\ UNCHANGED <<halted, spill>>

FreeCall(ptr) ==
  /\ Running
  /\ heap' = FreeBlock(heap, ptr)
  /\ live' = Drop(live, ptr)
  /\ held' = held - 1
  /\ UNCHANGED <<halted, spill>>

(* Mutated form: the early return compares with the whole extent.          *)
ReallocInPlaceOver(ptr, n) ==
  /\ Running
  /\ heap.size[HeaderOf(ptr)] + PAGE_SIZE >= n
  /\ live' = [live EXCEPT ![ptr] = n]
  /\ UNCHANGED <<heap, held, halted, spill>>

(* klrealloc returns the same block: header->size is large enough.  For a  *)
(* small block header->size is its class, not its bytes.                   *)
ReallocInPlace(ptr, n) ==
  /\ Running
  /\ heap.size[HeaderOf(ptr)] >= n
  /\ live' = [live EXCEPT ![ptr] = n]
  /\ UNCHANGED <<heap, held, halted, spill>>

(* klrealloc allocates, copies all Usable bytes of the old block, frees.   *)
ReallocMove(ptr, n) ==
  /\ Running
  /\ heap.size[HeaderOf(ptr)] < n
  /\ Fits(n)
  /\ \E r \in Allocs(heap, n) :
       /\ Usable(heap, ptr) <= Usable(r.heap, r.ptr)
       /\ heap' = FreeBlock(r.heap, ptr)
       /\ live' = Drop(Extend(live, r.ptr, n), ptr)
  /\ UNCHANGED <<held, halted, spill>>

(* The same call when the new block is smaller than the old one: the copy  *)
(* overwrites what follows the new block, and nothing more can be said of  *)
(* the heap.  The model stops there.                                       *)
ReallocSpill(ptr, n) ==
  /\ Running
  /\ heap.size[HeaderOf(ptr)] < n
  /\ Fits(n)
  /\ \E r \in Allocs(heap, n) :
       /\ Usable(heap, ptr) > Usable(r.heap, r.ptr)
       /\ heap' = r.heap
       /\ live' = Extend(live, r.ptr, n)
       /\ spill' = Usable(heap, ptr) - Usable(r.heap, r.ptr)
  /\ held' = held + 1
  /\ UNCHANGED halted

(* sbrk moves heap_end, then alloc_frame finds no frame and halts, inside  *)
(* klmalloc or inside klrealloc's call of it.                              *)
OutOfFrames(n) ==
  /\ Running
  /\ ~Fits(n)
  /\ heap' = [heap EXCEPT !.brk = heap.brk + Growth(heap, n)]
  /\ halted' = TRUE
  /\ UNCHANGED <<live, held, spill>>

(* for (;;); at the end of halt_and_catch_fire.                            *)
HaltLoop == halted /\ UNCHANGED vars

(* The end of the model after a spill, see ReallocSpill.                   *)
Overwritten == spill > 0 /\ UNCHANGED vars

Next ==
  \/ \E n \in Requests : MallocCall(n) \/ OutOfFrames(n)
  \/ \E ptr \in DOMAIN live :
       \/ FreeCall(ptr)         \* also klrealloc(ptr, 0)
       \/ \E n \in Requests :
            \/ ReallocInPlace(ptr, n)
            \/ ReallocMove(ptr, n)
            \/ ReallocSpill(ptr, n)
  \/ HaltLoop
  \/ Overwritten

Spec == Init /\ [][Next]_vars
-----------------------------------------------------------------------------
(***************************************************************************)
(* What makes the heap correct.                                            *)
(***************************************************************************)
Small(h, p) == h.size[p] < BIG_BIN

(* The bytes of the heap that belong to the header at p.                   *)
Extent(h, p) == IF Small(h, p) THEN PAGE_SIZE ELSE h.size[p] + BIG_HEADER

(* The addresses that can be handed out under the header at p.             *)
CellsUnder(p, size) ==
  IF size < BIG_BIN THEN {Cell(p, size, i) : i \in 0 .. Available(size)}
                    ELSE {p + BIG_HEADER}

CellsOf(h, p) == CellsUnder(p, h.size[p])

Elements(s) == {s[i] : i \in DOMAIN s}
NoDuplicates(s) == \A i, j \in DOMAIN s : s[i] = s[j] => i = j

(* The shape of a heap record.  A size field is a class or the bytes of    *)
(* whole pages less the header, which is how klfree tells them apart.      *)
HeapType(h) ==
  /\ DOMAIN h = {"brk", "size", "head", "bins", "skip", "bigs"}
  /\ h.brk \in Nat
  /\ h.size \in [DOMAIN h.size -> Nat]
  /\ h.head \in [DOMAIN h.size -> Seq(Nat)]
  /\ h.bins \in [SmallBin -> Seq(DOMAIN h.size)]
  /\ h.skip \in SUBSET DOMAIN h.size
  /\ h.bigs \in Seq(DOMAIN h.size)
  /\ \A p \in DOMAIN h.size :
       /\ p \in Nat
       /\ \/ h.size[p] \in SmallBin
          \/ /\ h.size[p] > NUM_BINS
             /\ (h.size[p] + BIG_HEADER) % PAGE_SIZE = 0

TypeOK ==
  /\ HeapType(heap)
  /\ live \in [DOMAIN live -> Requests]
  /\ held \in Int
  /\ halted \in BOOLEAN
  /\ spill \in Nat

(* Headers start on page boundaries and their extents lie side by side     *)
(* below brk, so masking an address with ~PAGE_MASK finds its header.      *)
Tiled(h) ==
  /\ h.brk % PAGE_SIZE = 0
  /\ h.brk >= HeapBase
  /\ \A p \in DOMAIN h.size :
       /\ p % PAGE_SIZE = 0
       /\ p >= HeapBase
       /\ p + Extent(h, p) <= h.brk
       /\ \A q \in DOMAIN h.size : p < q => p + Extent(h, p) <= q

(* A stack of free cells holds cells of its own page, each once.           *)
StacksSound(h) ==
  \A p \in DOMAIN h.size :
    /\ Elements(h.head[p]) \subseteq CellsOf(h, p)
    /\ NoDuplicates(h.head[p])

(* Every cell of every page is either in its page's stack or held by a     *)
(* caller, never both and never neither.                                   *)
Conserved(h, blocks) ==
  /\ \A p \in DOMAIN h.size : \A c \in CellsOf(h, p) :
       c \in DOMAIN blocks <=> c \notin Elements(h.head[p])
  /\ \A a \in DOMAIN blocks : \E p \in DOMAIN h.size : a \in CellsOf(h, p)

(* The bytes under a block are at least those asked for.                   *)
RoomyIn(h, blocks) == \A a \in DOMAIN blocks : blocks[a] <= Usable(h, a)

(* The list of a class holds exactly the pages of that class with a free   *)
(* cell, each once: a page dropped from it for good would be a leak, a     *)
(* full page left in it would make klmalloc pop an empty stack.            *)
BinsExact(h) ==
  \A b \in SmallBin :
    /\ NoDuplicates(h.bins[b])
    /\ Elements(h.bins[b]) =
         {p \in DOMAIN h.size : h.size[p] = b /\ h.head[p] # <<>>}

(* The skip list holds exactly the big blocks whose head is not NULL.      *)
SkipExact(h) ==
  h.skip = {p \in DOMAIN h.size : ~Small(h, p) /\ h.head[p] # <<>>}

(* The physical list holds every big block, in address order.              *)
BigsExact(h) ==
  /\ Elements(h.bigs) = {p \in DOMAIN h.size : ~Small(h, p)}
  /\ \A i, j \in DOMAIN h.bigs : i < j => h.bigs[i] < h.bigs[j]

(* Pages and cells: klmalloc and klfree neither lose nor duplicate memory. *)
(* When sbrk halts, brk has moved but no page was added.                   *)
HeapTiled == Tiled(heap)
CellsConserved == StacksSound(heap) /\ Conserved(heap, live)
ListsExact == BinsExact(heap) /\ SkipExact(heap) /\ BigsExact(heap)

(* Every block has the bytes its caller asked for, after any number of     *)
(* resizes in place.                                                       *)
Roomy == RoomyIn(heap, live)

(* No two blocks that callers hold share a byte, whatever sequence of      *)
(* malloc, realloc and free led there.                                     *)
BlocksDisjoint ==
  \A a, c \in DOMAIN live : a < c => a + live[a] <= c

(* No block overlaps the header of any page: a caller that stays inside    *)
(* the bytes it asked for cannot damage the allocator.                     *)
HeadersSafe ==
  \A a \in DOMAIN live : \A p \in DOMAIN heap.size :
    \/ a + live[a] <= p
    \/ a >= p + (IF Small(heap, p) THEN BIN_HEADER ELSE BIG_HEADER)

(* The heap grows only when it must: klmalloc calls sbrk only when no page *)
(* of the class has a free cell, or no free big block is large enough.     *)
GrowOnlyWhenFull ==
  [][\A p \in DOMAIN heap.size, q \in DOMAIN heap'.size \ DOMAIN heap.size :
       heap.head[p] # <<>> =>
         IF Small(heap', q) THEN heap.size[p] # heap'.size[q]
         ELSE \A a \in DOMAIN live' \ DOMAIN live :
                Small(heap, p) \/ heap.size[p] < live'[a]]_vars

(* realloc never writes outside the block it returns: "Be sure to only     *)
(* copy as much as was in the old block" (alloc.c:827) is not enough when  *)
(* the new block is the smaller one.                                       *)
NoSpill == spill = 0

M == INSTANCE Malloc

(* The slab allocator keeps what malloc promises (see Malloc).             *)
ImplementsMalloc == M!Spec
=============================================================================
