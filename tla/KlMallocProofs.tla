--------------------------- MODULE KlMallocProofs ---------------------------
(***************************************************************************)
(* Proofs about the slab allocator (KlMalloc), for every set of requests   *)
(* below 1 GB, every heap base and every amount of memory.                 *)
(*                                                                         *)
(* Sound is a predicate on a heap and the blocks held, and the argument is *)
(* about one call at a time: each operator of KlMalloc that makes a new    *)
(* heap (NewBin, PopCell, ReuseBig, NewBig, FreeBlock) maps a sound heap   *)
(* to a sound heap.  An action is one such call, or two for a klrealloc    *)
(* that moves.  Only the invariants together are inductive: a freed cell   *)
(* may join its page's stack because no stack holds it (Conserved); its    *)
(* page is found because headers tile the heap (Tiled); klmalloc may pop   *)
(* the first page of a list because listed pages have cells (BinsExact).   *)
(***************************************************************************)
EXTENDS KlMalloc, SizeClassLemmas, SequenceTheorems

(* A function extended or reduced by one point.                            *)
LEMMA ExtendType ==
  ASSUME NEW S, NEW T, NEW f \in [S -> T], NEW x, NEW v
  PROVE  /\ Extend(f, x, v) \in [S \cup {x} -> T \cup {v}]
         /\ DOMAIN Extend(f, x, v) = S \cup {x}
         /\ v \in T => Extend(f, x, v) \in [S \cup {x} -> T]
         /\ Extend(f, x, v)[x] = v
         /\ \A y \in S : y # x => Extend(f, x, v)[y] = f[y]
BY DEF Extend

(* A function without one of its points.                                   *)
LEMMA DropType ==
  ASSUME NEW S, NEW T, NEW f \in [S -> T], NEW x
  PROVE  /\ Drop(f, x) \in [S \ {x} -> T]
         /\ DOMAIN Drop(f, x) = S \ {x}
         /\ \A y \in S \ {x} : Drop(f, x)[y] = f[y]
BY DEF Drop

(* The cells of a class lie behind the header and inside the page.         *)
LEMMA CellInPage ==
  ASSUME NEW b \in SmallBin, NEW i \in 0 .. Available(b), NEW p \in Nat
  PROVE  /\ Cell(p, b, i) \in Nat
         /\ CellSize(b) \in Nat \ {0}
         /\ Cell(p, b, i) >= p + BIN_HEADER
         /\ Cell(p, b, i) + CellSize(b) <= p + PAGE_SIZE
<1>1. CASE b = 0 BY <1>1, CellSizes DEF Cell, BIN_HEADER, PAGE_SIZE
<1>2. CASE b = 1 BY <1>2, CellSizes DEF Cell, BIN_HEADER, PAGE_SIZE
<1>3. CASE b = 2 BY <1>3, CellSizes DEF Cell, BIN_HEADER, PAGE_SIZE
<1>4. CASE b = 3 BY <1>4, CellSizes DEF Cell, BIN_HEADER, PAGE_SIZE
<1>5. CASE b = 4 BY <1>5, CellSizes DEF Cell, BIN_HEADER, PAGE_SIZE
<1>6. CASE b = 5 BY <1>6, CellSizes DEF Cell, BIN_HEADER, PAGE_SIZE
<1>7. CASE b = 6 BY <1>7, CellSizes DEF Cell, BIN_HEADER, PAGE_SIZE
<1>8. CASE b = 7 BY <1>8, CellSizes DEF Cell, BIN_HEADER, PAGE_SIZE
<1>9. CASE b = 8 BY <1>9, CellSizes DEF Cell, BIN_HEADER, PAGE_SIZE
<1>10. CASE b = 9 BY <1>10, CellSizes DEF Cell, BIN_HEADER, PAGE_SIZE
<1> QED BY <1>1, <1>2, <1>3, <1>4, <1>5, <1>6, <1>7, <1>8, <1>9, <1>10, SmallBins

(* Masking the address of a cell gives the page it was cut from.           *)
LEMMA HeaderOfCell ==
  ASSUME NEW p \in Nat, p % PAGE_SIZE = 0, NEW a \in Nat,
         a >= p, a < p + PAGE_SIZE
  PROVE  HeaderOf(a) = p
BY DEF HeaderOf, PAGE_SIZE
-----------------------------------------------------------------------------
(***************************************************************************)
(* Stacks and lists as sequences: what pushing, popping and appending do   *)
(* to the set of elements.                                                 *)
(***************************************************************************)
(* klmalloc_stack_push and klmalloc_list_insert: one element more, in      *)
(* front.                                                                  *)
LEMMA PushElements ==
  ASSUME NEW S, NEW s \in Seq(S), NEW x \in S
  PROVE  /\ <<x>> \o s \in Seq(S)
         /\ <<x>> \o s # <<>>
         /\ Elements(<<x>> \o s) = {x} \cup Elements(s)
         /\ NoDuplicates(s) /\ x \notin Elements(s) => NoDuplicates(<<x>> \o s)
<1> DEFINE t == <<x>> \o s
<1>1. /\ t \in Seq(S)
      /\ DOMAIN t = 1 .. Len(s) + 1
      /\ t[1] = x
      /\ \A i \in 2 .. Len(s) + 1 : t[i] = s[i - 1]
      /\ DOMAIN s = 1 .. Len(s)
      /\ Len(s) \in Nat
  OBVIOUS
<1> HIDE DEF t
<1>2. t # <<>>
  BY <1>1
<1>3. Elements(t) = {x} \cup Elements(s)
  <2>1. ASSUME NEW y \in Elements(t) PROVE y \in {x} \cup Elements(s)
    BY <1>1 DEF Elements
  <2>2. ASSUME NEW y \in Elements(s) PROVE y \in Elements(t)
    <3>1. PICK i \in 1 .. Len(s) : y = s[i]
      BY <1>1 DEF Elements
    <3>2. t[i + 1] = y /\ i + 1 \in DOMAIN t
      BY <1>1, <3>1
    <3> QED BY <3>2 DEF Elements
  <2>3. x \in Elements(t)
    BY <1>1 DEF Elements
  <2> QED BY <2>1, <2>2, <2>3
<1>4. ASSUME NoDuplicates(s), x \notin Elements(s) PROVE NoDuplicates(t)
  <2> SUFFICES ASSUME NEW i \in DOMAIN t, NEW j \in DOMAIN t, t[i] = t[j], i < j
               PROVE  FALSE
    BY <1>1 DEF NoDuplicates
  <2>1. j - 1 \in DOMAIN s /\ t[j] = s[j - 1]
    BY <1>1
  <2>2. CASE i = 1
    BY <1>1, <1>4, <2>1, <2>2 DEF Elements
  <2>3. CASE i # 1
    <3>1. i - 1 \in DOMAIN s /\ t[i] = s[i - 1]
      BY <1>1, <2>3
    <3> QED BY <1>1, <1>4, <2>1, <3>1 DEF NoDuplicates
  <2> QED BY <2>2, <2>3
<1> QED BY <1>1, <1>2, <1>3, <1>4 DEF t

(* klmalloc_stack_pop and klmalloc_list_decouple: the first element goes.  *)
LEMMA PopElements ==
  ASSUME NEW S, NEW s \in Seq(S), s # <<>>
  PROVE  /\ Head(s) \in S
         /\ Head(s) \in Elements(s)
         /\ Tail(s) \in Seq(S)
         /\ NoDuplicates(s) => /\ Elements(Tail(s)) = Elements(s) \ {Head(s)}
                               /\ NoDuplicates(Tail(s))
<1> DEFINE t == Tail(s)
<1>1. /\ t \in Seq(S)
      /\ Len(s) \in Nat \ {0}
      /\ DOMAIN s = 1 .. Len(s)
      /\ DOMAIN t = 1 .. Len(s) - 1
      /\ \A i \in 1 .. Len(s) - 1 : t[i] = s[i + 1]
      /\ Head(s) = s[1]
      /\ s[1] \in S
  OBVIOUS
<1> HIDE DEF t
<1>2. Head(s) \in Elements(s)
  BY <1>1 DEF Elements
<1>3. ASSUME NoDuplicates(s)
      PROVE  Elements(t) = Elements(s) \ {Head(s)} /\ NoDuplicates(t)
  <2>1. ASSUME NEW y \in Elements(t) PROVE y \in Elements(s) \ {Head(s)}
    <3>1. PICK i \in 1 .. Len(s) - 1 : y = t[i]
      BY <1>1 DEF Elements
    <3>2. y = s[i + 1] /\ i + 1 \in DOMAIN s /\ i + 1 # 1 /\ 1 \in DOMAIN s
      BY <1>1, <3>1
    <3> QED BY <1>1, <1>3, <3>2 DEF Elements, NoDuplicates
  <2>2. ASSUME NEW y \in Elements(s) \ {Head(s)} PROVE y \in Elements(t)
    <3>1. PICK i \in 1 .. Len(s) : y = s[i]
      BY <1>1 DEF Elements
    <3>2. i # 1 /\ i - 1 \in DOMAIN t /\ t[i - 1] = y
      BY <1>1, <3>1
    <3> QED BY <3>2 DEF Elements
  <2>3. NoDuplicates(t)
    <3> SUFFICES ASSUME NEW i \in DOMAIN t, NEW j \in DOMAIN t, t[i] = t[j]
                 PROVE  i = j
      BY DEF NoDuplicates
    <3>1. /\ i + 1 \in DOMAIN s /\ t[i] = s[i + 1]
          /\ j + 1 \in DOMAIN s /\ t[j] = s[j + 1]
      BY <1>1
    <3>2. i + 1 = j + 1
      BY <1>3, <3>1 DEF NoDuplicates
    <3> QED BY <1>1, <3>2
  <2> QED BY <2>1, <2>2, <2>3
<1> QED BY <1>1, <1>2, <1>3 DEF t

(* Linking a block behind klmalloc_newest_big.                             *)
LEMMA AppendElements ==
  ASSUME NEW S, NEW s \in Seq(S), NEW x \in S
  PROVE  /\ Append(s, x) \in Seq(S)
         /\ Elements(Append(s, x)) = Elements(s) \cup {x}
         /\ DOMAIN Append(s, x) = DOMAIN s \cup {Len(s) + 1}
         /\ Append(s, x)[Len(s) + 1] = x
         /\ \A i \in DOMAIN s : i < Len(s) + 1 /\ Append(s, x)[i] = s[i]
<1> DEFINE t == Append(s, x)
<1>1. /\ t \in Seq(S)
      /\ DOMAIN t = 1 .. Len(s) + 1
      /\ DOMAIN s = 1 .. Len(s)
      /\ Len(s) \in Nat
      /\ t[Len(s) + 1] = x
      /\ \A i \in 1 .. Len(s) : t[i] = s[i]
  OBVIOUS
<1> HIDE DEF t
<1>2. Elements(t) = Elements(s) \cup {x}
  <2>1. ASSUME NEW y \in Elements(t) PROVE y \in Elements(s) \cup {x}
    <3>1. PICK i \in 1 .. Len(s) + 1 : y = t[i]
      BY <1>1 DEF Elements
    <3> QED BY <1>1, <3>1 DEF Elements
  <2>2. ASSUME NEW y \in Elements(s) \cup {x} PROVE y \in Elements(t)
    BY <1>1 DEF Elements
  <2> QED BY <2>1, <2>2
<1> QED BY <1>1, <1>2 DEF t

(* A sequence stays one when the set it draws from grows.                  *)
LEMMA SeqMonotone ==
  ASSUME NEW S, NEW T, S \subseteq T, NEW s \in Seq(S)
  PROVE  s \in Seq(T)
OBVIOUS

(* A sequence with an index is not the empty one.                          *)
LEMMA NotEmpty ==
  ASSUME NEW S, NEW s \in Seq(S), NEW i \in DOMAIN s
  PROVE  s # <<>>
OBVIOUS

(* A stack that holds no cell is the empty stack.                          *)
LEMMA EmptyStack ==
  ASSUME NEW S, NEW s \in Seq(S), Elements(s) = {}
  PROVE  s = <<>>
<1> SUFFICES ASSUME s # <<>> PROVE FALSE
  OBVIOUS
<1> QED BY PopElements

(* The empty list holds nothing.                                           *)
LEMMA NothingOnEmpty == Elements(<<>>) = {} /\ NoDuplicates(<<>>)
BY DEF Elements, NoDuplicates
-----------------------------------------------------------------------------
(* The inductive invariant, of a heap and the blocks held by callers.      *)
Sound(h, blocks) ==
  /\ HeapType(h)
  /\ Tiled(h)
  /\ StacksSound(h)
  /\ Conserved(h, blocks)
  /\ RoomyIn(h, blocks)
  /\ BinsExact(h)
  /\ SkipExact(h)
  /\ BigsExact(h)
  /\ blocks \in [DOMAIN blocks -> Requests]

(* A cell lies behind its header, inside its extent and in the first page, *)
(* so that masking its address finds the header again.                     *)
LEMMA CellFacts ==
  ASSUME NEW h, HeapType(h), Tiled(h),
         NEW p \in DOMAIN h.size, NEW a \in CellsOf(h, p)
  PROVE  /\ a \in Nat
         /\ HeaderOf(a) = p
         /\ a >= p + (IF Small(h, p) THEN BIN_HEADER ELSE BIG_HEADER)
         /\ Usable(h, a) = IF Small(h, p) THEN CellSize(h.size[p]) ELSE h.size[p]
         /\ Usable(h, a) \in Nat \ {0}
         /\ a + Usable(h, a) <= p + Extent(h, p)
<1>1. p \in Nat /\ p % PAGE_SIZE = 0
  BY DEF HeapType, Tiled
<1>2. CASE Small(h, p)
  <2>1. h.size[p] \in SmallBin
    BY <1>2 DEF HeapType, Small, BIG_BIN, NUM_BINS
  <2>2. PICK i \in 0 .. Available(h.size[p]) : a = Cell(p, h.size[p], i)
    BY <1>2 DEF CellsOf, CellsUnder, Small
  <2>3. /\ a \in Nat
        /\ CellSize(h.size[p]) \in Nat \ {0}
        /\ a >= p + BIN_HEADER
        /\ a + CellSize(h.size[p]) <= p + PAGE_SIZE
    BY <1>1, <2>1, <2>2, CellInPage
  <2>4. HeaderOf(a) = p
    <3>1. a >= p /\ a < p + PAGE_SIZE
      BY <1>1, <2>3 DEF BIN_HEADER, PAGE_SIZE
    <3> QED BY <1>1, <2>3, <3>1, HeaderOfCell
  <2>5. Usable(h, a) = CellSize(h.size[p])
    BY <1>2, <2>4 DEF Usable, Small
  <2> QED BY <1>2, <2>3, <2>4, <2>5 DEF Extent
<1>3. CASE ~Small(h, p)
  <2>1. h.size[p] > NUM_BINS /\ h.size[p] \in Nat
    <3>1. /\ h.size[p] \in Nat
          /\ h.size[p] \in SmallBin \/ h.size[p] > NUM_BINS
      BY DEF HeapType
    <3> QED BY <1>3, <3>1 DEF Small, SmallBin, BIG_BIN, NUM_BINS
  <2>2. a = p + BIG_HEADER
    BY <1>3 DEF CellsOf, CellsUnder, Small
  <2>3. a \in Nat /\ HeaderOf(a) = p
    BY <1>1, <2>2, HeaderOfCell DEF BIG_HEADER, PAGE_SIZE
  <2>4. Usable(h, a) = h.size[p]
    BY <1>3, <2>3 DEF Usable, Small
  <2> QED BY <1>1, <1>3, <2>1, <2>2, <2>3, <2>4 DEF Extent, BIG_HEADER, NUM_BINS
<1> QED BY <1>2, <1>3

(* Distinct cells, of one page or of two, have no byte in common.          *)
LEMMA CellsApart ==
  ASSUME NEW h, HeapType(h), Tiled(h),
         NEW p \in DOMAIN h.size, NEW a \in CellsOf(h, p),
         NEW q \in DOMAIN h.size, NEW c \in CellsOf(h, q),
         a < c
  PROVE  a + Usable(h, a) <= c
<1>1. /\ p \in Nat /\ q \in Nat
      /\ p < q => p + Extent(h, p) <= q
      /\ q < p => q + Extent(h, q) <= p
  BY DEF HeapType, Tiled
<1>2. /\ a \in Nat /\ a >= p /\ a + Usable(h, a) <= p + Extent(h, p)
      /\ c \in Nat /\ c >= q /\ c + Usable(h, c) <= q + Extent(h, q)
      /\ Usable(h, a) \in Nat /\ Usable(h, c) \in Nat
  BY <1>1, CellFacts DEF BIN_HEADER, BIG_HEADER
<1>3. Extent(h, p) \in Nat /\ Extent(h, q) \in Nat
  BY DEF HeapType, Extent, PAGE_SIZE, BIG_HEADER
<1>4. CASE p < q
  BY <1>1, <1>2, <1>3, <1>4
<1>5. CASE q < p
  BY <1>1, <1>2, <1>3, <1>5
<1>6. CASE p = q /\ ~Small(h, p)
  BY <1>2, <1>6 DEF CellsOf, CellsUnder, Small
<1>7. CASE p = q /\ Small(h, p)
  <2> DEFINE b == h.size[p]
  <2>1. b \in SmallBin
    BY <1>7 DEF HeapType, Small, BIG_BIN, NUM_BINS
  <2>2. Usable(h, a) = CellSize(b)
    BY <1>7, CellFacts
  <2>3. PICK i \in 0 .. Available(b) : a = Cell(p, b, i)
    BY <1>7 DEF CellsOf, CellsUnder, Small
  <2>4. PICK j \in 0 .. Available(b) : c = Cell(p, b, j)
    BY <1>7 DEF CellsOf, CellsUnder, Small
  <2> HIDE DEF b
  <2>5. Cell(p, b, i) < Cell(p, b, j) => Cell(p, b, i) + CellSize(b) <= Cell(p, b, j)
    <3> SUFFICES ASSUME NEW n \in {4, 8, 16, 32, 64, 128, 256, 512, 1024, 2048},
                        CellSize(b) = n
                 PROVE  p + 12 + i * n < p + 12 + j * n
                          => p + 12 + i * n + n <= p + 12 + j * n
      BY <2>1, SmallBins, CellSizes DEF Cell, BIN_HEADER
    <3>1. i \in Nat /\ j \in Nat
      BY <2>1, SmallBins, CellSizes
    <3> QED BY <1>1, <3>1
  <2> QED BY <2>2, <2>3, <2>4, <2>5
<1> QED BY <1>1, <1>4, <1>5, <1>6, <1>7

(* Blocks that callers hold share no byte and no header.                   *)
LEMMA SoundBlocks ==
  ASSUME NEW h, NEW blocks, Sound(h, blocks)
  PROVE  /\ DOMAIN blocks \subseteq Nat \ {0}
         /\ \A a \in DOMAIN blocks : blocks[a] \in Nat /\ Usable(h, a) \in Nat
         /\ \A a, c \in DOMAIN blocks : a < c => a + blocks[a] <= c
         /\ \A a \in DOMAIN blocks : \A p \in DOMAIN h.size :
              \/ a + blocks[a] <= p
              \/ a >= p + (IF Small(h, p) THEN BIN_HEADER ELSE BIG_HEADER)
<1>1. HeapType(h) /\ Tiled(h)
  BY DEF Sound
<1>2. \A a \in DOMAIN blocks : \E p \in DOMAIN h.size : a \in CellsOf(h, p)
  BY DEF Sound, Conserved
<1>3. \A a \in DOMAIN blocks : blocks[a] \in Nat /\ blocks[a] <= Usable(h, a)
  BY KlMallocAssumption DEF Sound, RoomyIn
<1>4. ASSUME NEW a \in DOMAIN blocks
      PROVE  a \in Nat \ {0} /\ Usable(h, a) \in Nat
  <2>1. PICK p \in DOMAIN h.size : a \in CellsOf(h, p)
    BY <1>2
  <2>2. p \in Nat
    BY <1>1 DEF HeapType
  <2> QED BY <1>1, <2>1, <2>2, CellFacts DEF BIN_HEADER, BIG_HEADER
<1>5. ASSUME NEW a \in DOMAIN blocks, NEW c \in DOMAIN blocks, a < c
      PROVE  a + blocks[a] <= c
  <2>1. PICK p \in DOMAIN h.size : a \in CellsOf(h, p)
    BY <1>2
  <2>2. PICK q \in DOMAIN h.size : c \in CellsOf(h, q)
    BY <1>2
  <2>3. a + Usable(h, a) <= c
    BY <1>1, <1>5, <2>1, <2>2, CellsApart
  <2>4. Usable(h, a) \in Nat
    BY <1>1, <2>1, CellFacts
  <2> QED BY <1>3, <1>4, <2>3, <2>4
<1>6. ASSUME NEW a \in DOMAIN blocks, NEW p \in DOMAIN h.size
      PROVE  \/ a + blocks[a] <= p
             \/ a >= p + (IF Small(h, p) THEN BIN_HEADER ELSE BIG_HEADER)
  <2>1. PICK q \in DOMAIN h.size : a \in CellsOf(h, q)
    BY <1>2
  <2>2. /\ a >= q + (IF Small(h, q) THEN BIN_HEADER ELSE BIG_HEADER)
        /\ a + Usable(h, a) <= q + Extent(h, q)
        /\ Usable(h, a) \in Nat
    BY <1>1, <2>1, CellFacts
  <2>3. /\ p \in Nat /\ q \in Nat
        /\ Extent(h, p) \in Nat /\ Extent(h, q) \in Nat
        /\ Extent(h, p) >= (IF Small(h, p) THEN BIN_HEADER ELSE BIG_HEADER)
        /\ p < q => p + Extent(h, p) <= q
        /\ q < p => q + Extent(h, q) <= p
    BY <1>1 DEF HeapType, Tiled, Extent, PAGE_SIZE, BIG_HEADER, BIN_HEADER
  <2>4. CASE q < p
    BY <1>3, <1>4, <2>2, <2>3, <2>4
  <2>5. CASE p < q
    BY <1>4, <2>2, <2>3, <2>5 DEF BIG_HEADER, BIN_HEADER
  <2> QED BY <2>2, <2>3, <2>4, <2>5
<1> QED BY <1>3, <1>4, <1>5, <1>6
-----------------------------------------------------------------------------
(* Two cells of a page at the same address have the same index.            *)
LEMMA CellInjective ==
  ASSUME NEW b \in SmallBin, NEW p \in Nat, NEW i \in Nat, NEW j \in Nat,
         Cell(p, b, i) = Cell(p, b, j)
  PROVE  i = j
<1> SUFFICES ASSUME NEW m \in {4, 8, 16, 32, 64, 128, 256, 512, 1024, 2048},
                    p + 12 + i * m = p + 12 + j * m
             PROVE  i = j
  BY SmallBins, CellSizes DEF Cell, BIN_HEADER
<1> QED OBVIOUS

(* A page has a number of cells.                                           *)
LEMMA CellsCounted == \A b \in SmallBin : Available(b) \in Nat
<1>1. \A b \in {0, 1, 2, 3, 4, 5, 6, 7, 8, 9} : Available(b) \in Nat
  BY CellSizes
<1> QED BY <1>1, SmallBins

(* The stack klmalloc builds in a new page: every cell of it, once.        *)
LEMMA FreshStack ==
  ASSUME NEW b \in SmallBin, NEW p \in Nat, NEW s,
         s = [i \in 1 .. Available(b) + 1 |-> Cell(p, b, i - 1)]
  PROVE  /\ s \in Seq(Nat)
         /\ s # <<>>
         /\ NoDuplicates(s)
         /\ Elements(s) = {Cell(p, b, i) : i \in 0 .. Available(b)}
<1> DEFINE n == Available(b)
<1>1. n \in Nat
  BY CellsCounted
<1>2. ASSUME NEW i \in 1 .. n + 1
      PROVE  i - 1 \in 0 .. n /\ Cell(p, b, i - 1) \in Nat
  <2>1. i - 1 \in 0 .. n
    BY <1>1
  <2> QED BY <2>1, CellInPage
<1> HIDE DEF n
<1>3. s = [i \in 1 .. n + 1 |-> Cell(p, b, i - 1)]
  BY DEF n
<1>4. s \in Seq(Nat) /\ s # <<>> /\ DOMAIN s = 1 .. n + 1
  <2>1. DOMAIN s = 1 .. n + 1 /\ s \in [1 .. n + 1 -> Nat]
    BY <1>2, <1>3
  <2>2. n + 1 \in Nat
    BY <1>1
  <2>3. s \in Seq(Nat)
    <3>1. PICK l \in Nat : l = n + 1
      BY <2>2
    <3>2. s \in [1 .. l -> Nat]
      BY <2>1, <3>1
    <3> QED BY <3>2, SeqDef, Zenon
  <2>4. 1 \in 1 .. n + 1
    BY <1>1
  <2>5. s # <<>>
    BY <2>1, <2>3, <2>4, NotEmpty
  <2> QED BY <2>1, <2>3, <2>5
<1>5. NoDuplicates(s)
  <2> SUFFICES ASSUME NEW i \in 1 .. n + 1, NEW j \in 1 .. n + 1, s[i] = s[j]
               PROVE  i = j
    BY <1>4 DEF NoDuplicates
  <2>1. i - 1 \in Nat /\ j - 1 \in Nat
    BY <1>1
  <2>2. Cell(p, b, i - 1) = Cell(p, b, j - 1)
    BY <1>3
  <2>3. i - 1 = j - 1
    BY <2>1, <2>2, CellInjective
  <2> QED BY <2>3
<1>6. Elements(s) = {Cell(p, b, i) : i \in 0 .. n}
  <2>1. ASSUME NEW i \in 0 .. n PROVE Cell(p, b, i) \in Elements(s)
    <3>1. i + 1 \in 1 .. n + 1 /\ (i + 1) - 1 = i
      BY <1>1
    <3>2. s[i + 1] = Cell(p, b, i)
      BY <1>3, <3>1
    <3> QED BY <1>4, <3>1, <3>2 DEF Elements
  <2>2. ASSUME NEW y \in Elements(s) PROVE \E i \in 0 .. n : y = Cell(p, b, i)
    <3>1. PICK i \in 1 .. n + 1 : y = s[i]
      BY <1>4 DEF Elements
    <3> QED BY <1>2, <1>3, <3>1
  <2> QED BY <2>1, <2>2
<1> QED BY <1>4, <1>5, <1>6 DEF n

(* Nothing lies at or above brk.                                           *)
LEMMA BrkIsFresh ==
  ASSUME NEW h, HeapType(h), Tiled(h)
  PROVE  /\ h.brk \in Nat
         /\ h.brk \notin DOMAIN h.size
         /\ h.brk % PAGE_SIZE = 0
         /\ h.brk >= HeapBase
         /\ \A p \in DOMAIN h.size : p \in Nat /\ p < h.brk
<1>1. \A p \in DOMAIN h.size : Extent(h, p) \in Nat \ {0}
  BY DEF HeapType, Extent, PAGE_SIZE, BIG_HEADER
<1>2. h.brk \in Nat /\ \A p \in DOMAIN h.size : p \in Nat
  BY DEF HeapType
<1> QED BY <1>1, <1>2 DEF Tiled

(* A new page on an empty list keeps the heap sound.                       *)
LEMMA NewBinSound ==
  ASSUME NEW h, NEW blocks, Sound(h, blocks),
         NEW b \in SmallBin, h.bins[b] = <<>>
  PROVE  Sound(NewBin(h, b), blocks) /\ NewBin(h, b).bins[b] # <<>>
<1> DEFINE p == h.brk
           s == [i \in 1 .. Available(b) + 1 |-> Cell(p, b, i - 1)]
           g == NewBin(h, b)
<1>1. HeapType(h) /\ Tiled(h)
  BY DEF Sound
<1>2. /\ p \in Nat /\ p \notin DOMAIN h.size /\ p % PAGE_SIZE = 0 /\ p >= HeapBase
      /\ \A q \in DOMAIN h.size : q \in Nat /\ q < p
  BY <1>1, BrkIsFresh
<1>3. /\ s \in Seq(Nat) /\ s # <<>> /\ NoDuplicates(s)
      /\ Elements(s) = {Cell(p, b, i) : i \in 0 .. Available(b)}
  BY <1>2, FreshStack
<1>4. /\ DOMAIN g = DOMAIN h
      /\ g.brk = p + PAGE_SIZE
      /\ g.size = Extend(h.size, p, b)
      /\ g.head = Extend(h.head, p, s)
      /\ g.bins = [h.bins EXCEPT ![b] = <<p>> \o h.bins[b]]
      /\ g.skip = h.skip
      /\ g.bigs = h.bigs
  BY <1>1 DEF HeapType, NewBin
<1> HIDE DEF g, s
<1>5. /\ DOMAIN g.size = DOMAIN h.size \cup {p}
      /\ g.size[p] = b /\ g.head[p] = s
      /\ \A q \in DOMAIN h.size : g.size[q] = h.size[q] /\ g.head[q] = h.head[q]
      /\ DOMAIN h.head = DOMAIN h.size
  BY <1>1, <1>2, <1>4 DEF Extend, HeapType
<1>6. Small(g, p) /\ \A q \in DOMAIN h.size : Small(g, q) <=> Small(h, q)
  BY <1>5 DEF Small, SmallBin, BIG_BIN, NUM_BINS
<1>7. \A q \in DOMAIN h.size : Extent(g, q) = Extent(h, q) /\ CellsOf(g, q) = CellsOf(h, q)
  BY <1>5, <1>6, Zenon DEF Extent, CellsOf
<1>8. Extent(g, p) = PAGE_SIZE /\ CellsOf(g, p) = Elements(s)
  BY <1>3, <1>5, <1>6 DEF Extent, CellsOf, CellsUnder, Small
<1>9. g.bins[b] = <<p>> \o <<>> /\ g.bins[b] # <<>> /\ Elements(g.bins[b]) = {p}
      /\ NoDuplicates(g.bins[b]) /\ g.bins[b] \in Seq(DOMAIN g.size)
  <2>1. g.bins[b] = <<p>> \o <<>>
    BY <1>1, <1>4 DEF HeapType
  <2>2. p \in DOMAIN g.size /\ <<>> \in Seq(DOMAIN g.size)
    BY <1>5
  <2>3. /\ <<p>> \o <<>> \in Seq(DOMAIN g.size) /\ <<p>> \o <<>> # <<>>
        /\ Elements(<<p>> \o <<>>) = {p} \cup {}
        /\ NoDuplicates(<<p>> \o <<>>)
    BY <2>2, PushElements, NothingOnEmpty
  <2> QED BY <2>1, <2>3
<1>10. HeapType(g)
  <2>1. g.bins \in [SmallBin -> Seq(DOMAIN g.size)]
    BY <1>1, <1>4, <1>5, <1>9, SeqMonotone DEF HeapType
  <2>2. g.bigs \in Seq(DOMAIN g.size)
    BY <1>1, <1>4, <1>5, SeqMonotone DEF HeapType
  <2>3. g.size \in [DOMAIN g.size -> Nat] /\ g.head \in [DOMAIN g.size -> Seq(Nat)]
    <3>1. b \in Nat
      BY DEF SmallBin, BIG_BIN, NUM_BINS
    <3>2. /\ h.size \in [DOMAIN h.size -> Nat]
          /\ h.head \in [DOMAIN h.size -> Seq(Nat)]
      BY <1>1 DEF HeapType
    <3>3. Extend(h.size, p, b) \in [DOMAIN h.size \cup {p} -> Nat]
      BY <3>1, <3>2, ExtendType
    <3>4. Extend(h.head, p, s) \in [DOMAIN h.size \cup {p} -> Seq(Nat)]
      BY <1>3, <3>2, ExtendType
    <3> QED BY <1>4, <1>5, <3>3, <3>4
  <2>4. g.brk \in Nat /\ g.skip \in SUBSET DOMAIN g.size
    BY <1>1, <1>2, <1>4, <1>5 DEF HeapType, PAGE_SIZE
  <2>5. \A q \in DOMAIN g.size :
          /\ q \in Nat
          /\ \/ g.size[q] \in SmallBin
             \/ /\ g.size[q] > NUM_BINS
                /\ (g.size[q] + BIG_HEADER) % PAGE_SIZE = 0
    BY <1>1, <1>2, <1>5 DEF HeapType
  <2> QED BY <1>1, <1>4, <2>1, <2>2, <2>3, <2>4, <2>5 DEF HeapType
<1>11. Tiled(g)
  <2>1. g.brk % PAGE_SIZE = 0 /\ g.brk >= HeapBase /\ g.brk = p + PAGE_SIZE
    BY <1>2, <1>4, KlMallocAssumption DEF PAGE_SIZE
  <2>2. ASSUME NEW q \in DOMAIN h.size
        PROVE  /\ q % PAGE_SIZE = 0 /\ q >= HeapBase
               /\ q + Extent(g, q) <= p /\ q < p
               /\ Extent(g, q) \in Nat
               /\ \A r \in DOMAIN h.size : q < r => q + Extent(g, q) <= r
    <3>1. Extent(h, q) \in Nat
      BY <1>1 DEF HeapType, Extent, PAGE_SIZE, BIG_HEADER
    <3> QED BY <1>1, <1>2, <1>7, <3>1 DEF Tiled
  <2>3. \A q \in DOMAIN g.size : q \in Nat
    BY <1>2, <1>5
  <2>4. \A q \in DOMAIN g.size : q % PAGE_SIZE = 0 /\ q >= HeapBase
    BY <1>2, <1>5, <2>2
  <2>5. ASSUME NEW q \in DOMAIN g.size
        PROVE  /\ q + Extent(g, q) <= g.brk
               /\ \A r \in DOMAIN g.size : q < r => q + Extent(g, q) <= r
    <3>1. CASE q = p
      <4>1. q + Extent(g, q) <= g.brk
        BY <1>2, <1>8, <2>1, <3>1 DEF PAGE_SIZE
      <4>2. \A r \in DOMAIN g.size : ~(q < r)
        BY <1>2, <1>5, <3>1
      <4> QED BY <4>1, <4>2
    <3>2. CASE q \in DOMAIN h.size
      <4>1. q + Extent(g, q) <= g.brk
        BY <1>2, <2>1, <2>2, <3>2 DEF PAGE_SIZE
      <4>2. \A r \in DOMAIN g.size : q < r => q + Extent(g, q) <= r
        BY <1>5, <2>2, <3>2
      <4> QED BY <4>1, <4>2
    <3> QED BY <1>5, <3>1, <3>2
  <2> QED BY <2>1, <2>4, <2>5 DEF Tiled
<1>12. StacksSound(g)
  BY <1>3, <1>5, <1>7, <1>8 DEF StacksSound, Sound
<1>13. Conserved(g, blocks)
  <2>1. ASSUME NEW a \in DOMAIN blocks PROVE a \notin CellsOf(g, p)
    <3>1. PICK q \in DOMAIN h.size : a \in CellsOf(h, q)
      BY DEF Sound, Conserved
    <3>2. HeaderOf(a) = q /\ q # p
      BY <1>1, <1>2, <3>1, CellFacts
    <3> QED BY <1>5, <1>10, <1>11, <3>2, CellFacts
  <2>2. \A a \in DOMAIN blocks : \E q \in DOMAIN g.size : a \in CellsOf(g, q)
    BY <1>5, <1>7 DEF Sound, Conserved
  <2>3. ASSUME NEW q \in DOMAIN g.size, NEW c \in CellsOf(g, q)
        PROVE  c \in DOMAIN blocks <=> c \notin Elements(g.head[q])
    <3>1. CASE q = p
      BY <1>5, <1>8, <2>1, <2>3, <3>1
    <3>2. CASE q \in DOMAIN h.size
      BY <1>5, <1>7, <2>3, <3>2 DEF Sound, Conserved
    <3> QED BY <1>5, <3>1, <3>2
  <2> QED BY <2>2, <2>3 DEF Conserved
<1>14. RoomyIn(g, blocks)
  <2> SUFFICES ASSUME NEW a \in DOMAIN blocks
               PROVE  Usable(g, a) = Usable(h, a)
    BY DEF Sound, RoomyIn
  <2>1. PICK q \in DOMAIN h.size : a \in CellsOf(h, q)
    BY DEF Sound, Conserved
  <2>2. HeaderOf(a) = q
    BY <1>1, <2>1, CellFacts
  <2> QED BY <1>5, <2>2 DEF Usable
<1>15. BinsExact(g)
  <2>1. \A c \in SmallBin : c # b => g.bins[c] = h.bins[c]
    BY <1>1, <1>4 DEF HeapType
  <2>2. {q \in DOMAIN h.size : h.size[q] = b /\ h.head[q] # <<>>} = {}
    BY NothingOnEmpty DEF Sound, BinsExact
  <2>3. ASSUME NEW c \in SmallBin
        PROVE  /\ NoDuplicates(g.bins[c])
               /\ Elements(g.bins[c]) =
                    {q \in DOMAIN g.size : g.size[q] = c /\ g.head[q] # <<>>}
    <3>1. CASE c = b
      BY <1>3, <1>5, <1>9, <2>2, <3>1
    <3>2. CASE c # b
      <4>1. {q \in DOMAIN g.size : g.size[q] = c /\ g.head[q] # <<>>}
              = {q \in DOMAIN h.size : h.size[q] = c /\ h.head[q] # <<>>}
        BY <1>5, <3>2
      <4> QED BY <2>1, <3>2, <4>1 DEF Sound, BinsExact
    <3> QED BY <3>1, <3>2
  <2> QED BY <2>3 DEF BinsExact
<1>16. SkipExact(g)
  BY <1>4, <1>5, <1>6 DEF Sound, SkipExact
<1>17. BigsExact(g)
  BY <1>4, <1>5, <1>6 DEF Sound, BigsExact
<1> QED
  BY <1>9, <1>10, <1>11, <1>12, <1>13, <1>14, <1>15, <1>16, <1>17 DEF Sound, g
-----------------------------------------------------------------------------
(* Pages and cells depend on brk and the size fields only.                 *)
LEMMA SameShape ==
  ASSUME NEW h, NEW g, g.size = h.size, g.brk = h.brk
  PROVE  /\ Tiled(h) => Tiled(g)
         /\ \A p : Small(g, p) = Small(h, p) /\ CellsOf(g, p) = CellsOf(h, p)
         /\ \A a : Usable(g, a) = Usable(h, a)
<1>1. \A p : Small(g, p) = Small(h, p) /\ CellsOf(g, p) = CellsOf(h, p)
  BY DEF Small, CellsOf
<1>2. \A p : Extent(g, p) = Extent(h, p)
  BY <1>1 DEF Extent
<1>3. \A a : Usable(g, a) = Usable(h, a)
  BY DEF Usable
<1> QED BY <1>1, <1>2, <1>3 DEF Tiled

(* g is h after a was popped from the stack of p, or pushed on it.         *)
Popped(h, g, p, a) ==
  /\ p \in DOMAIN h.size
  /\ h.head[p] # <<>>
  /\ a = Head(h.head[p])
  /\ g.size = h.size
  /\ g.brk = h.brk
  /\ g.head = Extend(h.head, p, Tail(h.head[p]))

Pushed(h, g, p, a) ==
  /\ p \in DOMAIN h.size
  /\ a \in CellsOf(h, p)
  /\ g.size = h.size
  /\ g.brk = h.brk
  /\ g.head = Extend(h.head, p, <<a>> \o h.head[p])

(* The parts of the invariant that the stacks and the blocks decide.       *)
StacksAndBlocks(g, blocks) ==
  /\ Tiled(g)
  /\ StacksSound(g)
  /\ Conserved(g, blocks)
  /\ RoomyIn(g, blocks)
  /\ blocks \in [DOMAIN blocks -> Requests]

(* klmalloc_stack_pop hands out a cell that no caller holds, and moves it  *)
(* from the free cells to the held ones.                                   *)
LEMMA PopStack ==
  ASSUME NEW h, NEW blocks, Sound(h, blocks),
         NEW g, NEW p, NEW a, Popped(h, g, p, a),
         NEW n \in Requests, n <= Usable(h, a)
  PROVE  /\ a \in CellsOf(h, p)
         /\ a \notin DOMAIN blocks
         /\ g.head \in [DOMAIN g.size -> Seq(Nat)]
         /\ g.head[p] = Tail(h.head[p])
         /\ \A q \in DOMAIN h.size : q # p => g.head[q] = h.head[q]
         /\ StacksAndBlocks(g, Extend(blocks, a, n))
<1> USE DEF Popped
<1>1. HeapType(h) /\ Tiled(h) /\ StacksSound(h) /\ Conserved(h, blocks)
      /\ RoomyIn(h, blocks) /\ blocks \in [DOMAIN blocks -> Requests]
  BY DEF Sound
<1>2. h.head \in [DOMAIN h.size -> Seq(Nat)]
  BY <1>1 DEF HeapType
<1>3. /\ Elements(h.head[p]) \subseteq CellsOf(h, p)
      /\ NoDuplicates(h.head[p])
  BY <1>1 DEF StacksSound
<1>4. /\ h.head[p] \in Seq(Nat)
      /\ a \in Elements(h.head[p])
      /\ Tail(h.head[p]) \in Seq(Nat)
      /\ Elements(Tail(h.head[p])) = Elements(h.head[p]) \ {a}
      /\ NoDuplicates(Tail(h.head[p]))
  BY <1>2, <1>3, PopElements
<1>5. a \in CellsOf(h, p) /\ a \notin DOMAIN blocks
  BY <1>1, <1>3, <1>4 DEF Conserved
<1>6. /\ g.head \in [DOMAIN g.size -> Seq(Nat)]
      /\ g.head[p] = Tail(h.head[p])
      /\ \A q \in DOMAIN h.size : q # p => g.head[q] = h.head[q]
  <2>1. DOMAIN h.size \cup {p} = DOMAIN g.size
    OBVIOUS
  <2>2. Extend(h.head, p, Tail(h.head[p])) \in [DOMAIN h.size \cup {p} -> Seq(Nat)]
    BY <1>2, <1>4, ExtendType
  <2>3. DOMAIN h.head = DOMAIN h.size
    BY <1>2
  <2>4. \A q \in DOMAIN h.size : g.head[q] = IF q = p THEN Tail(h.head[p]) ELSE h.head[q]
    BY <2>3 DEF Extend
  <2> QED BY <2>1, <2>2, <2>4
<1>7. /\ Tiled(g)
      /\ \A q : CellsOf(g, q) = CellsOf(h, q)
      /\ \A c : Usable(g, c) = Usable(h, c)
  BY <1>1, SameShape
<1>8. StacksSound(g)
  BY <1>1, <1>3, <1>4, <1>6, <1>7 DEF StacksSound
<1> DEFINE new == Extend(blocks, a, n)
<1>9. /\ DOMAIN new = DOMAIN blocks \cup {a}
      /\ new[a] = n
      /\ \A c \in DOMAIN blocks : new[c] = blocks[c]
      /\ new \in [DOMAIN new -> Requests]
  <2>1. new \in [DOMAIN blocks \cup {a} -> Requests]
    BY <1>1, ExtendType
  <2>2. \A c \in DOMAIN blocks \cup {a} : new[c] = IF c = a THEN n ELSE blocks[c]
    BY DEF Extend
  <2> QED BY <1>5, <2>1, <2>2
<1> HIDE DEF new
<1>10. Conserved(g, new)
  <2>1. ASSUME NEW q \in DOMAIN g.size, NEW c \in CellsOf(g, q)
        PROVE  c \in DOMAIN new <=> c \notin Elements(g.head[q])
    <3>1. CASE q = p
      BY <1>1, <1>4, <1>6, <1>7, <1>9, <2>1, <3>1 DEF Conserved
    <3>2. CASE q # p
      <4>1. HeaderOf(c) = q /\ HeaderOf(a) = p
        BY <1>1, <1>5, <1>7, <2>1, CellFacts
      <4> QED BY <1>1, <1>6, <1>7, <1>9, <2>1, <3>2, <4>1 DEF Conserved
    <3> QED BY <3>1, <3>2
  <2>2. \A c \in DOMAIN new : \E q \in DOMAIN g.size : c \in CellsOf(g, q)
    BY <1>1, <1>5, <1>7, <1>9 DEF Conserved
  <2> QED BY <2>1, <2>2 DEF Conserved
<1>11. RoomyIn(g, new)
  BY <1>1, <1>7, <1>9 DEF RoomyIn
<1> QED
  BY <1>5, <1>6, <1>7, <1>8, <1>9, <1>10, <1>11 DEF new, StacksAndBlocks

(* klmalloc_stack_push moves a held cell back to the free ones.            *)
LEMMA PushStack ==
  ASSUME NEW h, NEW blocks, Sound(h, blocks),
         NEW g, NEW p, NEW a \in DOMAIN blocks, Pushed(h, g, p, a)
  PROVE  /\ g.head \in [DOMAIN g.size -> Seq(Nat)]
         /\ g.head[p] # <<>>
         /\ \A q \in DOMAIN h.size : q # p => g.head[q] = h.head[q]
         /\ StacksAndBlocks(g, Drop(blocks, a))
<1> USE DEF Pushed
<1> DEFINE s == <<a>> \o h.head[p]
<1>1. HeapType(h) /\ Tiled(h) /\ StacksSound(h) /\ Conserved(h, blocks)
      /\ RoomyIn(h, blocks) /\ blocks \in [DOMAIN blocks -> Requests]
  BY DEF Sound
<1>2. h.head \in [DOMAIN h.size -> Seq(Nat)]
  BY <1>1 DEF HeapType
<1>3. /\ Elements(h.head[p]) \subseteq CellsOf(h, p)
      /\ NoDuplicates(h.head[p])
      /\ a \notin Elements(h.head[p])
      /\ a \in Nat
  BY <1>1, CellFacts DEF StacksSound, Conserved
<1>4. /\ s \in Seq(Nat)
      /\ s # <<>>
      /\ Elements(s) = {a} \cup Elements(h.head[p])
      /\ NoDuplicates(s)
  BY <1>2, <1>3, PushElements
<1>5. /\ g.head \in [DOMAIN g.size -> Seq(Nat)]
      /\ g.head[p] = s
      /\ \A q \in DOMAIN h.size : q # p => g.head[q] = h.head[q]
  <2>1. DOMAIN h.size \cup {p} = DOMAIN g.size
    OBVIOUS
  <2>2. Extend(h.head, p, s) \in [DOMAIN h.size \cup {p} -> Seq(Nat)]
    BY <1>2, <1>4 DEF Extend
  <2>3. DOMAIN h.head = DOMAIN h.size
    BY <1>2
  <2>4. \A q \in DOMAIN h.size : g.head[q] = IF q = p THEN s ELSE h.head[q]
    BY <2>3 DEF Extend
  <2> QED BY <2>1, <2>2, <2>4
<1>6. /\ Tiled(g)
      /\ \A q : CellsOf(g, q) = CellsOf(h, q)
      /\ \A c : Usable(g, c) = Usable(h, c)
  BY <1>1, SameShape
<1>7. StacksSound(g)
  BY <1>1, <1>3, <1>4, <1>5, <1>6 DEF StacksSound
<1> DEFINE new == Drop(blocks, a)
<1>8. /\ DOMAIN new = DOMAIN blocks \ {a}
      /\ \A c \in DOMAIN new : new[c] = blocks[c]
      /\ new \in [DOMAIN new -> Requests]
  <2>1. new \in [DOMAIN blocks \ {a} -> Requests]
    BY <1>1, DropType
  <2>2. \A c \in DOMAIN blocks \ {a} : new[c] = blocks[c]
    BY DEF Drop
  <2> QED BY <2>1, <2>2
<1> HIDE DEF new
<1>9. Conserved(g, new)
  <2>1. ASSUME NEW q \in DOMAIN g.size, NEW c \in CellsOf(g, q)
        PROVE  c \in DOMAIN new <=> c \notin Elements(g.head[q])
    <3>1. CASE q = p
      BY <1>1, <1>4, <1>5, <1>6, <1>8, <2>1, <3>1 DEF Conserved
    <3>2. CASE q # p
      <4>1. HeaderOf(c) = q /\ HeaderOf(a) = p
        BY <1>1, <1>6, <2>1, CellFacts
      <4> QED BY <1>1, <1>5, <1>6, <1>8, <2>1, <3>2, <4>1 DEF Conserved
    <3> QED BY <3>1, <3>2
  <2>2. \A c \in DOMAIN new : \E q \in DOMAIN g.size : c \in CellsOf(g, q)
    BY <1>1, <1>6, <1>8 DEF Conserved
  <2> QED BY <2>1, <2>2 DEF Conserved
<1>10. RoomyIn(g, new)
  BY <1>1, <1>6, <1>8 DEF RoomyIn
<1> QED
  BY <1>4, <1>5, <1>6, <1>7, <1>8, <1>9, <1>10 DEF new, StacksAndBlocks
-----------------------------------------------------------------------------
(* klmalloc on a class that has a page with a free cell.                   *)
LEMMA PopCellSound ==
  ASSUME NEW h, NEW blocks, Sound(h, blocks),
         NEW b \in SmallBin, h.bins[b] # <<>>,
         NEW n \in Requests, n <= CellSize(b)
  PROVE  /\ PopCell(h, b).ptr \notin DOMAIN blocks
         /\ Sound(PopCell(h, b).heap, Extend(blocks, PopCell(h, b).ptr, n))
<1> DEFINE p == Head(h.bins[b])
           a == Head(h.head[p])
           g == PopCell(h, b).heap
           list == IF Tail(h.head[p]) = <<>> THEN Tail(h.bins[b]) ELSE h.bins[b]
           new == Extend(blocks, a, n)
<1>1. HeapType(h) /\ Tiled(h) /\ BinsExact(h)
  BY DEF Sound
<1>2. h.bins[b] \in Seq(DOMAIN h.size) /\ NoDuplicates(h.bins[b])
      /\ Elements(h.bins[b]) = {q \in DOMAIN h.size : h.size[q] = b /\ h.head[q] # <<>>}
  BY <1>1 DEF HeapType, BinsExact
<1>3. /\ p \in Elements(h.bins[b])
      /\ Tail(h.bins[b]) \in Seq(DOMAIN h.size)
      /\ Elements(Tail(h.bins[b])) = Elements(h.bins[b]) \ {p}
      /\ NoDuplicates(Tail(h.bins[b]))
  BY <1>2, PopElements
<1>4. p \in DOMAIN h.size /\ h.size[p] = b /\ h.head[p] # <<>>
  BY <1>2, <1>3
<1>5. PopCell(h, b).ptr = a
  BY DEF PopCell
<1>6. /\ DOMAIN g = DOMAIN h
      /\ g.brk = h.brk
      /\ g.size = h.size
      /\ g.head = Extend(h.head, p, Tail(h.head[p]))
      /\ g.bins = [h.bins EXCEPT ![b] = list]
      /\ g.skip = h.skip
      /\ g.bigs = h.bigs
  BY <1>1 DEF HeapType, PopCell
<1>7. Small(h, p)
  BY <1>4 DEF Small, SmallBin, BIG_BIN, NUM_BINS
<1>8. a \in CellsOf(h, p) /\ Usable(h, a) = CellSize(b)
  <2>1. Elements(h.head[p]) \subseteq CellsOf(h, p) /\ h.head[p] \in Seq(Nat)
    BY <1>1, <1>4 DEF Sound, StacksSound, HeapType
  <2>2. a \in CellsOf(h, p)
    BY <1>4, <2>1, PopElements
  <2> QED BY <1>1, <1>4, <1>7, <2>2, CellFacts
<1> HIDE DEF g, p, a, list, new
<1>9. /\ a \notin DOMAIN blocks
      /\ g.head \in [DOMAIN g.size -> Seq(Nat)]
      /\ g.head[p] = Tail(h.head[p])
      /\ \A q \in DOMAIN h.size : q # p => g.head[q] = h.head[q]
      /\ StacksAndBlocks(g, new)
  <2>1. Popped(h, g, p, a) /\ n <= Usable(h, a)
    BY <1>4, <1>6, <1>8 DEF a, Popped
  <2> QED BY <2>1, PopStack DEF new
<1>10. \A q : Small(g, q) = Small(h, q)
  BY <1>6, SameShape
<1>11. /\ g.bins \in [SmallBin -> Seq(DOMAIN g.size)]
       /\ g.bins[b] = list
       /\ \A c \in SmallBin : c # b => g.bins[c] = h.bins[c]
  BY <1>1, <1>2, <1>3, <1>6 DEF HeapType, list
<1>12. HeapType(g)
  BY <1>1, <1>6, <1>9, <1>11 DEF HeapType
<1>13. BinsExact(g)
  <2> SUFFICES ASSUME NEW c \in SmallBin
               PROVE  /\ NoDuplicates(g.bins[c])
                      /\ Elements(g.bins[c]) =
                           {q \in DOMAIN g.size : g.size[q] = c /\ g.head[q] # <<>>}
    BY DEF BinsExact
  <2>1. CASE c # b
    <3>1. {q \in DOMAIN g.size : g.size[q] = c /\ g.head[q] # <<>>}
            = {q \in DOMAIN h.size : h.size[q] = c /\ h.head[q] # <<>>}
      BY <1>4, <1>6, <1>9, <2>1
    <3> QED BY <1>1, <1>11, <2>1, <3>1 DEF BinsExact
  <2>2. CASE c = b /\ Tail(h.head[p]) = <<>>
    <3>1. {q \in DOMAIN g.size : g.size[q] = c /\ g.head[q] # <<>>}
            = {q \in DOMAIN h.size : h.size[q] = c /\ h.head[q] # <<>>} \ {p}
      BY <1>4, <1>6, <1>9, <2>2
    <3> QED BY <1>2, <1>3, <1>11, <2>2, <3>1 DEF list
  <2>3. CASE c = b /\ Tail(h.head[p]) # <<>>
    <3>1. {q \in DOMAIN g.size : g.size[q] = c /\ g.head[q] # <<>>}
            = {q \in DOMAIN h.size : h.size[q] = c /\ h.head[q] # <<>>}
      BY <1>4, <1>6, <1>9, <2>3
    <3> QED BY <1>2, <1>11, <2>3, <3>1 DEF list
  <2> QED BY <2>1, <2>2, <2>3
<1>14. SkipExact(g)
  BY <1>4, <1>6, <1>7, <1>9, <1>10 DEF Sound, SkipExact
<1>15. BigsExact(g)
  BY <1>6, <1>10 DEF Sound, BigsExact
<1>16. Sound(g, new)
  BY <1>9, <1>12, <1>13, <1>14, <1>15 DEF Sound, StacksAndBlocks
<1> QED BY <1>5, <1>9, <1>16 DEF g, new

(* klmalloc of a small request.                                            *)
LEMMA SmallAllocSound ==
  ASSUME NEW h, NEW blocks, Sound(h, blocks),
         NEW n \in Requests, BinSize(n) < BIG_BIN,
         NEW r, r = SmallAlloc(h, BinSize(n))
  PROVE  /\ r.ptr \notin DOMAIN blocks
         /\ Sound(r.heap, Extend(blocks, r.ptr, n))
<1> DEFINE b == BinSize(n)
<1>1. b \in SmallBin /\ n <= CellSize(b)
  BY SmallFits, KlMallocAssumption
<1> HIDE DEF b
<1>2. CASE h.bins[b] = <<>>
  <2>1. Sound(NewBin(h, b), blocks) /\ NewBin(h, b).bins[b] # <<>>
    BY <1>1, <1>2, NewBinSound
  <2>2. r = PopCell(NewBin(h, b), b)
    BY <1>2 DEF SmallAlloc, b
  <2> QED BY <1>1, <2>1, <2>2, PopCellSound
<1>3. CASE h.bins[b] # <<>>
  <2>1. r = PopCell(h, b)
    BY <1>3 DEF SmallAlloc, b
  <2> QED BY <1>1, <1>3, <2>1, PopCellSound
<1> QED BY <1>2, <1>3

(* klmalloc of a big request that a free block answers.                    *)
LEMMA ReuseBigSound ==
  ASSUME NEW h, NEW blocks, Sound(h, blocks),
         NEW n \in Requests, NEW p \in BestFits(h.skip, h.size, n)
  PROVE  /\ ReuseBig(h, p).ptr \notin DOMAIN blocks
         /\ Sound(ReuseBig(h, p).heap, Extend(blocks, ReuseBig(h, p).ptr, n))
<1> DEFINE a == Head(h.head[p])
           g == ReuseBig(h, p).heap
           new == Extend(blocks, a, n)
<1>1. HeapType(h) /\ Tiled(h)
  BY DEF Sound
<1>2. p \in DOMAIN h.size /\ ~Small(h, p) /\ h.head[p] # <<>> /\ p \in h.skip
      /\ h.size[p] >= n
  BY DEF Sound, SkipExact, BestFits
<1>3. /\ ReuseBig(h, p).ptr = a
      /\ DOMAIN g = DOMAIN h
      /\ g.brk = h.brk
      /\ g.size = h.size
      /\ g.head = Extend(h.head, p, Tail(h.head[p]))
      /\ g.bins = h.bins
      /\ g.skip = h.skip \ {p}
      /\ g.bigs = h.bigs
  BY <1>1 DEF HeapType, ReuseBig
<1>4. /\ h.head[p] \in Seq(Nat)
      /\ Elements(h.head[p]) \subseteq CellsOf(h, p)
      /\ NoDuplicates(h.head[p])
      /\ CellsOf(h, p) = {p + BIG_HEADER}
  BY <1>1, <1>2 DEF Sound, StacksSound, HeapType, CellsOf, CellsUnder, Small
<1>5. /\ a \in CellsOf(h, p)
      /\ Tail(h.head[p]) \in Seq(Nat)
      /\ Elements(Tail(h.head[p])) = {}
  BY <1>2, <1>4, PopElements
<1>6. Usable(h, a) = h.size[p]
  BY <1>1, <1>2, <1>5, CellFacts
<1>7. Tail(h.head[p]) = <<>>
  BY <1>5, EmptyStack
<1> HIDE DEF g, a, new
<1>8. /\ a \notin DOMAIN blocks
      /\ g.head \in [DOMAIN g.size -> Seq(Nat)]
      /\ g.head[p] = <<>>
      /\ \A q \in DOMAIN h.size : q # p => g.head[q] = h.head[q]
      /\ StacksAndBlocks(g, new)
  <2>1. Popped(h, g, p, a) /\ n <= Usable(h, a)
    BY <1>2, <1>3, <1>6 DEF a, Popped
  <2>2. /\ a \notin DOMAIN blocks
        /\ g.head \in [DOMAIN g.size -> Seq(Nat)]
        /\ g.head[p] = Tail(h.head[p])
        /\ \A q \in DOMAIN h.size : q # p => g.head[q] = h.head[q]
        /\ StacksAndBlocks(g, new)
    BY <2>1, PopStack DEF new
  <2> QED BY <1>7, <2>2
<1>9. \A q : Small(g, q) = Small(h, q)
  BY <1>3, SameShape
<1>10. HeapType(g)
  BY <1>1, <1>3, <1>8 DEF HeapType
<1>11. BinsExact(g)
  <2> SUFFICES ASSUME NEW c \in SmallBin
               PROVE  {q \in DOMAIN g.size : g.size[q] = c /\ g.head[q] # <<>>}
                        = {q \in DOMAIN h.size : h.size[q] = c /\ h.head[q] # <<>>}
    BY <1>3 DEF Sound, BinsExact
  <2>1. h.size[p] # c
    BY <1>2 DEF Small, SmallBin, BIG_BIN, NUM_BINS
  <2> QED BY <1>3, <1>8, <2>1
<1>12. SkipExact(g)
  BY <1>2, <1>3, <1>8, <1>9 DEF Sound, SkipExact
<1>13. BigsExact(g)
  BY <1>3, <1>9 DEF Sound, BigsExact
<1>14. Sound(g, new)
  BY <1>8, <1>10, <1>11, <1>12, <1>13 DEF Sound, StacksAndBlocks
<1> QED BY <1>3, <1>8, <1>14 DEF g, new

(* klfree gives the cell back and lists its page or block again.           *)
LEMMA FreeBlockSound ==
  ASSUME NEW h, NEW blocks, Sound(h, blocks), NEW a \in DOMAIN blocks
  PROVE  Sound(FreeBlock(h, a), Drop(blocks, a))
<1> DEFINE p == HeaderOf(a)
           g == FreeBlock(h, a)
           new == Drop(blocks, a)
<1>1. HeapType(h) /\ Tiled(h) /\ BinsExact(h) /\ SkipExact(h) /\ BigsExact(h)
  BY DEF Sound
<1>2. p \in DOMAIN h.size /\ a \in CellsOf(h, p)
  <2>1. PICK q \in DOMAIN h.size : a \in CellsOf(h, q)
    BY DEF Sound, Conserved
  <2>2. p = q
    BY <1>1, <2>1, CellFacts
  <2> QED BY <2>1, <2>2
<1>3. h.size[p] > NUM_BINS <=> ~Small(h, p)
  <2>1. h.size[p] \in Nat /\ (h.size[p] \in SmallBin \/ h.size[p] > NUM_BINS)
    BY <1>1, <1>2 DEF HeapType
  <2> QED BY <2>1 DEF Small, SmallBin, BIG_BIN, NUM_BINS
<1>4. ~Small(h, p) => a = p + BIG_HEADER
  BY <1>2 DEF CellsOf, CellsUnder, Small
<1> HIDE DEF p
<1> DEFINE b == h.size[p]
           list == IF h.head[p] = <<>> THEN <<p>> \o h.bins[b] ELSE h.bins[b]
<1>5. /\ DOMAIN g = DOMAIN h
      /\ g.brk = h.brk
      /\ g.size = h.size
      /\ g.head = Extend(h.head, p, <<a>> \o h.head[p])
      /\ g.bins = IF Small(h, p) THEN [h.bins EXCEPT ![b] = list] ELSE h.bins
      /\ g.skip = IF Small(h, p) THEN h.skip ELSE h.skip \cup {p}
      /\ g.bigs = h.bigs
  <2>1. CASE Small(h, p)
    BY <1>1, <1>3, <2>1 DEF HeapType, FreeBlock, p
  <2>2. CASE ~Small(h, p)
    BY <1>1, <1>3, <1>4, <2>2 DEF HeapType, FreeBlock, p
  <2> QED BY <2>1, <2>2
<1> HIDE DEF g, new
<1>6. /\ g.head \in [DOMAIN g.size -> Seq(Nat)]
      /\ g.head[p] # <<>>
      /\ \A q \in DOMAIN h.size : q # p => g.head[q] = h.head[q]
      /\ StacksAndBlocks(g, new)
  <2>1. Pushed(h, g, p, a)
    BY <1>2, <1>5 DEF Pushed
  <2> QED BY <2>1, PushStack DEF new
<1>7. \A q : Small(g, q) = Small(h, q)
  BY <1>5, SameShape
<1>8. ASSUME Small(h, p)
      PROVE  /\ b \in SmallBin
             /\ list \in Seq(DOMAIN h.size)
             /\ NoDuplicates(list)
             /\ Elements(list) = Elements(h.bins[b]) \cup {p}
  <2>1. b \in SmallBin
    BY <1>1, <1>2, <1>3, <1>8 DEF HeapType
  <2>2. /\ h.bins[b] \in Seq(DOMAIN h.size)
        /\ NoDuplicates(h.bins[b])
        /\ Elements(h.bins[b]) = {q \in DOMAIN h.size : h.size[q] = b /\ h.head[q] # <<>>}
    BY <1>1, <2>1 DEF HeapType, BinsExact
  <2>3. CASE h.head[p] = <<>>
    <3>1. p \notin Elements(h.bins[b])
      BY <2>2, <2>3
    <3>2. /\ <<p>> \o h.bins[b] \in Seq(DOMAIN h.size)
          /\ Elements(<<p>> \o h.bins[b]) = {p} \cup Elements(h.bins[b])
          /\ NoDuplicates(<<p>> \o h.bins[b])
      BY <1>2, <2>2, <3>1, PushElements
    <3>3. list = <<p>> \o h.bins[b]
      BY <2>3
    <3> HIDE DEF list
    <3> QED BY <2>1, <3>2, <3>3
  <2>4. CASE h.head[p] # <<>>
    BY <1>2, <2>1, <2>2, <2>4
  <2> QED BY <2>3, <2>4
<1> HIDE DEF list
<1>9. g.bins \in [SmallBin -> Seq(DOMAIN g.size)]
  BY <1>1, <1>5, <1>8 DEF HeapType
<1>10. HeapType(g)
  BY <1>1, <1>2, <1>5, <1>6, <1>9 DEF HeapType
<1>11. BinsExact(g)
  <2> SUFFICES ASSUME NEW c \in SmallBin
               PROVE  /\ NoDuplicates(g.bins[c])
                      /\ Elements(g.bins[c]) =
                           {q \in DOMAIN g.size : g.size[q] = c /\ g.head[q] # <<>>}
    BY DEF BinsExact
  <2>1. CASE c = b
    <3>1. Small(h, p)
      BY <2>1 DEF Small, SmallBin, BIG_BIN, NUM_BINS
    <3>2. g.bins[c] = list
      BY <1>1, <1>5, <1>8, <2>1, <3>1 DEF HeapType
    <3>3. {q \in DOMAIN g.size : g.size[q] = c /\ g.head[q] # <<>>}
            = {q \in DOMAIN h.size : h.size[q] = c /\ h.head[q] # <<>>} \cup {p}
      BY <1>2, <1>5, <1>6, <2>1
    <3> QED BY <1>1, <1>8, <2>1, <3>1, <3>2, <3>3 DEF BinsExact
  <2>2. CASE c # b
    <3>1. g.bins[c] = h.bins[c]
      BY <1>1, <1>5, <2>2 DEF HeapType
    <3>2. {q \in DOMAIN g.size : g.size[q] = c /\ g.head[q] # <<>>}
            = {q \in DOMAIN h.size : h.size[q] = c /\ h.head[q] # <<>>}
      BY <1>2, <1>5, <1>6, <2>2
    <3> QED BY <1>1, <3>1, <3>2 DEF BinsExact
  <2> QED BY <2>1, <2>2
<1>12. SkipExact(g)
  BY <1>1, <1>2, <1>5, <1>6, <1>7 DEF SkipExact
<1>13. BigsExact(g)
  BY <1>1, <1>5, <1>7 DEF BigsExact
<1>14. Sound(g, new)
  BY <1>6, <1>10, <1>11, <1>12, <1>13 DEF Sound, StacksAndBlocks
<1> QED BY <1>14 DEF g, new

(* klmalloc of a big request that no free block answers.                   *)
LEMMA NewBigSound ==
  ASSUME NEW h, NEW blocks, Sound(h, blocks), NEW n \in Requests
  PROVE  /\ NewBig(h, n).ptr \notin DOMAIN blocks
         /\ Sound(NewBig(h, n).heap, Extend(blocks, NewBig(h, n).ptr, n))
<1> DEFINE p == h.brk
           bytes == BigPages(n) * PAGE_SIZE
           a == p + BIG_HEADER
           g == NewBig(h, n).heap
           new == Extend(blocks, a, n)
<1>1. HeapType(h) /\ Tiled(h)
  BY DEF Sound
<1>2. /\ p \in Nat /\ p \notin DOMAIN h.size /\ p % PAGE_SIZE = 0 /\ p >= HeapBase
      /\ \A q \in DOMAIN h.size : q \in Nat /\ q < p
  BY <1>1, BrkIsFresh
<1>3. /\ n \in 1 .. MaxRequest
      /\ bytes \in Nat /\ bytes % PAGE_SIZE = 0 /\ bytes >= PAGE_SIZE
      /\ n <= bytes - BIG_HEADER
  BY BigFits, KlMallocAssumption DEF PAGE_SIZE
<1>4. /\ NewBig(h, n).ptr = a
      /\ DOMAIN g = DOMAIN h
      /\ g.brk = p + bytes
      /\ g.size = Extend(h.size, p, bytes - BIG_HEADER)
      /\ g.head = Extend(h.head, p, <<>>)
      /\ g.bins = h.bins
      /\ g.skip = h.skip
      /\ g.bigs = Append(h.bigs, p)
  BY <1>1 DEF HeapType, NewBig
<1> HIDE DEF g, bytes
<1>5. /\ bytes - BIG_HEADER \in Nat
      /\ bytes - BIG_HEADER > NUM_BINS
      /\ ((bytes - BIG_HEADER) + BIG_HEADER) % PAGE_SIZE = 0
      /\ ~(bytes - BIG_HEADER < BIG_BIN)
  BY <1>3 DEF BIG_HEADER, PAGE_SIZE, NUM_BINS, BIG_BIN
<1>6. /\ DOMAIN g.size = DOMAIN h.size \cup {p}
      /\ g.size[p] = bytes - BIG_HEADER /\ g.head[p] = <<>>
      /\ \A q \in DOMAIN h.size : g.size[q] = h.size[q] /\ g.head[q] = h.head[q]
      /\ DOMAIN h.head = DOMAIN h.size
  BY <1>1, <1>2, <1>4 DEF Extend, HeapType
<1>7. ~Small(g, p) /\ \A q \in DOMAIN h.size : Small(g, q) <=> Small(h, q)
  BY <1>5, <1>6 DEF Small
<1>8. \A q \in DOMAIN h.size : Extent(g, q) = Extent(h, q) /\ CellsOf(g, q) = CellsOf(h, q)
  BY <1>6, <1>7, Zenon DEF Extent, CellsOf
<1>9. Extent(g, p) = bytes /\ CellsOf(g, p) = {a}
  <2>1. CellsOf(g, p) = {a}
    BY <1>5, <1>6 DEF CellsOf, CellsUnder
  <2>2. Extent(g, p) = bytes
    BY <1>3, <1>6, <1>7 DEF Extent, BIG_HEADER
  <2> QED BY <2>1, <2>2
<1>10. /\ g.bigs \in Seq(DOMAIN g.size)
       /\ Elements(g.bigs) = Elements(h.bigs) \cup {p}
       /\ DOMAIN g.bigs = DOMAIN h.bigs \cup {Len(h.bigs) + 1}
       /\ g.bigs[Len(h.bigs) + 1] = p
       /\ \A i \in DOMAIN h.bigs : i < Len(h.bigs) + 1 /\ g.bigs[i] = h.bigs[i]
  <2>1. h.bigs \in Seq(DOMAIN g.size) /\ p \in DOMAIN g.size
    BY <1>1, <1>6, SeqMonotone DEF HeapType
  <2> QED BY <1>4, <2>1, AppendElements
<1>11. HeapType(g)
  <2>1. g.bins \in [SmallBin -> Seq(DOMAIN g.size)]
    BY <1>1, <1>4, <1>6, SeqMonotone DEF HeapType
  <2>2. g.size \in [DOMAIN g.size -> Nat] /\ g.head \in [DOMAIN g.size -> Seq(Nat)]
    <3>1. /\ h.size \in [DOMAIN h.size -> Nat]
          /\ h.head \in [DOMAIN h.size -> Seq(Nat)]
      BY <1>1 DEF HeapType
    <3>2. Extend(h.size, p, bytes - BIG_HEADER) \in [DOMAIN h.size \cup {p} -> Nat]
      BY <1>5, <3>1, ExtendType
    <3>3. Extend(h.head, p, <<>>) \in [DOMAIN h.size \cup {p} -> Seq(Nat)]
      BY <3>1 DEF Extend
    <3> QED BY <1>4, <1>6, <3>2, <3>3
  <2>3. g.brk \in Nat /\ g.skip \in SUBSET DOMAIN g.size
    BY <1>1, <1>2, <1>3, <1>4, <1>6 DEF HeapType
  <2>4. \A q \in DOMAIN g.size :
          /\ q \in Nat
          /\ \/ g.size[q] \in SmallBin
             \/ /\ g.size[q] > NUM_BINS
                /\ (g.size[q] + BIG_HEADER) % PAGE_SIZE = 0
    BY <1>1, <1>2, <1>5, <1>6 DEF HeapType
  <2> QED BY <1>1, <1>4, <1>10, <2>1, <2>2, <2>3, <2>4 DEF HeapType
<1>12. Tiled(g)
  <2>1. g.brk % PAGE_SIZE = 0 /\ g.brk >= HeapBase /\ g.brk = p + bytes
    <3>1. (p + bytes) % PAGE_SIZE = 0
      BY <1>2, <1>3 DEF PAGE_SIZE
    <3>2. p + bytes >= HeapBase
      BY <1>2, <1>3, KlMallocAssumption
    <3> QED BY <1>4, <3>1, <3>2
  <2>2. ASSUME NEW q \in DOMAIN h.size
        PROVE  /\ q % PAGE_SIZE = 0 /\ q >= HeapBase
               /\ q + Extent(g, q) <= p /\ q < p
               /\ Extent(g, q) \in Nat
               /\ \A r \in DOMAIN h.size : q < r => q + Extent(g, q) <= r
    <3>1. Extent(h, q) \in Nat
      BY <1>1 DEF HeapType, Extent, PAGE_SIZE, BIG_HEADER
    <3> QED BY <1>1, <1>2, <1>8, <3>1 DEF Tiled
  <2>3. \A q \in DOMAIN g.size : q \in Nat
    BY <1>2, <1>6
  <2>4. \A q \in DOMAIN g.size : q % PAGE_SIZE = 0 /\ q >= HeapBase
    BY <1>2, <1>6, <2>2
  <2>5. ASSUME NEW q \in DOMAIN g.size
        PROVE  /\ q + Extent(g, q) <= g.brk
               /\ \A r \in DOMAIN g.size : q < r => q + Extent(g, q) <= r
    <3>1. CASE q = p
      <4>1. q + Extent(g, q) <= g.brk
        BY <1>2, <1>3, <1>9, <2>1, <3>1
      <4>2. \A r \in DOMAIN g.size : ~(q < r)
        BY <1>2, <1>6, <3>1
      <4> QED BY <4>1, <4>2
    <3>2. CASE q \in DOMAIN h.size
      <4>1. q + Extent(g, q) <= g.brk
        BY <1>2, <1>3, <2>1, <2>2, <3>2
      <4>2. \A r \in DOMAIN g.size : q < r => q + Extent(g, q) <= r
        BY <1>6, <2>2, <3>2
      <4> QED BY <4>1, <4>2
    <3> QED BY <1>6, <3>1, <3>2
  <2> QED BY <2>1, <2>4, <2>5 DEF Tiled
<1>13. StacksSound(g)
  BY <1>6, <1>8, NothingOnEmpty DEF StacksSound, Sound
<1>14. a \notin DOMAIN blocks
  <2> SUFFICES ASSUME a \in DOMAIN blocks PROVE FALSE
    OBVIOUS
  <2>1. PICK q \in DOMAIN h.size : a \in CellsOf(h, q)
    BY DEF Sound, Conserved
  <2>2. HeaderOf(a) = q
    BY <1>1, <2>1, CellFacts
  <2>3. HeaderOf(a) = p
    BY <1>6, <1>9, <1>11, <1>12, CellFacts
  <2> QED BY <1>2, <2>2, <2>3
<1>15. /\ DOMAIN new = DOMAIN blocks \cup {a}
       /\ new[a] = n
       /\ \A c \in DOMAIN blocks : new[c] = blocks[c]
       /\ new \in [DOMAIN new -> Requests]
  <2>1. blocks \in [DOMAIN blocks -> Requests]
    BY DEF Sound
  <2>2. new \in [DOMAIN blocks \cup {a} -> Requests]
    BY <2>1, ExtendType
  <2>3. \A c \in DOMAIN blocks \cup {a} : new[c] = IF c = a THEN n ELSE blocks[c]
    BY DEF Extend
  <2> QED BY <1>14, <2>2, <2>3
<1> HIDE DEF new
<1>16. Conserved(g, new)
  <2>1. ASSUME NEW q \in DOMAIN g.size, NEW c \in CellsOf(g, q)
        PROVE  c \in DOMAIN new <=> c \notin Elements(g.head[q])
    <3>1. CASE q = p
      BY <1>6, <1>9, <1>15, <2>1, <3>1, NothingOnEmpty
    <3>2. CASE q \in DOMAIN h.size
      <4>1. c # a
        <5>1. HeaderOf(a) = p /\ HeaderOf(c) = q
          BY <1>6, <1>9, <1>11, <1>12, <2>1, CellFacts
        <5> QED BY <1>2, <3>2, <5>1
      <4> QED BY <1>6, <1>8, <1>15, <2>1, <3>2, <4>1 DEF Sound, Conserved
    <3> QED BY <1>6, <3>1, <3>2
  <2>2. ASSUME NEW c \in DOMAIN new PROVE \E q \in DOMAIN g.size : c \in CellsOf(g, q)
    BY <1>6, <1>8, <1>9, <1>15 DEF Sound, Conserved
  <2> QED BY <2>1, <2>2 DEF Conserved
<1>17. RoomyIn(g, new)
  <2>1. new[a] <= Usable(g, a)
    BY <1>3, <1>6, <1>7, <1>9, <1>11, <1>12, <1>15, CellFacts
  <2>2. ASSUME NEW c \in DOMAIN blocks PROVE new[c] <= Usable(g, c)
    <3>1. PICK q \in DOMAIN h.size : c \in CellsOf(h, q)
      BY DEF Sound, Conserved
    <3>2. HeaderOf(c) = q
      BY <1>1, <3>1, CellFacts
    <3>3. Usable(g, c) = Usable(h, c)
      BY <1>6, <3>2 DEF Usable
    <3> QED BY <1>15, <3>3 DEF Sound, RoomyIn
  <2> QED BY <1>15, <2>1, <2>2 DEF RoomyIn
<1>18. BinsExact(g)
  <2> SUFFICES ASSUME NEW c \in SmallBin
               PROVE  {q \in DOMAIN g.size : g.size[q] = c /\ g.head[q] # <<>>}
                        = {q \in DOMAIN h.size : h.size[q] = c /\ h.head[q] # <<>>}
    BY <1>4 DEF Sound, BinsExact
  <2> QED BY <1>6
<1>19. SkipExact(g)
  BY <1>4, <1>6, <1>7 DEF Sound, SkipExact
<1>20. BigsExact(g)
  <2>1. /\ Elements(h.bigs) = {q \in DOMAIN h.size : ~Small(h, q)}
        /\ \A i, j \in DOMAIN h.bigs : i < j => h.bigs[i] < h.bigs[j]
    BY DEF Sound, BigsExact
  <2>2. Elements(g.bigs) = {q \in DOMAIN g.size : ~Small(g, q)}
    BY <1>6, <1>7, <1>10, <2>1
  <2>3. \A i \in DOMAIN h.bigs : h.bigs[i] < p /\ i \in Nat
    BY <1>1, <1>2 DEF HeapType
  <2>4. ASSUME NEW i \in DOMAIN g.bigs, NEW j \in DOMAIN g.bigs, i < j
        PROVE  g.bigs[i] < g.bigs[j]
    <3>1. Len(h.bigs) \in Nat
      BY <1>1 DEF HeapType
    <3>2. i # Len(h.bigs) + 1
      BY <1>10, <2>3, <2>4, <3>1
    <3> QED BY <1>10, <2>1, <2>3, <2>4, <3>2
  <2> QED BY <2>2, <2>4 DEF BigsExact
<1>21. Sound(g, new)
  BY <1>11, <1>12, <1>13, <1>15, <1>16, <1>17, <1>18, <1>19, <1>20 DEF Sound
<1> QED BY <1>4, <1>14, <1>21 DEF g, new
-----------------------------------------------------------------------------
(* Every answer klmalloc can give is a fresh block and keeps the heap      *)
(* sound.                                                                  *)
LEMMA AllocsSound ==
  ASSUME NEW h, NEW blocks, Sound(h, blocks),
         NEW n \in Requests, NEW r \in Allocs(h, n)
  PROVE  /\ r.ptr \notin DOMAIN blocks
         /\ Sound(r.heap, Extend(blocks, r.ptr, n))
<1>1. CASE BinSize(n) < BIG_BIN
  <2>1. r = SmallAlloc(h, BinSize(n))
    BY <1>1 DEF Allocs
  <2> QED BY <1>1, <2>1, SmallAllocSound
<1>2. CASE ~(BinSize(n) < BIG_BIN) /\ BestFits(h.skip, h.size, n) = {}
  <2>1. r = NewBig(h, n)
    BY <1>2 DEF Allocs
  <2> QED BY <2>1, NewBigSound
<1>3. CASE ~(BinSize(n) < BIG_BIN) /\ BestFits(h.skip, h.size, n) # {}
  <2>1. PICK p \in BestFits(h.skip, h.size, n) : r = ReuseBig(h, p)
    BY <1>3 DEF Allocs
  <2> QED BY <2>1, ReuseBigSound
<1> QED BY <1>1, <1>2, <1>3

(* A resize in place keeps the heap sound: the size field, be it a class   *)
(* or a number of bytes, is never more than the bytes of the block.        *)
LEMMA InPlaceSound ==
  ASSUME NEW h, NEW blocks, Sound(h, blocks),
         NEW a \in DOMAIN blocks, NEW n \in Requests,
         h.size[HeaderOf(a)] >= n
  PROVE  Sound(h, [blocks EXCEPT ![a] = n])
<1> DEFINE new == [blocks EXCEPT ![a] = n]
<1>1. HeapType(h) /\ Tiled(h) /\ blocks \in [DOMAIN blocks -> Requests]
  BY DEF Sound
<1>2. PICK p \in DOMAIN h.size : a \in CellsOf(h, p)
  BY DEF Sound, Conserved
<1>3. HeaderOf(a) = p /\ Usable(h, a) \in Nat
      /\ Usable(h, a) = IF Small(h, p) THEN CellSize(h.size[p]) ELSE h.size[p]
  BY <1>1, <1>2, CellFacts
<1>4. n \in Nat /\ h.size[p] \in Nat /\ n <= h.size[p]
  BY <1>1, <1>3, KlMallocAssumption DEF HeapType
<1>5. n <= Usable(h, a)
  <2>1. CASE Small(h, p)
    <3>1. h.size[p] \in SmallBin
      BY <1>1, <2>1 DEF HeapType, Small, BIG_BIN, NUM_BINS
    <3>2. \A b \in SmallBin : b <= CellSize(b) /\ CellSize(b) \in Nat
      BY SmallBins, CellSizes
    <3> QED BY <1>3, <1>4, <2>1, <3>1, <3>2
  <2>2. CASE ~Small(h, p)
    BY <1>3, <1>4, <2>2
  <2> QED BY <2>1, <2>2
<1>6. /\ DOMAIN new = DOMAIN blocks
      /\ new[a] = n
      /\ \A c \in DOMAIN blocks : c # a => new[c] = blocks[c]
      /\ new \in [DOMAIN new -> Requests]
  BY <1>1
<1> HIDE DEF new
<1>7. RoomyIn(h, new)
  BY <1>5, <1>6 DEF Sound, RoomyIn
<1>8. Conserved(h, new)
  BY <1>6 DEF Sound, Conserved
<1>9. Sound(h, new)
  BY <1>6, <1>7, <1>8 DEF Sound
<1> QED BY <1>9 DEF new

(* sbrk moves heap_end by whole pages, also when it then halts.            *)
LEMMA GrowthSound ==
  ASSUME NEW h, NEW blocks, Sound(h, blocks), NEW n \in Requests
  PROVE  Sound([h EXCEPT !.brk = h.brk + Growth(h, n)], blocks)
<1> DEFINE g == [h EXCEPT !.brk = h.brk + Growth(h, n)]
<1>1. HeapType(h) /\ Tiled(h)
  BY DEF Sound
<1>2. Growth(h, n) \in Nat /\ Growth(h, n) % PAGE_SIZE = 0
  <2>1. /\ BigPages(n) * PAGE_SIZE \in Nat
        /\ (BigPages(n) * PAGE_SIZE) % PAGE_SIZE = 0
    BY BigFits, KlMallocAssumption DEF PAGE_SIZE
  <2>2. PAGE_SIZE \in Nat /\ PAGE_SIZE % PAGE_SIZE = 0 /\ 0 % PAGE_SIZE = 0
    BY DEF PAGE_SIZE
  <2> QED BY <2>1, <2>2 DEF Growth
<1>3. /\ DOMAIN g = DOMAIN h
      /\ g.brk = h.brk + Growth(h, n)
      /\ g.size = h.size /\ g.head = h.head /\ g.bins = h.bins
      /\ g.skip = h.skip /\ g.bigs = h.bigs
  BY <1>1 DEF HeapType
<1> HIDE DEF g
<1>4. g.brk \in Nat /\ g.brk >= h.brk /\ g.brk % PAGE_SIZE = 0
  BY <1>1, <1>2, <1>3, BrkIsFresh DEF PAGE_SIZE
<1>5. /\ \A q : Small(g, q) = Small(h, q) /\ CellsOf(g, q) = CellsOf(h, q)
      /\ \A q : Extent(g, q) = Extent(h, q)
      /\ \A c : Usable(g, c) = Usable(h, c)
  BY <1>3 DEF Small, CellsOf, Extent, Usable
<1>6. HeapType(g)
  BY <1>1, <1>3, <1>4 DEF HeapType
<1>7. Tiled(g)
  <2>1. /\ h.brk \in Nat /\ g.brk >= HeapBase
        /\ \A q \in DOMAIN h.size : q \in Nat /\ Extent(h, q) \in Nat
    <3>1. h.brk \in Nat /\ h.brk >= HeapBase
      BY <1>1, BrkIsFresh
    <3>2. g.brk >= HeapBase
      BY <1>4, <3>1, KlMallocAssumption
    <3>3. \A q \in DOMAIN h.size : q \in Nat /\ Extent(h, q) \in Nat
      BY <1>1 DEF HeapType, Extent, PAGE_SIZE, BIG_HEADER
    <3> QED BY <3>1, <3>2, <3>3
  <2>2. \A q \in DOMAIN h.size : q + Extent(h, q) <= g.brk
    BY <1>1, <1>4, <2>1 DEF Tiled
  <2> QED BY <1>1, <1>3, <1>4, <1>5, <2>1, <2>2 DEF Tiled
<1>8. StacksSound(g) /\ Conserved(g, blocks) /\ RoomyIn(g, blocks)
  BY <1>3, <1>5 DEF Sound, StacksSound, Conserved, RoomyIn
<1>9. BinsExact(g) /\ SkipExact(g) /\ BigsExact(g)
  BY <1>3, <1>5 DEF Sound, BinsExact, SkipExact, BigsExact
<1>10. Sound(g, blocks)
  BY <1>6, <1>7, <1>8, <1>9 DEF Sound
<1> QED BY <1>10 DEF g
-----------------------------------------------------------------------------
(***************************************************************************)
(* The theorems.                                                           *)
(***************************************************************************)
(* The inductive invariant of the specification.                           *)
IInv ==
  /\ Sound(heap, live)
  /\ held \in Int
  /\ halted \in BOOLEAN
  /\ spill \in Nat

(* The state of the allocator before its first call is sound.              *)
LEMMA InitSound == Init => IInv
<1> SUFFICES ASSUME Init PROVE IInv
  OBVIOUS
<1>1. /\ DOMAIN heap = {"brk", "size", "head", "bins", "skip", "bigs"}
      /\ heap.brk = HeapBase /\ HeapBase \in Nat /\ HeapBase % PAGE_SIZE = 0
      /\ DOMAIN heap.size = {} /\ DOMAIN heap.head = {}
      /\ heap.size \in [{} -> Nat] /\ heap.head \in [{} -> Seq(Nat)]
      /\ \A b \in SmallBin : heap.bins[b] = <<>>
      /\ heap.bins \in [SmallBin -> Seq({})]
      /\ heap.skip = {} /\ heap.bigs = <<>> /\ heap.bigs \in Seq({})
  BY KlMallocAssumption DEF Init, EmptyHeap
<1>2. DOMAIN live = {} /\ live \in [DOMAIN live -> Requests]
  BY DEF Init
<1>3. HeapType(heap)
  BY <1>1 DEF HeapType
<1>4. Tiled(heap)
  BY <1>1 DEF Tiled
<1>5. StacksSound(heap) /\ Conserved(heap, live) /\ RoomyIn(heap, live)
  BY <1>1, <1>2 DEF StacksSound, Conserved, RoomyIn
<1>6. BinsExact(heap) /\ SkipExact(heap)
  BY <1>1, NothingOnEmpty DEF BinsExact, SkipExact
<1>7. BigsExact(heap)
  BY <1>1, NothingOnEmpty DEF BigsExact
<1>8. held \in Int /\ halted \in BOOLEAN /\ spill \in Nat
  <2>1. held = 0 /\ spill = 0
    BY DEF Init
  <2>2. halted \in BOOLEAN
    BY Zenon DEF Init
  <2> QED BY <2>1, <2>2
<1> QED BY <1>2, <1>3, <1>4, <1>5, <1>6, <1>7, <1>8 DEF IInv, Sound

(* Every call of the allocator keeps it sound.                             *)
LEMMA NextSound == IInv /\ [Next]_vars => IInv'
<1> SUFFICES ASSUME IInv, [Next]_vars PROVE IInv'
  OBVIOUS
<1>1. Sound(heap, live) /\ held \in Int /\ halted \in BOOLEAN /\ spill \in Nat
  BY DEF IInv
<1>2. ASSUME NEW n \in Requests, MallocCall(n) PROVE IInv'
  <2>1. PICK r \in Allocs(heap, n) : heap' = r.heap /\ live' = Extend(live, r.ptr, n)
    BY <1>2 DEF MallocCall
  <2>2. Sound(r.heap, Extend(live, r.ptr, n))
    BY <1>1, AllocsSound
  <2>3. held' = held + 1 /\ halted' = halted /\ spill' = spill
    BY <1>2 DEF MallocCall
  <2> QED BY <1>1, <2>1, <2>2, <2>3 DEF IInv
<1>3. ASSUME NEW ptr \in DOMAIN live, FreeCall(ptr) PROVE IInv'
  <2>1. Sound(FreeBlock(heap, ptr), Drop(live, ptr))
    BY <1>1, FreeBlockSound
  <2>2. /\ heap' = FreeBlock(heap, ptr) /\ live' = Drop(live, ptr)
        /\ held' = held - 1 /\ halted' = halted /\ spill' = spill
    BY <1>3 DEF FreeCall
  <2> QED BY <1>1, <2>1, <2>2 DEF IInv
<1>4. ASSUME NEW ptr \in DOMAIN live, NEW n \in Requests, ReallocInPlace(ptr, n)
      PROVE  IInv'
  <2>1. /\ heap.size[HeaderOf(ptr)] >= n
        /\ live' = [live EXCEPT ![ptr] = n] /\ heap' = heap
        /\ held' = held /\ halted' = halted /\ spill' = spill
    BY <1>4 DEF ReallocInPlace
  <2>2. Sound(heap, [live EXCEPT ![ptr] = n])
    BY <1>1, <2>1, InPlaceSound
  <2> QED BY <1>1, <2>1, <2>2 DEF IInv
<1>5. ASSUME NEW ptr \in DOMAIN live, NEW n \in Requests, ReallocMove(ptr, n)
      PROVE  IInv'
  <2>1. PICK r \in Allocs(heap, n) :
          heap' = FreeBlock(r.heap, ptr) /\ live' = Drop(Extend(live, r.ptr, n), ptr)
    BY <1>5 DEF ReallocMove
  <2>2. Sound(r.heap, Extend(live, r.ptr, n))
    BY <1>1, AllocsSound
  <2>3. ptr \in DOMAIN Extend(live, r.ptr, n)
    BY DEF Extend
  <2>4. Sound(FreeBlock(r.heap, ptr), Drop(Extend(live, r.ptr, n), ptr))
    BY <2>2, <2>3, FreeBlockSound
  <2>5. held' = held /\ halted' = halted /\ spill' = spill
    BY <1>5 DEF ReallocMove
  <2> QED BY <1>1, <2>1, <2>4, <2>5 DEF IInv
<1>6. ASSUME NEW ptr \in DOMAIN live, NEW n \in Requests, ReallocSpill(ptr, n)
      PROVE  IInv'
  <2>1. PICK r \in Allocs(heap, n) :
          /\ Usable(heap, ptr) > Usable(r.heap, r.ptr)
          /\ heap' = r.heap /\ live' = Extend(live, r.ptr, n)
          /\ spill' = Usable(heap, ptr) - Usable(r.heap, r.ptr)
    BY <1>6 DEF ReallocSpill
  <2>2. Sound(r.heap, Extend(live, r.ptr, n))
    BY <1>1, AllocsSound
  <2>3. r.ptr \in DOMAIN Extend(live, r.ptr, n)
    BY DEF Extend
  <2>4. Usable(heap, ptr) \in Nat /\ Usable(r.heap, r.ptr) \in Nat
    BY <1>1, <2>2, <2>3, SoundBlocks
  <2>5. held' = held + 1 /\ halted' = halted
    BY <1>6 DEF ReallocSpill
  <2> QED BY <1>1, <2>1, <2>2, <2>4, <2>5 DEF IInv
<1>7. ASSUME NEW n \in Requests, OutOfFrames(n) PROVE IInv'
  <2>1. /\ heap' = [heap EXCEPT !.brk = heap.brk + Growth(heap, n)]
        /\ live' = live /\ held' = held /\ halted' = TRUE /\ spill' = spill
    BY <1>7 DEF OutOfFrames
  <2>2. Sound([heap EXCEPT !.brk = heap.brk + Growth(heap, n)], live)
    BY <1>1, GrowthSound
  <2> QED BY <1>1, <2>1, <2>2 DEF IInv
<1>8. CASE UNCHANGED vars
  BY <1>1, <1>8 DEF IInv, vars
<1>9. CASE HaltLoop \/ Overwritten
  BY <1>8, <1>9 DEF HaltLoop, Overwritten
<1> QED BY <1>2, <1>3, <1>4, <1>5, <1>6, <1>7, <1>8, <1>9 DEF Next

(* The allocator is sound in every state it reaches.                       *)
THEOREM Invariance == Spec => []IInv
BY InitSound, NextSound, PTL DEF Spec

(* The type invariant: heap records keep their shape, and a size field is  *)
(* always either a class or the bytes of whole pages less the header.      *)
THEOREM TypeCorrect == Spec => []TypeOK
<1>1. IInv => TypeOK
  BY DEF IInv, Sound, TypeOK
<1> QED BY <1>1, Invariance, PTL

(* Headers tile the heap below heap_end, so that klfree finds the header   *)
(* of every pointer by masking it.                                         *)
THEOREM TilingHolds == Spec => []HeapTiled
<1>1. IInv => HeapTiled
  BY DEF IInv, Sound, HeapTiled
<1> QED BY <1>1, Invariance, PTL

(* klmalloc, klfree and klrealloc neither lose a cell nor hand one out     *)
(* twice.                                                                  *)
THEOREM Conservation == Spec => []CellsConserved
<1>1. IInv => CellsConserved
  BY DEF IInv, Sound, CellsConserved
<1> QED BY <1>1, Invariance, PTL

(* A page is in the list of its class exactly while it has a free cell,    *)
(* a big block in the skip list exactly while it is free.                  *)
THEOREM ExactLists == Spec => []ListsExact
<1>1. IInv => ListsExact
  BY DEF IInv, Sound, ListsExact
<1> QED BY <1>1, Invariance, PTL

(* Every block keeps the bytes its caller asked for.                       *)
THEOREM RoomForRequests == Spec => []Roomy
<1>1. IInv => Roomy
  BY DEF IInv, Sound, Roomy
<1> QED BY <1>1, Invariance, PTL

(* Blocks held at the same time share no byte.                             *)
THEOREM Disjointness == Spec => []BlocksDisjoint
<1>1. IInv => BlocksDisjoint
  BY SoundBlocks DEF IInv, BlocksDisjoint
<1> QED BY <1>1, Invariance, PTL

(* No block reaches into a header of the allocator.                        *)
THEOREM HeadersUntouched == Spec => []HeadersSafe
<1>1. IInv => HeadersSafe
  BY SoundBlocks DEF IInv, HeadersSafe
<1> QED BY <1>1, Invariance, PTL

(* A block that a sound heap added to the held ones lies in free bytes.    *)
LEMMA FreshBlock ==
  ASSUME NEW h, NEW blocks, NEW p, NEW n,
         Sound(h, Extend(blocks, p, n)), p \notin DOMAIN blocks
  PROVE  p \in Nat \ {0} /\ M!Disjoint(p, n, blocks)
<1> DEFINE new == Extend(blocks, p, n)
<1>1. /\ DOMAIN new = DOMAIN blocks \cup {p}
      /\ new[p] = n
      /\ \A q \in DOMAIN blocks : new[q] = blocks[q]
  BY DEF Extend
<1> HIDE DEF new
<1>2. /\ DOMAIN new \subseteq Nat \ {0}
      /\ \A a, c \in DOMAIN new : a < c => a + new[a] <= c
  BY SoundBlocks DEF new
<1>3. ASSUME NEW q \in DOMAIN blocks PROVE p + n <= q \/ q + blocks[q] <= p
  <2>1. p \in DOMAIN new /\ q \in DOMAIN new /\ p # q
    BY <1>1
  <2>2. p < q \/ q < p
    BY <1>2, <2>1
  <2> QED BY <1>1, <1>2, <2>1, <2>2
<1> QED BY <1>1, <1>2, <1>3 DEF M!Disjoint

(* Every step of the slab allocator is a step the contract of malloc       *)
(* allows, or changes nothing a caller can see.                            *)
LEMMA StepRefines == IInv /\ [Next]_vars => [M!Next]_(M!vars)
<1> SUFFICES ASSUME IInv, [Next]_vars PROVE [M!Next]_(M!vars)
  OBVIOUS
<1>1. Sound(heap, live)
  BY DEF IInv
<1>2. ASSUME NEW n \in Requests, NEW r \in Allocs(heap, n), ~halted,
             live' = Extend(live, r.ptr, n), held' = held + 1, halted' = halted
      PROVE  M!Next
  <2>1. r.ptr \notin DOMAIN live /\ Sound(r.heap, Extend(live, r.ptr, n))
    BY <1>1, AllocsSound
  <2>2. r.ptr \in Nat \ {0} /\ M!Disjoint(r.ptr, n, live)
    BY <2>1, FreshBlock
  <2>3. r.ptr \in DOMAIN live'
    BY <1>2 DEF Extend
  <2>4. M!Alloc(n)
    BY <1>2, <2>2, <2>3 DEF M!Alloc, M!Extend, Extend
  <2> QED BY <1>2, <2>4 DEF M!Next, M!Serve
<1>3. ASSUME NEW n \in Requests, MallocCall(n) PROVE M!Next
  BY <1>2, <1>3 DEF MallocCall, Running
<1>4. ASSUME NEW ptr \in DOMAIN live, NEW n \in Requests, ReallocSpill(ptr, n)
      PROVE  M!Next
  BY <1>2, <1>4 DEF ReallocSpill, Running
<1>5. ASSUME NEW ptr \in DOMAIN live, FreeCall(ptr) PROVE M!Next
  BY <1>5 DEF FreeCall, Running, M!Next, M!Serve, M!Free, M!Drop, Drop
<1>6. ASSUME NEW ptr \in DOMAIN live, NEW n \in Requests, ReallocInPlace(ptr, n)
      PROVE  M!Next
  <2>1. /\ ~halted /\ heap.size[HeaderOf(ptr)] >= n
        /\ live' = [live EXCEPT ![ptr] = n]
        /\ held' = held /\ halted' = halted
    BY <1>6 DEF ReallocInPlace, Running
  <2> DEFINE old == Drop(live, ptr)
  <2>2. /\ DOMAIN old = DOMAIN live \ {ptr}
        /\ \A q \in DOMAIN old : old[q] = live[q]
    BY DEF Drop
  <2>3. [live EXCEPT ![ptr] = n] = Extend(live, ptr, n)
    <3>1. DOMAIN live \cup {ptr} = DOMAIN live
      OBVIOUS
    <3>2. [live EXCEPT ![ptr] = n] =
            [y \in DOMAIN live |-> IF y = ptr THEN n ELSE live[y]]
      OBVIOUS
    <3> QED BY <3>1, <3>2 DEF Extend
  <2>4. Extend(old, ptr, n) = Extend(live, ptr, n)
    <3>1. DOMAIN old \cup {ptr} = DOMAIN live \cup {ptr}
      BY <2>2
    <3>2. \A y \in DOMAIN live \cup {ptr} :
            (IF y = ptr THEN n ELSE old[y]) = (IF y = ptr THEN n ELSE live[y])
      BY <2>2
    <3> HIDE DEF old
    <3> QED BY <3>1, <3>2 DEF Extend
  <2>5. Sound(heap, Extend(old, ptr, n))
    BY <1>1, <2>1, <2>3, <2>4, InPlaceSound
  <2>6. M!Disjoint(ptr, n, old)
    BY <2>2, <2>5, FreshBlock
  <2>7. M!Resize(ptr, n)
    BY <2>1, <2>3, <2>6 DEF M!Resize, M!Extend, M!Drop, Extend, Drop
  <2> QED BY <2>1, <2>7 DEF M!Next, M!Serve
<1>7. ASSUME NEW ptr \in DOMAIN live, NEW n \in Requests, ReallocMove(ptr, n)
      PROVE  M!Next
  <2>1. ~halted /\ held' = held /\ halted' = halted
    BY <1>7 DEF ReallocMove, Running
  <2>2. PICK r \in Allocs(heap, n) : live' = Drop(Extend(live, r.ptr, n), ptr)
    BY <1>7 DEF ReallocMove
  <2>3. r.ptr \notin DOMAIN live /\ Sound(r.heap, Extend(live, r.ptr, n))
    BY <1>1, AllocsSound
  <2>4. r.ptr \in Nat \ {0} /\ M!Disjoint(r.ptr, n, live)
    BY <2>3, FreshBlock
  <2>5. r.ptr \in DOMAIN live'
    BY <2>2, <2>3 DEF Extend, Drop
  <2>6. M!Resize(ptr, n)
    BY <2>1, <2>2, <2>4, <2>5 DEF M!Resize, M!Extend, M!Drop, Extend, Drop
  <2> QED BY <2>1, <2>6 DEF M!Next, M!Serve
<1>8. ASSUME NEW n \in Requests, OutOfFrames(n) PROVE M!Next
  BY <1>8 DEF OutOfFrames, Running, M!Next, M!Halt
<1>9. CASE UNCHANGED vars \/ HaltLoop \/ Overwritten
  BY <1>9 DEF vars, M!vars, HaltLoop, Overwritten
<1> QED
  BY <1>3, <1>4, <1>5, <1>6, <1>7, <1>8, <1>9 DEF Next

(* The slab allocator implements the contract of malloc, realloc and free. *)
THEOREM Refinement == Spec => ImplementsMalloc
<1>1. Init => M!Init
  BY DEF Init, M!Init
<1>2. IInv /\ [Next]_vars => [M!Next]_(M!vars)
  BY StepRefines
<1> QED BY <1>1, <1>2, Invariance, PTL DEF Spec, ImplementsMalloc, M!Spec
-----------------------------------------------------------------------------
(***************************************************************************)
(* When the heap grows.                                                    *)
(***************************************************************************)
(* Best fit finds a block whenever one is large enough.                    *)
LEMMA BestFitFinds ==
  ASSUME NEW F, NEW size, \A c \in F : size[c] \in Nat, NEW n \in Nat,
         BestFits(F, size, n) = {}
  PROVE  \A c \in F : size[c] < n
<1> SUFFICES ASSUME NEW c \in F, size[c] >= n PROVE FALSE
  OBVIOUS
<1> DEFINE T == {size[d] : d \in {e \in F : size[e] >= n}}
<1>1. T \in SUBSET Nat /\ T # {}
  OBVIOUS
<1>2. PICK x \in T : \A y \in T : x <= y
  BY <1>1, LeastElement
<1>3. PICK d \in F : size[d] >= n /\ x = size[d]
  OBVIOUS
<1>4. d \in BestFits(F, size, n)
  BY <1>2, <1>3 DEF BestFits
<1> QED BY <1>4

(* A page or a big block that an allocation adds is one it needed: no      *)
(* header it had before could have served the request.                     *)
LEMMA GrowthNeeded ==
  ASSUME NEW h, NEW blocks, Sound(h, blocks),
         NEW n \in Requests, NEW r \in Allocs(h, n),
         NEW p \in DOMAIN h.size, h.head[p] # <<>>,
         NEW q \in DOMAIN r.heap.size \ DOMAIN h.size
  PROVE  IF Small(r.heap, q) THEN h.size[p] # r.heap.size[q]
         ELSE Small(h, p) \/ h.size[p] < n
<1>1. /\ HeapType(h) /\ Tiled(h) /\ BinsExact(h) /\ SkipExact(h)
      /\ n \in 1 .. MaxRequest /\ n \in Nat
  <2>1. n \in 1 .. MaxRequest
    BY KlMallocAssumption
  <2> QED BY <2>1, MaxRequestIs DEF Sound
<1>2. DOMAIN h = {"brk", "size", "head", "bins", "skip", "bigs"}
  BY <1>1 DEF HeapType
<1>3. CASE BinSize(n) < BIG_BIN
  <2> DEFINE b == BinSize(n)
             g == IF h.bins[b] = <<>> THEN NewBin(h, b) ELSE h
  <2>1. b \in SmallBin
    BY <1>1, <1>3, SmallFits
  <2>2. r = PopCell(g, b)
    BY <1>3 DEF Allocs, SmallAlloc
  <2>3. r.heap.size = g.size
    BY <1>2, <2>2 DEF PopCell, NewBin
  <2>4. h.bins[b] = <<>> /\ q = h.brk /\ r.heap.size[q] = b
    BY <1>2, <2>3 DEF NewBin, Extend
  <2>5. p \notin Elements(h.bins[b])
    BY <2>4 DEF Elements
  <2>6. h.size[p] # b
    BY <1>1, <2>1, <2>5 DEF BinsExact
  <2> QED BY <1>3, <2>4, <2>6 DEF Small
<1>4. CASE ~(BinSize(n) < BIG_BIN) /\ BestFits(h.skip, h.size, n) = {}
  <2>1. r = NewBig(h, n)
    BY <1>4 DEF Allocs
  <2>2. q = h.brk /\ r.heap.size[q] = BigPages(n) * PAGE_SIZE - BIG_HEADER
    BY <1>2, <2>1 DEF NewBig, Extend
  <2>3. ~Small(r.heap, q)
    BY <1>1, <2>2, BigFits DEF Small, BIG_BIN, NUM_BINS, PAGE_SIZE, BIG_HEADER
  <2>4. \A c \in h.skip : h.size[c] \in Nat
    BY <1>1 DEF HeapType
  <2>5. \A c \in h.skip : h.size[c] < n
    BY <1>1, <1>4, <2>4, BestFitFinds
  <2>6. Small(h, p) \/ p \in h.skip
    BY <1>1 DEF SkipExact
  <2> QED BY <2>3, <2>5, <2>6
<1>5. CASE ~(BinSize(n) < BIG_BIN) /\ BestFits(h.skip, h.size, n) # {}
  <2>1. PICK d \in BestFits(h.skip, h.size, n) : r = ReuseBig(h, d)
    BY <1>5 DEF Allocs
  <2>2. r.heap.size = h.size
    BY <1>2, <2>1 DEF ReuseBig
  <2> QED BY <2>2
<1> QED BY <1>3, <1>4, <1>5

(* klfree changes no size field.                                           *)
LEMMA FreeKeepsSizes ==
  ASSUME NEW h, HeapType(h), NEW ptr
  PROVE  FreeBlock(h, ptr).size = h.size
<1>1. DOMAIN h = {"brk", "size", "head", "bins", "skip", "bigs"}
  BY DEF HeapType
<1> QED BY <1>1 DEF FreeBlock

(* klmalloc and klrealloc call sbrk only when no page of the class has a   *)
(* free cell, or no free big block is large enough.                        *)
THEOREM GrowthIsNeeded == Spec => GrowOnlyWhenFull
<1> DEFINE Needed ==
      \A p \in DOMAIN heap.size, q \in DOMAIN heap'.size \ DOMAIN heap.size :
        heap.head[p] # <<>> =>
          IF Small(heap', q) THEN heap.size[p] # heap'.size[q]
          ELSE \A a \in DOMAIN live' \ DOMAIN live :
                 Small(heap, p) \/ heap.size[p] < live'[a]
<1>1. IInv /\ [Next]_vars => Needed \/ UNCHANGED vars
  <2> SUFFICES ASSUME IInv, [Next]_vars,
                      NEW p \in DOMAIN heap.size, heap.head[p] # <<>>,
                      NEW q \in DOMAIN heap'.size \ DOMAIN heap.size
               PROVE  IF Small(heap', q) THEN heap.size[p] # heap'.size[q]
                      ELSE \A a \in DOMAIN live' \ DOMAIN live :
                             Small(heap, p) \/ heap.size[p] < live'[a]
    OBVIOUS
  <2>1. Sound(heap, live) /\ HeapType(heap)
    BY DEF IInv, Sound
  <2>2. DOMAIN heap = {"brk", "size", "head", "bins", "skip", "bigs"}
    BY <2>1 DEF HeapType
  <2>3. ASSUME NEW n \in Requests, NEW r \in Allocs(heap, n),
               heap'.size = r.heap.size,
               \A a \in DOMAIN live' \ DOMAIN live : live'[a] = n
        PROVE  IF Small(heap', q) THEN heap.size[p] # heap'.size[q]
               ELSE \A a \in DOMAIN live' \ DOMAIN live :
                      Small(heap, p) \/ heap.size[p] < live'[a]
    <3>1. IF Small(r.heap, q) THEN heap.size[p] # r.heap.size[q]
          ELSE Small(heap, p) \/ heap.size[p] < n
      BY <2>1, <2>3, GrowthNeeded
    <3> QED BY <2>3, <3>1 DEF Small
  <2>4. ASSUME NEW n \in Requests, MallocCall(n) PROVE \E r \in Allocs(heap, n) :
             /\ heap'.size = r.heap.size
             /\ \A a \in DOMAIN live' \ DOMAIN live : live'[a] = n
    BY <2>4 DEF MallocCall, Extend
  <2>5. ASSUME NEW ptr \in DOMAIN live, NEW n \in Requests, ReallocSpill(ptr, n)
        PROVE  \E r \in Allocs(heap, n) :
                 /\ heap'.size = r.heap.size
                 /\ \A a \in DOMAIN live' \ DOMAIN live : live'[a] = n
    BY <2>5 DEF ReallocSpill, Extend
  <2>6. ASSUME NEW ptr \in DOMAIN live, NEW n \in Requests, ReallocMove(ptr, n)
        PROVE  \E r \in Allocs(heap, n) :
                 /\ heap'.size = r.heap.size
                 /\ \A a \in DOMAIN live' \ DOMAIN live : live'[a] = n
    <3>1. PICK r \in Allocs(heap, n) :
            /\ heap' = FreeBlock(r.heap, ptr)
            /\ live' = Drop(Extend(live, r.ptr, n), ptr)
      BY <2>6 DEF ReallocMove
    <3>2. HeapType(r.heap)
      BY <2>1, AllocsSound DEF Sound
    <3> QED BY <3>1, <3>2, FreeKeepsSizes DEF Extend, Drop
  <2>7. ASSUME NEW ptr \in DOMAIN live, FreeCall(ptr) PROVE FALSE
    BY <2>1, <2>7, FreeKeepsSizes DEF FreeCall
  <2>8. ASSUME NEW n \in Requests, OutOfFrames(n) PROVE FALSE
    BY <2>2, <2>8 DEF OutOfFrames
  <2>9. ASSUME NEW ptr \in DOMAIN live, NEW n \in Requests, ReallocInPlace(ptr, n)
        PROVE  FALSE
    BY <2>9 DEF ReallocInPlace
  <2>10. CASE UNCHANGED vars \/ HaltLoop \/ Overwritten
    BY <2>10 DEF vars, HaltLoop, Overwritten
  <2> QED
    BY <2>3, <2>4, <2>5, <2>6, <2>7, <2>8, <2>9, <2>10 DEF Next
<1> QED BY <1>1, Invariance, PTL DEF Spec, GrowOnlyWhenFull
=============================================================================
