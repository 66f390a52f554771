----------------------------- MODULE SizeClass -----------------------------
(***************************************************************************)
(* The size classes of the slab allocator in core/alloc.c and the layout   *)
(* of its pages, as computed by the 32-bit build: 10 small classes of 4 to *)
(* 2048 bytes and one class for everything larger.                         *)
(***************************************************************************)
EXTENDS Integers

NUM_BINS == 11
SMALLEST_BIN_LOG == 2
BIG_BIN == NUM_BINS - 1
PAGE_SIZE == 4096
BIN_HEADER == 12     \* sizeof(klmalloc_bin_header)
BIG_HEADER == 44     \* sizeof(klmalloc_big_bin_header)

(* Bound of the requests considered: no heap of this kernel is larger, and *)
(* TLC can compute the powers of two up to there.                          *)
MaxRequest == 2^30 - 1

SmallBin == 0 .. BIG_BIN - 1
CellSize(b) == 2^(SMALLEST_BIN_LOG + b)

(* sizeof(size) * CHAR_BIT - __builtin_clzl(size)                          *)
BitLength(n) == CHOOSE k \in 1 .. 30 : 2^(k - 1) <= n /\ n < 2^k

(* Mutated form: the bound test comes before the subtraction.              *)
AdjustBinUnshifted(bin) ==
  IF bin <= SMALLEST_BIN_LOG THEN 0
  ELSE IF bin > BIG_BIN THEN BIG_BIN
  ELSE bin - (SMALLEST_BIN_LOG + 1)

AdjustBin(bin) ==
  IF bin <= SMALLEST_BIN_LOG THEN 0
  ELSE IF bin - (SMALLEST_BIN_LOG + 1) > BIG_BIN THEN BIG_BIN
  ELSE bin - (SMALLEST_BIN_LOG + 1)

(* Mutated form: sizes that are no power of two are rounded down.          *)
BinSizeFloor(n) == AdjustBin(BitLength(n))

(* klmalloc_bin_size: the class of a request.                              *)
BinSize(n) ==
  AdjustBin(BitLength(n) + (IF n = 2^(BitLength(n) - 1) THEN 0 ELSE 1))

(* Mutated form: the header is not counted.                                *)
BigPagesBare(n) == n \div PAGE_SIZE + 1

(* Pages a new big block takes, header included.                           *)
BigPages(n) == (n + BIG_HEADER) \div PAGE_SIZE + 1

(* Mutated form: one cell too many.                                        *)
AvailableOver(b) == (PAGE_SIZE - BIN_HEADER) \div CellSize(b)

(* The index of the last cell of a page of class b.                        *)
Available(b) == (PAGE_SIZE - BIN_HEADER) \div CellSize(b) - 1

(* Mutated form: the cells start at the header.                            *)
CellAtHeader(p, b, i) == p + i * CellSize(b)

Cell(p, b, i) == p + BIN_HEADER + i * CellSize(b)
=============================================================================
