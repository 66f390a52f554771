---------------------------- MODULE MCSizeClass ----------------------------
(***************************************************************************)
(* Checks the size-class arithmetic of klmalloc on every request up to     *)
(* Dense and on the three values around each power of two above it.        *)
(***************************************************************************)
EXTENDS SizeClass

CONSTANT Dense      \* requests are taken one by one up to here

ASSUME MCSizeClassAssumption == Dense \in 1 .. MaxRequest

VARIABLE n          \* the request

Sparse == {m \in UNION {{2^k - 1, 2^k, 2^k + 1} : k \in 12 .. 29} : m > Dense}

Init == n = 1
Step == n < Dense /\ n' = n + 1
Jump == n >= Dense /\ n' \in Sparse
Spec == Init /\ [][Step \/ Jump]_n

(* The class klmalloc_bin_size computes with a leading-zero count is the   *)
(* smallest one whose cells hold the request, and the big class exactly    *)
(* when no cell does.                                                      *)
ClassIsTightest ==
  LET fitting == {b \in SmallBin : n <= CellSize(b)}
  IN  IF fitting = {} THEN BinSize(n) = BIG_BIN
      ELSE /\ BinSize(n) \in fitting
           /\ \A b \in fitting : BinSize(n) <= b

(* A big block of that many pages has room for so many bytes.              *)
Holds(pages, bytes) == bytes + BIG_HEADER <= pages * PAGE_SIZE

(* The pages klmalloc takes for a new big block are the fewest that hold   *)
(* the request and leave a byte to spare.  One page less would do just     *)
(* when request and header fill whole pages: then klmalloc takes one page  *)
(* more than it needs.  The size left cannot be read as a class by klfree. *)
BigBlockHolds ==
  LET pages == BigPages(n)
  IN  /\ Holds(pages, n + 1) /\ ~Holds(pages - 1, n + 1)
      /\ Holds(pages - 1, n) <=> (n + BIG_HEADER) % PAGE_SIZE = 0
      /\ pages * PAGE_SIZE - BIG_HEADER > NUM_BINS

(* The cells of a class stay between the header and the end of the page,   *)
(* and no further cell would fit.                                          *)
CellsFillPage ==
  BinSize(n) < BIG_BIN =>
    LET b == BinSize(n)
        end == Cell(0, b, Available(b)) + CellSize(b)
    IN  /\ Cell(0, b, 0) >= BIN_HEADER
        /\ end <= PAGE_SIZE
        /\ end + CellSize(b) > PAGE_SIZE
=============================================================================
