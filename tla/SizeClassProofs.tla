-------------------------- MODULE SizeClassProofs --------------------------
(***************************************************************************)
(* Proofs about the size-class arithmetic (MCSizeClass): what its run      *)
(* finds on the requests it visits holds for every request below 1 GB.     *)
(***************************************************************************)
EXTENDS MCSizeClass, SizeClassLemmas

(* The request the run is at is one the code accepts.                      *)
Accepted == n \in 1 .. MaxRequest

(* The class of any request is the smallest one whose cells hold it.       *)
LEMMA Tightest == Accepted => ClassIsTightest
<1> SUFFICES ASSUME n \in 1 .. MaxRequest PROVE ClassIsTightest
  BY DEF Accepted
<1> DEFINE fitting == {b \in SmallBin : n <= CellSize(b)}
<1>1. CASE n > 2048
  <2>1. fitting = {} /\ BinSize(n) = BIG_BIN
    BY <1>1, ClassOf, CellSizes, SmallBins DEF BIG_BIN, NUM_BINS
  <2> QED BY <2>1 DEF ClassIsTightest
<1>2. CASE n <= 2048
  <2>1. BinSize(n) \in fitting
    BY <1>2, ClassOf, CellSizes, SmallBins
  <2>2. \A b \in fitting : BinSize(n) <= b
    BY <1>2, ClassOf, CellSizes, SmallBins
  <2> QED BY <2>1, <2>2 DEF ClassIsTightest
<1> QED BY <1>1, <1>2

(* A new big block holds any request and wastes at most a page.            *)
LEMMA BlockHolds == Accepted => BigBlockHolds
BY MaxRequestIs DEF BigBlockHolds, Holds, BigPages, PAGE_SIZE, BIG_HEADER, NUM_BINS, Accepted

(* The cells of every small class fill the page behind the header.         *)
LEMMA CellsFill == Accepted => CellsFillPage
<1> SUFFICES ASSUME n \in 1 .. MaxRequest, BinSize(n) < BIG_BIN
             PROVE  CellsFillPage
  BY DEF CellsFillPage, Accepted
<1>1. BinSize(n) \in SmallBin
  BY SmallFits
<1> QED
  BY <1>1, CellSizes, SmallBins
  DEF CellsFillPage, Cell, BIN_HEADER, PAGE_SIZE, BIG_BIN, NUM_BINS

(* Every request the run visits is accepted.                               *)
LEMMA InRange == Spec => []Accepted
<1> USE DEF Accepted
<1>1. Init => Accepted
  BY MaxRequestIs, SMT DEF Init
<1>2. ASSUME NEW m \in Sparse PROVE m \in 1 .. MaxRequest
  <2>1. PICK k \in 12 .. 29 : m \in {TwoTo(k) - 1, TwoTo(k), TwoTo(k) + 1}
    BY Zenon DEF Sparse, TwoTo
  <2>2. TwoTo(k) \in Nat /\ PAGE_SIZE <= TwoTo(k) /\ TwoTo(k) + 1 <= MaxRequest
    BY LargePowers, Zenon
  <2> QED BY <2>1, <2>2, MaxRequestIs, SMT DEF PAGE_SIZE
<1>3. Accepted /\ [Step \/ Jump]_n => Accepted'
  BY <1>2, MaxRequestIs, MCSizeClassAssumption, SMT DEF Step, Jump
<1> HIDE DEF Accepted
<1> QED BY <1>1, <1>3, PTL DEF Spec

(* klmalloc_bin_size gives the tightest class.                             *)
THEOREM ClassTightest == Spec => []ClassIsTightest
BY Tightest, InRange, PTL

(* klmalloc's page count for a big block is the least that leaves a byte   *)
(* to spare, and one more than needed only where request and header fill   *)
(* whole pages.                                                            *)
THEOREM BigBlocksHold == Spec => []BigBlockHolds
BY BlockHolds, InRange, PTL

(* The cells klmalloc cuts a page into stay inside the page and fill it.   *)
THEOREM CellsFillPages == Spec => []CellsFillPage
BY CellsFill, InRange, PTL
=============================================================================
