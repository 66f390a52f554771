-------------------------- MODULE SizeClassLemmas --------------------------
(***************************************************************************)
(* Facts about the size classes (SizeClass) that the proofs about klmalloc *)
(* rest on, for every request below 1 GB, and the least element of a set   *)
(* of natural numbers, which stands in for an induction where one is       *)
(* needed.                                                                 *)
(*                                                                         *)
(* The solver knows 2^k only for a number k, so what holds for every power *)
(* is proved power by power, once, in ClassOf.                             *)
(***************************************************************************)
EXTENDS SizeClass, TLAPS, WellFoundedInduction

(* A set of natural numbers has a least element.                           *)
LEMMA LeastElement ==
  ASSUME NEW T \in SUBSET Nat, T # {}
  PROVE  \E x \in T : \A y \in T : x <= y
<1> DEFINE R == {ss \in Nat \X Nat : ss[1] < ss[2]}
<1>1. IsWellFoundedOn(R, Nat)
  BY NatLessThanWellFounded, Zenon DEF OpToRel
<1>2. ASSUME NEW a \in Nat, NEW b \in Nat, a < b PROVE <<a, b>> \in R
  BY <1>2
<1> HIDE DEF R
<1>3. PICK x \in T : \A y \in T : ~(<<y, x>> \in R)
  BY <1>1, WFMin
<1>4. \A y \in T : x <= y
  <2> SUFFICES ASSUME NEW y \in T, y < x PROVE FALSE
    OBVIOUS
  <2> QED BY <1>2, <1>3
<1> QED BY <1>4

(* Each size class as a number, which is all the solver needs of 2^n.      *)
LEMMA CellSizes ==
  /\ CellSize(0) = 4    /\ Available(0) = 1020
  /\ CellSize(1) = 8    /\ Available(1) = 509
  /\ CellSize(2) = 16   /\ Available(2) = 254
  /\ CellSize(3) = 32   /\ Available(3) = 126
  /\ CellSize(4) = 64   /\ Available(4) = 62
  /\ CellSize(5) = 128  /\ Available(5) = 30
  /\ CellSize(6) = 256  /\ Available(6) = 14
  /\ CellSize(7) = 512  /\ Available(7) = 6
  /\ CellSize(8) = 1024 /\ Available(8) = 2
  /\ CellSize(9) = 2048 /\ Available(9) = 0
BY DEF CellSize, Available, SMALLEST_BIN_LOG, PAGE_SIZE, BIN_HEADER

(* The small classes, listed.                                              *)
LEMMA SmallBins == SmallBin = {0, 1, 2, 3, 4, 5, 6, 7, 8, 9}
BY DEF SmallBin, BIG_BIN, NUM_BINS

(* The powers of two up to a page.                                         *)
LEMMA PowersOfTwo ==
  /\ 2^0 = 1 /\ 2^1 = 2 /\ 2^2 = 4 /\ 2^3 = 8 /\ 2^4 = 16
  /\ 2^5 = 32 /\ 2^6 = 64 /\ 2^7 = 128 /\ 2^8 = 256 /\ 2^9 = 512
  /\ 2^10 = 1024 /\ 2^11 = 2048 /\ 2^12 = 4096
OBVIOUS

(* The bound of the requests is a number.                                  *)
LEMMA MaxRequestIs == MaxRequest \in Nat /\ MaxRequest >= 4096
BY SMT DEF MaxRequest

(* A power of two under a name, so that its value stays out of sight.      *)
TwoTo(k) == 2^k

(* The powers of two from a page up to half of the bound.                  *)
LEMMA LargePowers ==
  ASSUME NEW k \in 12 .. 29
  PROVE  TwoTo(k) \in Nat /\ PAGE_SIZE <= TwoTo(k) /\ TwoTo(k) + 1 <= MaxRequest
<1> USE DEF MaxRequest, TwoTo, PAGE_SIZE
<1>1. CASE k = 12 BY <1>1, SMT
<1>2. CASE k = 13 BY <1>2, SMT
<1>3. CASE k = 14 BY <1>3, SMT
<1>4. CASE k = 15 BY <1>4, SMT
<1>5. CASE k = 16 BY <1>5, SMT
<1>6. CASE k = 17 BY <1>6, SMT
<1>7. CASE k = 18 BY <1>7, SMT
<1>8. CASE k = 19 BY <1>8, SMT
<1>9. CASE k = 20 BY <1>9, SMT
<1>10. CASE k = 21 BY <1>10, SMT
<1>11. CASE k = 22 BY <1>11, SMT
<1>12. CASE k = 23 BY <1>12, SMT
<1>13. CASE k = 24 BY <1>13, SMT
<1>14. CASE k = 25 BY <1>14, SMT
<1>15. CASE k = 26 BY <1>15, SMT
<1>16. CASE k = 27 BY <1>16, SMT
<1>17. CASE k = 28 BY <1>17, SMT
<1>18. CASE k = 29 BY <1>18, SMT
<1> QED
  BY <1>1, <1>2, <1>3, <1>4, <1>5, <1>6, <1>7, <1>8, <1>9,
     <1>10, <1>11, <1>12, <1>13, <1>14, <1>15, <1>16, <1>17, <1>18, SMT

(* The leading-zero count finds the bit length of every request.           *)
LEMMA BitLengthCorrect ==
  ASSUME NEW n \in 1 .. MaxRequest
  PROVE  /\ BitLength(n) \in 1 .. 30
         /\ 2^(BitLength(n) - 1) <= n
         /\ n < 2^BitLength(n)
<1>1. \E k \in 1 .. 30 : 2^(k - 1) <= n /\ n < 2^k
  BY DEF MaxRequest
<1> QED BY <1>1, Zenon DEF BitLength

(* The class of a request, interval by interval.                           *)
LEMMA ClassOf ==
  ASSUME NEW n \in 1 .. MaxRequest
  PROVE  /\ n <= 4 => BinSize(n) = 0
         /\ 4 < n /\ n <= 8 => BinSize(n) = 1
         /\ 8 < n /\ n <= 16 => BinSize(n) = 2
         /\ 16 < n /\ n <= 32 => BinSize(n) = 3
         /\ 32 < n /\ n <= 64 => BinSize(n) = 4
         /\ 64 < n /\ n <= 128 => BinSize(n) = 5
         /\ 128 < n /\ n <= 256 => BinSize(n) = 6
         /\ 256 < n /\ n <= 512 => BinSize(n) = 7
         /\ 512 < n /\ n <= 1024 => BinSize(n) = 8
         /\ 1024 < n /\ n <= 2048 => BinSize(n) = 9
         /\ 2048 < n => BinSize(n) = 10
<1> DEFINE k == BitLength(n)
<1>1. k \in 1 .. 30 /\ 2^(k - 1) <= n /\ n < 2^k
  BY BitLengthCorrect
<1> HIDE DEF k
<1>2. BinSize(n) = AdjustBin(k + (IF n = 2^(k - 1) THEN 0 ELSE 1))
  BY DEF BinSize, k
<1>15. k > 12 => k - 1 \in 12 .. 29 /\ 2048 < n
  <2> SUFFICES ASSUME k > 12 PROVE k - 1 \in 12 .. 29 /\ 2048 < n
    OBVIOUS
  <2>1. k - 1 \in 12 .. 29
    BY <1>1
  <2>2. TwoTo(k - 1) \in Nat /\ PAGE_SIZE <= TwoTo(k - 1)
    BY <2>1, LargePowers, Zenon
  <2>3. TwoTo(k - 1) <= n
    BY <1>1, Zenon DEF TwoTo
  <2> QED BY <2>1, <2>2, <2>3 DEF PAGE_SIZE
<1> USE PowersOfTwo DEF AdjustBin, SMALLEST_BIN_LOG, BIG_BIN, NUM_BINS
<1>3. CASE k = 1
  BY <1>1, <1>2, <1>3
<1>4. CASE k = 2
  BY <1>1, <1>2, <1>4
<1>5. CASE k = 3
  BY <1>1, <1>2, <1>5
<1>6. CASE k = 4
  BY <1>1, <1>2, <1>6
<1>7. CASE k = 5
  BY <1>1, <1>2, <1>7
<1>8. CASE k = 6
  BY <1>1, <1>2, <1>8
<1>9. CASE k = 7
  BY <1>1, <1>2, <1>9
<1>10. CASE k = 8
  BY <1>1, <1>2, <1>10
<1>11. CASE k = 9
  BY <1>1, <1>2, <1>11
<1>12. CASE k = 10
  BY <1>1, <1>2, <1>12
<1>13. CASE k = 11
  BY <1>1, <1>2, <1>13
<1>14. CASE k = 12
  BY <1>1, <1>2, <1>14
<1>16. CASE k > 12
  BY <1>1, <1>2, <1>15, <1>16
<1> QED BY <1>1, <1>3, <1>4, <1>5, <1>6, <1>7, <1>8, <1>9, <1>10, <1>11, <1>12, <1>13, <1>14, <1>16

(* A request that goes to a small class fits its cells.                    *)
LEMMA SmallFits ==
  ASSUME NEW n \in 1 .. MaxRequest, BinSize(n) < BIG_BIN
  PROVE  BinSize(n) \in SmallBin /\ n <= CellSize(BinSize(n))
BY ClassOf, CellSizes, SmallBins DEF BIG_BIN, NUM_BINS

(* A new big block is whole pages and holds the request.                   *)
LEMMA BigFits ==
  ASSUME NEW n \in 1 .. MaxRequest
  PROVE  /\ BigPages(n) \in Nat \ {0}
         /\ (BigPages(n) * PAGE_SIZE) % PAGE_SIZE = 0
         /\ BigPages(n) * PAGE_SIZE >= PAGE_SIZE
         /\ n <= BigPages(n) * PAGE_SIZE - BIG_HEADER
BY DEF BigPages, PAGE_SIZE, BIG_HEADER, MaxRequest

=============================================================================
