------------------------------ MODULE MemProofs ------------------------------
(***************************************************************************)
(* Theorems about Mem: on every machine whose structures have their room   *)
(* (Fits), the kernel comes up on pages mapped to themselves and stays on  *)
(* them through every sbrk, no frame backs two pages, none is lost, and    *)
(* the image is never written.                                             *)
(*                                                                         *)
(* The placement allocator, the bitmap and the tables share words, so the  *)
(* invariant says of every page of memory that holds a structure what is   *)
(* in it (Layout).  It is exact: pages are mapped in order and frames are  *)
(* found in order, so page p always gets frame p.  A word is spoken of by  *)
(* its page and its place in the page (At), and two words are told apart   *)
(* by these numbers.                                                       *)
(***************************************************************************)
EXTENDS Mem, TLAPS, FiniteSetTheorems, WellFoundedInduction

Slot == 0 .. ENTRIES - 1
AllPages == ENTRIES * ENTRIES

(* The word at place k of page p.                                          *)
At(p, k) == p * PAGE + WORD * k
-----------------------------------------------------------------------------
(***************************************************************************)
(* Numbers.                                                                *)
(***************************************************************************)
(* A set of natural numbers has a least element.                           *)
LEMMA LeastElement ==
  ASSUME NEW T \in SUBSET Nat, T # {}
  PROVE  \E x \in T : \A y \in T : x <= y
<1> DEFINE R == {ss \in Nat \X Nat : ss[1] < ss[2]}
<1>1. IsWellFoundedOn(R, Nat)
  BY NatLessThanWellFounded, Zenon DEF OpToRel
<1>2. ASSUME NEW a \in Nat, NEW b \in Nat, a < b PROVE <<a, b>> \in R
  BY <1>2
<1> HIDE DEF R
<1>3. PICK x \in T : \A y \in T : ~(<<y, x>> \in R)
  BY <1>1, WFMin
<1>4. \A y \in T : x <= y
  <2> SUFFICES ASSUME NEW y \in T, y < x PROVE FALSE
    OBVIOUS
  <2> QED BY <1>2, <1>3
<1> QED BY <1>4

(* A set that has 0 and the successor of what it has, has every number.    *)
LEMMA EveryNumber ==
  ASSUME NEW T, 0 \in T, \A n \in Nat : n \in T => n + 1 \in T
  PROVE  \A n \in Nat : n \in T
<1> DEFINE bad == {n \in Nat : n \notin T}
<1> SUFFICES ASSUME bad # {} PROVE FALSE
  OBVIOUS
<1>1. PICK n \in bad : \A m \in bad : n <= m
  <2> HIDE DEF bad
  <2>1. bad \in SUBSET Nat
    BY DEF bad
  <2> QED BY <2>1, LeastElement
<1>2. n \in Nat /\ n # 0 /\ n - 1 \in Nat
  BY <1>1
<1>3. n - 1 \in T
  BY <1>1, <1>2
<1> QED BY <1>1, <1>2, <1>3

(* Products and division.                                                  *)
LEMMA Products ==
  /\ \A a, b, c \in Nat : a < b => a * c + c <= b * c
  /\ \A a, b, c \in Nat : a <= b => a * c <= b * c
  /\ \A a, b \in Nat : a * b \in Nat
  /\ \A a, b, c \in Nat : (a + b) * c = a * c + b * c
  /\ \A a, b, c \in Nat : (a * b) * c = a * (b * c)
  /\ \A a, b \in Nat : a * b = b * a
OBVIOUS

LEMMA Division ==
  ASSUME NEW q \in Nat, NEW d \in Nat \ {0}, NEW r \in 0 .. d - 1, NEW x, x = q * d + r
  PROVE  x \div d = q /\ x % d = r
<1>1. x \in Nat /\ x \div d = q
  OBVIOUS
<1>2. x % d = r
  OBVIOUS
<1> QED BY <1>1, <1>2

LEMMA Dividing ==
  \A q \in Nat, d \in Nat \ {0} : \A r \in 0 .. d - 1 :
    (q * d + r) \div d = q /\ (q * d + r) % d = r
BY Division

LEMMA Parts ==
  ASSUME NEW x \in Nat, NEW d \in Nat \ {0}
  PROVE  /\ x \div d \in Nat /\ x % d \in 0 .. d - 1
         /\ x = (x \div d) * d + (x % d)
OBVIOUS
-----------------------------------------------------------------------------
(***************************************************************************)
(* Powers of two and the words of the bitmap.                              *)
(***************************************************************************)
(* The recursive definition of Pow2 has a solution.                        *)
LEMMA Doubling ==
  /\ Pow2[0] = 1
  /\ \A k \in Nat : Pow2[k + 1] = 2 * Pow2[k] /\ Pow2[k] \in Nat \ {0}
<1> DEFINE R(g) == g = [k \in Nat |-> IF k = 0 THEN 1 ELSE 2 * g[k - 1]]
           Upto(g, m) == /\ g \in [0 .. m -> Nat \ {0}] /\ g[0] = 1
                         /\ \A k \in 1 .. m : g[k] = 2 * g[k - 1]
           T == {m \in Nat : \E g : Upto(g, m)}
<1>1. 0 \in T
  <2>1. PICK g : g = [k \in 0 .. 0 |-> 1]
    OBVIOUS
  <2>2. Upto(g, 0)
    BY <2>1
  <2> QED BY <2>2
<1>2. ASSUME NEW m \in Nat, m \in T PROVE m + 1 \in T
  <2>1. PICK g : Upto(g, m)
    BY <1>2
  <2>2. PICK h : h = [k \in 0 .. m + 1 |-> IF k = 0 THEN 1 ELSE 2 * g[k - 1]]
    OBVIOUS
  <2>3. \A k \in 0 .. m : h[k] = g[k]
    BY <2>1, <2>2
  <2>4. h \in [0 .. m + 1 -> Nat \ {0}] /\ h[0] = 1
    BY <2>1, <2>2
  <2>5. ASSUME NEW k \in 1 .. m + 1 PROVE h[k] = 2 * h[k - 1]
    <3>1. k - 1 \in 0 .. m /\ k \in 0 .. m + 1 /\ k # 0
      OBVIOUS
    <3>2. h[k] = 2 * g[k - 1]
      BY <2>2, <3>1
    <3> QED BY <2>3, <3>1, <3>2
  <2>6. Upto(h, m + 1)
    BY <2>4, <2>5
  <2> HIDE DEF Upto
  <2> QED BY <2>6
<1>3. \A m \in Nat : \E g : Upto(g, m)
  <2> HIDE DEF Upto
  <2>1. \A m \in Nat : m \in T
    <3> HIDE DEF T
    <3> QED BY <1>1, <1>2, EveryNumber
  <2> QED BY <2>1
<1>4. ASSUME NEW a \in Nat, NEW b \in Nat, a <= b, NEW g, Upto(g, a), NEW h, Upto(h, b)
      PROVE  \A k \in 0 .. a : g[k] = h[k]
  <2> DEFINE S == {k \in Nat : k <= a => g[k] = h[k]}
  <2>1. 0 \in S
    BY <1>4
  <2>2. ASSUME NEW k \in Nat, k \in S PROVE k + 1 \in S
    <3>1. CASE k + 1 <= a
      <4>1. k + 1 \in 1 .. a /\ k + 1 \in 1 .. b /\ (k + 1) - 1 = k /\ k <= a
        BY <1>4, <3>1
      <4>2. g[k + 1] = 2 * g[k] /\ h[k + 1] = 2 * h[k]
        BY <1>4, <4>1
      <4> QED BY <2>2, <4>1, <4>2
    <3> QED BY <3>1
  <2>3. \A k \in Nat : k \in S
    <3> HIDE DEF S
    <3> QED BY <2>1, <2>2, EveryNumber
  <2> QED BY <2>3
<1>5. \E g : R(g) /\ g[0] = 1 /\ \A k \in Nat : g[k + 1] = 2 * g[k] /\ g[k] \in Nat \ {0}
  <2> DEFINE H(m) == CHOOSE g : Upto(g, m)
  <2>1. \A m \in Nat : Upto(H(m), m)
    <3> HIDE DEF Upto
    <3> QED BY <1>3
  <2> HIDE DEF H
  <2>2. PICK g : g = [k \in Nat |-> H(k)[k]]
    OBVIOUS
  <2>3. g[0] = 1 /\ \A k \in Nat : g[k] \in Nat \ {0}
    BY <2>1, <2>2
  <2>4. ASSUME NEW k \in Nat PROVE g[k + 1] = 2 * g[k]
    <3>1. k + 1 \in Nat /\ k <= k + 1 /\ Upto(H(k), k) /\ Upto(H(k + 1), k + 1)
      <4>1. k + 1 \in Nat /\ k <= k + 1
        OBVIOUS
      <4> HIDE DEF Upto
      <4> QED BY <2>1, <4>1
    <3>2. \A l \in 0 .. k : H(k)[l] = H(k + 1)[l]
      <4> HIDE DEF Upto
      <4> QED BY <1>4, <3>1
    <3>3. H(k)[k] = H(k + 1)[k]
      BY <3>2
    <3>4. k + 1 \in 1 .. k + 1 /\ (k + 1) - 1 = k
      OBVIOUS
    <3>5. H(k + 1)[k + 1] = 2 * H(k + 1)[k]
      BY <3>1, <3>4
    <3> QED BY <2>2, <3>3, <3>5
  <2>5. ASSUME NEW k \in Nat, k # 0 PROVE g[k] = 2 * g[k - 1]
    <3>1. k - 1 \in Nat /\ (k - 1) + 1 = k
      BY <2>5
    <3> QED BY <2>4, <3>1
  <2>6. g = [k \in Nat |-> g[k]]
    BY <2>2, Zenon
  <2>7. \A k \in Nat : g[k] = IF k = 0 THEN 1 ELSE 2 * g[k - 1]
    BY <2>3, <2>5
  <2>8. R(g)
    BY <2>6, <2>7
  <2> QED BY <2>3, <2>4, <2>8
<1>6. Pow2 = CHOOSE g : R(g)
  BY DEF Pow2
<1>7. R(Pow2)
  <2> HIDE DEF R
  <2> QED BY <1>5, <1>6
<1>8. Pow2[0] = 1 /\ \A k \in Nat : Pow2[k + 1] = 2 * Pow2[k]
  <2>1. \A k \in Nat : Pow2[k] = IF k = 0 THEN 1 ELSE 2 * Pow2[k - 1]
    BY <1>7
  <2>2. ASSUME NEW k \in Nat PROVE Pow2[k + 1] = 2 * Pow2[k]
    <3>1. k + 1 \in Nat /\ k + 1 # 0 /\ (k + 1) - 1 = k
      OBVIOUS
    <3>2. Pow2[k + 1] = 2 * Pow2[(k + 1) - 1]
      BY <2>1, <3>1
    <3> QED BY <3>1, <3>2
  <2> QED BY <2>1, <2>2
<1> DEFINE S == {k \in Nat : Pow2[k] \in Nat \ {0}}
<1>9. \A k \in Nat : k \in S
  <2>1. 0 \in S /\ \A k \in Nat : k \in S => k + 1 \in S
    BY <1>8
  <2> HIDE DEF S
  <2> QED BY <2>1, EveryNumber
<1> QED BY <1>8, <1>9

LEMMA Growing == \A b \in Nat : \A a \in 0 .. b : Pow2[a] <= Pow2[b]
<1> DEFINE T == {b \in Nat : \A a \in 0 .. b : Pow2[a] <= Pow2[b]}
<1>1. 0 \in T
  BY Doubling
<1>2. ASSUME NEW b \in Nat, b \in T PROVE b + 1 \in T
  <2>1. Pow2[b + 1] = 2 * Pow2[b] /\ Pow2[b] \in Nat
    BY Doubling
  <2>2. ASSUME NEW a \in 0 .. b + 1 PROVE Pow2[a] <= Pow2[b + 1]
    <3>1. CASE a = b + 1
      BY <2>1, <3>1
    <3>2. CASE a \in 0 .. b
      <4>1. Pow2[a] <= Pow2[b] /\ Pow2[a] \in Nat
        BY <1>2, <3>2, Doubling
      <4> QED BY <2>1, <4>1
    <3> QED BY <3>1, <3>2
  <2> QED BY <2>2
<1>3. \A b \in Nat : b \in T
  <2> HIDE DEF T
  <2> QED BY <1>1, <1>2, EveryNumber
<1> QED BY <1>3

(* A power is an even multiple of every smaller one.                       *)
LEMMA EvenMultiple ==
  \A b \in Nat : \A a \in 0 .. b - 1 : \E q \in Nat \ {0} : Pow2[b] = (2 * q) * Pow2[a]
<1> DEFINE T == {b \in Nat : \A a \in 0 .. b - 1 : \E q \in Nat \ {0} :
                                Pow2[b] = (2 * q) * Pow2[a]}
<1>1. 0 \in T
  OBVIOUS
<1>2. ASSUME NEW b \in Nat, b \in T PROVE b + 1 \in T
  <2>1. Pow2[b + 1] = 2 * Pow2[b] /\ Pow2[b] \in Nat
    BY Doubling
  <2>2. ASSUME NEW a \in 0 .. (b + 1) - 1
        PROVE  \E q \in Nat \ {0} : Pow2[b + 1] = (2 * q) * Pow2[a]
    <3>1. CASE a = b
      <4>1. Pow2[b + 1] = (2 * 1) * Pow2[a]
        BY <2>1, <3>1
      <4> QED BY <4>1
    <3>2. CASE a \in 0 .. b - 1
      <4>1. PICK q \in Nat \ {0} : Pow2[b] = (2 * q) * Pow2[a]
        BY <1>2, <3>2
      <4>2. PICK x : x = Pow2[a]
        OBVIOUS
      <4>3. x \in Nat
        BY <3>2, <4>2, Doubling
      <4>4. 2 * ((2 * q) * x) = (2 * (2 * q)) * x /\ 2 * q \in Nat \ {0}
        BY <4>3
      <4>5. Pow2[b + 1] = (2 * (2 * q)) * Pow2[a]
        BY <2>1, <4>1, <4>2, <4>4
      <4> QED BY <4>4, <4>5
    <3> QED BY <3>1, <3>2
  <2> QED BY <2>2
<1>3. \A b \in Nat : b \in T
  <2> HIDE DEF T
  <2> QED BY <1>1, <1>2, EveryNumber
<1> QED BY <1>3

(* Below a power of two less one, every bit is set and none above it.      *)
LEMMA Ones ==
  ASSUME NEW r \in Nat, NEW k \in Nat
  PROVE  Bit(Pow2[r] - 1, k) = IF k < r THEN 1 ELSE 0
<1>1. PICK x, y : x = Pow2[r] /\ y = Pow2[k]
  OBVIOUS
<1>2. x \in Nat \ {0} /\ y \in Nat \ {0}
  BY <1>1, Doubling
<1>3. CASE k < r
  <2>1. PICK q \in Nat \ {0} : x = (2 * q) * y
    <3>1. k \in 0 .. r - 1
      BY <1>3
    <3> QED BY <1>1, <3>1, EvenMultiple
  <2>2. x - 1 = (2 * q - 1) * y + (y - 1) /\ y - 1 \in 0 .. y - 1 /\ 2 * q - 1 \in Nat
    BY <1>2, <2>1
  <2>3. (x - 1) \div y = 2 * q - 1
    <3>1. PICK d, z, rest : d = 2 * q - 1 /\ z = x - 1 /\ rest = y - 1
      OBVIOUS
    <3>2. d \in Nat /\ rest \in 0 .. y - 1 /\ z = d * y + rest
      BY <2>2, <3>1
    <3>3. z \div y = d
      BY <1>2, <3>2, Division
    <3> QED BY <3>1, <3>3
  <2>4. ((x - 1) \div y) % 2 = 1
    BY <2>3
  <2> QED BY <1>1, <1>3, <2>4 DEF Bit
<1>4. CASE ~(k < r)
  <2>1. x <= y
    <3>1. r \in 0 .. k
      BY <1>4
    <3> QED BY <1>1, <3>1, Growing
  <2>2. x - 1 \in 0 .. y - 1 /\ x - 1 = 0 * y + (x - 1) /\ 0 \in Nat
    BY <1>2, <2>1
  <2>3. (x - 1) \div y = 0
    BY <1>2, <2>2, Division
  <2> QED BY <1>1, <1>4, <2>3 DEF Bit
<1> QED BY <1>3, <1>4

LEMMA NoBits == \A k \in Nat : Bit(0, k) = 0
<1> SUFFICES ASSUME NEW k \in Nat PROVE Bit(0, k) = 0
  OBVIOUS
<1>1. PICK y : y = Pow2[k]
  OBVIOUS
<1>2. y \in Nat \ {0}
  BY <1>1, Doubling
<1>3. 0 \div y = 0
  BY <1>2
<1> QED BY <1>1, <1>3 DEF Bit

(* Word j of the bitmap when the first n frames are taken.                 *)
Fill(j, n) ==
  IF n <= j * WORD_BITS THEN 0
  ELSE IF (j + 1) * WORD_BITS <= n THEN Pow2[WORD_BITS] - 1
  ELSE Pow2[n - j * WORD_BITS] - 1

LEMMA FillIs ==
  ASSUME NEW j \in Nat, NEW n \in Nat
  PROVE  /\ Fill(j, n) \in 0 .. Pow2[WORD_BITS] - 1
         /\ \A b \in 0 .. WORD_BITS - 1 :
              Bit(Fill(j, n), b) = IF j * WORD_BITS + b < n THEN 1 ELSE 0
<1>1. PICK base : base = j * WORD_BITS
  OBVIOUS
<1>2. base \in Nat /\ (j + 1) * WORD_BITS = base + WORD_BITS /\ WORD_BITS \in Nat \ {0}
  <2>1. WORD_BITS \in Nat \ {0}
    BY MemAssumption
  <2> QED BY <1>1, <2>1
<1>3. CASE n <= base
  <2>1. Fill(j, n) = 0
    BY <1>1, <1>3 DEF Fill
  <2>2. Pow2[WORD_BITS] \in Nat \ {0}
    BY <1>2, Doubling
  <2>3. \A b \in 0 .. WORD_BITS - 1 : Bit(0, b) = 0 /\ ~(base + b < n)
    BY <1>2, <1>3, NoBits
  <2> QED BY <1>1, <2>1, <2>2, <2>3
<1>4. CASE base + WORD_BITS <= n
  <2>1. Fill(j, n) = Pow2[WORD_BITS] - 1
    BY <1>1, <1>2, <1>4 DEF Fill
  <2>2. Pow2[WORD_BITS] \in Nat \ {0}
    BY <1>2, Doubling
  <2>3. \A b \in 0 .. WORD_BITS - 1 : b < WORD_BITS /\ base + b < n /\ b \in Nat
    BY <1>2, <1>4
  <2>4. \A b \in 0 .. WORD_BITS - 1 : Bit(Pow2[WORD_BITS] - 1, b) = 1
    BY <1>2, <2>3, Ones
  <2> QED BY <1>1, <2>1, <2>2, <2>3, <2>4
<1>5. CASE base < n /\ n < base + WORD_BITS
  <2>1. PICK r : r = n - base
    OBVIOUS
  <2>2. r \in 0 .. WORD_BITS /\ r \in Nat
    BY <1>2, <1>5, <2>1
  <2>3. Fill(j, n) = Pow2[r] - 1
    BY <1>1, <1>2, <1>5, <2>1 DEF Fill
  <2>4. Pow2[r] \in Nat \ {0} /\ Pow2[WORD_BITS] \in Nat \ {0} /\ Pow2[r] <= Pow2[WORD_BITS]
    BY <1>2, <2>2, Doubling, Growing
  <2>5. \A b \in 0 .. WORD_BITS - 1 : b \in Nat /\ (b < r <=> base + b < n)
    BY <1>2, <2>1
  <2>6. \A b \in 0 .. WORD_BITS - 1 : Bit(Pow2[r] - 1, b) = IF b < r THEN 1 ELSE 0
    BY <2>2, <2>5, Ones
  <2> QED BY <1>1, <2>3, <2>4, <2>5, <2>6
<1> QED BY <1>2, <1>3, <1>4, <1>5

(* Taking frame n sets its bit in its word and touches no other word.      *)
LEMMA FillStep ==
  ASSUME NEW j \in Nat, NEW b \in 0 .. WORD_BITS - 1, NEW n, n = j * WORD_BITS + b
  PROVE  /\ Fill(j, n + 1) = Fill(j, n) + Pow2[b]
         /\ \A l \in Nat : l # j => Fill(l, n + 1) = Fill(l, n)
<1>1. PICK base : base = j * WORD_BITS
  OBVIOUS
<1>2. base \in Nat /\ (j + 1) * WORD_BITS = base + WORD_BITS /\ WORD_BITS \in Nat \ {0}
      /\ b \in Nat /\ n = base + b
  <2>1. WORD_BITS \in Nat \ {0}
    BY MemAssumption
  <2> QED BY <1>1, <2>1
<1>3. Pow2[b] \in Nat \ {0} /\ Pow2[b + 1] = 2 * Pow2[b] /\ Pow2[0] = 1
  BY <1>2, Doubling
<1>4. Fill(j, n + 1) = Pow2[b + 1] - 1
  <2>1. (n + 1) - base = b + 1 /\ ~(n + 1 <= base) /\ (base + WORD_BITS <= n + 1 => b + 1 = WORD_BITS)
    BY <1>2
  <2>2. Fill(j, n + 1) = IF base + WORD_BITS <= n + 1 THEN Pow2[WORD_BITS] - 1
                         ELSE Pow2[(n + 1) - base] - 1
    BY <1>1, <1>2, <2>1 DEF Fill
  <2> QED BY <2>1, <2>2
<1>5. Fill(j, n) = Pow2[b] - 1
  <2>1. CASE b = 0
    <3>1. n <= base
      BY <1>2, <2>1
    <3>2. Fill(j, n) = 0
      BY <1>1, <3>1 DEF Fill
    <3> QED BY <1>3, <2>1, <3>2
  <2>2. CASE b # 0
    <3>1. n - base = b /\ ~(n <= base) /\ ~(base + WORD_BITS <= n)
      BY <1>2, <2>2
    <3>2. Fill(j, n) = Pow2[n - base] - 1
      BY <1>1, <1>2, <3>1 DEF Fill
    <3> QED BY <3>1, <3>2
  <2> QED BY <2>1, <2>2
<1>6. ASSUME NEW l \in Nat, l # j PROVE Fill(l, n + 1) = Fill(l, n)
  <2>1. PICK other : other = l * WORD_BITS
    OBVIOUS
  <2>2. other \in Nat /\ (l + 1) * WORD_BITS = other + WORD_BITS
    BY <1>2, <2>1
  <2>3. CASE l < j
    <3>1. other + WORD_BITS <= base
      BY <1>1, <1>2, <2>1, <2>3, Products
    <3>2. other + WORD_BITS <= n /\ other + WORD_BITS <= n + 1
          /\ ~(n <= other) /\ ~(n + 1 <= other)
      BY <1>2, <2>2, <3>1
    <3> QED BY <2>1, <2>2, <3>2 DEF Fill
  <2>4. CASE j < l
    <3>1. base + WORD_BITS <= other
      BY <1>1, <1>2, <2>1, <2>4, Products
    <3>2. n <= other /\ n + 1 <= other
      BY <1>2, <2>2, <3>1
    <3> QED BY <2>1, <3>2 DEF Fill
  <2> QED BY <1>6, <2>3, <2>4
<1> QED BY <1>3, <1>4, <1>5, <1>6

-----------------------------------------------------------------------------
(***************************************************************************)
(* Addresses.                                                              *)
(***************************************************************************)
LEMMA Sizes ==
  /\ ENTRIES \in Nat /\ ENTRIES > 3 /\ WORD \in Nat \ {0} /\ WORD_BITS \in Nat \ {0}
  /\ HEADER \in Nat /\ 2 < HEADER /\ HEADER < ENTRIES
  /\ PAGE \in Nat \ {0} /\ PAGE = ENTRIES * WORD /\ PAGE >= 8 /\ PAGE % 2 = 0
  /\ AllPages \in Nat /\ AllPages = ENTRIES * ENTRIES /\ AllPages >= 16
  /\ TableSpan \in Nat \ {0} /\ TableSpan = ENTRIES * PAGE
  /\ TopOfMemory \in Nat \ {0} /\ TopOfMemory = AllPages * PAGE /\ TopOfMemory >= 128
  /\ TopOfMemory \div PAGE = AllPages /\ Pow2[WORD_BITS] = TopOfMemory
<1>1. /\ ENTRIES \in Nat /\ ENTRIES > 3 /\ WORD \in Nat \ {0} /\ WORD_BITS \in Nat \ {0}
      /\ HEADER \in Nat /\ 2 < HEADER /\ HEADER < ENTRIES
  BY MemAssumption
<1>2. PICK e, w, p : e = ENTRIES /\ w = WORD /\ p = PAGE
  OBVIOUS
<1>3. p = e * w /\ p \in Nat \ {0} /\ p % 8 = 0
  BY <1>1, <1>2, MemAssumption DEF PAGE
<1>4. p >= 8 /\ p % 2 = 0
  BY <1>3
<1>5. PICK s : s = e * e
  OBVIOUS
<1>6. s \in Nat /\ s >= 16
  <2>1. 4 * e <= e * e /\ 4 * e >= 16
    BY <1>1, <1>2
  <2> QED BY <1>1, <1>2, <1>5, <2>1
<1>7. e * p \in Nat \ {0} /\ e * (e * p) = s * p
  BY <1>1, <1>2, <1>3, <1>5
<1>8. s * p \in Nat \ {0} /\ s * p >= 128
  <2>1. 16 * p <= s * p
    BY <1>3, <1>6, Products
  <2> QED BY <1>3, <1>4, <1>6, <2>1
<1>9. (s * p) \div p = s
  <2>1. PICK x : x = s * p
    OBVIOUS
  <2>2. x = s * p + 0 /\ 0 \in 0 .. p - 1
    BY <1>3, <1>8, <2>1
  <2>3. x \div p = s
    BY <1>3, <1>6, <2>2, Division
  <2> QED BY <2>1, <2>3
<1>10. AllPages = s /\ TableSpan = e * p /\ TopOfMemory = s * p
  BY <1>2, <1>5, <1>7 DEF AllPages, TableSpan, TopOfMemory
<1>11. Pow2[WORD_BITS] = TopOfMemory
  BY MemAssumption
<1> QED BY <1>1, <1>2, <1>3, <1>4, <1>5, <1>6, <1>7, <1>8, <1>9, <1>10, <1>11

LEMMA AtIs ==
  ASSUME NEW p \in Nat, NEW k \in Slot
  PROVE  /\ At(p, k) = p * PAGE + WORD * k /\ At(p, k) \in Nat /\ p * PAGE \in Nat
         /\ WORD * k \in 0 .. PAGE - WORD /\ WORD * k \in 0 .. PAGE - 1
         /\ At(p, 0) = p * PAGE
<1>1. p * PAGE \in Nat /\ WORD * k \in Nat /\ k < ENTRIES /\ k \in Nat /\ WORD * 0 = 0
  BY Sizes DEF Slot
<1>2. WORD * k + WORD <= PAGE
  <2>1. PICK e, w : e = ENTRIES /\ w = WORD
    OBVIOUS
  <2>2. k * w + w <= e * w
    BY <1>1, <2>1, Sizes, Products
  <2>3. k * w = w * k /\ e * w = PAGE
    BY <1>1, <2>1, Sizes
  <2> QED BY <1>1, <2>1, <2>2, <2>3, Sizes
<1> QED BY <1>1, <1>2, Sizes DEF At

LEMMA Place ==
  ASSUME NEW p \in Nat, NEW x \in 0 .. PAGE - 1, NEW a, a = p * PAGE + x
  PROVE  a \div PAGE = p /\ a % PAGE = x /\ PageOf(a) = p * PAGE /\ a \in Nat /\ p * PAGE \in Nat
<1>1. a \div PAGE = p /\ a % PAGE = x /\ p * PAGE \in Nat
  <2>1. PICK c : c = PAGE
    OBVIOUS
  <2>2. c \in Nat \ {0} /\ x \in 0 .. c - 1 /\ a = p * c + x /\ p * c \in Nat
    BY <2>1, Sizes
  <2>3. c \in Nat \ {0} /\ x \in 0 .. c - 1 /\ a = p * c + x
    BY <2>2
  <2>4. (p * c + x) \div c = p /\ (p * c + x) % c = x
    BY <2>3, Dividing, Zenon
  <2>5. a \div c = p /\ a % c = x
    BY <2>3, <2>4, Zenon
  <2> QED BY <2>1, <2>2, <2>5
<1> QED BY <1>1, Sizes DEF PageOf

(* Words at different places are different words.                          *)
LEMMA AtApart ==
  ASSUME NEW p \in Nat, NEW k \in Slot, NEW q \in Nat, NEW l \in Slot, At(p, k) = At(q, l)
  PROVE  p = q /\ k = l
<1>1. PICK a : a = At(p, k)
  OBVIOUS
<1>2. a \div PAGE = p /\ a % PAGE = WORD * k
  BY <1>1, AtIs, Place
<1>3. a \div PAGE = q /\ a % PAGE = WORD * l
  BY <1>1, AtIs, Place
<1>4. ASSUME NEW m \in Slot, NEW n \in Slot, m < n PROVE WORD * m # WORD * n
  <2>1. PICK w : w = WORD
    OBVIOUS
  <2>2. m \in Nat /\ n \in Nat /\ w \in Nat \ {0}
    BY <2>1, Sizes DEF Slot
  <2>3. m * w + w <= n * w /\ m * w = w * m /\ n * w = w * n /\ m * w \in Nat
    BY <1>4, <2>2, Products
  <2> QED BY <2>1, <2>2, <2>3
<1>5. k \in Nat /\ l \in Nat /\ (k < l \/ l < k \/ k = l)
  BY DEF Slot
<1> QED BY <1>2, <1>3, <1>4, <1>5

LEMMA AtOrder ==
  ASSUME NEW p \in Nat, NEW k \in Slot, NEW q \in Nat
  PROVE  /\ At(p, k) < q * PAGE <=> p < q
         /\ q * PAGE <= At(p, k) <=> q <= p
         /\ q * PAGE \in Nat
<1>1. PICK c : c = PAGE
  OBVIOUS
<1>2. c \in Nat \ {0} /\ p * c \in Nat /\ q * c \in Nat
  BY <1>1, Sizes
<1>3. p < q => p * c + c <= q * c
  BY <1>2, Products
<1>4. q <= p => q * c <= p * c
  BY <1>2, Products
<1>5. At(p, k) = p * c + WORD * k /\ WORD * k \in 0 .. c - 1
  BY <1>1, AtIs
<1> QED BY <1>1, <1>2, <1>3, <1>4, <1>5

LEMMA WordsAre ==
  /\ \A p \in 0 .. AllPages - 1, k \in Slot : At(p, k) \in Words
  /\ \A w \in Words : \E p \in 0 .. AllPages - 1, k \in Slot : w = At(p, k)
<1>1. PICK e, w, s : e = ENTRIES /\ w = WORD /\ s = AllPages
  OBVIOUS
<1>2. e \in Nat \ {0} /\ w \in Nat \ {0} /\ s \in Nat /\ PAGE = e * w /\ TopOfMemory = s * (e * w)
  BY <1>1, Sizes
<1>3. TopOfMemory \div WORD = s * e
  <2>1. PICK x : x = TopOfMemory
    OBVIOUS
  <2>2. x = (s * e) * w + 0 /\ s * e \in Nat /\ 0 \in 0 .. w - 1
    BY <1>2, <2>1
  <2>3. x \div w = s * e
    <3>1. PICK q : q = s * e
      OBVIOUS
    <3> QED BY <1>2, <2>2, <3>1, Division
  <2> QED BY <1>1, <2>1, <2>3
<1>4. Words = {w * x : x \in 0 .. s * e - 1}
  BY <1>1, <1>3 DEF Words
<1>5. ASSUME NEW p \in Nat, NEW k \in Slot PROVE w * (p * e + k) = At(p, k)
  <2>1. k \in Nat
    BY DEF Slot
  <2>2. w * (p * e + k) = p * (e * w) + w * k
    BY <1>2, <2>1
  <2> QED BY <1>1, <1>2, <2>2 DEF At
<1>6. ASSUME NEW p \in 0 .. AllPages - 1, NEW k \in Slot PROVE At(p, k) \in Words
  <2>1. p \in Nat /\ p < s /\ k \in 0 .. e - 1 /\ p * e \in Nat
    BY <1>1, <1>2 DEF Slot
  <2>2. p * e + e <= s * e
    BY <1>2, <2>1, Products
  <2>3. p * e + k \in 0 .. s * e - 1
    BY <1>2, <2>1, <2>2
  <2> QED BY <1>4, <1>5, <2>1, <2>3
<1>7. ASSUME NEW a \in Words PROVE \E p \in 0 .. AllPages - 1, k \in Slot : a = At(p, k)
  <2>1. PICK x \in 0 .. s * e - 1 : a = w * x
    BY <1>4
  <2>2. PICK p, k : p = x \div e /\ k = x % e
    OBVIOUS
  <2>3. x \in Nat /\ s * e \in Nat
    BY <1>2, <2>1
  <2>4. p \in Nat /\ k \in 0 .. e - 1 /\ x = p * e + k /\ p * e \in Nat
    <3>1. x \div e \in Nat /\ x % e \in 0 .. e - 1 /\ x = (x \div e) * e + (x % e)
      BY <1>2, <2>3, Parts
    <3> QED BY <1>2, <2>2, <3>1
  <2>5. p < s
    <3>1. ~(p < s) => s * e <= p * e
      BY <1>2, <2>4, Products
    <3> QED BY <2>1, <2>3, <2>4, <3>1
  <2>6. k \in Slot /\ p \in 0 .. AllPages - 1
    BY <1>1, <1>2, <2>4, <2>5 DEF Slot
  <2>7. a = At(p, k)
    BY <1>5, <2>1, <2>4, <2>6
  <2> QED BY <2>6, <2>7
<1> QED BY <1>6, <1>7

LEMMA WordsAreNumbers == \A w \in Words : w \in Nat
<1> SUFFICES ASSUME NEW w \in Words PROVE w \in Nat
  OBVIOUS
<1>1. PICK p \in 0 .. AllPages - 1, k \in Slot : w = At(p, k)
  BY WordsAre
<1>2. p \in Nat
  OBVIOUS
<1> QED BY <1>1, <1>2, AtIs

(* Where get_page and the processor look for the entry of an address: a is *)
(* byte x of the page of entry e of table t.                               *)
IsAt(a, t, e, x) == a = (t * ENTRIES + e) * PAGE + x

LEMMA Walk ==
  ASSUME NEW D \in Nat, kernel_directory = D * PAGE,
         NEW t \in Slot, NEW e \in Slot, NEW x \in 0 .. PAGE - 1,
         NEW a, IsAt(a, t, e, x)
  PROVE  /\ TableSlot(a) = At(D, t) /\ PhysicalSlot(a) = At(D + 1, t)
         /\ EntryOffset(a) = WORD * e /\ a % PAGE = x
<1>0. a = (t * ENTRIES + e) * PAGE + x
  BY DEF IsAt
<1>1. PICK n, c, p, s : n = ENTRIES /\ c = PAGE /\ p = t * ENTRIES + e /\ s = TableSpan
  OBVIOUS
<1>2. n \in Nat \ {0} /\ c \in Nat \ {0} /\ t \in Nat /\ e \in 0 .. n - 1 /\ e \in Nat
      /\ p = t * n + e /\ p \in Nat /\ s = n * c /\ s \in Nat \ {0} /\ x \in Nat /\ x \in 0 .. c - 1
  BY <1>1, Sizes DEF Slot
<1>3. a \div PAGE = p /\ a % PAGE = x
  <2>1. a = p * PAGE + x /\ p \in Nat
    BY <1>0, <1>1, <1>2
  <2> QED BY <2>1, Place, Zenon
<1>4. p % n = e
  <2>1. n \in Nat \ {0} /\ t \in Nat /\ e \in 0 .. n - 1 /\ p = t * n + e
    BY <1>2
  <2> QED BY <2>1
<1>5. a \div TableSpan = t
  <2>1. PICK r : r = e * c + x
    OBVIOUS
  <2>2. r \in 0 .. s - 1
    <3>1. e * c + c <= n * c /\ e * c \in Nat
      BY <1>2, Products
    <3> QED BY <1>2, <2>1, <3>1
  <2>3. a = t * s + r
    <3>1. (t * n + e) * c = t * (n * c) + e * c /\ t * (n * c) \in Nat /\ e * c \in Nat
      BY <1>2
    <3>2. a = (t * n + e) * c + x
      BY <1>0, <1>1
    <3> QED BY <1>2, <2>1, <3>1, <3>2
  <2>4. a \div s = t
    BY <1>2, <2>2, <2>3, Division
  <2> QED BY <1>1, <2>4
<1>6. WORD * t \in Nat /\ D * c \in Nat /\ (D + 1) * c = D * c + c
  BY <1>2, Sizes
<1> QED BY <1>1, <1>2, <1>3, <1>4, <1>5, <1>6 DEF TableSlot, PhysicalSlot, EntryOffset, At

-----------------------------------------------------------------------------
(***************************************************************************)
(* What is where.  D is the page of kernel_directory, physical_tables the  *)
(* page after it; J is the slot of tables under the first word of the      *)
(* bitmap; the boot makes B tables and heap_install() starts over at page  *)
(* 0, which stays wasted; made tables are there, n pages are mapped.       *)
(***************************************************************************)
Memory == [Words -> 0 .. TopOfMemory - 1]

Room(D, J, usable) ==
  /\ D \in Nat /\ J \in Nat /\ 1 <= J /\ J < ENTRIES
  /\ J <= D /\ J * PAGE <= KernelStart /\ D + 2 + J <= J * ENTRIES
  /\ WORD_BITS <= J * ENTRIES
  /\ \A f \in 0 .. usable - 1 : f < J * ENTRIES => J + INDEX_FROM_BIT(f) < ENTRIES

(* The page of table t.                                                    *)
TablePage(D, B, t) == IF t < B THEN D + 2 + t ELSE t - B + 1

(* The entry of page p when the first n pages are mapped.                  *)
Entry(p, n) == IF p < n THEN p * PAGE + PRESENT_USER ELSE 0

Layout(m, D, J, B, made, n) ==
  /\ m \in Memory
  /\ \A t \in 0 .. made - 1 : m[At(D, t)] = TablePage(D, B, t) * PAGE
  /\ \A t \in made .. J - 1 : m[At(D, t)] = 0
  /\ \A t \in 0 .. made - 1 : m[At(D + 1, t)] = TablePage(D, B, t) * PAGE + PRESENT_RW_USER
  /\ \A t \in 0 .. made - 1, e \in Slot :
       m[At(TablePage(D, B, t), e)] = Entry(t * ENTRIES + e, n)
  /\ \A j \in 0 .. ENTRIES - 1 - J : m[At(D, J + j)] = Fill(j, n)
  /\ \A w \in Words : KernelStart <= w /\ w < D * PAGE => m[w] = IMAGE

(* The processor finds no table in the slots from k on.                    *)
Absent(m, D, k) == \A t \in k .. ENTRIES - 1 : m[At(D + 1, t)] = 0

LEMMA RoomIs ==
  ASSUME NEW D, NEW J, NEW usable, Room(D, J, usable)
  PROVE  /\ D \in Nat /\ J \in Nat \ {0} /\ J < ENTRIES /\ J <= D /\ 0 \in Slot
         /\ D \in 0 .. AllPages - 1 /\ D + 1 \in 0 .. AllPages - 1 /\ D + 2 + J < AllPages
         /\ J * ENTRIES \in Nat /\ J * ENTRIES + ENTRIES <= AllPages /\ D + 2 + J <= J * ENTRIES
         /\ \A t \in 0 .. J - 1 : t \in Slot
         /\ \A j \in 0 .. ENTRIES - 1 - J : J + j \in Slot
         /\ J * PAGE <= KernelStart /\ KernelStart \in Nat
<1>1. D \in Nat /\ J \in Nat /\ 1 <= J /\ J < ENTRIES /\ J <= D /\ D + 2 + J <= J * ENTRIES
      /\ J * PAGE <= KernelStart
  BY DEF Room
<1>2. PICK e, s, x : e = ENTRIES /\ s = AllPages /\ x = J * e
  OBVIOUS
<1>3. e \in Nat /\ e > 3 /\ s = e * e /\ s \in Nat /\ KernelStart \in Nat
  BY <1>2, Sizes, MemAssumption
<1>4. x + e <= s /\ x \in Nat
  BY <1>1, <1>2, <1>3, Products
<1>5. 0 \in Slot /\ (\A t \in 0 .. J - 1 : t \in Slot) /\ (\A j \in 0 .. ENTRIES - 1 - J : J + j \in Slot)
  BY <1>1, <1>2, <1>3 DEF Slot
<1>6. D + 2 + J <= x
  BY <1>1, <1>2
<1> QED BY <1>1, <1>2, <1>3, <1>4, <1>5, <1>6

(* Tables are on pages of their own, outside the image.                    *)
LEMMA TablePages ==
  ASSUME NEW D, NEW J, NEW usable, Room(D, J, usable), NEW B \in Nat \ {0},
         NEW t \in 0 .. J - 1
  PROVE  /\ TablePage(D, B, t) \in 1 .. AllPages - 1
         /\ TablePage(D, B, t) # D /\ TablePage(D, B, t) # D + 1
         /\ TablePage(D, B, t) < J \/ TablePage(D, B, t) > D
         /\ \A u \in 0 .. J - 1 : u # t => TablePage(D, B, u) # TablePage(D, B, t)
<1>1. D \in Nat /\ J \in Nat \ {0} /\ J <= D /\ D + 2 + J < AllPages /\ AllPages \in Nat
  BY RoomIs, Sizes
<1>2. CASE t < B
  BY <1>1, <1>2 DEF TablePage
<1>3. CASE ~(t < B)
  BY <1>1, <1>3 DEF TablePage
<1> QED BY <1>2, <1>3

(* Only words of the image are between KernelStart and the directory.      *)
LEMMA NotTheImage ==
  ASSUME NEW D, NEW J, NEW usable, Room(D, J, usable),
         NEW q \in Nat, q < J \/ q >= D, NEW k \in Slot
  PROVE  ~(KernelStart <= At(q, k) /\ At(q, k) < D * PAGE)
<1>1. D \in Nat /\ J \in Nat /\ J * PAGE <= KernelStart /\ KernelStart \in Nat
  BY RoomIs
<1>2. At(q, k) \in Nat /\ (At(q, k) < J * PAGE <=> q < J) /\ (D * PAGE <= At(q, k) <=> D <= q)
      /\ J * PAGE \in Nat /\ D * PAGE \in Nat
  BY <1>1, AtIs, AtOrder
<1> QED BY <1>1, <1>2

(* One word written, and one page cleared.                                 *)
Put(m, p, k, v) == [m EXCEPT ![At(p, k)] = v]
Wipe(m, q) == Clear(m, q * PAGE, PAGE)

LEMMA Stored ==
  ASSUME NEW m \in Memory, NEW p \in 0 .. AllPages - 1, NEW k \in Slot,
         NEW v \in 0 .. TopOfMemory - 1
  PROVE  /\ Put(m, p, k, v) \in Memory /\ Put(m, p, k, v)[At(p, k)] = v
         /\ \A q \in 0 .. AllPages - 1, l \in Slot :
              q # p \/ l # k => Put(m, p, k, v)[At(q, l)] = m[At(q, l)]
<1> PICK m1 : m1 = Put(m, p, k, v)
  OBVIOUS
<1>1. At(p, k) \in Words /\ m1 = [m EXCEPT ![At(p, k)] = v]
  BY WordsAre DEF Put
<1>2. m1 \in Memory /\ m1[At(p, k)] = v /\ \A w \in Words : w # At(p, k) => m1[w] = m[w]
  BY <1>1 DEF Memory
<1>3. ASSUME NEW q \in 0 .. AllPages - 1, NEW l \in Slot, q # p \/ l # k
      PROVE  m1[At(q, l)] = m[At(q, l)]
  <2>1. p \in Nat /\ q \in Nat
    OBVIOUS
  <2>2. At(q, l) # At(p, k)
    BY <1>3, <2>1, AtApart
  <2>3. At(q, l) \in Words
    BY WordsAre
  <2> QED BY <1>2, <2>2, <2>3
<1> QED BY <1>2, <1>3

LEMMA Cleared ==
  ASSUME NEW m \in Memory, NEW q \in 0 .. AllPages - 1
  PROVE  /\ Wipe(m, q) \in Memory
         /\ \A k \in Slot : Wipe(m, q)[At(q, k)] = 0
         /\ \A p \in 0 .. AllPages - 1, k \in Slot :
              p # q => Wipe(m, q)[At(p, k)] = m[At(p, k)]
<1> PICK m1 : m1 = Wipe(m, q)
  OBVIOUS
<1>0. m1 = Clear(m, q * PAGE, PAGE)
  BY DEF Wipe
<1>1. 0 \in 0 .. TopOfMemory - 1 /\ q \in Nat /\ PAGE \in Nat
  BY Sizes
<1>2. m1 \in Memory
  BY <1>0, <1>1 DEF Clear, Memory
<1>3. q * PAGE \in Nat /\ (q + 1) * PAGE = q * PAGE + PAGE
  BY <1>1
<1>4. ASSUME NEW p \in 0 .. AllPages - 1, NEW k \in Slot
      PROVE  m1[At(p, k)] = IF p = q THEN 0 ELSE m[At(p, k)]
  <2>1. p \in Nat /\ q + 1 \in Nat
    BY <1>1
  <2>2. (q * PAGE <= At(p, k) <=> q <= p) /\ (At(p, k) < (q + 1) * PAGE <=> p < q + 1)
    BY <1>1, <2>1, AtOrder
  <2>3. q * PAGE <= At(p, k) /\ At(p, k) < q * PAGE + PAGE <=> p = q
    BY <1>1, <1>3, <2>1, <2>2
  <2>4. At(p, k) \in Words
    BY WordsAre
  <2> QED BY <1>0, <2>3, <2>4 DEF Clear
<1> QED BY <1>2, <1>4

-----------------------------------------------------------------------------
(***************************************************************************)
(* get_page.                                                               *)
(***************************************************************************)
(* Memory with a new table, on page q, in slot t of the directory.         *)
NewTable(m, D, t, q) ==
  Put(Wipe(Put(m, D, t, q * PAGE), q), D + 1, t, q * PAGE + PRESENT_RW_USER)

LEMMA FrameBits ==
  ASSUME NEW p \in 0 .. AllPages - 1, NEW x \in 0 .. 7
  PROVE  /\ p * PAGE + x \in 0 .. TopOfMemory - 1 /\ p * PAGE \in 0 .. TopOfMemory - 1
         /\ FrameOf(p * PAGE + x) = p /\ PageOf(p * PAGE + x) = p * PAGE
         /\ Bit(p * PAGE + x, 0) = x % 2
<1>1. PICK c, a : c = PAGE /\ a = p * c
  OBVIOUS
<1>2. c \in Nat /\ c >= 8 /\ c % 2 = 0 /\ p \in Nat /\ a \in Nat /\ p < AllPages /\ AllPages \in Nat
      /\ x \in 0 .. c - 1
  BY <1>1, Sizes
<1>3. a + c <= TopOfMemory
  BY <1>1, <1>2, Sizes, Products
<1>4. (a + x) \div c = p /\ PageOf(a + x) = a
  <2>1. PICK w : w = a + x
    OBVIOUS
  <2>2. w = p * PAGE + x /\ x \in 0 .. PAGE - 1
    BY <1>1, <1>2, <2>1
  <2>3. w \div PAGE = p /\ PageOf(w) = p * PAGE
    BY <1>2, <2>2, Place
  <2> QED BY <1>1, <2>1, <2>3
<1>5. Bit(a + x, 0) = x % 2
  <2>1. a % 2 = 0
    <3>1. PICK h : h = c \div 2
      OBVIOUS
    <3>2. h \in Nat /\ c = h * 2
      BY <1>2, <3>1
    <3>3. a = (p * h) * 2 /\ p * h \in Nat
      BY <1>1, <1>2, <3>2
    <3> QED BY <3>3
  <2>2. (a + x) \div 1 = a + x
    BY <1>2
  <2>3. (a + x) % 2 = x % 2
    BY <1>2, <2>1
  <2> QED BY <2>2, <2>3, Doubling DEF Bit
<1> QED BY <1>1, <1>2, <1>3, <1>4, <1>5, Sizes DEF FrameOf

LEMMA NewTableIs ==
  ASSUME NEW m \in Memory, NEW D \in Nat, D + 1 \in 0 .. AllPages - 1, NEW t \in Slot,
         NEW q \in 0 .. AllPages - 1, q # D, q # D + 1
  PROVE  /\ NewTable(m, D, t, q) \in Memory
         /\ NewTable(m, D, t, q)[At(D, t)] = q * PAGE
         /\ NewTable(m, D, t, q)[At(D + 1, t)] = q * PAGE + PRESENT_RW_USER
         /\ \A k \in Slot : NewTable(m, D, t, q)[At(q, k)] = 0
         /\ \A p \in 0 .. AllPages - 1, k \in Slot :
              p # q /\ (p \notin {D, D + 1} \/ k # t) =>
                NewTable(m, D, t, q)[At(p, k)] = m[At(p, k)]
<1>1. D \in 0 .. AllPages - 1 /\ AllPages \in Nat
  BY Sizes
<1>2. q * PAGE \in 0 .. TopOfMemory - 1 /\ q * PAGE + PRESENT_RW_USER \in 0 .. TopOfMemory - 1
  BY FrameBits DEF PRESENT_RW_USER
<1>3. PICK ma, mb, m1 : /\ ma = Put(m, D, t, q * PAGE) /\ mb = Wipe(ma, q)
                        /\ m1 = Put(mb, D + 1, t, q * PAGE + PRESENT_RW_USER)
  OBVIOUS
<1>4. /\ ma \in Memory /\ ma[At(D, t)] = q * PAGE
      /\ \A p \in 0 .. AllPages - 1, k \in Slot : p # D \/ k # t => ma[At(p, k)] = m[At(p, k)]
  <2>1. PICK v : v = q * PAGE
    OBVIOUS
  <2>2. D \in 0 .. AllPages - 1 /\ v \in 0 .. TopOfMemory - 1 /\ ma = Put(m, D, t, v)
    BY <1>1, <1>2, <1>3, <2>1, Zenon
  <2>3. /\ ma \in Memory /\ ma[At(D, t)] = v
        /\ \A p \in 0 .. AllPages - 1, k \in Slot : p # D \/ k # t => ma[At(p, k)] = m[At(p, k)]
    <3>1. ma \in Memory
      BY <2>2, Stored
    <3>2. ma[At(D, t)] = v
      BY <2>2, Stored
    <3>3. \A p \in 0 .. AllPages - 1, k \in Slot : p # D \/ k # t => ma[At(p, k)] = m[At(p, k)]
      BY <2>2, Stored
    <3> QED BY <3>1, <3>2, <3>3
  <2> QED BY <2>1, <2>3, Zenon
<1>6. /\ mb \in Memory /\ \A k \in Slot : mb[At(q, k)] = 0
      /\ \A p \in 0 .. AllPages - 1, k \in Slot : p # q => mb[At(p, k)] = ma[At(p, k)]
  BY <1>3, <1>4, Cleared
<1>7. m1 = NewTable(m, D, t, q)
  BY <1>3 DEF NewTable
<1>8. /\ m1 \in Memory /\ m1[At(D + 1, t)] = q * PAGE + PRESENT_RW_USER
      /\ \A p \in 0 .. AllPages - 1, k \in Slot : p # D + 1 \/ k # t => m1[At(p, k)] = mb[At(p, k)]
  BY <1>2, <1>3, <1>6, Stored
<1>9. m1[At(D, t)] = q * PAGE
  <2>1. D # D + 1
    OBVIOUS
  <2> QED BY <1>1, <1>4, <1>6, <1>8, <2>1
<1>10. \A k \in Slot : m1[At(q, k)] = 0
  BY <1>6, <1>8
<1>11. ASSUME NEW p \in 0 .. AllPages - 1, NEW k \in Slot,
              p # q, p \notin {D, D + 1} \/ k # t
       PROVE  m1[At(p, k)] = m[At(p, k)]
  BY <1>4, <1>6, <1>8, <1>11
<1> QED BY <1>7, <1>8, <1>9, <1>10, <1>11

(* The image survives writes outside it.                                   *)
LEMMA ImageSurvives ==
  ASSUME NEW D, NEW J, NEW usable, Room(D, J, usable), NEW m, NEW m1,
         \A w \in Words : KernelStart <= w /\ w < D * PAGE => m[w] = IMAGE,
         \A p \in 0 .. AllPages - 1, k \in Slot : ~(p < J) /\ p < D => m1[At(p, k)] = m[At(p, k)]
  PROVE  \A w \in Words : KernelStart <= w /\ w < D * PAGE => m1[w] = IMAGE
<1> SUFFICES ASSUME NEW w \in Words, KernelStart <= w, w < D * PAGE PROVE m1[w] = IMAGE
  OBVIOUS
<1>1. PICK p \in 0 .. AllPages - 1, k \in Slot : w = At(p, k)
  BY WordsAre
<1>2. p \in Nat /\ D \in Nat /\ J \in Nat
  BY RoomIs
<1>3. ~(p < J) /\ ~(p >= D)
  BY <1>1, <1>2, NotTheImage
<1>4. m1[w] = m[w]
  BY <1>1, <1>2, <1>3
<1> QED BY <1>4

LEMMA TableAdded ==
  ASSUME NEW D, NEW J, NEW usable, Room(D, J, usable), NEW B \in Nat \ {0},
         NEW made \in 0 .. J - 1, NEW n \in Nat, n <= made * ENTRIES,
         NEW m, Layout(m, D, J, B, made, n), Absent(m, D, made + 1)
  PROVE  /\ Layout(NewTable(m, D, made, TablePage(D, B, made)), D, J, B, made + 1, n)
         /\ Absent(NewTable(m, D, made, TablePage(D, B, made)), D, made + 1)
<1>1. PICK q, m1 : q = TablePage(D, B, made) /\ m1 = NewTable(m, D, made, q)
  OBVIOUS
<1>2. /\ D \in Nat /\ J \in Nat \ {0} /\ D \in 0 .. AllPages - 1 /\ D + 1 \in 0 .. AllPages - 1
      /\ made \in Slot /\ AllPages \in Nat /\ ENTRIES \in Nat /\ J < ENTRIES
      /\ \A t \in 0 .. J - 1 : t \in Slot
      /\ \A j \in 0 .. ENTRIES - 1 - J : J + j \in Slot
  BY RoomIs, Sizes
<1>3. /\ q \in 1 .. AllPages - 1 /\ q # D /\ q # D + 1 /\ (q < J \/ q > D)
      /\ \A u \in 0 .. made - 1 : TablePage(D, B, u) # q
  BY <1>1, <1>2, TablePages
<1>4. m \in Memory
  BY DEF Layout
<1>5. /\ m1 \in Memory
      /\ m1[At(D, made)] = q * PAGE /\ m1[At(D + 1, made)] = q * PAGE + PRESENT_RW_USER
      /\ \A k \in Slot : m1[At(q, k)] = 0
      /\ \A p \in 0 .. AllPages - 1, k \in Slot :
           p # q /\ (p \notin {D, D + 1} \/ k # made) => m1[At(p, k)] = m[At(p, k)]
  <2>1. q \in 0 .. AllPages - 1
    BY <1>3
  <2>2. D \in Nat /\ D + 1 \in 0 .. AllPages - 1 /\ made \in Slot /\ q # D /\ q # D + 1
    BY <1>2, <1>3
  <2>3. m1 \in Memory /\ m1[At(D, made)] = q * PAGE
    BY <1>1, <1>4, <2>1, <2>2, NewTableIs
  <2>4. m1[At(D + 1, made)] = q * PAGE + PRESENT_RW_USER
    BY <1>1, <1>4, <2>1, <2>2, NewTableIs
  <2>5. \A k \in Slot : m1[At(q, k)] = 0
    BY <1>1, <1>4, <2>1, <2>2, NewTableIs
  <2>6. \A p \in 0 .. AllPages - 1, k \in Slot :
           p # q /\ (p \notin {D, D + 1} \/ k # made) => m1[At(p, k)] = m[At(p, k)]
    BY <1>1, <1>4, <2>1, <2>2, NewTableIs
  <2> QED BY <2>3, <2>4, <2>5, <2>6
<1>6. ASSUME NEW t \in 0 .. (made + 1) - 1
      PROVE  /\ m1[At(D, t)] = TablePage(D, B, t) * PAGE
             /\ m1[At(D + 1, t)] = TablePage(D, B, t) * PAGE + PRESENT_RW_USER
             /\ \A e \in Slot : m1[At(TablePage(D, B, t), e)] = Entry(t * ENTRIES + e, n)
  <2>1. CASE t = made
    <3>1. \A e \in Slot : Entry(made * ENTRIES + e, n) = 0
      <4> SUFFICES ASSUME NEW e \in Slot PROVE ~(made * ENTRIES + e < n)
        BY DEF Entry
      <4>1. made * ENTRIES \in Nat /\ e \in Nat
        BY <1>2 DEF Slot
      <4> QED BY <4>1
    <3> QED BY <1>1, <1>5, <2>1, <3>1
  <2>2. CASE t \in 0 .. made - 1
    <3>1. t \in Slot /\ t # made /\ t \in 0 .. J - 1
      BY <1>2, <2>2
    <3>2. TablePage(D, B, t) \in 0 .. AllPages - 1 /\ TablePage(D, B, t) \notin {D, D + 1}
          /\ TablePage(D, B, t) # q
      BY <1>3, <2>2, <3>1, TablePages
    <3>3. m1[At(D, t)] = m[At(D, t)] /\ m1[At(D + 1, t)] = m[At(D + 1, t)]
      BY <1>2, <1>3, <1>5, <3>1
    <3>4. \A e \in Slot : m1[At(TablePage(D, B, t), e)] = m[At(TablePage(D, B, t), e)]
      BY <1>5, <3>2
    <3> QED BY <2>2, <3>3, <3>4 DEF Layout
  <2> QED BY <2>1, <2>2
<1>7. \A t \in made + 1 .. J - 1 : m1[At(D, t)] = 0
  <2> SUFFICES ASSUME NEW t \in made + 1 .. J - 1 PROVE m1[At(D, t)] = 0
    OBVIOUS
  <2>1. t \in Slot /\ t # made /\ t \in made .. J - 1
    BY <1>2
  <2>2. m1[At(D, t)] = m[At(D, t)]
    BY <1>2, <1>3, <1>5, <2>1
  <2> QED BY <2>1, <2>2 DEF Layout
<1>8. \A j \in 0 .. ENTRIES - 1 - J : m1[At(D, J + j)] = Fill(j, n)
  <2> SUFFICES ASSUME NEW j \in 0 .. ENTRIES - 1 - J PROVE m1[At(D, J + j)] = Fill(j, n)
    OBVIOUS
  <2>1. J + j \in Slot /\ J + j # made
    BY <1>2
  <2>2. m1[At(D, J + j)] = m[At(D, J + j)]
    BY <1>2, <1>3, <1>5, <2>1
  <2> QED BY <2>2 DEF Layout
<1>9. \A w \in Words : KernelStart <= w /\ w < D * PAGE => m1[w] = IMAGE
  <2>1. \A p \in 0 .. AllPages - 1, k \in Slot : ~(p < J) /\ p < D => m1[At(p, k)] = m[At(p, k)]
    BY <1>2, <1>3, <1>5
  <2>2. \A w \in Words : KernelStart <= w /\ w < D * PAGE => m[w] = IMAGE
    BY DEF Layout
  <2> QED BY <2>1, <2>2, ImageSurvives
<1>10. Absent(m1, D, made + 1)
  <2> SUFFICES ASSUME NEW t \in made + 1 .. ENTRIES - 1 PROVE m1[At(D + 1, t)] = 0
    BY DEF Absent
  <2>1. t \in Slot /\ t # made
    BY <1>2 DEF Slot
  <2>2. m1[At(D + 1, t)] = m[At(D + 1, t)]
    BY <1>2, <1>3, <1>5, <2>1
  <2> QED BY <2>2 DEF Absent
<1>11. Layout(m1, D, J, B, made + 1, n)
  BY <1>5, <1>6, <1>7, <1>8, <1>9 DEF Layout
<1> QED BY <1>1, <1>10, <1>11

(* The first table of the heap is placed at address 0, stored as NULL and  *)
(* lost: only physical_tables keeps a trace of it.                         *)
LEMMA TableWasted ==
  ASSUME NEW D, NEW J, NEW usable, Room(D, J, usable), NEW B \in Nat \ {0},
         NEW made \in 0 .. J - 1, B <= made, NEW n \in Nat,
         NEW m, Layout(m, D, J, B, made, n), Absent(m, D, made)
  PROVE  /\ Layout(NewTable(m, D, made, 0), D, J, B, made, n)
         /\ Absent(NewTable(m, D, made, 0), D, made + 1)
<1>1. PICK m1 : m1 = NewTable(m, D, made, 0)
  OBVIOUS
<1>2. /\ D \in Nat /\ J \in Nat \ {0} /\ D \in 0 .. AllPages - 1 /\ D + 1 \in 0 .. AllPages - 1
      /\ made \in Slot /\ AllPages \in Nat /\ ENTRIES \in Nat /\ J < ENTRIES /\ J <= D
      /\ \A t \in 0 .. J - 1 : t \in Slot
      /\ \A j \in 0 .. ENTRIES - 1 - J : J + j \in Slot
  BY RoomIs, Sizes
<1>3. 0 \in 0 .. AllPages - 1 /\ 0 # D /\ 0 # D + 1 /\ 0 * PAGE = 0
  BY <1>2, Sizes
<1>4. m \in Memory
  BY DEF Layout
<1>5. /\ m1 \in Memory /\ m1[At(D, made)] = 0
      /\ \A p \in 0 .. AllPages - 1, k \in Slot :
           p # 0 /\ (p \notin {D, D + 1} \/ k # made) => m1[At(p, k)] = m[At(p, k)]
  <2>1. PICK q : q = 0
    OBVIOUS
  <2>2. /\ m1 = NewTable(m, D, made, q) /\ q \in 0 .. AllPages - 1 /\ q # D /\ q # D + 1
        /\ D \in Nat /\ D + 1 \in 0 .. AllPages - 1 /\ made \in Slot
    BY <1>1, <1>2, <1>3, <2>1
  <2>3. m1 \in Memory
    BY <1>4, <2>2, NewTableIs
  <2>4. m1[At(D, made)] = q * PAGE
    BY <1>4, <2>2, NewTableIs
  <2>5. \A p \in 0 .. AllPages - 1, k \in Slot :
           p # q /\ (p \notin {D, D + 1} \/ k # made) => m1[At(p, k)] = m[At(p, k)]
    BY <1>4, <2>2, NewTableIs
  <2> QED BY <1>3, <2>1, <2>3, <2>4, <2>5
<1>6. ASSUME NEW t \in 0 .. made - 1
      PROVE  /\ m1[At(D, t)] = TablePage(D, B, t) * PAGE
             /\ m1[At(D + 1, t)] = TablePage(D, B, t) * PAGE + PRESENT_RW_USER
             /\ \A e \in Slot : m1[At(TablePage(D, B, t), e)] = Entry(t * ENTRIES + e, n)
  <2>1. t \in Slot /\ t # made /\ t \in 0 .. J - 1
    BY <1>2
  <2>2. TablePage(D, B, t) \in 0 .. AllPages - 1 /\ TablePage(D, B, t) \notin {D, D + 1}
        /\ TablePage(D, B, t) # 0
    BY <2>1, TablePages
  <2>3. m1[At(D, t)] = m[At(D, t)] /\ m1[At(D + 1, t)] = m[At(D + 1, t)]
    BY <1>2, <1>3, <1>5, <2>1
  <2>4. \A e \in Slot : m1[At(TablePage(D, B, t), e)] = m[At(TablePage(D, B, t), e)]
    BY <1>5, <2>2
  <2> QED BY <2>3, <2>4 DEF Layout
<1>7. \A t \in made .. J - 1 : m1[At(D, t)] = 0
  <2> SUFFICES ASSUME NEW t \in made .. J - 1, t # made PROVE m1[At(D, t)] = 0
    BY <1>5
  <2>1. t \in Slot
    BY <1>2
  <2>2. m1[At(D, t)] = m[At(D, t)]
    BY <1>2, <1>3, <1>5, <2>1
  <2> QED BY <2>2 DEF Layout
<1>8. \A j \in 0 .. ENTRIES - 1 - J : m1[At(D, J + j)] = Fill(j, n)
  <2> SUFFICES ASSUME NEW j \in 0 .. ENTRIES - 1 - J PROVE m1[At(D, J + j)] = Fill(j, n)
    OBVIOUS
  <2>1. J + j \in Slot /\ J + j # made
    BY <1>2
  <2>2. m1[At(D, J + j)] = m[At(D, J + j)]
    BY <1>2, <1>3, <1>5, <2>1
  <2> QED BY <2>2 DEF Layout
<1>9. \A w \in Words : KernelStart <= w /\ w < D * PAGE => m1[w] = IMAGE
  <2>1. \A p \in 0 .. AllPages - 1, k \in Slot : ~(p < J) /\ p < D => m1[At(p, k)] = m[At(p, k)]
    BY <1>2, <1>3, <1>5
  <2>2. \A w \in Words : KernelStart <= w /\ w < D * PAGE => m[w] = IMAGE
    BY DEF Layout
  <2> QED BY <2>1, <2>2, ImageSurvives
<1>10. Absent(m1, D, made + 1)
  <2> SUFFICES ASSUME NEW t \in made + 1 .. ENTRIES - 1 PROVE m1[At(D + 1, t)] = 0
    BY DEF Absent
  <2>1. t \in Slot /\ t # made /\ t \in made .. ENTRIES - 1
    BY <1>2 DEF Slot
  <2>2. m1[At(D + 1, t)] = m[At(D + 1, t)]
    BY <1>2, <1>3, <1>5, <2>1
  <2> QED BY <2>1, <2>2 DEF Absent
<1>11. Layout(m1, D, J, B, made, n)
  BY <1>5, <1>6, <1>7, <1>8, <1>9 DEF Layout
<1> QED BY <1>1, <1>10, <1>11

(* get_page finds the table, or makes it on the page placement is at.      *)
LEMMA GetOld ==
  ASSUME NEW D \in Nat, kernel_directory = D * PAGE, NEW t \in Slot, NEW e \in Slot,
         NEW a, IsAt(a, t, e, 0), NEW m, NEW pp, m[At(D, t)] # 0
  PROVE  get_page(m, pp, a) =
           [mem |-> m, placement |-> pp, page |-> m[At(D, t)] + WORD * e]
<1>1. TableSlot(a) = At(D, t) /\ EntryOffset(a) = WORD * e
  <2>1. 0 \in 0 .. PAGE - 1
    BY Sizes
  <2> QED BY <2>1, Walk
<1> QED BY <1>1, Zenon DEF get_page

LEMMA GetNew ==
  ASSUME NEW D \in Nat, kernel_directory = D * PAGE, NEW t \in Slot, NEW e \in Slot,
         NEW a, IsAt(a, t, e, 0), NEW m, NEW pp, m[At(D, t)] = 0,
         NEW q \in Nat, Aligned(pp) = q * PAGE
  PROVE  get_page(m, pp, a) =
           [mem |-> NewTable(m, D, t, q), placement |-> (q + 1) * PAGE, page |-> At(q, e)]
<1>1. TableSlot(a) = At(D, t) /\ EntryOffset(a) = WORD * e /\ PhysicalSlot(a) = At(D + 1, t)
  <2>1. 0 \in 0 .. PAGE - 1
    BY Sizes
  <2> QED BY <2>1, Walk
<1>2. q * PAGE + PAGE = (q + 1) * PAGE /\ q * PAGE + WORD * e = At(q, e)
  BY Sizes DEF At
<1>3. get_page(m, pp, a) =
        [mem |-> [Clear([m EXCEPT ![At(D, t)] = q * PAGE], q * PAGE, PAGE)
                    EXCEPT ![At(D + 1, t)] = q * PAGE + PRESENT_RW_USER],
         placement |-> q * PAGE + PAGE, page |-> q * PAGE + WORD * e]
  BY <1>1, Zenon DEF get_page
<1> QED BY <1>2, <1>3, Zenon DEF NewTable, Put, Wipe

LEMMA AlignedIs ==
  /\ Aligned(0) = 0
  /\ \A q \in Nat \ {0} : Aligned(q * PAGE) = q * PAGE
  /\ \A q \in Nat \ {0}, k \in Slot : Aligned(At(q, k)) = q * PAGE
<1>1. ASSUME NEW q \in Nat \ {0}, NEW k \in Slot PROVE Aligned(At(q, k)) = q * PAGE
  <2>1. PageOf(At(q, k)) = q * PAGE
    BY AtIs, Place
  <2>2. At(q, k) >= PAGE
    <3>1. 1 * PAGE <= At(q, k) <=> 1 <= q
      BY AtOrder
    <3> QED BY <3>1, Sizes
  <2> QED BY <2>1, <2>2 DEF Aligned
<1>2. 0 \in Slot
  BY Sizes DEF Slot
<1>3. ASSUME NEW q \in Nat \ {0} PROVE Aligned(q * PAGE) = q * PAGE
  <2>1. At(q, 0) = q * PAGE
    BY <1>2, AtIs
  <2> QED BY <1>1, <1>2, <2>1
<1>4. Aligned(0) = 0
  BY Sizes DEF Aligned
<1> QED BY <1>1, <1>3, <1>4
-----------------------------------------------------------------------------
(***************************************************************************)
(* What the processor makes of an address: the first n pages are mapped to *)
(* themselves, nothing else is mapped.                                     *)
(***************************************************************************)
LEMMA Mapping ==
  ASSUME NEW D, NEW J, NEW usable, Room(D, J, usable), NEW B \in Nat \ {0},
         NEW made \in 0 .. J, NEW n \in Nat, n <= made * ENTRIES,
         NEW m, Layout(m, D, J, B, made, n), Absent(m, D, made),
         kernel_directory = D * PAGE,
         NEW t \in Slot, NEW e \in Slot, NEW x \in 0 .. PAGE - 1, NEW a, IsAt(a, t, e, x)
  PROVE  Translate(m, a) = IF t * ENTRIES + e < n THEN a ELSE NOWHERE
<1>1. D \in Nat /\ J \in Nat /\ J * ENTRIES + ENTRIES <= AllPages /\ J * ENTRIES \in Nat
      /\ ENTRIES \in Nat /\ PAGE \in Nat \ {0} /\ AllPages \in Nat
  BY RoomIs, Sizes
<1>2. PhysicalSlot(a) = At(D + 1, t) /\ EntryOffset(a) = WORD * e /\ a % PAGE = x
  BY <1>1, Walk
<1>3. PICK p : p = t * ENTRIES + e
  OBVIOUS
<1>4. p \in Nat /\ a = p * PAGE + x /\ t \in Nat /\ e \in 0 .. ENTRIES - 1 /\ e \in Nat
      /\ t * ENTRIES \in Nat /\ t < ENTRIES
  BY <1>1, <1>3 DEF IsAt, Slot
<1>5. CASE t < made
  <2>1. PICK q : q = TablePage(D, B, t)
    OBVIOUS
  <2>2. t \in 0 .. made - 1 /\ t \in 0 .. J - 1
    BY <1>1, <1>4, <1>5
  <2>3. q \in 0 .. AllPages - 1 /\ q \in Nat
    BY <2>1, <2>2, TablePages
  <2>4. m[At(D + 1, t)] = q * PAGE + 7 /\ m[At(q, e)] = Entry(p, n)
    BY <1>3, <2>1, <2>2 DEF Layout, PRESENT_RW_USER
  <2>5. PageOf(q * PAGE + 7) = q * PAGE /\ Bit(q * PAGE + 7, 0) = 1
    <3>1. 7 \in 0 .. 7 /\ 7 % 2 = 1
      OBVIOUS
    <3> QED BY <2>3, <3>1, FrameBits
  <2>6. q * PAGE + WORD * e = At(q, e)
    BY DEF At
  <2>7. Translate(m, a) = IF Bit(Entry(p, n), 0) = 1 THEN PageOf(Entry(p, n)) + x ELSE NOWHERE
    BY <1>2, <2>4, <2>5, <2>6 DEF Translate
  <2>8. CASE p < n
    <3>1. p \in 0 .. AllPages - 1
      <4>1. t * ENTRIES + ENTRIES <= J * ENTRIES
        BY <1>1, <1>4, <2>2, Products
      <4> QED BY <1>1, <1>3, <1>4, <4>1
    <3>2. Entry(p, n) = p * PAGE + 5
      BY <2>8 DEF Entry, PRESENT_USER
    <3>3. PageOf(p * PAGE + 5) = p * PAGE /\ Bit(p * PAGE + 5, 0) = 1
      <4>1. 5 \in 0 .. 7 /\ 5 % 2 = 1
        OBVIOUS
      <4> QED BY <3>1, <4>1, FrameBits
    <3> QED BY <1>3, <1>4, <2>7, <2>8, <3>2, <3>3
  <2>9. CASE ~(p < n)
    <3>1. Bit(Entry(p, n), 0) = 0
      BY <2>9, NoBits DEF Entry
    <3> QED BY <1>3, <2>7, <2>9, <3>1
  <2> QED BY <2>8, <2>9
<1>6. CASE ~(t < made)
  <2>1. m[At(D + 1, t)] = 0
    <3>1. t \in made .. ENTRIES - 1
      BY <1>1, <1>4, <1>6
    <3> QED BY <3>1 DEF Absent
  <2>2. Translate(m, a) = NOWHERE
    BY <1>2, <2>1, NoBits DEF Translate
  <2>3. ~(p < n)
    <3>1. made * ENTRIES <= t * ENTRIES
      BY <1>1, <1>4, <1>6, Products
    <3>2. made * ENTRIES \in Nat
      BY <1>1
    <3> QED BY <1>3, <1>4, <3>1, <3>2
  <2> QED BY <1>3, <2>2, <2>3
<1> QED BY <1>5, <1>6

-----------------------------------------------------------------------------
(***************************************************************************)
(* The bitmap.                                                             *)
(***************************************************************************)
LEMMA BitmapAt ==
  ASSUME NEW D \in Nat, NEW J \in Nat, frames = At(D, J), NEW f \in Nat
  PROVE  /\ INDEX_FROM_BIT(f) \in Nat /\ f % WORD_BITS \in 0 .. WORD_BITS - 1
         /\ f = INDEX_FROM_BIT(f) * WORD_BITS + (f % WORD_BITS)
         /\ BitmapWord(f) = At(D, J + INDEX_FROM_BIT(f))
<1>1. INDEX_FROM_BIT(f) \in Nat /\ f % WORD_BITS \in 0 .. WORD_BITS - 1
      /\ f = INDEX_FROM_BIT(f) * WORD_BITS + (f % WORD_BITS)
  BY Sizes, Parts DEF INDEX_FROM_BIT
<1>2. PICK j, w : j = INDEX_FROM_BIT(f) /\ w = WORD
  OBVIOUS
<1>3. w * (J + j) = w * J + w * j /\ w * J \in Nat /\ w * j \in Nat /\ D * PAGE \in Nat
  BY <1>1, <1>2, Sizes
<1>4. BitmapWord(f) = (D * PAGE + w * J) + w * j
  BY <1>2 DEF BitmapWord, At
<1> QED BY <1>1, <1>2, <1>3, <1>4 DEF At

LEMMA Tested ==
  ASSUME NEW D, NEW J, NEW usable, Room(D, J, usable), frames = At(D, J),
         NEW B, NEW made, NEW n \in Nat, NEW m, Layout(m, D, J, B, made, n),
         NEW f \in Nat, J + INDEX_FROM_BIT(f) < ENTRIES
  PROVE  test_frame(m, f) <=> f < n
<1>1. D \in Nat /\ J \in Nat /\ ENTRIES \in Nat
  BY RoomIs, Sizes
<1>2. PICK j, b : j = INDEX_FROM_BIT(f) /\ b = f % WORD_BITS
  OBVIOUS
<1>3. j \in Nat /\ b \in 0 .. WORD_BITS - 1 /\ f = j * WORD_BITS + b /\ BitmapWord(f) = At(D, J + j)
  BY <1>1, <1>2, BitmapAt
<1>4. j \in 0 .. ENTRIES - 1 - J
  BY <1>1, <1>2, <1>3
<1>5. m[At(D, J + j)] = Fill(j, n)
  BY <1>4 DEF Layout
<1>6. Bit(Fill(j, n), b) = IF j * WORD_BITS + b < n THEN 1 ELSE 0
  BY <1>3, FillIs
<1> QED BY <1>2, <1>3, <1>5, <1>6 DEF test_frame

(* The first free frame is the first page not mapped yet.                  *)
LEMMA FirstFree ==
  ASSUME NEW D, NEW J, Usable \in Nat, Room(D, J, Usable), frames = At(D, J),
         NEW B, NEW made, NEW n \in Nat, NEW m, Layout(m, D, J, B, made, n),
         n <= J * ENTRIES, n <= Usable
  PROVE  /\ n < Usable /\ n < J * ENTRIES => n \in FreeFrames(m) /\ first_frame(m) = n
         /\ n = Usable => FreeFrames(m) = {}
<1>1. D \in Nat /\ J \in Nat /\ ENTRIES \in Nat /\ J * ENTRIES \in Nat
      /\ \A f \in 0 .. Usable - 1 : f < J * ENTRIES => J + INDEX_FROM_BIT(f) < ENTRIES
  BY RoomIs, Sizes DEF Room
<1>2. ASSUME NEW f \in 0 .. Usable - 1, f < n PROVE test_frame(m, f)
  <2>1. f \in Nat /\ J + INDEX_FROM_BIT(f) < ENTRIES
    BY <1>1, <1>2
  <2> QED BY <1>2, <2>1, Tested
<1>3. ASSUME n < Usable, n < J * ENTRIES PROVE n \in FreeFrames(m) /\ first_frame(m) = n
  <2>1. n \in 0 .. Usable - 1
    BY <1>3
  <2>2. J + INDEX_FROM_BIT(n) < ENTRIES
    BY <1>1, <1>3, <2>1
  <2>3. ~test_frame(m, n)
    BY <2>2, Tested
  <2>4. n \in FreeFrames(m)
    BY <2>1, <2>3 DEF FreeFrames
  <2>5. \A f \in FreeFrames(m) : f \in Nat /\ n <= f
    <3> SUFFICES ASSUME NEW f \in FreeFrames(m) PROVE f \in Nat /\ n <= f
      OBVIOUS
    <3>1. f \in 0 .. Usable - 1 /\ ~test_frame(m, f)
      BY DEF FreeFrames
    <3> QED BY <1>2, <3>1
  <2>6. PICK free : free = FreeFrames(m)
    OBVIOUS
  <2>7. first_frame(m) = CHOOSE f \in free : \A g \in free : f <= g
    BY <2>6 DEF first_frame
  <2>8. n \in free /\ \A f \in free : f \in Nat /\ n <= f
    BY <2>4, <2>5, <2>6
  <2>9. first_frame(m) \in free /\ \A g \in free : first_frame(m) <= g
    <3>1. \E f \in free : \A g \in free : f <= g
      BY <2>8
    <3> QED BY <2>7, <3>1
  <2>10. first_frame(m) = n
    <3>1. PICK f : f = first_frame(m)
      OBVIOUS
    <3>2. f \in Nat /\ n <= f /\ f <= n
      BY <2>8, <2>9, <3>1
    <3> QED BY <3>1, <3>2
  <2> QED BY <2>4, <2>10
<1>4. ASSUME n = Usable PROVE FreeFrames(m) = {}
  BY <1>2, <1>4 DEF FreeFrames
<1> QED BY <1>3, <1>4

(* Taking the next frame for the next page.                                *)
LEMMA FrameTaken ==
  ASSUME NEW D, NEW J, Usable \in Nat, Room(D, J, Usable), frames = At(D, J),
         NEW B \in Nat \ {0}, NEW made \in 0 .. J,
         NEW t \in 0 .. made - 1, NEW e \in Slot, NEW n, n = t * ENTRIES + e, n < Usable,
         NEW m, Layout(m, D, J, B, made, n), Absent(m, D, made)
  PROVE  /\ Layout(alloc_frame(m, At(TablePage(D, B, t), e)), D, J, B, made, n + 1)
         /\ Absent(alloc_frame(m, At(TablePage(D, B, t), e)), D, made)
<1>1. PICK q, j, b : q = TablePage(D, B, t) /\ j = INDEX_FROM_BIT(n) /\ b = n % WORD_BITS
  OBVIOUS
<1>2. /\ D \in Nat /\ J \in Nat \ {0} /\ D \in 0 .. AllPages - 1 /\ D + 1 \in 0 .. AllPages - 1
      /\ AllPages \in Nat /\ ENTRIES \in Nat /\ J < ENTRIES /\ J * ENTRIES \in Nat
      /\ J * ENTRIES + ENTRIES <= AllPages
      /\ \A u \in 0 .. J - 1 : u \in Slot
      /\ \A l \in 0 .. ENTRIES - 1 - J : J + l \in Slot
  BY RoomIs, Sizes
<1>3. t \in Slot /\ t \in 0 .. J - 1 /\ t \in Nat /\ e \in Nat /\ e \in 0 .. ENTRIES - 1
      /\ t * ENTRIES \in Nat /\ n \in Nat
  BY <1>2 DEF Slot
<1>4. n < J * ENTRIES
  <2>1. t * ENTRIES + ENTRIES <= J * ENTRIES
    BY <1>2, <1>3, Products
  <2> QED BY <1>2, <1>3, <2>1
<1>5. /\ q \in 0 .. AllPages - 1 /\ q # D /\ q # D + 1 /\ (q < J \/ q > D) /\ q \in Nat
      /\ \A u \in 0 .. J - 1 : u # t => TablePage(D, B, u) # q
  BY <1>1, <1>3, TablePages
<1>6. /\ j \in Nat /\ b \in 0 .. WORD_BITS - 1 /\ n = j * WORD_BITS + b
      /\ BitmapWord(n) = At(D, J + j)
  BY <1>1, <1>2, <1>3, BitmapAt
<1>7. J + j < ENTRIES /\ J + j \in Slot /\ j \in 0 .. ENTRIES - 1 - J
  <2>1. n \in 0 .. Usable - 1
    BY <1>3
  <2>2. J + j < ENTRIES
    BY <1>1, <1>4, <2>1 DEF Room
  <2> QED BY <1>2, <1>6, <2>2
<1>8. Fill(j, n + 1) = Fill(j, n) + Pow2[b] /\ Fill(j, n + 1) \in 0 .. TopOfMemory - 1
      /\ \A l \in Nat : l # j => Fill(l, n + 1) = Fill(l, n)
  <2>1. Fill(j, n + 1) = Fill(j, n) + Pow2[b] /\ \A l \in Nat : l # j => Fill(l, n + 1) = Fill(l, n)
    BY <1>6, FillStep
  <2>2. Fill(j, n + 1) \in 0 .. Pow2[WORD_BITS] - 1
    <3>1. n + 1 \in Nat
      BY <1>3
    <3> QED BY <1>6, <3>1, FillIs
  <2> QED BY <2>1, <2>2, Sizes
<1>9. m \in Memory /\ m[At(D, J + j)] = Fill(j, n) /\ m[At(q, e)] = 0
  <2>1. Entry(t * ENTRIES + e, n) = 0
    BY <1>3 DEF Entry
  <2>2. m[At(q, e)] = Entry(t * ENTRIES + e, n)
    BY <1>1 DEF Layout
  <2> QED BY <1>7, <2>1, <2>2 DEF Layout
<1>10. first_frame(m) = n /\ ~test_frame(m, n)
  <2>1. first_frame(m) = n
    <3>1. n \in Nat /\ n <= J * ENTRIES /\ n <= Usable /\ n < Usable /\ n < J * ENTRIES
      BY <1>2, <1>3, <1>4
    <3> QED BY <3>1, FirstFree, Zenon
  <2>2. J + INDEX_FROM_BIT(n) < ENTRIES
    BY <1>1, <1>7
  <2> QED BY <1>3, <2>1, <2>2, Tested
<1>11. PICK ma, m1 : ma = Put(m, D, J + j, Fill(j, n + 1)) /\ m1 = Put(ma, q, e, n * PAGE + PRESENT_USER)
  OBVIOUS
<1>12. alloc_frame(m, At(q, e)) = m1
  <2>1. FrameOf(m[At(q, e)]) = 0
    BY <1>9, Sizes DEF FrameOf
  <2>2. set_frame(m, n) = [m EXCEPT ![BitmapWord(n)] = @ + Pow2[n % WORD_BITS]]
    BY <1>10 DEF set_frame
  <2>3. set_frame(m, n) = ma
    <3>1. m[BitmapWord(n)] + Pow2[n % WORD_BITS] = Fill(j, n + 1)
      BY <1>1, <1>6, <1>8, <1>9
    <3>2. set_frame(m, n) = [m EXCEPT ![At(D, J + j)] = Fill(j, n + 1)]
      BY <1>6, <2>2, <3>1, Zenon
    <3> QED BY <1>11, <3>2, Zenon DEF Put
  <2>4. alloc_frame(m, At(q, e)) = [set_frame(m, n) EXCEPT ![At(q, e)] = n * PAGE + PRESENT_USER]
    BY <1>10, <2>1, Zenon DEF alloc_frame
  <2> QED BY <1>11, <2>3, <2>4 DEF Put
<1>13. PICK v, k : v = Fill(j, n + 1) /\ k = J + j
  OBVIOUS
<1>14. /\ ma \in Memory /\ ma[At(D, k)] = v
       /\ \A p \in 0 .. AllPages - 1, l \in Slot : p # D \/ l # k => ma[At(p, l)] = m[At(p, l)]
  <2>1. ma = Put(m, D, k, v) /\ k \in Slot /\ v \in 0 .. TopOfMemory - 1
    BY <1>7, <1>8, <1>11, <1>13
  <2>2. ma \in Memory
    BY <1>2, <1>9, <2>1, Stored
  <2>3. ma[At(D, k)] = v
    BY <1>2, <1>9, <2>1, Stored
  <2>4. \A p \in 0 .. AllPages - 1, l \in Slot : p # D \/ l # k => ma[At(p, l)] = m[At(p, l)]
    <3>1. D \in 0 .. AllPages - 1 /\ m \in Memory
      BY <1>2, <1>9
    <3> QED BY <2>1, <3>1, Stored
  <2> QED BY <2>2, <2>3, <2>4
<1>15. PICK x : x = n * PAGE + PRESENT_USER
  OBVIOUS
<1>16. /\ m1 \in Memory /\ m1[At(q, e)] = x
       /\ \A p \in 0 .. AllPages - 1, l \in Slot : p # q \/ l # e => m1[At(p, l)] = ma[At(p, l)]
  <2>1. x \in 0 .. TopOfMemory - 1
    <3>1. n \in 0 .. AllPages - 1 /\ PRESENT_USER \in 0 .. 7
      BY <1>2, <1>3, <1>4 DEF PRESENT_USER
    <3> QED BY <1>15, <3>1, FrameBits
  <2>2. m1 = Put(ma, q, e, x)
    BY <1>11, <1>15
  <2>3. m1 \in Memory
    BY <1>5, <1>14, <2>1, <2>2, Stored
  <2>4. m1[At(q, e)] = x
    BY <1>5, <1>14, <2>1, <2>2, Stored
  <2>5. \A p \in 0 .. AllPages - 1, l \in Slot : p # q \/ l # e => m1[At(p, l)] = ma[At(p, l)]
    BY <1>5, <1>14, <2>1, <2>2, Stored
  <2> QED BY <2>3, <2>4, <2>5
<1>17. ASSUME NEW p \in 0 .. AllPages - 1, NEW l \in Slot, p # D \/ l # k, p # q \/ l # e
       PROVE  m1[At(p, l)] = m[At(p, l)]
  BY <1>14, <1>16, <1>17
<1>18. ASSUME NEW u \in 0 .. made - 1
       PROVE  /\ m1[At(D, u)] = TablePage(D, B, u) * PAGE
              /\ m1[At(D + 1, u)] = TablePage(D, B, u) * PAGE + PRESENT_RW_USER
  <2>1. u \in Slot /\ u # k
    BY <1>2, <1>6, <1>13
  <2>2. m1[At(D, u)] = m[At(D, u)] /\ m1[At(D + 1, u)] = m[At(D + 1, u)]
    <3>1. D # q /\ D + 1 # q /\ D + 1 # D
      BY <1>2, <1>5
    <3> QED BY <1>2, <1>17, <2>1, <3>1
  <2> QED BY <2>2 DEF Layout
<1>19. ASSUME NEW u \in 0 .. made - 1, NEW l \in Slot
       PROVE  m1[At(TablePage(D, B, u), l)] = Entry(u * ENTRIES + l, n + 1)
  <2>1. u \in 0 .. J - 1 /\ u \in Nat /\ l \in Nat /\ l \in 0 .. ENTRIES - 1 /\ u * ENTRIES \in Nat
    BY <1>2 DEF Slot
  <2>2. CASE u = t /\ l = e
    <3>1. Entry(n, n + 1) = x
      BY <1>3, <1>15 DEF Entry
    <3> QED BY <1>1, <1>16, <2>2, <3>1
  <2>3. CASE ~(u = t /\ l = e)
    <3>1. u * ENTRIES + l # n
      <4>1. ASSUME u < t PROVE u * ENTRIES + l < n
        <5>1. u * ENTRIES + ENTRIES <= t * ENTRIES
          BY <1>2, <1>3, <2>1, <4>1, Products
        <5> QED BY <1>2, <1>3, <2>1, <5>1
      <4>2. ASSUME t < u PROVE n < u * ENTRIES + l
        <5>1. t * ENTRIES + ENTRIES <= u * ENTRIES
          BY <1>2, <1>3, <2>1, <4>2, Products
        <5> QED BY <1>2, <1>3, <2>1, <5>1
      <4>3. u = t => u * ENTRIES + l # n
        BY <1>3, <2>1, <2>3
      <4> QED BY <1>3, <2>1, <4>1, <4>2, <4>3
    <3>2. Entry(u * ENTRIES + l, n + 1) = Entry(u * ENTRIES + l, n)
      BY <1>3, <2>1, <3>1 DEF Entry
    <3>3. TablePage(D, B, u) \in 0 .. AllPages - 1 /\ TablePage(D, B, u) # D
          /\ (TablePage(D, B, u) # q \/ l # e)
      <4>1. TablePage(D, B, u) \in 1 .. AllPages - 1 /\ TablePage(D, B, u) # D
        BY <2>1, TablePages
      <4>2. u # t => TablePage(D, B, u) # q
        BY <1>5, <2>1
      <4> QED BY <2>3, <4>1, <4>2
    <3>4. m1[At(TablePage(D, B, u), l)] = m[At(TablePage(D, B, u), l)]
      BY <1>17, <3>3
    <3> QED BY <3>2, <3>4 DEF Layout
  <2> QED BY <2>2, <2>3
<1>20. \A u \in made .. J - 1 : m1[At(D, u)] = 0
  <2> SUFFICES ASSUME NEW u \in made .. J - 1 PROVE m1[At(D, u)] = 0
    OBVIOUS
  <2>1. u \in Slot /\ u # k
    BY <1>2, <1>6, <1>13
  <2>2. m1[At(D, u)] = m[At(D, u)]
    BY <1>2, <1>5, <1>17, <2>1
  <2> QED BY <2>2 DEF Layout
<1>21. \A l \in 0 .. ENTRIES - 1 - J : m1[At(D, J + l)] = Fill(l, n + 1)
  <2> SUFFICES ASSUME NEW l \in 0 .. ENTRIES - 1 - J PROVE m1[At(D, J + l)] = Fill(l, n + 1)
    OBVIOUS
  <2>1. J + l \in Slot /\ l \in Nat
    BY <1>2
  <2>2. CASE l = j
    <3>1. J + l = k
      BY <1>13, <2>2
    <3>2. m1[At(D, k)] = ma[At(D, k)]
      BY <1>2, <1>5, <1>7, <1>13, <1>16
    <3> QED BY <1>13, <1>14, <2>2, <3>1, <3>2
  <2>3. CASE l # j
    <3>1. J + l # k
      BY <1>2, <1>6, <1>13, <2>1, <2>3
    <3>2. m1[At(D, J + l)] = m[At(D, J + l)]
      BY <1>2, <1>5, <1>17, <2>1, <3>1
    <3>3. m[At(D, J + l)] = Fill(l, n)
      BY DEF Layout
    <3> QED BY <1>8, <2>1, <2>3, <3>2, <3>3
  <2> QED BY <2>2, <2>3
<1>22. \A w \in Words : KernelStart <= w /\ w < D * PAGE => m1[w] = IMAGE
  <2>1. \A p \in 0 .. AllPages - 1, l \in Slot : ~(p < J) /\ p < D => m1[At(p, l)] = m[At(p, l)]
    BY <1>2, <1>5, <1>17
  <2>2. \A w \in Words : KernelStart <= w /\ w < D * PAGE => m[w] = IMAGE
    BY DEF Layout
  <2> QED BY <2>1, <2>2, ImageSurvives
<1>23. Absent(m1, D, made)
  <2> SUFFICES ASSUME NEW u \in made .. ENTRIES - 1 PROVE m1[At(D + 1, u)] = 0
    BY DEF Absent
  <2>1. u \in Slot
    BY <1>2 DEF Slot
  <2>2. m1[At(D + 1, u)] = m[At(D + 1, u)]
    <3>1. D + 1 # q /\ D + 1 # D
      BY <1>2, <1>5
    <3> QED BY <1>2, <1>17, <2>1, <3>1
  <2> QED BY <2>2 DEF Absent
<1>24. Layout(m1, D, J, B, made, n + 1)
  BY <1>16, <1>18, <1>19, <1>20, <1>21, <1>22 DEF Layout
<1> QED BY <1>1, <1>12, <1>23, <1>24

-----------------------------------------------------------------------------
(***************************************************************************)
(* The invariant.                                                          *)
(***************************************************************************)
(* Where the boot loader's choice puts the structures.                     *)
Chosen(D, J) ==
  /\ D \in Nat /\ J \in Nat
  /\ Room(D, J, INDEX_FROM_BIT(grub.mem_upper \div 4) * WORD_BITS)
  /\ HEADER <= J /\ grub.start = At(D, J - HEADER) /\ PageOf(grub.start) = D * PAGE
  /\ Reach(grub.start) = J * ENTRIES
  /\ WORD * J + INDEX_FROM_BIT(grub.mem_upper \div 4) < PAGE
  /\ \A inc \in Increments : (J * ENTRIES) * PAGE + inc < TopOfMemory

(* Before paging_install().                                                *)
Early(D) ==
  /\ mem \in Memory
  /\ \A w \in Words : KernelStart <= w /\ w < D * PAGE => mem[w] = IMAGE
  /\ frames = 0 /\ nframes = 0 /\ kernel_directory = 0 /\ i = 0
  /\ heap_end = 0 /\ heap_start = 0 /\ paging = FALSE
  /\ \/ pc = "copy_multiboot" /\ placement_pointer = grub.start /\ mboot_ptr = 0
     \/ /\ pc = "paging_install" /\ mboot_ptr = grub.start
        /\ placement_pointer = grub.start + HEADER * WORD
        /\ mem[mboot_ptr + 2 * WORD] = grub.mem_upper

(* The loop of paging_install(), which all its tables belong to.           *)
Booting(D, B, made, n) ==
  /\ pc \in {"map", "heap_install", "out_of_frames"}
  /\ paging = (pc = "heap_install")
  /\ heap_start = 0 /\ heap_end = 0 /\ B = ENTRIES
  /\ made = 0 => n = 0 /\ placement_pointer = At(D + 2, 1)
  /\ made > 0 => placement_pointer = (D + 2 + made) * PAGE /\ n <= D + 2 + made
  /\ paging => made > 0 /\ n = D + 2 + made

(* After heap_install(); h is the page heap_end is at.                     *)
Running(D, B, made, n) ==
  /\ pc \in {"run", "sbrk", "out_of_frames", "page_fault"}
  /\ paging = TRUE
  /\ B \in 1 .. made /\ D + 2 + B <= n
  /\ heap_start = (D + 2 + B) * PAGE
  /\ made = B => placement_pointer = 0
  /\ made > B => placement_pointer = (made - B + 1) * PAGE
  /\ \E h \in n .. AllPages - 1 : heap_end = h * PAGE /\ (pc = "run" => h = n)

Placed(D, J) ==
  /\ kernel_directory = D * PAGE /\ frames = At(D, J)
  /\ nframes = grub.mem_upper \div 4 /\ mboot_ptr = grub.start

(* What a kernel that has halted ran out of: frames, or slots of tables.   *)
Stopped(at, J, n) ==
  /\ at = "out_of_frames" => n = Usable
  /\ at = "page_fault" => n = J * ENTRIES

Shape(D, J, B, made, n) ==
  /\ Placed(D, J)
  /\ B \in Nat \ {0} /\ made \in 0 .. J /\ n \in Nat
  /\ i = n * PAGE /\ n <= made * ENTRIES /\ n <= Usable
  /\ Layout(mem, D, J, B, made, n) /\ Absent(mem, D, made)
  /\ Booting(D, B, made, n) \/ Running(D, B, made, n)
  /\ Stopped(pc, J, n)

IInv ==
  /\ grub \in [start : Starts, mem_upper : MemUppers]
  /\ Fits => \E D, J \in Nat :
       /\ Chosen(D, J)
       /\ Early(D) \/ \E B, made, n \in Nat : Shape(D, J, B, made, n)

(* A word is at a place of a page, and where that leaves what Fits says.   *)
LEMMA FitsMeans ==
  ASSUME grub \in [start : Starts, mem_upper : MemUppers], Fits
  PROVE  \E D, J \in Nat : Chosen(D, J)
<1>1. PICK start, w, e, c : start = grub.start /\ w = WORD /\ e = ENTRIES /\ c = PAGE
  OBVIOUS
<1>2. /\ start \in Nat /\ start % w = 0 /\ start > KernelStart /\ KernelStart \in Nat
      /\ w \in Nat \ {0} /\ e \in Nat \ {0} /\ c \in Nat \ {0} /\ c = e * w
      /\ HEADER \in Nat /\ HEADER > 2
  BY <1>1, Sizes, MemAssumption
<1>3. PICK k, D, s : k = start \div w /\ D = k \div e /\ s = k % e
  OBVIOUS
<1>4. k \in Nat /\ start = k * w
  <2>1. k \in Nat /\ start = k * w + 0
    <3>1. start \div w \in Nat /\ start = (start \div w) * w + (start % w)
      BY <1>2, Parts
    <3> QED BY <1>2, <1>3, <3>1
  <2>2. k * w \in Nat
    BY <1>2, <2>1
  <2> QED BY <2>1, <2>2
<1>5. D \in Nat /\ s \in 0 .. e - 1 /\ s \in Slot /\ k = D * e + s
  <2>1. k \div e \in Nat /\ k % e \in 0 .. e - 1 /\ k = (k \div e) * e + (k % e)
    BY <1>2, <1>4, Parts
  <2> QED BY <1>1, <1>3, <2>1 DEF Slot
<1>6. start = At(D, s)
  <2>1. (D * e + s) * w = D * (e * w) + w * s
    BY <1>2, <1>5
  <2> QED BY <1>1, <1>2, <1>4, <1>5, <2>1 DEF At
<1>7. start = D * PAGE + WORD * s /\ WORD * s \in 0 .. PAGE - 1
  BY <1>5, <1>6, AtIs
<1>8. start \div PAGE = D /\ start % PAGE = WORD * s /\ PageOf(start) = D * PAGE
  BY <1>5, <1>7, Place
<1>9. Spare(start) = s + HEADER
  <2>1. (WORD * s) \div WORD = s
    <3>1. PICK x : x = WORD * s
      OBVIOUS
    <3>2. x = s * w + 0 /\ 0 \in 0 .. w - 1 /\ s \in Nat
      BY <1>1, <1>2, <1>5, <3>1
    <3>3. x \div w = s
      BY <1>2, <3>2, Division
    <3> QED BY <1>1, <3>1, <3>3
  <2> QED BY <1>1, <1>8, <2>1 DEF Spare
<1>10. PICK J, bytes, u : J = s + HEADER /\ bytes = INDEX_FROM_BIT(grub.mem_upper \div 4)
                          /\ u = grub.mem_upper
  OBVIOUS
<1>11. J \in Nat /\ J - HEADER = s /\ HEADER <= J /\ 1 <= J
  BY <1>2, <1>5, <1>10
<1>12. bytes \in Nat
  <2>1. u \in Nat
    BY <1>10, MemAssumption
  <2>2. u \div 4 \in Nat
    BY <2>1
  <2>3. (u \div 4) \div WORD_BITS \in Nat
    BY <2>2, Sizes, Parts
  <2> QED BY <1>10, <2>3 DEF INDEX_FROM_BIT
<1>13. /\ WORD * J + bytes < PAGE
       /\ \A f \in 0 .. bytes * WORD_BITS - 1 : f < J * ENTRIES => J + INDEX_FROM_BIT(f) < ENTRIES
       /\ WORD_BITS <= J * ENTRIES /\ J * PAGE <= KernelStart
       /\ Reach(start) = J * ENTRIES
       /\ D + 2 + J <= J * ENTRIES
       /\ \A inc \in Increments : (J * ENTRIES) * PAGE + inc < TopOfMemory
  <2>1. Spare(start) = J /\ Reach(start) = J * ENTRIES
    BY <1>9, <1>10 DEF Reach
  <2> QED BY <1>1, <1>8, <1>10, <2>1 DEF Fits, FitsIn
<1>14. J < ENTRIES
  <2>1. w * J \in Nat /\ w * J + bytes < e * w
    BY <1>1, <1>2, <1>11, <1>13
  <2>2. ~(J < e) => e * w <= J * w
    BY <1>2, <1>11, Products
  <2>3. J * w = w * J /\ e * w \in Nat
    BY <1>2, <1>11
  <2> QED BY <1>1, <1>11, <1>12, <2>1, <2>2, <2>3
<1>15. J <= D
  <2>1. J * PAGE <= At(D, s) <=> J <= D
    BY <1>5, <1>11, AtOrder
  <2>2. J * PAGE \in Nat
    BY <1>11, Sizes
  <2> QED BY <1>2, <1>6, <1>13, <2>1, <2>2
<1>16. Room(D, J, bytes * WORD_BITS)
  BY <1>5, <1>11, <1>13, <1>14, <1>15 DEF Room
<1>17. Chosen(D, J)
  BY <1>1, <1>5, <1>6, <1>8, <1>10, <1>11, <1>13, <1>16 DEF Chosen
<1> QED BY <1>5, <1>11, <1>17

-----------------------------------------------------------------------------
(***************************************************************************)
(* One page more: both loops call get_page and alloc_frame on the first    *)
(* page that is not mapped.                                                *)
(***************************************************************************)
(* The next page is entry e of a table that is there, or is due now.       *)
LEMMA NextPage ==
  ASSUME NEW J \in Nat, J < ENTRIES, NEW made \in 0 .. J,
         NEW n \in Nat, n <= made * ENTRIES, n < J * ENTRIES
  PROVE  \E t \in 0 .. J - 1, e \in Slot :
           /\ t \in Slot /\ n = t * ENTRIES + e /\ IsAt(n * PAGE, t, e, 0)
           /\ t < made \/ t = made
<1>1. PICK c, t, e : c = ENTRIES /\ t = n \div c /\ e = n % c
  OBVIOUS
<1>2. c \in Nat \ {0} /\ J < c /\ made \in Nat /\ made <= J
  BY <1>1, Sizes
<1>3. t \in Nat /\ e \in 0 .. c - 1 /\ n = t * c + e /\ t * c \in Nat
  <2>1. n \div c \in Nat /\ n % c \in 0 .. c - 1 /\ n = (n \div c) * c + (n % c)
    BY <1>2, Parts
  <2> QED BY <1>1, <1>2, <2>1
<1>4. t < J
  <2>1. ~(t < J) => J * c <= t * c
    BY <1>2, <1>3, Products
  <2>2. J * c \in Nat
    BY <1>2
  <2> QED BY <1>1, <1>2, <1>3, <2>1, <2>2
<1>5. t <= made
  <2>1. ~(t <= made) => made * c + c <= t * c
    BY <1>2, <1>3, Products
  <2>2. made * c \in Nat
    BY <1>2
  <2> QED BY <1>1, <1>2, <1>3, <2>1, <2>2
<1>6. t \in 0 .. J - 1 /\ e \in Slot /\ t \in Slot /\ (t < made \/ t = made)
  BY <1>1, <1>2, <1>3, <1>4, <1>5 DEF Slot
<1>7. IsAt(n * PAGE, t, e, 0)
  <2>1. n * PAGE = (t * ENTRIES + e) * PAGE + 0
    BY <1>1, <1>3, Sizes
  <2> QED BY <2>1 DEF IsAt
<1> QED BY <1>1, <1>3, <1>6, <1>7

(* get_page on a page of a table that is there.                            *)
LEMMA PageFound ==
  ASSUME NEW D, NEW J, NEW usable, Room(D, J, usable), kernel_directory = D * PAGE,
         NEW B \in Nat \ {0}, NEW made \in 0 .. J, NEW n \in Nat,
         NEW m, Layout(m, D, J, B, made, n), NEW pp,
         NEW t \in 0 .. made - 1, NEW e \in Slot, NEW a, IsAt(a, t, e, 0)
  PROVE  get_page(m, pp, a) =
           [mem |-> m, placement |-> pp, page |-> At(TablePage(D, B, t), e)]
<1>1. D \in Nat /\ J \in Nat /\ t \in 0 .. J - 1 /\ t \in Slot
  BY RoomIs
<1>2. PICK q : q = TablePage(D, B, t)
  OBVIOUS
<1>3. q \in 1 .. AllPages - 1
  BY <1>1, <1>2, TablePages
<1>4. m[At(D, t)] = q * PAGE
  BY <1>2 DEF Layout
<1>5. q * PAGE # 0 /\ q * PAGE + WORD * e = At(q, e)
  <2>1. q \in Nat /\ 1 <= q /\ 1 * PAGE = PAGE
    BY <1>3, Sizes
  <2>2. 1 * PAGE <= q * PAGE
    BY <2>1, Sizes, Products
  <2> QED BY <2>1, <2>2, Sizes DEF At
<1>6. get_page(m, pp, a) = [mem |-> m, placement |-> pp, page |-> m[At(D, t)] + WORD * e]
  <2>1. m[At(D, t)] # 0
    BY <1>4, <1>5
  <2> QED BY <1>1, <2>1, GetOld
<1> QED BY <1>2, <1>4, <1>5, <1>6

(* get_page on the first page of the table due now.                        *)
LEMMA PageMade ==
  ASSUME NEW D, NEW J, NEW usable, Room(D, J, usable), kernel_directory = D * PAGE,
         NEW B \in Nat \ {0}, NEW made \in 0 .. J - 1, NEW n \in Nat, n <= made * ENTRIES,
         NEW m, Layout(m, D, J, B, made, n), Absent(m, D, made + 1),
         NEW pp, Aligned(pp) = TablePage(D, B, made) * PAGE,
         NEW e \in Slot, NEW a, IsAt(a, made, e, 0)
  PROVE  \E m1 :
           /\ get_page(m, pp, a) = [mem |-> m1, placement |-> (TablePage(D, B, made) + 1) * PAGE,
                                    page |-> At(TablePage(D, B, made), e)]
           /\ Layout(m1, D, J, B, made + 1, n) /\ Absent(m1, D, made + 1)
<1>1. D \in Nat /\ J \in Nat /\ made \in Slot /\ made \in 0 .. J - 1
  BY RoomIs
<1>2. PICK q, m1 : q = TablePage(D, B, made) /\ m1 = NewTable(m, D, made, q)
  OBVIOUS
<1>3. q \in Nat
  BY <1>2, TablePages
<1>4. m[At(D, made)] = 0
  <2>1. made \in made .. J - 1
    BY <1>1
  <2> QED BY <2>1 DEF Layout
<1>5. get_page(m, pp, a) = [mem |-> m1, placement |-> (q + 1) * PAGE, page |-> At(q, e)]
  BY <1>1, <1>2, <1>3, <1>4, GetNew
<1>6. Layout(m1, D, J, B, made + 1, n)
  BY <1>2, TableAdded
<1>7. Absent(m1, D, made + 1)
  BY <1>2, TableAdded
<1> QED BY <1>2, <1>5, <1>6, <1>7

(* alloc_frame on the next page: it takes the next frame or there is none. *)
LEMMA FrameFound ==
  ASSUME NEW D, NEW J, Usable \in Nat, Room(D, J, Usable), frames = At(D, J),
         NEW B \in Nat \ {0}, NEW made \in 0 .. J,
         NEW t \in 0 .. made - 1, NEW e \in Slot, NEW n, n = t * ENTRIES + e, n <= Usable,
         NEW m, Layout(m, D, J, B, made, n)
  PROVE  NoFrame(m, At(TablePage(D, B, t), e)) <=> n = Usable
<1>1. J \in Nat /\ ENTRIES \in Nat /\ t \in Nat /\ e \in Nat /\ e < ENTRIES
      /\ t * ENTRIES \in Nat /\ J * ENTRIES \in Nat
  BY RoomIs, Sizes DEF Slot
<1>2. n \in Nat /\ n < J * ENTRIES /\ n <= J * ENTRIES /\ n <= Usable
  <2>1. t * ENTRIES + ENTRIES <= J * ENTRIES
    BY <1>1, Products
  <2> QED BY <1>1, <2>1
<1>3. m[At(TablePage(D, B, t), e)] = 0
  <2>1. m[At(TablePage(D, B, t), e)] = Entry(t * ENTRIES + e, n)
    BY DEF Layout
  <2> QED BY <1>2, <2>1 DEF Entry
<1>4. FrameOf(m[At(TablePage(D, B, t), e)]) = 0
  BY <1>3, Sizes DEF FrameOf
<1>5. n < Usable => n \in FreeFrames(m)
  BY <1>2, FirstFree, Zenon
<1>6. n = Usable => FreeFrames(m) = {}
  BY <1>2, FirstFree, Zenon
<1> QED BY <1>2, <1>4, <1>5, <1>6 DEF NoFrame

-----------------------------------------------------------------------------
(***************************************************************************)
(* The invariant holds at the start and every action keeps it.             *)
(***************************************************************************)
LEMMA ChosenIs ==
  ASSUME NEW D \in Nat, NEW J \in Nat, Chosen(D, J)
  PROVE  /\ J - HEADER \in Slot /\ J - HEADER + 2 \in Slot /\ J \in Slot
         /\ D * PAGE <= grub.start /\ D * PAGE \in Nat
         /\ grub.start + 2 * WORD = At(D, J - HEADER + 2)
         /\ grub.start + HEADER * WORD = At(D, J)
<1>1. /\ HEADER \in Nat /\ 2 < HEADER /\ HEADER <= J /\ J < ENTRIES
      /\ grub.start = At(D, J - HEADER) /\ ENTRIES \in Nat
  BY Sizes DEF Chosen, Room
<1>2. J - HEADER \in Slot /\ J - HEADER + 2 \in Slot /\ J \in Slot
  BY <1>1 DEF Slot
<1>3. PICK w, s, h : w = WORD /\ s = J - HEADER /\ h = HEADER
  OBVIOUS
<1>4. w \in Nat /\ s \in Nat /\ h \in Nat /\ J = s + h /\ D * PAGE \in Nat
  BY <1>1, <1>3, Sizes
<1>5. w * (s + 2) = w * s + 2 * w /\ w * (s + h) = w * s + h * w /\ w * s \in Nat /\ h * w \in Nat
  BY <1>4
<1>6. grub.start + 2 * WORD = At(D, s + 2) /\ grub.start + HEADER * WORD = At(D, s + h)
      /\ D * PAGE <= grub.start
  BY <1>1, <1>3, <1>4, <1>5 DEF At
<1> QED BY <1>2, <1>3, <1>4, <1>6

(* IInv says nothing of the variables but through the choice of GRUB.      *)
LEMMA Started == Init => IInv
<1> SUFFICES ASSUME Init PROVE IInv
  OBVIOUS
<1>1. grub \in [start : Starts, mem_upper : MemUppers]
  BY DEF Init
<1>2. ASSUME Fits PROVE \E D, J \in Nat : Chosen(D, J) /\ Early(D)
  <2>1. PICK D \in Nat, J \in Nat : Chosen(D, J)
    BY <1>1, <1>2, FitsMeans
  <2>2. D * PAGE <= grub.start /\ D * PAGE \in Nat /\ grub.start \in Nat
    BY <1>1, <2>1, ChosenIs, MemAssumption
  <2>3. mem = [w \in Words |-> IF KernelStart <= w /\ w < grub.start THEN IMAGE ELSE 0]
    BY DEF Init
  <2>4. mem \in Memory
    <3>1. IMAGE \in 0 .. TopOfMemory - 1 /\ 0 \in 0 .. TopOfMemory - 1
      BY Sizes DEF IMAGE
    <3> QED BY <2>3, <3>1 DEF Memory
  <2>5. \A w \in Words : KernelStart <= w /\ w < D * PAGE => mem[w] = IMAGE
    <3> SUFFICES ASSUME NEW w \in Words, KernelStart <= w, w < D * PAGE PROVE mem[w] = IMAGE
      OBVIOUS
    <3>1. w \in Nat
      BY WordsAreNumbers
    <3>2. w < grub.start
      BY <2>2, <3>1
    <3> QED BY <2>3, <3>2
  <2>6. Early(D)
    BY <2>4, <2>5 DEF Early, Init
  <2> QED BY <2>1, <2>6
<1> QED BY <1>1, <1>2 DEF IInv

(* Nothing that was chosen changes.                                        *)
LEMMA StillChosen ==
  ASSUME UNCHANGED grub
  PROVE  (Fits' <=> Fits) /\ \A D, J \in Nat : Chosen(D, J)' <=> Chosen(D, J)
BY DEF Fits, FitsIn, Spare, Reach, Chosen, Room, INDEX_FROM_BIT, Slot, At

LEMMA CopyKeeps ==
  ASSUME NEW D \in Nat, NEW J \in Nat, Chosen(D, J), Early(D), CopyMultiboot,
         grub \in [start : Starts, mem_upper : MemUppers]
  PROVE  Early(D)'
<1>1. /\ pc = "copy_multiboot" /\ placement_pointer = grub.start
      /\ mem \in Memory /\ \A w \in Words : KernelStart <= w /\ w < D * PAGE => mem[w] = IMAGE
      /\ frames = 0 /\ nframes = 0 /\ kernel_directory = 0 /\ i = 0
      /\ heap_end = 0 /\ heap_start = 0 /\ paging = FALSE
  BY DEF Early, CopyMultiboot
<1>2. PICK start, end : start = grub.start /\ end = start + HEADER * WORD
  OBVIOUS
<1>3. mem' = [w \in Words |-> IF start <= w /\ w < end THEN HeaderField((w - start) \div WORD)
                              ELSE mem[w]]
  BY <1>1, <1>2 DEF CopyMultiboot
<1>4. start \in Nat /\ D * PAGE <= start /\ D * PAGE \in Nat
  BY <1>2, ChosenIs, MemAssumption
<1>5. \A k : HeaderField(k) \in 0 .. TopOfMemory - 1
  <2>1. grub.mem_upper \in 0 .. TopOfMemory - 1
    BY Sizes, MemAssumption
  <2> QED BY <2>1, Sizes DEF HeaderField
<1>6. mem' \in Memory
  BY <1>1, <1>3, <1>5 DEF Memory
<1>7. ASSUME NEW w \in Words, KernelStart <= w, w < D * PAGE PROVE mem'[w] = IMAGE
  <2>1. w \in Nat
    BY WordsAreNumbers
  <2>2. ~(start <= w)
    BY <1>4, <1>7, <2>1
  <2> QED BY <1>1, <1>3, <1>7, <2>2
<1>8. mem'[start + 2 * WORD] = grub.mem_upper
  <2>1. start + 2 * WORD \in Words
    <3>1. start + 2 * WORD = At(D, J - HEADER + 2) /\ J - HEADER + 2 \in Slot
      BY <1>2, ChosenIs
    <3>2. D \in 0 .. AllPages - 1
      BY RoomIs DEF Chosen
    <3> QED BY <3>1, <3>2, WordsAre
  <2>2. start <= start + 2 * WORD /\ start + 2 * WORD < end
    <3>1. PICK w, h : w = WORD /\ h = HEADER
      OBVIOUS
    <3>2. w \in Nat \ {0} /\ h \in Nat /\ 2 < h
      BY <3>1, Sizes
    <3>3. 2 * w + w <= h * w
      BY <3>2, Products
    <3>4. h * w \in Nat
      BY <3>2
    <3> QED BY <1>2, <1>4, <3>1, <3>2, <3>3, <3>4
  <2>3. ((start + 2 * WORD) - start) \div WORD = 2
    <3>1. PICK w : w = WORD
      OBVIOUS
    <3>2. w \in Nat \ {0} /\ (start + 2 * w) - start = 2 * w /\ (2 * w) \div w = 2
      BY <1>4, <3>1, Sizes
    <3> QED BY <3>1, <3>2
  <2>4. mem'[start + 2 * WORD] = HeaderField(2)
    BY <1>3, <2>1, <2>2, <2>3
  <2> QED BY <2>4 DEF HeaderField
<1>9. /\ pc' = "paging_install" /\ mboot_ptr' = grub'.start
      /\ placement_pointer' = grub'.start + HEADER * WORD
      /\ mem'[mboot_ptr' + 2 * WORD] = grub'.mem_upper
  BY <1>1, <1>2, <1>8 DEF CopyMultiboot
<1> QED BY <1>1, <1>6, <1>7, <1>9 DEF Early, CopyMultiboot, Memory, Words

LEMMA InstallKeeps ==
  ASSUME NEW D \in Nat, NEW J \in Nat, Chosen(D, J), Early(D), PagingInstall,
         grub \in [start : Starts, mem_upper : MemUppers]
  PROVE  Shape(D, J, ENTRIES, 0, 0)'
<1>1. /\ pc = "paging_install" /\ mboot_ptr = grub.start
      /\ placement_pointer = At(D, J) /\ mem[mboot_ptr + 2 * WORD] = grub.mem_upper
      /\ mem \in Memory /\ \A w \in Words : KernelStart <= w /\ w < D * PAGE => mem[w] = IMAGE
      /\ heap_end = 0 /\ heap_start = 0 /\ paging = FALSE
  BY ChosenIs DEF Early, PagingInstall
<1>2. PICK bytes : bytes = INDEX_FROM_BIT(grub.mem_upper \div 4)
  OBVIOUS
<1>3. nframes' = grub.mem_upper \div 4 /\ frames' = At(D, J) /\ Usable' = bytes * WORD_BITS
      /\ INDEX_FROM_BIT(nframes') = bytes
  BY <1>1, <1>2 DEF PagingInstall, Usable, INDEX_FROM_BIT
<1>4. bytes \in Nat /\ bytes * WORD_BITS \in Nat
  <2>1. grub.mem_upper \div 4 \in Nat
    <3>1. grub.mem_upper \in Nat
      BY MemAssumption
    <3> QED BY <3>1
  <2>2. bytes \in Nat
    BY <1>2, <2>1, Sizes, Parts DEF INDEX_FROM_BIT
  <2> QED BY <2>2, Sizes
<1>5. /\ D \in Nat \ {0} /\ D * PAGE \in Nat /\ J \in Slot /\ WORD * J + bytes < PAGE
      /\ D \in 0 .. AllPages - 1 /\ D + 1 \in 0 .. AllPages - 1 /\ 0 \in Slot
      /\ J < ENTRIES /\ AllPages \in Nat /\ ENTRIES \in Nat
  <2>1. PICK usable : Room(D, J, usable)
    BY DEF Chosen
  <2>2. /\ D \in Nat /\ J \in Nat \ {0} /\ J < ENTRIES /\ J <= D /\ 0 \in Slot
        /\ D \in 0 .. AllPages - 1 /\ D + 1 \in 0 .. AllPages - 1
    BY <2>1, RoomIs
  <2>3. WORD * J + bytes < PAGE
    BY <1>2 DEF Chosen
  <2> QED BY <2>2, <2>3, ChosenIs, Sizes
<1>6. Aligned(At(D, J) + bytes) = D * PAGE
  <2>1. PICK x, a : x = WORD * J + bytes /\ a = At(D, J) + bytes
    OBVIOUS
  <2>2. x \in 0 .. PAGE - 1 /\ a = D * PAGE + x
    <3>1. PICK y, b : y = WORD * J /\ b = D * PAGE
      OBVIOUS
    <3>2. At(D, J) = b + y /\ y \in Nat /\ b \in Nat /\ y + bytes < PAGE
      BY <1>5, <3>1, AtIs
    <3>3. x \in 0 .. PAGE - 1 /\ a = b + x
      BY <1>4, <2>1, <3>1, <3>2, Sizes
    <3> QED BY <3>1, <3>3
  <2>3. PageOf(a) = D * PAGE
    BY <1>5, <2>2, Place
  <2>4. a >= PAGE
    <3>1. 1 * PAGE <= D * PAGE
      BY <1>5, Sizes, Products
    <3> QED BY <1>5, <2>2, <3>1, Sizes
  <2> QED BY <2>1, <2>3, <2>4 DEF Aligned
<1>7. PICK sizeof, cleared : sizeof = (2 * ENTRIES + 1) * WORD /\ cleared = Clear(mem, At(D, J), bytes)
  OBVIOUS
<1>8. /\ kernel_directory' = D * PAGE /\ mem' = Clear(cleared, D * PAGE, sizeof)
      /\ placement_pointer' = D * PAGE + sizeof
  BY <1>1, <1>3, <1>6, <1>7 DEF PagingInstall
<1>9. sizeof = 2 * PAGE + WORD /\ D * PAGE + sizeof = At(D + 2, 1)
  <2>1. PICK e, w, c : e = ENTRIES /\ w = WORD /\ c = PAGE
    OBVIOUS
  <2>2. (2 * e + 1) * w = 2 * (e * w) + w /\ c = e * w /\ w \in Nat /\ c \in Nat
    BY <2>1, Sizes
  <2>3. (D + 2) * c = D * c + 2 * c /\ D * c \in Nat /\ w * 1 = w
    BY <1>5, <2>2
  <2> QED BY <1>7, <2>1, <2>2, <2>3 DEF At
<1>10. cleared = [w \in Words |-> IF At(D, J) <= w /\ w < At(D, J) + bytes THEN 0 ELSE mem[w]]
  BY <1>7 DEF Clear
<1>11. mem' = [w \in Words |-> IF D * PAGE <= w /\ w < D * PAGE + sizeof THEN 0 ELSE cleared[w]]
  BY <1>8 DEF Clear
<1>12. cleared \in Memory /\ mem' \in Memory
  BY <1>1, <1>10, <1>11, Sizes DEF Memory
<1>13. ASSUME NEW w \in Words, KernelStart <= w, w < D * PAGE PROVE mem'[w] = IMAGE
  <2>1. w \in Nat
    BY WordsAreNumbers
  <2>2. At(D, J) \in Nat /\ D * PAGE <= At(D, J)
    BY <1>5, AtIs
  <2>3. ~(D * PAGE <= w) /\ ~(At(D, J) <= w)
    BY <1>5, <1>13, <2>1, <2>2
  <2> QED BY <1>1, <1>10, <1>11, <1>13, <2>3
<1>14. ASSUME NEW p \in {D, D + 1}, NEW k \in Slot PROVE mem'[At(p, k)] = 0
  <2>1. p \in Nat /\ p \in 0 .. AllPages - 1 /\ D <= p /\ p < D + 2 /\ D + 2 \in Nat
    BY <1>5
  <2>2. D * PAGE <= At(p, k)
    BY <1>5, <2>1, AtOrder
  <2>3. At(p, k) < (D + 2) * PAGE
    BY <2>1, AtOrder
  <2>4. (D + 2) * PAGE <= D * PAGE + sizeof /\ (D + 2) * PAGE \in Nat
        /\ D * PAGE + sizeof \in Nat
    <3>1. PICK c, w : c = PAGE /\ w = WORD
      OBVIOUS
    <3>2. c \in Nat /\ w \in Nat /\ (D + 2) * c = D * c + 2 * c /\ D * c \in Nat
      BY <1>5, <3>1, Sizes
    <3> QED BY <1>9, <3>1, <3>2
  <2>5. At(p, k) \in Nat /\ At(p, k) \in Words
    BY <2>1, AtIs, WordsAre
  <2>6. At(p, k) < D * PAGE + sizeof
    BY <2>3, <2>4, <2>5
  <2> QED BY <1>11, <2>2, <2>5, <2>6
<1>15. \A j \in 0 .. ENTRIES - 1 - J : J + j \in Slot /\ Fill(j, 0) = 0
  <2> SUFFICES ASSUME NEW j \in 0 .. ENTRIES - 1 - J PROVE J + j \in Slot /\ Fill(j, 0) = 0
    OBVIOUS
  <2>1. J + j \in Slot
    <3>1. J \in Nat /\ ENTRIES \in Nat
      BY <1>5 DEF Slot
    <3> QED BY <3>1 DEF Slot
  <2>2. 0 <= j * WORD_BITS
    BY Sizes
  <2> QED BY <2>1, <2>2 DEF Fill
<1>16. \A t \in 0 .. ENTRIES - 1 : mem'[At(D, t)] = 0 /\ mem'[At(D + 1, t)] = 0
  BY <1>14 DEF Slot
<1>17. Layout(mem', D, J, ENTRIES, 0, 0)
  <2>1. \A t \in 0 .. J - 1 : mem'[At(D, t)] = 0
    <3>1. \A t \in 0 .. J - 1 : t \in 0 .. ENTRIES - 1
      BY <1>5, Sizes
    <3> QED BY <1>16, <3>1
  <2>2. \A j \in 0 .. ENTRIES - 1 - J : mem'[At(D, J + j)] = Fill(j, 0)
    BY <1>14, <1>15
  <2>3. \A t \in 0 .. 0 - 1 : FALSE
    OBVIOUS
  <2> QED BY <1>12, <1>13, <2>1, <2>2, <2>3 DEF Layout
<1>18. Absent(mem', D, 0)
  BY <1>16 DEF Absent
<1>19. Booting(D, ENTRIES, 0, 0)'
  <2>1. /\ pc' = "map" /\ paging' = FALSE /\ heap_start' = 0 /\ heap_end' = 0
        /\ placement_pointer' = At(D + 2, 1)
    BY <1>1, <1>8, <1>9 DEF PagingInstall
  <2>2. paging' = (pc' = "heap_install")
    BY <2>1
  <2> QED BY <2>1, <2>2 DEF Booting, At
<1>20. Placed(D, J)'
  BY <1>1, <1>3, <1>8 DEF Placed, PagingInstall, At
<1>21. i' = 0 * PAGE /\ 0 <= 0 * ENTRIES /\ 0 <= Usable'
  BY <1>3, <1>4, Sizes DEF PagingInstall
<1>22. Layout(mem, D, J, ENTRIES, 0, 0)' /\ Absent(mem, D, 0)'
  BY <1>17, <1>18 DEF Layout, Absent, Memory, Words, At, Slot, Entry, TablePage, Fill, PRESENT_USER, PRESENT_RW_USER, IMAGE
<1>23. 0 \in 0 .. J /\ ENTRIES \in Nat \ {0} /\ 0 \in Nat
  BY Sizes
<1>24. Stopped(pc, J, 0)'
  BY DEF Stopped, PagingInstall
<1> QED BY <1>19, <1>20, <1>21, <1>22, <1>23, <1>24 DEF Shape

LEMMA UsableIs ==
  ASSUME NEW D \in Nat, NEW J \in Nat, Chosen(D, J), Placed(D, J),
         grub \in [start : Starts, mem_upper : MemUppers]
  PROVE  Room(D, J, Usable) /\ Usable \in Nat /\ Usable <= nframes
         /\ nframes \in 0 .. AllPages
<1>1. Usable = INDEX_FROM_BIT(grub.mem_upper \div 4) * WORD_BITS
  BY DEF Placed, Usable
<1>2. Room(D, J, Usable)
  BY <1>1 DEF Chosen
<1>3. nframes \in Nat /\ nframes <= AllPages
  <2>1. grub.mem_upper \in Nat /\ grub.mem_upper \div 4 <= TopOfMemory \div PAGE
    BY MemAssumption
  <2>2. grub.mem_upper \div 4 \in Nat
    BY <2>1
  <2> QED BY <2>1, <2>2, Sizes DEF Placed
<1>4. (nframes \div WORD_BITS) * WORD_BITS \in Nat
      /\ (nframes \div WORD_BITS) * WORD_BITS <= nframes
  <2>1. PICK b : b = WORD_BITS
    OBVIOUS
  <2>2. b \in Nat \ {0}
    BY <2>1, Sizes
  <2>3. (nframes \div b) * b \in Nat /\ (nframes \div b) * b <= nframes
    BY <1>3, <2>2
  <2> QED BY <2>1, <2>3
<1> QED BY <1>2, <1>3, <1>4, Sizes DEF Usable, INDEX_FROM_BIT

(* The structures stay where they were placed.                             *)
LEMMA ShapeNext ==
  ASSUME NEW CONSTANT D, NEW CONSTANT J, NEW CONSTANT B, NEW CONSTANT made, NEW CONSTANT n,
         UNCHANGED <<frames, nframes, kernel_directory, mboot_ptr, grub>>, Placed(D, J),
         B \in Nat \ {0}, made \in 0 .. J, n \in Nat, i' = n * PAGE,
         n <= made * ENTRIES, n <= Usable,
         Layout(mem', D, J, B, made, n), Absent(mem', D, made),
         Booting(D, B, made, n)' \/ Running(D, B, made, n)', Stopped(pc', J, n)
  PROVE  Shape(D, J, B, made, n)'
<1>1. Layout(mem, D, J, B, made, n)' /\ Absent(mem, D, made)'
  BY DEF Layout, Absent, Memory, Words, At, Slot, Entry, TablePage, Fill, PRESENT_USER,
         PRESENT_RW_USER, IMAGE
<1>2. Placed(D, J)' /\ Usable' = Usable
  BY DEF Placed, Usable, INDEX_FROM_BIT, At
<1>3. Stopped(pc, J, n)'
  BY <1>2 DEF Stopped
<1> QED BY <1>1, <1>2, <1>3 DEF Shape

(* What the loops find, and how much further they leave it.                *)
LEMMA MapTable ==
  ASSUME NEW D \in Nat, NEW J \in Nat, Room(D, J, Usable), kernel_directory = D * PAGE,
         NEW made \in 0 .. J, NEW n \in Nat, n <= made * ENTRIES, n < J * ENTRIES,
         Layout(mem, D, J, ENTRIES, made, n), Absent(mem, D, made),
         made = 0 => placement_pointer = At(D + 2, 1),
         made > 0 => placement_pointer = (D + 2 + made) * PAGE,
         NEW t \in 0 .. J - 1, t \in Slot, NEW e \in Slot, n = t * ENTRIES + e,
         IsAt(n * PAGE, t, e, 0), t < made \/ t = made
  PROVE  \E m1, made1 :
           /\ made1 \in 0 .. J /\ made <= made1 /\ t \in 0 .. made1 - 1 /\ n <= made1 * ENTRIES
           /\ get_page(mem, placement_pointer, n * PAGE) =
                [mem |-> m1, placement |-> (D + 2 + made1) * PAGE,
                 page |-> At(TablePage(D, ENTRIES, t), e)]
           /\ Layout(m1, D, J, ENTRIES, made1, n) /\ Absent(m1, D, made1)
<1>1. /\ ENTRIES \in Nat \ {0} /\ J < ENTRIES /\ made \in Nat /\ t \in Nat /\ 1 \in Slot
      /\ D + 2 \in Nat \ {0}
  BY RoomIs, Sizes DEF Slot
<1>2. CASE t < made
  <2>1. t \in 0 .. made - 1 /\ made > 0
    BY <1>1, <1>2
  <2>2. placement_pointer = (D + 2 + made) * PAGE
    BY <2>1
  <2>3. get_page(mem, placement_pointer, n * PAGE) =
          [mem |-> mem, placement |-> placement_pointer, page |-> At(TablePage(D, ENTRIES, t), e)]
    BY <1>1, <2>1, PageFound
  <2>4. made <= made
    BY <1>1
  <2> QED BY <2>1, <2>2, <2>3, <2>4
<1>3. CASE t = made
  <2>1. made \in 0 .. J - 1 /\ IsAt(n * PAGE, made, e, 0)
    BY <1>3
  <2>2. Absent(mem, D, made + 1)
    <3>1. \A u \in made + 1 .. ENTRIES - 1 : u \in made .. ENTRIES - 1
      BY <1>1
    <3> QED BY <3>1 DEF Absent
  <2>3. PICK q : q = TablePage(D, ENTRIES, made)
    OBVIOUS
  <2>4. q = D + 2 + made /\ q + 1 = D + 2 + (made + 1) /\ q \in Nat \ {0}
    <3>1. made < ENTRIES
      BY <1>1
    <3> QED BY <1>1, <2>3, <3>1 DEF TablePage
  <2>5. Aligned(placement_pointer) = q * PAGE
    <3>1. CASE made = 0
      <4>1. q = D + 2 /\ placement_pointer = At(q, 1)
        BY <2>4, <3>1
      <4> QED BY <1>1, <2>4, <4>1, AlignedIs
    <3>2. CASE made > 0
      <4>1. placement_pointer = q * PAGE
        BY <2>4, <3>2
      <4> QED BY <2>4, <4>1, AlignedIs
    <3> QED BY <1>1, <3>1, <3>2
  <2>6. PICK m1 :
          /\ get_page(mem, placement_pointer, n * PAGE) =
               [mem |-> m1, placement |-> (q + 1) * PAGE, page |-> At(q, e)]
          /\ Layout(m1, D, J, ENTRIES, made + 1, n) /\ Absent(m1, D, made + 1)
    BY <1>1, <2>1, <2>2, <2>3, <2>5, PageMade
  <2>7. /\ made + 1 \in 0 .. J /\ made <= made + 1 /\ t \in 0 .. (made + 1) - 1
        /\ n <= (made + 1) * ENTRIES
    <3>1. made * ENTRIES <= (made + 1) * ENTRIES /\ made * ENTRIES \in Nat
          /\ (made + 1) * ENTRIES \in Nat
      BY <1>1
    <3> QED BY <1>1, <1>3, <2>1, <3>1
  <2> QED BY <1>3, <2>3, <2>4, <2>6, <2>7
<1> QED BY <1>2, <1>3

(* The end of a turn: the frame of page n, in a table that is there.       *)
LEMMA TurnEnds ==
  ASSUME NEW D \in Nat, NEW J \in Nat, Room(D, J, Usable), Usable \in Nat, frames = At(D, J),
         NEW B \in Nat \ {0}, NEW made \in 0 .. J, NEW t \in 0 .. made - 1, NEW e \in Slot,
         NEW n \in Nat, n = t * ENTRIES + e, n <= Usable,
         NEW m, Layout(m, D, J, B, made, n), Absent(m, D, made),
         NEW page, page = At(TablePage(D, B, t), e)
  PROVE  /\ NoFrame(m, page) <=> n = Usable
         /\ ~NoFrame(m, page) =>
              /\ n + 1 <= Usable /\ n + 1 <= made * ENTRIES /\ n < made * ENTRIES
              /\ Layout(alloc_frame(m, page), D, J, B, made, n + 1)
              /\ Absent(alloc_frame(m, page), D, made)
<1>1. NoFrame(m, At(TablePage(D, B, t), e)) <=> n = Usable
  BY FrameFound
<1>2. n + 1 <= made * ENTRIES /\ n < made * ENTRIES
  <2>1. ENTRIES \in Nat /\ t \in Nat /\ made \in Nat /\ t < made /\ e \in Nat /\ e < ENTRIES
    BY Sizes DEF Slot
  <2>2. t * ENTRIES + ENTRIES <= made * ENTRIES /\ t * ENTRIES \in Nat /\ made * ENTRIES \in Nat
    BY <2>1, Products
  <2> QED BY <2>1, <2>2
<1>3. ASSUME ~NoFrame(m, page)
      PROVE  /\ n + 1 <= Usable
             /\ Layout(alloc_frame(m, page), D, J, B, made, n + 1)
             /\ Absent(alloc_frame(m, page), D, made)
  <2>1. n < Usable
    BY <1>1, <1>3
  <2>2. Layout(alloc_frame(m, At(TablePage(D, B, t), e)), D, J, B, made, n + 1)
    BY <2>1, FrameTaken
  <2>3. Absent(alloc_frame(m, At(TablePage(D, B, t), e)), D, made)
    BY <2>1, FrameTaken
  <2> QED BY <2>1, <2>2, <2>3
<1> QED BY <1>1, <1>2, <1>3

(* One turn of the loop of paging_install.                                 *)
LEMMA MapKeeps ==
  ASSUME NEW D \in Nat, NEW J \in Nat, Chosen(D, J), NEW B \in Nat, NEW made \in Nat, NEW n \in Nat,
         Shape(D, J, B, made, n), MapPage, grub \in [start : Starts, mem_upper : MemUppers]
  PROVE  \E B1, made1, n1 \in Nat : Shape(D, J, B1, made1, n1)'
<1>1. /\ Placed(D, J) /\ kernel_directory = D * PAGE /\ frames = At(D, J)
      /\ made \in 0 .. J /\ i = n * PAGE /\ n <= made * ENTRIES /\ n <= Usable
      /\ Layout(mem, D, J, B, made, n) /\ Absent(mem, D, made)
      /\ Booting(D, B, made, n) /\ B = ENTRIES
      /\ made = 0 => n = 0 /\ placement_pointer = At(D + 2, 1)
      /\ made > 0 => placement_pointer = (D + 2 + made) * PAGE /\ n <= D + 2 + made
      /\ heap_start = 0 /\ heap_end = 0 /\ pc = "map" /\ paging = FALSE /\ i < placement_pointer
  <2>1. Booting(D, B, made, n)
    BY DEF Shape, Running, MapPage
  <2>2. i \in Nat /\ placement_pointer \in Nat
    <3>1. i = n * PAGE /\ made \in 0 .. J
      BY DEF Shape
    <3>2. made = 0 => placement_pointer = At(D + 2, 1)
      BY <2>1 DEF Booting
    <3>3. made > 0 => placement_pointer = (D + 2 + made) * PAGE
      BY <2>1 DEF Booting
    <3>4. At(D + 2, 1) \in Nat
      <4>1. 1 \in Slot /\ D + 2 \in Nat
        BY Sizes DEF Slot
      <4> QED BY <4>1, AtIs
    <3>5. (D + 2 + made) * PAGE \in Nat /\ n * PAGE \in Nat
      BY Sizes
    <3> QED BY <3>1, <3>2, <3>3, <3>4, <3>5
  <2>3. i < placement_pointer
    BY <2>2 DEF MapPage, MappedAll
  <2> QED BY <2>1, <2>3 DEF Shape, Placed, Booting, MapPage
<1>2. Room(D, J, Usable) /\ Usable \in Nat
  BY <1>1, UsableIs
<1>3. /\ n < D + 2 + made /\ n < J * ENTRIES /\ J < ENTRIES /\ ENTRIES \in Nat \ {0}
      /\ D + 2 + J < AllPages /\ AllPages \in Nat
  <2>1. J < ENTRIES /\ D + 2 + J <= J * ENTRIES /\ J * ENTRIES \in Nat /\ ENTRIES \in Nat \ {0}
        /\ D + 2 + J < AllPages /\ AllPages \in Nat
    BY <1>2, RoomIs, Sizes
  <2>2. n < D + 2 + made
    <3>1. CASE made = 0
      BY <1>1, <3>1
    <3>2. CASE made > 0
      <4>1. n * PAGE < (D + 2 + made) * PAGE
        BY <1>1, <3>2
      <4>2. 0 \in Slot /\ D + 2 + made \in Nat
        BY Sizes DEF Slot
      <4>3. At(n, 0) = n * PAGE
        BY <4>2, AtIs
      <4> QED BY <4>1, <4>2, <4>3, AtOrder
    <3> QED BY <3>1, <3>2
  <2> QED BY <1>1, <2>1, <2>2
<1>4. PICK t \in 0 .. J - 1, e \in Slot :
        /\ t \in Slot /\ n = t * ENTRIES + e /\ IsAt(n * PAGE, t, e, 0)
        /\ t < made \/ t = made
  <2>1. J < ENTRIES /\ made \in 0 .. J /\ n <= made * ENTRIES /\ n < J * ENTRIES
    BY <1>1, <1>3
  <2> QED BY <2>1, NextPage, Zenon
<1>5. PICK m1, made1 :
        /\ made1 \in 0 .. J /\ made <= made1 /\ t \in 0 .. made1 - 1 /\ n <= made1 * ENTRIES
        /\ get_page(mem, placement_pointer, n * PAGE) =
             [mem |-> m1, placement |-> (D + 2 + made1) * PAGE,
              page |-> At(TablePage(D, ENTRIES, t), e)]
        /\ Layout(m1, D, J, ENTRIES, made1, n) /\ Absent(m1, D, made1)
  <2>1. Layout(mem, D, J, ENTRIES, made, n) /\ n <= made * ENTRIES /\ n < J * ENTRIES
    BY <1>1, <1>3
  <2> QED BY <1>1, <1>2, <1>4, <2>1, MapTable
<1>6. PICK page : page = At(TablePage(D, ENTRIES, t), e)
  OBVIOUS
<1>7. /\ placement_pointer' = (D + 2 + made1) * PAGE
      /\ \/ NoFrame(m1, page) /\ mem' = m1 /\ pc' = "out_of_frames" /\ i' = i
         \/ ~NoFrame(m1, page) /\ mem' = alloc_frame(m1, page) /\ i' = i + PAGE /\ pc' = pc
      /\ UNCHANGED <<frames, nframes, kernel_directory, mboot_ptr, heap_end, paging, grub, heap_start>>
  BY <1>1, <1>5, <1>6 DEF MapPage
<1>8. ASSUME NEW n1 \in Nat, n1 = n \/ n1 = n + 1,
             pc' \in {"map", "out_of_frames"}
      PROVE  Booting(D, ENTRIES, made1, n1)'
  <2>1. made1 > 0 /\ made1 # 0 /\ n1 <= D + 2 + made1
    BY <1>3, <1>5, <1>8
  <2>2. paging' = FALSE /\ heap_start' = 0 /\ heap_end' = 0
    BY <1>1, <1>7
  <2>3. paging' = (pc' = "heap_install")
    BY <1>8, <2>2
  <2> QED BY <1>7, <1>8, <2>1, <2>2, <2>3 DEF Booting, At
<1>9. CASE NoFrame(m1, page)
  <2>1. mem' = m1 /\ pc' = "out_of_frames" /\ i' = n * PAGE
    BY <1>1, <1>7, <1>9
  <2>2. Booting(D, ENTRIES, made1, n)'
    BY <1>8, <2>1
  <2>3. n = Usable
    BY <1>1, <1>2, <1>3, <1>4, <1>5, <1>6, <1>9, TurnEnds
  <2>4. Stopped(pc', J, n)
    BY <2>1, <2>3 DEF Stopped
  <2>5. Shape(D, J, ENTRIES, made1, n)'
    BY <1>1, <1>3, <1>5, <1>7, <2>1, <2>2, <2>4, ShapeNext
  <2> QED BY <1>3, <1>5, <2>5
<1>10. CASE ~NoFrame(m1, page)
  <2>1. mem' = alloc_frame(m1, page) /\ pc' = "map" /\ i' = (n + 1) * PAGE
    <3>1. (n + 1) * PAGE = n * PAGE + PAGE
      BY Sizes
    <3> QED BY <1>1, <1>7, <1>10, <3>1
  <2>2. n + 1 <= Usable /\ n + 1 <= made1 * ENTRIES
    BY <1>1, <1>2, <1>3, <1>4, <1>5, <1>6, <1>10, TurnEnds
  <2>3. Layout(mem', D, J, ENTRIES, made1, n + 1) /\ Absent(mem', D, made1)
    BY <1>1, <1>2, <1>3, <1>4, <1>5, <1>6, <1>10, <2>1, TurnEnds
  <2>4. Booting(D, ENTRIES, made1, n + 1)'
    BY <1>8, <2>1
  <2>5. Shape(D, J, ENTRIES, made1, n + 1)'
    <3>1. n + 1 \in Nat
      OBVIOUS
    <3>2. Stopped(pc', J, n + 1)
      BY <2>1 DEF Stopped
    <3> QED BY <1>1, <1>3, <1>5, <1>7, <2>1, <2>2, <2>3, <2>4, <3>1, <3>2, ShapeNext
  <2> QED BY <1>3, <1>5, <2>5
<1> QED BY <1>9, <1>10

(* The multiples of the page size are in the order of the numbers.         *)
LEMMA PageOrder ==
  ASSUME NEW p \in Nat, NEW q \in Nat
  PROVE  /\ p * PAGE < q * PAGE <=> p < q
         /\ p * PAGE <= q * PAGE <=> p <= q
         /\ p * PAGE \in Nat
<1>1. 0 \in Slot
  BY Sizes DEF Slot
<1>2. At(p, 0) = p * PAGE /\ At(q, 0) = q * PAGE
  BY <1>1, AtIs
<1>3. At(p, 0) < q * PAGE <=> p < q
  BY <1>1, AtOrder
<1>4. p * PAGE <= At(q, 0) <=> p <= q
  BY <1>1, AtOrder
<1>5. p * PAGE \in Nat
  BY Sizes
<1> QED BY <1>2, <1>3, <1>4, <1>5

LEMMA SwitchKeeps ==
  ASSUME NEW D \in Nat, NEW J \in Nat, Chosen(D, J), NEW B \in Nat, NEW made \in Nat, NEW n \in Nat,
         Shape(D, J, B, made, n), SwitchPageDirectory,
         grub \in [start : Starts, mem_upper : MemUppers]
  PROVE  \E B1, made1, n1 \in Nat : Shape(D, J, B1, made1, n1)'
<1>1. Booting(D, B, made, n) /\ pc = "map" /\ i >= placement_pointer
  BY DEF Shape, Running, SwitchPageDirectory, MappedAll
<1>2. /\ UNCHANGED <<mem, placement_pointer, frames, nframes, kernel_directory, mboot_ptr,
                     heap_end, i, grub, heap_start>>
      /\ paging' = TRUE /\ pc' = "heap_install"
  BY DEF SwitchPageDirectory
<1>3. /\ Placed(D, J) /\ i = n * PAGE /\ made \in 0 .. J /\ B \in Nat \ {0}
      /\ n <= made * ENTRIES /\ n <= Usable
      /\ Layout(mem, D, J, B, made, n) /\ Absent(mem, D, made)
  BY DEF Shape
<1>4. made > 0
  <2>1. SUFFICES ASSUME made = 0 PROVE FALSE
    OBVIOUS
  <2>2. n = 0 /\ placement_pointer = At(D + 2, 1)
    BY <1>1, <2>1 DEF Booting
  <2>3. 1 \in Slot /\ D + 2 \in Nat /\ 1 \in Nat /\ 1 <= D + 2
    BY Sizes DEF Slot
  <2>4. 1 * PAGE <= At(D + 2, 1) /\ At(D + 2, 1) \in Nat
    BY <2>3, AtOrder, AtIs
  <2>5. i = 0
    BY <1>3, <2>2, Sizes
  <2> QED BY <1>1, <2>2, <2>4, <2>5, Sizes
<1>5. n = D + 2 + made /\ placement_pointer = (D + 2 + made) * PAGE
  <2>1. placement_pointer = (D + 2 + made) * PAGE /\ n <= D + 2 + made
    BY <1>1, <1>4 DEF Booting
  <2>2. (D + 2 + made) * PAGE <= n * PAGE
    <3>1. (D + 2 + made) * PAGE \in Nat /\ n * PAGE \in Nat
      BY Sizes
    <3> QED BY <1>1, <1>3, <2>1, <3>1
  <2>3. D + 2 + made <= n
    BY <2>2, PageOrder
  <2> QED BY <2>1, <2>3
<1>6. Booting(D, B, made, n)'
  <2>1. heap_start = 0 /\ heap_end = 0 /\ B = ENTRIES
    BY <1>1 DEF Booting
  <2>2. paging' = (pc' = "heap_install")
    BY <1>2
  <2>3. made # 0 /\ placement_pointer' = (D + 2 + made) * PAGE /\ n <= D + 2 + made
    BY <1>2, <1>4, <1>5
  <2>4. heap_start' = 0 /\ heap_end' = 0
    BY <1>2, <2>1
  <2> QED BY <1>2, <1>4, <1>5, <2>1, <2>2, <2>3, <2>4 DEF Booting
<1>7. Layout(mem', D, J, B, made, n) /\ Absent(mem', D, made) /\ i' = n * PAGE
  BY <1>2, <1>3
<1>8. Stopped(pc', J, n)
  BY <1>2 DEF Stopped
<1>9. Shape(D, J, B, made, n)'
  BY <1>2, <1>3, <1>6, <1>7, <1>8, ShapeNext
<1> QED BY <1>9

(* heap_install(): from here on the tables are placed from page 0 up.      *)
LEMMA HeapKeeps ==
  ASSUME NEW D \in Nat, NEW J \in Nat, Chosen(D, J), NEW B \in Nat, NEW made \in Nat, NEW n \in Nat,
         Shape(D, J, B, made, n), HeapInstall,
         grub \in [start : Starts, mem_upper : MemUppers]
  PROVE  \E B1, made1, n1 \in Nat : Shape(D, J, B1, made1, n1)'
<1>1. Booting(D, B, made, n) /\ pc = "heap_install"
  BY DEF Shape, Running, HeapInstall
<1>2. /\ UNCHANGED <<mem, frames, nframes, kernel_directory, mboot_ptr, paging, i, grub>>
      /\ heap_end' = placement_pointer /\ heap_start' = placement_pointer
      /\ placement_pointer' = 0 /\ pc' = "run"
  BY DEF HeapInstall
<1>3. /\ Placed(D, J) /\ i = n * PAGE /\ made \in 0 .. J
      /\ n <= made * ENTRIES /\ n <= Usable
      /\ Layout(mem, D, J, B, made, n) /\ Absent(mem, D, made)
  BY DEF Shape
<1>4. /\ paging = TRUE /\ B = ENTRIES /\ made > 0 /\ n = D + 2 + made
      /\ placement_pointer = n * PAGE
  BY <1>1 DEF Booting
<1>5. J < ENTRIES /\ D + 2 + J < AllPages /\ AllPages \in Nat /\ ENTRIES \in Nat
  <2>1. Room(D, J, Usable)
    BY <1>3, UsableIs
  <2> QED BY <2>1, RoomIs, Sizes
<1>6. \A t \in 0 .. made - 1 : TablePage(D, made, t) = TablePage(D, B, t)
  BY <1>3, <1>4, <1>5 DEF TablePage
<1>7. Layout(mem', D, J, made, made, n) /\ Absent(mem', D, made) /\ i' = n * PAGE
  <2>1. mem' = mem /\ i' = i
    BY <1>2
  <2>2. Layout(mem, D, J, made, made, n)
    BY <1>3, <1>6 DEF Layout
  <2> QED BY <1>3, <2>1, <2>2
<1>8. Running(D, made, made, n)'
  <2>1. n \in n .. AllPages - 1 /\ heap_end' = n * PAGE /\ heap_start' = (D + 2 + made) * PAGE
    BY <1>2, <1>3, <1>4, <1>5
  <2>2. made \in 1 .. made /\ D + 2 + made <= n /\ ~(made > made)
    BY <1>4
  <2>3. pc' = "run" /\ paging' = TRUE /\ placement_pointer' = 0
    BY <1>2, <1>4
  <2>4. \E h \in n .. AllPages - 1 : heap_end' = h * PAGE /\ (pc' = "run" => h = n)
    BY <2>1
  <2> QED BY <2>1, <2>2, <2>3, <2>4 DEF Running, AllPages
<1>9. Shape(D, J, made, made, n)'
  <2>1. made \in Nat \ {0}
    BY <1>4
  <2>2. Stopped(pc', J, n)
    BY <1>2 DEF Stopped
  <2> QED BY <1>2, <1>3, <1>7, <1>8, <2>1, <2>2, ShapeNext
<1> QED BY <1>9

LEMMA SbrkKeeps ==
  ASSUME NEW D \in Nat, NEW J \in Nat, Chosen(D, J), NEW B \in Nat, NEW made \in Nat, NEW n \in Nat,
         Shape(D, J, B, made, n), NEW inc \in Increments, Sbrk(inc),
         grub \in [start : Starts, mem_upper : MemUppers]
  PROVE  \E B1, made1, n1 \in Nat : Shape(D, J, B1, made1, n1)'
<1>1. Running(D, B, made, n) /\ pc = "run"
  BY DEF Shape, Booting, Sbrk
<1>2. /\ UNCHANGED <<mem, placement_pointer, frames, nframes, kernel_directory, mboot_ptr,
                     paging, grub, heap_start>>
      /\ i' = heap_end /\ heap_end' = heap_end + inc /\ pc' = "sbrk"
  BY DEF Sbrk
<1>3. /\ Placed(D, J) /\ i = n * PAGE /\ made \in 0 .. J /\ B \in Nat \ {0}
      /\ n <= made * ENTRIES /\ n <= Usable
      /\ Layout(mem, D, J, B, made, n) /\ Absent(mem, D, made)
  BY DEF Shape
<1>4. n \in n .. AllPages - 1 /\ heap_end = n * PAGE
  BY <1>1 DEF Running
<1>5. PICK k : k = inc \div PAGE
  OBVIOUS
<1>6. k \in Nat /\ inc = k * PAGE /\ inc \in Nat
  <2>1. inc \in Nat /\ inc % PAGE = 0
    BY MemAssumption
  <2>2. inc \div PAGE \in Nat /\ inc = (inc \div PAGE) * PAGE + (inc % PAGE)
    BY <2>1, Sizes, Parts
  <2>3. (inc \div PAGE) * PAGE \in Nat
    BY <2>2, Sizes
  <2> QED BY <1>5, <2>1, <2>2, <2>3
<1>7. heap_end' = (n + k) * PAGE /\ n + k \in n .. AllPages - 1
  <2>1. PICK c, x, y : c = PAGE /\ x = n * c /\ y = k * c
    OBVIOUS
  <2>2. c \in Nat /\ x \in Nat /\ y \in Nat /\ (n + k) * c = x + y
    BY <1>6, <2>1, Sizes
  <2>3. n <= J * ENTRIES /\ J * ENTRIES \in Nat
    <3>1. made * ENTRIES <= J * ENTRIES /\ J * ENTRIES \in Nat /\ made * ENTRIES \in Nat
      BY <1>3, Sizes, Products
    <3> QED BY <1>3, <3>1
  <2>4. n * PAGE <= (J * ENTRIES) * PAGE /\ (J * ENTRIES) * PAGE \in Nat
    BY <2>3, PageOrder
  <2>5. (J * ENTRIES) * PAGE + inc < TopOfMemory
    BY DEF Chosen
  <2>6. (n + k) * PAGE < AllPages * PAGE
    BY <1>6, <2>1, <2>2, <2>4, <2>5, Sizes
  <2>7. n + k < AllPages
    BY <1>6, <2>6, PageOrder, Sizes
  <2> QED BY <1>2, <1>4, <1>6, <2>1, <2>2, <2>7, Sizes
<1>8. Running(D, B, made, n)'
  <2>1. \E h \in n .. AllPages - 1 : heap_end' = h * PAGE /\ (pc' = "run" => h = n)
    BY <1>2, <1>7
  <2> QED BY <1>1, <1>2, <2>1 DEF Running, AllPages
<1>9. Layout(mem', D, J, B, made, n) /\ Absent(mem', D, made) /\ i' = n * PAGE
  BY <1>2, <1>3, <1>4
<1>10. Stopped(pc', J, n)
  BY <1>2 DEF Stopped
<1>11. Shape(D, J, B, made, n)'
  BY <1>2, <1>3, <1>8, <1>9, <1>10, ShapeNext
<1> QED BY <1>11

LEMMA ReturnKeeps ==
  ASSUME NEW D \in Nat, NEW J \in Nat, Chosen(D, J), NEW B \in Nat, NEW made \in Nat, NEW n \in Nat,
         Shape(D, J, B, made, n), SbrkReturn,
         grub \in [start : Starts, mem_upper : MemUppers]
  PROVE  \E B1, made1, n1 \in Nat : Shape(D, J, B1, made1, n1)'
<1>1. Running(D, B, made, n) /\ i >= heap_end
  BY DEF Shape, Booting, SbrkReturn
<1>2. /\ UNCHANGED <<mem, placement_pointer, frames, nframes, kernel_directory, mboot_ptr,
                     heap_end, paging, i, grub, heap_start>>
      /\ pc' = "run"
  BY DEF SbrkReturn
<1>3. /\ Placed(D, J) /\ i = n * PAGE /\ made \in 0 .. J /\ B \in Nat \ {0}
      /\ n <= made * ENTRIES /\ n <= Usable
      /\ Layout(mem, D, J, B, made, n) /\ Absent(mem, D, made)
  BY DEF Shape
<1>4. PICK h \in n .. AllPages - 1 : heap_end = h * PAGE
  BY <1>1 DEF Running
<1>5. h = n
  <2>1. h \in Nat /\ n <= h
    BY Sizes
  <2>2. h * PAGE <= n * PAGE
    <3>1. h * PAGE \in Nat /\ n * PAGE \in Nat
      BY <2>1, PageOrder
    <3> QED BY <1>1, <1>3, <1>4, <3>1
  <2> QED BY <2>1, <2>2, PageOrder
<1>6. Running(D, B, made, n)'
  <2>1. \E l \in n .. AllPages - 1 : heap_end' = l * PAGE /\ (pc' = "run" => l = n)
    BY <1>2, <1>4, <1>5
  <2> QED BY <1>1, <1>2, <2>1 DEF Running, AllPages
<1>7. Layout(mem', D, J, B, made, n) /\ Absent(mem', D, made) /\ i' = n * PAGE
  BY <1>2, <1>3
<1>8. Stopped(pc', J, n)
  BY <1>2 DEF Stopped
<1>9. Shape(D, J, B, made, n)'
  BY <1>2, <1>3, <1>6, <1>7, <1>8, ShapeNext
<1> QED BY <1>9

(* A page is mapped to itself or not at all.                               *)
LEMMA PageMapped ==
  ASSUME NEW D, NEW J, NEW usable, Room(D, J, usable), NEW B \in Nat \ {0},
         NEW made \in 0 .. J, NEW n \in Nat, n <= made * ENTRIES,
         NEW m, Layout(m, D, J, B, made, n), Absent(m, D, made), kernel_directory = D * PAGE,
         NEW p \in 0 .. AllPages - 1, NEW x \in 0 .. PAGE - 1
  PROVE  Translate(m, p * PAGE + x) = IF p < n THEN p * PAGE + x ELSE NOWHERE
<1>1. PICK c, t, e, a : c = ENTRIES /\ t = p \div c /\ e = p % c /\ a = p * PAGE + x
  OBVIOUS
<1>2. c \in Nat \ {0} /\ p \in Nat /\ AllPages = c * c /\ p < c * c /\ c * c \in Nat
  BY <1>1, Sizes
<1>3. t \in Nat /\ e \in 0 .. c - 1 /\ p = t * c + e /\ t * c \in Nat
  <2>1. p \div c \in Nat /\ p % c \in 0 .. c - 1 /\ p = (p \div c) * c + (p % c)
    BY <1>2, Parts
  <2> QED BY <1>1, <1>2, <2>1
<1>4. t < c
  <2>1. ~(t < c) => c * c <= t * c
    BY <1>2, <1>3, Products
  <2> QED BY <1>2, <1>3, <2>1
<1>5. t \in Slot /\ e \in Slot
  BY <1>1, <1>2, <1>3, <1>4 DEF Slot
<1>6. IsAt(a, t, e, x) /\ p = t * ENTRIES + e
  BY <1>1, <1>3 DEF IsAt
<1>7. Translate(m, a) = IF t * ENTRIES + e < n THEN a ELSE NOWHERE
  BY <1>5, <1>6, Mapping
<1> QED BY <1>1, <1>6, <1>7

(* The entry sbrk follows is on a page that is mapped: the processor finds *)
(* it where get_page says it is.                                           *)
LEMMA EntryMapped ==
  ASSUME NEW D, NEW J, NEW usable, Room(D, J, usable), NEW B \in Nat \ {0},
         NEW made \in 0 .. J, NEW n \in Nat, n <= made * ENTRIES, D + 2 + B <= n,
         NEW m, Layout(m, D, J, B, made, n), Absent(m, D, made), kernel_directory = D * PAGE,
         NEW t \in 0 .. made - 1, NEW e \in Slot
  PROVE  /\ Translate(m, At(TablePage(D, B, t), e)) = At(TablePage(D, B, t), e)
         /\ At(TablePage(D, B, t), e) # NOWHERE
<1>1. PICK q : q = TablePage(D, B, t)
  OBVIOUS
<1>2. D \in Nat /\ J \in Nat /\ J <= D /\ t \in 0 .. J - 1
  BY RoomIs
<1>3. q \in 0 .. AllPages - 1 /\ q \in Nat
  BY <1>1, <1>2, TablePages
<1>4. q < n
  BY <1>1, <1>2 DEF TablePage
<1>5. WORD * e \in 0 .. PAGE - 1 /\ At(q, e) = q * PAGE + WORD * e /\ At(q, e) \in Nat
  BY <1>3, AtIs
<1>6. Translate(m, q * PAGE + WORD * e) = IF q < n THEN q * PAGE + WORD * e ELSE NOWHERE
  BY <1>3, <1>5, PageMapped
<1> QED BY <1>1, <1>4, <1>5, <1>6 DEF NOWHERE

LEMMA TwoCalls ==
  ASSUME NEW m1, NEW pp1, NEW page1, NEW m2, NEW pp2, NEW page2,
         get_page(mem, placement_pointer, i) = [mem |-> m1, placement |-> pp1, page |-> page1],
         get_page(m1, pp1, i) = [mem |-> m2, placement |-> pp2, page |-> page2]
  PROVE  SbrkTables = {[mem |-> m2, placement |-> pp2, page |-> page2]}
<1>1. PICK first : first = [mem |-> m1, placement |-> pp1, page |-> page1]
  OBVIOUS
<1>2. first.mem = m1 /\ first.placement = pp1
  BY <1>1
<1>3. SbrkTables = {get_page(f.mem, f.placement, i) : f \in {first}}
  BY <1>1, Zenon DEF SbrkTables
<1>4. SbrkTables = {get_page(first.mem, first.placement, i)}
  BY <1>3
<1> QED BY <1>2, <1>4, Zenon

(* The two calls of get_page in a turn of sbrk find entry e of table t.    *)
Served(D, J, B, made, n, t, e) ==
  \E m1, made1, pp1 :
    /\ made1 \in 0 .. J /\ made <= made1 /\ t \in 0 .. made1 - 1 /\ n <= made1 * ENTRIES
    /\ SbrkTables = {[mem |-> m1, placement |-> pp1, page |-> At(TablePage(D, B, t), e)]}
    /\ Layout(m1, D, J, B, made1, n) /\ Absent(m1, D, made1)
    /\ made1 = B => pp1 = 0
    /\ made1 > B => pp1 = (made1 - B + 1) * PAGE

LEMMA SbrkTable ==
  ASSUME NEW D \in Nat, NEW J \in Nat, Room(D, J, Usable), kernel_directory = D * PAGE,
         NEW made \in 0 .. J, NEW B \in 1 .. made,
         NEW n \in Nat, n <= made * ENTRIES, n < J * ENTRIES, i = n * PAGE,
         Layout(mem, D, J, B, made, n), Absent(mem, D, made),
         made = B => placement_pointer = 0,
         made > B => placement_pointer = (made - B + 1) * PAGE,
         NEW t \in 0 .. J - 1, t \in Slot, NEW e \in Slot, n = t * ENTRIES + e,
         IsAt(n * PAGE, t, e, 0), t < made \/ t = made
  PROVE  Served(D, J, B, made, n, t, e)
<1>1. /\ ENTRIES \in Nat \ {0} /\ J < ENTRIES /\ made \in Nat /\ t \in Nat
      /\ B \in Nat \ {0} /\ B <= made
  BY RoomIs, Sizes
<1>2. CASE t < made
  <2>1. t \in 0 .. made - 1 /\ made <= made
    BY <1>1, <1>2
  <2>2. get_page(mem, placement_pointer, i) =
          [mem |-> mem, placement |-> placement_pointer, page |-> At(TablePage(D, B, t), e)]
    BY <1>1, <2>1, PageFound
  <2>3. SbrkTables = {[mem |-> mem, placement |-> placement_pointer,
                       page |-> At(TablePage(D, B, t), e)]}
    BY <2>2, TwoCalls
  <2> QED BY <2>1, <2>3 DEF Served
<1>3. CASE t = made
  <2>1. made \in 0 .. J - 1 /\ IsAt(i, made, e, 0) /\ made \in Slot
    BY <1>3
  <2>2. /\ made + 1 \in 0 .. J /\ made <= made + 1 /\ t \in 0 .. (made + 1) - 1
        /\ n <= (made + 1) * ENTRIES
    <3>1. made * ENTRIES <= (made + 1) * ENTRIES /\ made * ENTRIES \in Nat
          /\ (made + 1) * ENTRIES \in Nat
      BY <1>1
    <3> QED BY <1>1, <1>3, <2>1, <3>1
  <2>3. PICK q : q = TablePage(D, B, made)
    OBVIOUS
  <2>4. q = made - B + 1 /\ q + 1 = (made + 1) - B + 1 /\ q \in Nat \ {0}
    BY <1>1, <2>3 DEF TablePage
  <2>5. Absent(mem, D, made + 1)
    <3>1. \A u \in made + 1 .. ENTRIES - 1 : u \in made .. ENTRIES - 1
      BY <1>1
    <3> QED BY <3>1 DEF Absent
  <2>6. CASE made = B
    <3>1. q = 1 /\ Aligned(placement_pointer) = 0 * PAGE /\ 0 \in Nat
      BY <2>4, <2>6, AlignedIs, Sizes
    <3>2. PICK m1 : m1 = NewTable(mem, D, made, 0)
      OBVIOUS
    <3>3. mem[At(D, made)] = 0
      <4>1. made \in made .. J - 1
        BY <1>1, <2>1
      <4> QED BY <4>1 DEF Layout
    <3>4. get_page(mem, placement_pointer, i) =
            [mem |-> m1, placement |-> (0 + 1) * PAGE, page |-> At(0, e)]
      BY <2>1, <3>1, <3>2, <3>3, GetNew
    <3>5. Layout(m1, D, J, B, made, n)
      BY <1>1, <2>1, <3>2, TableWasted
    <3>6. Absent(m1, D, made + 1)
      BY <1>1, <2>1, <3>2, TableWasted
    <3>7. Aligned((0 + 1) * PAGE) = q * PAGE
      <4>1. 0 + 1 = q
        BY <3>1
      <4>2. Aligned(q * PAGE) = q * PAGE
        BY <2>4, AlignedIs
      <4> QED BY <4>1, <4>2, Zenon
    <3>8. PICK m2 :
            /\ get_page(m1, (0 + 1) * PAGE, i) =
                 [mem |-> m2, placement |-> (q + 1) * PAGE, page |-> At(q, e)]
            /\ Layout(m2, D, J, B, made + 1, n) /\ Absent(m2, D, made + 1)
      BY <1>1, <2>1, <2>3, <3>5, <3>6, <3>7, PageMade
    <3>9. SbrkTables = {[mem |-> m2, placement |-> (q + 1) * PAGE, page |-> At(q, e)]}
      BY <3>4, <3>8, TwoCalls
    <3>10. made + 1 # B
      BY <1>1
    <3> QED BY <1>3, <2>2, <2>3, <2>4, <3>8, <3>9, <3>10 DEF Served
  <2>7. CASE made > B
    <3>1. Aligned(placement_pointer) = q * PAGE
      <4>1. placement_pointer = q * PAGE
        BY <2>4, <2>7
      <4> QED BY <2>4, <4>1, AlignedIs
    <3>2. PICK m1 :
            /\ get_page(mem, placement_pointer, i) =
                 [mem |-> m1, placement |-> (q + 1) * PAGE, page |-> At(q, e)]
            /\ Layout(m1, D, J, B, made + 1, n) /\ Absent(m1, D, made + 1)
      BY <1>1, <2>1, <2>3, <2>5, <3>1, PageMade
    <3>3. get_page(m1, (q + 1) * PAGE, i) =
            [mem |-> m1, placement |-> (q + 1) * PAGE, page |-> At(q, e)]
      <4>1. made \in 0 .. (made + 1) - 1 /\ made + 1 \in 0 .. J
        BY <1>1, <2>2
      <4> QED BY <1>1, <2>1, <2>3, <3>2, <4>1, PageFound
    <3>4. SbrkTables = {[mem |-> m1, placement |-> (q + 1) * PAGE, page |-> At(q, e)]}
      BY <3>2, <3>3, TwoCalls
    <3>5. made + 1 # B
      BY <1>1, <2>7
    <3> QED BY <1>3, <2>2, <2>3, <2>4, <3>2, <3>4, <3>5 DEF Served
  <2>8. made = B \/ made > B
    BY <1>1
  <2> QED BY <2>6, <2>7, <2>8, Zenon
<1> QED BY <1>2, <1>3

(* The slot after the last table is the first word of the bitmap, full by  *)
(* then: get_page takes it for a pointer, which no page is mapped at.      *)
LEMMA WildPage ==
  ASSUME NEW D \in Nat, NEW J \in Nat, Room(D, J, Usable), kernel_directory = D * PAGE,
         NEW B \in Nat \ {0}, NEW n \in Nat, n = J * ENTRIES, i = n * PAGE,
         Layout(mem, D, J, B, J, n), Absent(mem, D, J)
  PROVE  \E page :
           /\ SbrkTables = {[mem |-> mem, placement |-> placement_pointer, page |-> page]}
           /\ Translate(mem, page) = NOWHERE
<1>1. /\ ENTRIES \in Nat \ {0} /\ J < ENTRIES /\ J \in Slot /\ 0 \in Slot
      /\ J \in Nat /\ WORD_BITS \in Nat /\ WORD_BITS <= n /\ TopOfMemory \in Nat
      /\ TopOfMemory >= 128
  BY RoomIs, Sizes DEF Slot, Room
<1>2. mem[At(D, J)] = TopOfMemory - 1
  <2>1. 0 \in 0 .. ENTRIES - 1 - J /\ J + 0 = J
    BY <1>1
  <2>2. mem[At(D, J)] = Fill(0, n)
    BY <2>1 DEF Layout
  <2>3. 0 * WORD_BITS = 0 /\ (0 + 1) * WORD_BITS = WORD_BITS /\ ~(n <= 0)
    <3>1. n > 0
      BY <1>1, Sizes
    <3> QED BY <1>1, <3>1
  <2>4. Fill(0, n) = Pow2[WORD_BITS] - 1
    BY <1>1, <2>3 DEF Fill
  <2> QED BY <2>2, <2>4, Sizes
<1>3. IsAt(i, J, 0, 0)
  <2>1. i = (J * ENTRIES + 0) * PAGE + 0
    BY <1>1, Sizes
  <2> QED BY <2>1 DEF IsAt
<1>4. mem[At(D, J)] + WORD * 0 = TopOfMemory - 1 /\ mem[At(D, J)] # 0
  BY <1>1, <1>2, Sizes
<1>5. get_page(mem, placement_pointer, i) =
        [mem |-> mem, placement |-> placement_pointer, page |-> TopOfMemory - 1]
  <2>1. get_page(mem, placement_pointer, i) =
          [mem |-> mem, placement |-> placement_pointer, page |-> mem[At(D, J)] + WORD * 0]
    BY <1>1, <1>3, <1>4, GetOld
  <2> QED BY <1>4, <2>1
<1>6. SbrkTables = {[mem |-> mem, placement |-> placement_pointer, page |-> TopOfMemory - 1]}
  BY <1>5, TwoCalls
<1>7. Translate(mem, TopOfMemory - 1) = NOWHERE
  <2>1. PICK last, x : last = AllPages - 1 /\ x = PAGE - 1
    OBVIOUS
  <2>2. last \in 0 .. AllPages - 1 /\ x \in 0 .. PAGE - 1 /\ last \in Nat
    BY <2>1, Sizes
  <2>3. last * PAGE + x = TopOfMemory - 1
    <3>1. PICK s, c : s = AllPages /\ c = PAGE
      OBVIOUS
    <3>2. s \in Nat /\ c \in Nat /\ (s - 1) * c + (c - 1) = s * c - 1
      BY <3>1, Sizes
    <3> QED BY <2>1, <3>1, <3>2, Sizes
  <2>4. ~(last < n)
    <3>1. J * ENTRIES + ENTRIES <= AllPages /\ J * ENTRIES \in Nat
      BY RoomIs
    <3> QED BY <1>1, <2>1, <3>1, Sizes
  <2>5. J \in 0 .. J /\ n <= J * ENTRIES
    BY <1>1
  <2>6. Translate(mem, last * PAGE + x) = IF last < n THEN last * PAGE + x ELSE NOWHERE
    BY <2>2, <2>5, PageMapped
  <2> QED BY <2>3, <2>4, <2>6
<1> QED BY <1>6, <1>7

LEMMA SbrkPageKeeps ==
  ASSUME NEW D \in Nat, NEW J \in Nat, Chosen(D, J), NEW B \in Nat, NEW made \in Nat, NEW n \in Nat,
         Shape(D, J, B, made, n), SbrkPage,
         grub \in [start : Starts, mem_upper : MemUppers]
  PROVE  \E B1, made1, n1 \in Nat : Shape(D, J, B1, made1, n1)'
<1>1. Running(D, B, made, n) /\ pc = "sbrk" /\ i < heap_end
  BY DEF Shape, Booting, SbrkPage
<1>2. /\ Placed(D, J) /\ kernel_directory = D * PAGE /\ frames = At(D, J)
      /\ i = n * PAGE /\ made \in 0 .. J /\ B \in Nat \ {0}
      /\ n <= made * ENTRIES /\ n <= Usable
      /\ Layout(mem, D, J, B, made, n) /\ Absent(mem, D, made)
  BY DEF Shape, Placed
<1>3. /\ paging = TRUE /\ B \in 1 .. made /\ D + 2 + B <= n
      /\ heap_start = (D + 2 + B) * PAGE
      /\ made = B => placement_pointer = 0
      /\ made > B => placement_pointer = (made - B + 1) * PAGE
  BY <1>1 DEF Running
<1>4. PICK h \in n .. AllPages - 1 : heap_end = h * PAGE
  BY <1>1 DEF Running
<1>5. Room(D, J, Usable) /\ Usable \in Nat
  BY <1>2, UsableIs
<1>6. /\ J < ENTRIES /\ J * ENTRIES \in Nat /\ ENTRIES \in Nat \ {0} /\ AllPages \in Nat
      /\ h \in Nat /\ n < h
  <2>1. J < ENTRIES /\ J * ENTRIES \in Nat /\ ENTRIES \in Nat \ {0} /\ AllPages \in Nat
    BY <1>5, RoomIs, Sizes
  <2>2. h \in Nat
    BY <1>4, <2>1
  <2> QED BY <1>1, <1>2, <1>4, <2>1, <2>2, PageOrder
<1>7. ASSUME NEW m1, NEW pp1, NEW page,
             SbrkTables = {[mem |-> m1, placement |-> pp1, page |-> page]}
      PROVE  \E found \in {Translate(m1, page)} :
               /\ placement_pointer' = pp1
               /\ \/ found = NOWHERE /\ pc' = "page_fault" /\ mem' = m1 /\ i' = i
                  \/ /\ found # NOWHERE /\ NoFrame(m1, found)
                     /\ pc' = "out_of_frames" /\ mem' = m1 /\ i' = i
                  \/ /\ found # NOWHERE /\ ~NoFrame(m1, found)
                     /\ mem' = alloc_frame(m1, found) /\ i' = i + PAGE /\ pc' = pc
  BY <1>7 DEF SbrkPage
<1>8. UNCHANGED <<frames, nframes, kernel_directory, mboot_ptr, heap_end, paging, grub, heap_start>>
  BY DEF SbrkPage
<1>9. ASSUME NEW made1 \in made .. J, NEW n1 \in n .. h,
             made1 = B => placement_pointer' = 0,
             made1 > B => placement_pointer' = (made1 - B + 1) * PAGE,
             pc' \in {"sbrk", "out_of_frames", "page_fault"}
      PROVE  Running(D, B, made1, n1)'
  <2>1. h \in n1 .. AllPages - 1 /\ heap_end' = h * PAGE /\ pc' # "run"
    BY <1>4, <1>6, <1>8, <1>9
  <2>2. B \in 1 .. made1 /\ D + 2 + B <= n1
    BY <1>2, <1>3, <1>6, <1>9
  <2>3. \E l \in n1 .. AllPages - 1 : heap_end' = l * PAGE /\ (pc' = "run" => l = n1)
    BY <2>1
  <2> QED BY <1>3, <1>8, <1>9, <2>2, <2>3 DEF Running, AllPages
<1>10. CASE n < J * ENTRIES
  <2>1. PICK t \in 0 .. J - 1, e \in Slot :
          /\ t \in Slot /\ n = t * ENTRIES + e /\ IsAt(n * PAGE, t, e, 0)
          /\ t < made \/ t = made
    <3>1. J < ENTRIES /\ made \in 0 .. J /\ n <= made * ENTRIES
      BY <1>2, <1>6
    <3> QED BY <1>10, <3>1, NextPage, Zenon
  <2>2. PICK m1, made1, pp1 :
          /\ made1 \in 0 .. J /\ made <= made1 /\ t \in 0 .. made1 - 1 /\ n <= made1 * ENTRIES
          /\ SbrkTables = {[mem |-> m1, placement |-> pp1, page |-> At(TablePage(D, B, t), e)]}
          /\ Layout(m1, D, J, B, made1, n) /\ Absent(m1, D, made1)
          /\ made1 = B => pp1 = 0
          /\ made1 > B => pp1 = (made1 - B + 1) * PAGE
    <3>1. Room(D, J, Usable) /\ kernel_directory = D * PAGE /\ i = n * PAGE
      BY <1>2, <1>5
    <3>2. made \in 0 .. J /\ B \in 1 .. made /\ n <= made * ENTRIES /\ n < J * ENTRIES
      BY <1>2, <1>3, <1>10
    <3>3. Layout(mem, D, J, B, made, n) /\ Absent(mem, D, made)
      BY <1>2
    <3>4. Served(D, J, B, made, n, t, e)
      BY <1>3, <2>1, <3>1, <3>2, <3>3, SbrkTable
    <3> QED BY <3>4 DEF Served
  <2>3. PICK page : page = At(TablePage(D, B, t), e)
    OBVIOUS
  <2>4. Translate(m1, page) = page /\ page # NOWHERE
    BY <1>2, <1>3, <1>5, <2>2, <2>3, EntryMapped
  <2>5. /\ placement_pointer' = pp1
        /\ \/ NoFrame(m1, page) /\ pc' = "out_of_frames" /\ mem' = m1 /\ i' = i
           \/ ~NoFrame(m1, page) /\ mem' = alloc_frame(m1, page) /\ i' = i + PAGE /\ pc' = pc
    BY <1>7, <2>2, <2>3, <2>4
  <2>6. CASE NoFrame(m1, page)
    <3>1. mem' = m1 /\ pc' = "out_of_frames" /\ i' = n * PAGE /\ placement_pointer' = pp1
      BY <1>2, <2>5, <2>6
    <3>2. Running(D, B, made1, n)'
      <4>1. n \in n .. h /\ made1 \in made .. J
        BY <1>6, <2>2
      <4> QED BY <1>9, <2>2, <3>1, <4>1
    <3>3. n = Usable
      BY <1>2, <1>5, <2>1, <2>2, <2>3, <2>6, TurnEnds
    <3>4. Stopped(pc', J, n)
      BY <3>1, <3>3 DEF Stopped
    <3>5. Shape(D, J, B, made1, n)'
      BY <1>2, <1>8, <2>2, <3>1, <3>2, <3>4, ShapeNext
    <3> QED BY <2>2, <3>5
  <2>7. CASE ~NoFrame(m1, page)
    <3>1. /\ mem' = alloc_frame(m1, page) /\ pc' = "sbrk" /\ i' = (n + 1) * PAGE
          /\ placement_pointer' = pp1
      <4>1. (n + 1) * PAGE = n * PAGE + PAGE
        BY Sizes
      <4> QED BY <1>1, <1>2, <2>5, <2>7, <4>1
    <3>2. n + 1 <= Usable /\ n + 1 <= made1 * ENTRIES
      BY <1>2, <1>5, <2>1, <2>2, <2>3, <2>7, TurnEnds
    <3>3. Layout(mem', D, J, B, made1, n + 1) /\ Absent(mem', D, made1)
      BY <1>2, <1>5, <2>1, <2>2, <2>3, <2>7, <3>1, TurnEnds
    <3>4. Running(D, B, made1, n + 1)'
      <4>1. n + 1 \in n .. h /\ made1 \in made .. J
        BY <1>6, <2>2
      <4> QED BY <1>9, <2>2, <3>1, <4>1
    <3>5. Shape(D, J, B, made1, n + 1)'
      <4>1. n + 1 \in Nat
        OBVIOUS
      <4>2. Stopped(pc', J, n + 1)
        BY <3>1 DEF Stopped
      <4> QED BY <1>2, <1>8, <2>2, <3>1, <3>2, <3>3, <3>4, <4>1, <4>2, ShapeNext
    <3> QED BY <2>2, <3>5
  <2> QED BY <2>6, <2>7
<1>11. CASE ~(n < J * ENTRIES)
  <2>1. made = J /\ n = J * ENTRIES
    <3>1. made < J => made * ENTRIES + ENTRIES <= J * ENTRIES
      BY <1>2, <1>6, Products
    <3>2. made * ENTRIES \in Nat /\ (made = J \/ made < J)
      BY <1>2, <1>6
    <3> QED BY <1>2, <1>6, <1>11, <3>1, <3>2
  <2>2. PICK page :
          /\ SbrkTables = {[mem |-> mem, placement |-> placement_pointer, page |-> page]}
          /\ Translate(mem, page) = NOWHERE
    BY <1>2, <1>5, <2>1, WildPage
  <2>3. mem' = mem /\ pc' = "page_fault" /\ i' = i /\ placement_pointer' = placement_pointer
    BY <1>7, <2>2
  <2>4. Running(D, B, made, n)'
    <3>1. n \in n .. h /\ made \in made .. J
      BY <1>2, <1>6
    <3> QED BY <1>3, <1>9, <2>3, <3>1
  <2>5. Layout(mem', D, J, B, made, n) /\ Absent(mem', D, made) /\ i' = n * PAGE
    BY <1>2, <2>3
  <2>6. Stopped(pc', J, n)
    BY <2>1, <2>3 DEF Stopped
  <2>7. Shape(D, J, B, made, n)'
    BY <1>2, <1>8, <2>4, <2>5, <2>6, ShapeNext
  <2> QED BY <2>7
<1> QED BY <1>10, <1>11

(* A kernel that is stopped, or that stutters, stays as it is.             *)
LEMMA StutterKeeps ==
  ASSUME IInv, UNCHANGED vars
  PROVE  IInv'
<1>1. mem' = mem /\ placement_pointer' = placement_pointer /\ frames' = frames
      /\ nframes' = nframes /\ kernel_directory' = kernel_directory /\ mboot_ptr' = mboot_ptr
      /\ heap_end' = heap_end /\ paging' = paging /\ i' = i /\ pc' = pc /\ grub' = grub
      /\ heap_start' = heap_start
  BY DEF vars
<1>2. grub' \in [start : Starts, mem_upper : MemUppers]
  BY <1>1 DEF IInv
<1>3. ASSUME Fits'
      PROVE  \E D, J \in Nat : Chosen(D, J)' /\ (Early(D)' \/ \E B, made, n \in Nat : Shape(D, J, B, made, n)')
  <2>1. Fits
    BY <1>1, <1>3, StillChosen
  <2>2. PICK D \in Nat, J \in Nat :
          Chosen(D, J) /\ (Early(D) \/ \E B, made, n \in Nat : Shape(D, J, B, made, n))
    BY <2>1 DEF IInv
  <2>3. Chosen(D, J)'
    BY <1>1, <2>2, StillChosen
  <2>4. CASE Early(D)
    <3>1. Early(D)'
      BY <1>1, <2>4 DEF Early, Memory, Words
    <3> QED BY <2>3, <3>1
  <2>5. CASE \E B, made, n \in Nat : Shape(D, J, B, made, n)
    <3>1. PICK B \in Nat, made \in Nat, n \in Nat : Shape(D, J, B, made, n)
      BY <2>5
    <3>2. /\ Placed(D, J) /\ B \in Nat \ {0} /\ made \in 0 .. J /\ i = n * PAGE
          /\ n <= made * ENTRIES /\ n <= Usable
          /\ Layout(mem, D, J, B, made, n) /\ Absent(mem, D, made)
          /\ Stopped(pc', J, n)
      BY <1>1, <3>1 DEF Shape
    <3>3. Booting(D, B, made, n)' \/ Running(D, B, made, n)'
      <4>1. CASE Booting(D, B, made, n)
        BY <1>1, <4>1 DEF Booting, At
      <4>2. CASE Running(D, B, made, n)
        BY <1>1, <4>2 DEF Running, AllPages
      <4> QED BY <3>1, <4>1, <4>2 DEF Shape
    <3>4. Layout(mem', D, J, B, made, n) /\ Absent(mem', D, made) /\ i' = n * PAGE
      BY <1>1, <3>2
    <3>5. Shape(D, J, B, made, n)'
      BY <1>1, <3>2, <3>3, <3>4, ShapeNext
    <3> QED BY <2>3, <3>5
  <2> QED BY <2>2, <2>4, <2>5
<1> QED BY <1>2, <1>3 DEF IInv

LEMMA StepKeeps == IInv /\ [Next]_vars => IInv'
<1> SUFFICES ASSUME IInv, [Next]_vars PROVE IInv'
  OBVIOUS
<1>1. CASE UNCHANGED vars
  BY <1>1, StutterKeeps
<1>2. CASE Next /\ ~UNCHANGED vars
  <2>1. grub \in [start : Starts, mem_upper : MemUppers]
    BY DEF IInv
  <2>2. UNCHANGED grub
    BY <1>2 DEF Next, Kernel, CopyMultiboot, PagingInstall, MapPage, SwitchPageDirectory,
                HeapInstall, SbrkPage, SbrkReturn, Sbrk, HaltLoop
  <2>3. ASSUME Fits'
        PROVE  \E D, J \in Nat : Chosen(D, J)' /\ (Early(D)' \/ \E B, made, n \in Nat : Shape(D, J, B, made, n)')
    <3>1. Fits
      BY <2>2, <2>3, StillChosen
    <3>2. PICK D \in Nat, J \in Nat :
            Chosen(D, J) /\ (Early(D) \/ \E B, made, n \in Nat : Shape(D, J, B, made, n))
      BY <3>1 DEF IInv
    <3>3. Chosen(D, J)'
      BY <2>2, <3>2, StillChosen
    <3>4. CASE Early(D)
      <4>1. pc \in {"copy_multiboot", "paging_install"}
        BY <3>4 DEF Early
      <4>2. CopyMultiboot \/ PagingInstall
        BY <1>2, <4>1 DEF Next, Kernel, MapPage, SwitchPageDirectory, HeapInstall,
                          SbrkPage, SbrkReturn, Sbrk, HaltLoop
      <4>3. CASE CopyMultiboot
        <5>1. Early(D)'
          BY <2>1, <3>2, <3>4, <4>3, CopyKeeps
        <5> QED BY <3>3, <5>1
      <4>4. CASE PagingInstall
        <5>1. Shape(D, J, ENTRIES, 0, 0)'
          BY <2>1, <3>2, <3>4, <4>4, InstallKeeps
        <5>2. ENTRIES \in Nat /\ 0 \in Nat
          BY Sizes
        <5> QED BY <3>3, <5>1, <5>2
      <4> QED BY <4>2, <4>3, <4>4
    <3>5. CASE \E B, made, n \in Nat : Shape(D, J, B, made, n)
      <4>1. PICK B \in Nat, made \in Nat, n \in Nat : Shape(D, J, B, made, n)
        BY <3>5
      <4>2. ~CopyMultiboot /\ ~PagingInstall
        BY <4>1 DEF Shape, Booting, Running, CopyMultiboot, PagingInstall
      <4>3. /\ Chosen(D, J) /\ grub \in [start : Starts, mem_upper : MemUppers]
            /\ Shape(D, J, B, made, n)
        BY <2>1, <3>2, <4>1
      <4>4. \E B1, made1, n1 \in Nat : Shape(D, J, B1, made1, n1)'
        <5>1. CASE MapPage
          BY <4>3, <5>1, MapKeeps
        <5>2. CASE SwitchPageDirectory
          BY <4>3, <5>2, SwitchKeeps
        <5>3. CASE HeapInstall
          BY <4>3, <5>3, HeapKeeps
        <5>4. CASE SbrkPage
          BY <4>3, <5>4, SbrkPageKeeps
        <5>5. CASE SbrkReturn
          BY <4>3, <5>5, ReturnKeeps
        <5>6. ASSUME NEW inc \in Increments, Sbrk(inc)
              PROVE  \E B1, made1, n1 \in Nat : Shape(D, J, B1, made1, n1)'
          BY <4>3, <5>6, SbrkKeeps
        <5>7. ~HaltLoop
          BY <1>2 DEF HaltLoop
        <5> QED BY <1>2, <4>2, <5>1, <5>2, <5>3, <5>4, <5>5, <5>6, <5>7 DEF Next, Kernel
      <4> QED BY <3>3, <4>4
    <3> QED BY <3>2, <3>4, <3>5
  <2> QED BY <2>1, <2>2, <2>3 DEF IInv
<1> QED BY <1>1, <1>2

(* On every machine whose structures have their room, memory is laid out   *)
(* as the invariant says, from copy_multiboot() to any number of sbrks.    *)
THEOREM Invariance == Spec => []IInv
<1>1. Init => IInv
  BY Started
<1>2. IInv /\ [Next]_vars => IInv'
  BY StepKeeps
<1> QED BY <1>1, <1>2, PTL DEF Spec

-----------------------------------------------------------------------------
(***************************************************************************)
(* What the layout means for the properties the run checks.                *)
(***************************************************************************)
LEMMA PagesAre ==
  /\ \A k \in 0 .. AllPages - 1 : k * PAGE \in Page /\ k * PAGE <= TopOfMemory
  /\ \A a \in Page : \E k \in 0 .. AllPages - 1 : a = k * PAGE
<1>1. TopOfMemory \div PAGE = AllPages /\ AllPages \in Nat /\ PAGE \in Nat
      /\ TopOfMemory = AllPages * PAGE
  BY Sizes
<1>2. PICK c, s : c = PAGE /\ s = AllPages
  OBVIOUS
<1>3. Page = {c * k : k \in 0 .. s - 1}
  BY <1>1, <1>2 DEF Page
<1>4. \A k \in 0 .. s - 1 : c * k = k * c /\ k \in Nat
  BY <1>1, <1>2
<1>5. \A k \in 0 .. s - 1 : k * c <= s * c
  <2> SUFFICES ASSUME NEW k \in 0 .. s - 1 PROVE k * c <= s * c
    OBVIOUS
  <2>1. k \in Nat /\ s \in Nat /\ c \in Nat /\ k <= s
    BY <1>1, <1>2
  <2> QED BY <2>1, Products
<1> QED BY <1>1, <1>2, <1>3, <1>4, <1>5

(* The numbers of the layout are in their ranges.                          *)
LEMMA ShapeIs ==
  ASSUME NEW D \in Nat, NEW J \in Nat, Chosen(D, J), NEW B \in Nat, NEW made \in Nat, NEW n \in Nat,
         Shape(D, J, B, made, n), grub \in [start : Starts, mem_upper : MemUppers]
  PROVE  /\ Room(D, J, Usable) /\ Usable \in Nat /\ Usable <= nframes
         /\ nframes \in 0 .. AllPages
         /\ n <= J * ENTRIES /\ n < AllPages /\ n <= Usable /\ made \in 0 .. J
         /\ AllPages \in Nat /\ J * ENTRIES \in Nat /\ D \in 0 .. AllPages - 1
         /\ D + 2 + J < AllPages
<1>1. Placed(D, J) /\ made \in 0 .. J /\ n <= made * ENTRIES /\ n <= Usable
  BY DEF Shape
<1>2. Room(D, J, Usable) /\ Usable \in Nat /\ Usable <= nframes /\ nframes \in 0 .. AllPages
  BY <1>1, UsableIs
<1>3. J * ENTRIES \in Nat /\ J * ENTRIES + ENTRIES <= AllPages /\ D \in 0 .. AllPages - 1
      /\ ENTRIES \in Nat \ {0} /\ AllPages \in Nat /\ D + 2 + J < AllPages
  BY <1>2, RoomIs, Sizes
<1>4. made * ENTRIES <= J * ENTRIES /\ made * ENTRIES \in Nat
  BY <1>1, <1>3, Products
<1> QED BY <1>1, <1>2, <1>3, <1>4

(* A page and what the processor makes of it.                              *)
LEMMA ShapeMaps ==
  ASSUME NEW D \in Nat, NEW J \in Nat, Chosen(D, J), NEW B \in Nat, NEW made \in Nat, NEW n \in Nat,
         Shape(D, J, B, made, n), grub \in [start : Starts, mem_upper : MemUppers],
         NEW k \in 0 .. AllPages - 1
  PROVE  Translate(mem, k * PAGE) = IF k < n THEN k * PAGE ELSE NOWHERE
<1>1. /\ Placed(D, J) /\ made \in 0 .. J /\ n <= made * ENTRIES /\ B \in Nat \ {0}
      /\ Layout(mem, D, J, B, made, n) /\ Absent(mem, D, made) /\ kernel_directory = D * PAGE
  BY DEF Shape, Placed
<1>2. Room(D, J, Usable)
  BY ShapeIs
<1>3. 0 \in 0 .. PAGE - 1 /\ k * PAGE \in Nat
  BY Sizes
<1>4. Translate(mem, k * PAGE + 0) = IF k < n THEN k * PAGE + 0 ELSE NOWHERE
  BY <1>1, <1>2, <1>3, PageMapped
<1> QED BY <1>3, <1>4

LEMMA EarlyTypes ==
  ASSUME NEW D \in Nat, NEW J \in Nat, Chosen(D, J), Early(D),
         grub \in [start : Starts, mem_upper : MemUppers]
  PROVE  TypeOK
<1>1. /\ D \in 0 .. AllPages - 1 /\ 0 \in Slot /\ AllPages \in Nat /\ 0 \in 0 .. AllPages - 1
      /\ J - HEADER \in Slot /\ J \in Slot
  BY ChosenIs, RoomIs, Sizes DEF Chosen
<1>2. grub.start = At(D, J - HEADER) /\ grub.start + HEADER * WORD = At(D, J)
  BY ChosenIs DEF Chosen
<1>3. 0 \in Words
  <2>1. At(0, 0) = 0
    BY Sizes DEF At
  <2> QED BY <1>1, <2>1, WordsAre
<1>4. At(D, J - HEADER) \in Words /\ At(D, J) \in Words
  BY <1>1, WordsAre
<1>5. \A k \in Slot : At(D, k) \in 0 .. TopOfMemory
  <2> SUFFICES ASSUME NEW k \in Slot PROVE At(D, k) \in 0 .. TopOfMemory
    OBVIOUS
  <2>1. At(D, k) < AllPages * PAGE
    BY <1>1, AtOrder
  <2> QED BY <2>1, AtIs, Sizes
<1>6. 0 \in Page
  <2>1. 0 * PAGE = 0
    BY Sizes
  <2> QED BY <1>1, <2>1, PagesAre
<1>7. 0 \in 0 .. TopOfMemory \div PAGE
  BY Sizes
<1>8. placement_pointer \in {At(D, J - HEADER), At(D, J)} /\ mboot_ptr \in {0, At(D, J - HEADER)}
  BY <1>2 DEF Early
<1>9. placement_pointer \in 0 .. TopOfMemory /\ mboot_ptr \in Words
  BY <1>1, <1>3, <1>4, <1>5, <1>8
<1> QED BY <1>3, <1>6, <1>7, <1>9 DEF Early, TypeOK, Memory

LEMMA ShapeTypes ==
  ASSUME NEW D \in Nat, NEW J \in Nat, Chosen(D, J), NEW B \in Nat, NEW made \in Nat, NEW n \in Nat,
         Shape(D, J, B, made, n), grub \in [start : Starts, mem_upper : MemUppers]
  PROVE  TypeOK
<1>1. /\ D \in 0 .. AllPages - 1 /\ AllPages \in Nat /\ 0 \in 0 .. AllPages - 1
      /\ D + 2 + J < AllPages /\ n < AllPages /\ made \in 0 .. J
      /\ nframes \in 0 .. AllPages /\ J \in Slot /\ J - HEADER \in Slot
  BY ChosenIs, ShapeIs
<1>2. mem \in [Words -> 0 .. TopOfMemory - 1]
  BY DEF Shape, Layout, Memory
<1>3. {frames, mboot_ptr} \subseteq Words
  <2>1. At(D, J) \in Words /\ At(D, J - HEADER) \in Words
    BY <1>1, WordsAre
  <2>2. frames = At(D, J) /\ mboot_ptr = At(D, J - HEADER)
    BY DEF Shape, Placed, Chosen
  <2> QED BY <2>1, <2>2
<1>4. nframes \in 0 .. TopOfMemory \div PAGE
  BY <1>1, Sizes
<1>5. kernel_directory \in Page /\ i \in Page /\ 0 \in Page
  <2>1. kernel_directory = D * PAGE /\ i = n * PAGE /\ 0 * PAGE = 0
    BY Sizes DEF Shape, Placed
  <2>2. n \in 0 .. AllPages - 1
    BY <1>1
  <2> QED BY <1>1, <2>1, <2>2, PagesAre
<1>6. CASE Booting(D, B, made, n)
  <2>1. heap_start = 0 /\ heap_end = 0 /\ paging \in BOOLEAN
    BY <1>6 DEF Booting
  <2>2. placement_pointer \in 0 .. TopOfMemory
    <3>1. CASE made = 0
      <4>1. placement_pointer = At(D + 2, 1)
        BY <1>6, <3>1 DEF Booting
      <4>2. 1 \in Slot /\ D + 2 \in Nat /\ D + 2 < AllPages
        BY <1>1, Sizes DEF Slot
      <4>3. At(D + 2, 1) < AllPages * PAGE /\ At(D + 2, 1) \in Nat
        BY <1>1, <4>2, AtOrder, AtIs
      <4> QED BY <4>1, <4>3, Sizes
    <3>2. CASE made > 0
      <4>1. placement_pointer = (D + 2 + made) * PAGE
        BY <1>6, <3>2 DEF Booting
      <4>2. D + 2 + made \in 0 .. AllPages - 1 /\ D + 2 + made \in Nat
        BY <1>1
      <4>3. (D + 2 + made) * PAGE <= TopOfMemory
        BY <4>2, PagesAre
      <4>4. (D + 2 + made) * PAGE \in Nat
        BY Sizes
      <4> QED BY <4>1, <4>3, <4>4, Sizes
    <3> QED BY <3>1, <3>2
  <2> QED BY <1>2, <1>3, <1>4, <1>5, <2>1, <2>2 DEF TypeOK
<1>7. CASE Running(D, B, made, n)
  <2>1. B \in 1 .. made /\ heap_start = (D + 2 + B) * PAGE /\ D + 2 + B <= n /\ paging = TRUE
    BY <1>7 DEF Running
  <2>2. PICK h \in n .. AllPages - 1 : heap_end = h * PAGE
    BY <1>7 DEF Running
  <2>3. D + 2 + B \in 0 .. AllPages - 1 /\ h \in 0 .. AllPages - 1
    BY <1>1, <2>1, <2>2
  <2>4. heap_start \in Page /\ heap_end \in Page
    BY <2>1, <2>2, <2>3, PagesAre
  <2>5. placement_pointer \in 0 .. TopOfMemory
    <3>1. CASE made = B
      BY <1>7, <3>1, Sizes DEF Running
    <3>2. CASE made > B
      <4>1. placement_pointer = (made - B + 1) * PAGE
        BY <1>7, <3>2 DEF Running
      <4>2. made - B + 1 \in 0 .. AllPages - 1 /\ made - B + 1 \in Nat
        BY <1>1, <2>1, <3>2
      <4>3. (made - B + 1) * PAGE <= TopOfMemory
        BY <4>2, PagesAre
      <4>4. (made - B + 1) * PAGE \in Nat
        BY <4>2, PageOrder
      <4> QED BY <4>1, <4>3, <4>4, Sizes
    <3>3. made = B \/ made > B
      BY <1>1, <2>1
    <3> QED BY <3>1, <3>2, <3>3
  <2> QED BY <1>2, <1>3, <1>4, <1>5, <2>1, <2>4, <2>5 DEF TypeOK
<1> QED BY <1>6, <1>7 DEF Shape

LEMMA ShapeIdentity ==
  ASSUME NEW D \in Nat, NEW J \in Nat, Chosen(D, J), NEW B \in Nat, NEW made \in Nat, NEW n \in Nat,
         Shape(D, J, B, made, n), grub \in [start : Starts, mem_upper : MemUppers]
  PROVE  IdentityMapped /\ HeapBacked
<1>1. n < AllPages /\ AllPages \in Nat /\ n <= Usable /\ Usable <= nframes
      /\ Usable \in Nat /\ nframes \in Nat /\ nframes \in 0 .. AllPages
  BY ShapeIs
<1>2. ASSUME NEW a \in Page, a < n * PAGE
      PROVE  Translate(mem, a) = a /\ a \in 0 .. nframes * PAGE - 1
  <2>1. PICK k \in 0 .. AllPages - 1 : a = k * PAGE
    BY PagesAre
  <2>2. k \in Nat /\ k < n
    BY <1>2, <2>1, PageOrder
  <2>3. Translate(mem, k * PAGE) = k * PAGE
    BY <2>2, ShapeMaps
  <2>4. k < nframes
    BY <1>1, <2>2
  <2>5. k * PAGE < nframes * PAGE /\ k * PAGE \in Nat
    BY <1>1, <2>2, <2>4, PageOrder
  <2>6. nframes * PAGE \in Nat
    BY <1>1, PageOrder
  <2> QED BY <2>1, <2>3, <2>5, <2>6
<1>3. i = n * PAGE
  BY DEF Shape
<1>4. CASE Booting(D, B, made, n)
  <2>1. heap_start = 0 /\ (paging => placement_pointer = n * PAGE)
    BY <1>4 DEF Booting
  <2>2. IdentityMapped
    BY <1>2, <2>1 DEF IdentityMapped
  <2> QED BY <2>1, <2>2 DEF HeapBacked
<1>5. CASE Running(D, B, made, n)
  <2>1. B \in 1 .. made /\ heap_start = (D + 2 + B) * PAGE /\ D + 2 + B <= n
        /\ (pc = "run" => heap_end = n * PAGE)
    BY <1>5 DEF Running
  <2>2. D + 2 + B \in Nat /\ 0 < D + 2 + B
    BY <2>1
  <2>3. heap_start <= n * PAGE /\ heap_start \in Nat /\ n * PAGE \in Nat
    BY <2>1, <2>2, PageOrder
  <2>4. heap_start # 0
    <3>1. 0 * PAGE < (D + 2 + B) * PAGE
      BY <2>2, PageOrder
    <3> QED BY <2>1, <2>3, <3>1, Sizes
  <2>5. IdentityMapped
    <3> SUFFICES ASSUME NEW a \in Page, a < heap_start PROVE Translate(mem, a) = a
      BY <2>4 DEF IdentityMapped
    <3>1. a < n * PAGE
      <4>1. PICK k \in 0 .. AllPages - 1 : a = k * PAGE
        BY PagesAre
      <4>2. a \in Nat
        BY <4>1, PageOrder
      <4> QED BY <2>3, <4>2
    <3> QED BY <1>2, <3>1
  <2>6. HeapBacked
    <3>1. (IF pc = "run" THEN heap_end ELSE i) = n * PAGE
      BY <1>3, <2>1
    <3> QED BY <1>2, <3>1 DEF HeapBacked
  <2> QED BY <2>5, <2>6
<1> QED BY <1>4, <1>5 DEF Shape

LEMMA ShapeFrames ==
  ASSUME NEW D \in Nat, NEW J \in Nat, Chosen(D, J), NEW B \in Nat, NEW made \in Nat, NEW n \in Nat,
         Shape(D, J, B, made, n), grub \in [start : Starts, mem_upper : MemUppers]
  PROVE  FramesExact
<1> SUFFICES ASSUME NEW f \in 0 .. Usable - 1
             PROVE  /\ Cardinality({a \in Page : Translate(mem, a) = f * PAGE}) <= 1
                    /\ {a \in Page : Translate(mem, a) = f * PAGE} # {} => test_frame(mem, f)
                    /\ test_frame(mem, f) /\ ~Shadowed(f) =>
                         {a \in Page : Translate(mem, a) = f * PAGE} # {}
  BY DEF FramesExact
<1>1. /\ n <= J * ENTRIES /\ n < AllPages /\ AllPages \in Nat /\ n <= Usable /\ Usable \in Nat
      /\ Room(D, J, Usable) /\ J * ENTRIES \in Nat
  BY ShapeIs
<1>2. PICK mapped : mapped = {a \in Page : Translate(mem, a) = f * PAGE}
  OBVIOUS
<1>3. f \in Nat /\ f * PAGE \in Nat
  <2>1. f \in Nat
    BY <1>1
  <2> QED BY <2>1, PageOrder
<1>4. mapped = IF f < n THEN {f * PAGE} ELSE {}
  <2>1. ASSUME NEW a \in Page PROVE Translate(mem, a) = f * PAGE <=> f < n /\ a = f * PAGE
    <3>1. PICK k \in 0 .. AllPages - 1 : a = k * PAGE
      BY PagesAre
    <3>2. Translate(mem, a) = IF k < n THEN a ELSE NOWHERE
      BY <3>1, ShapeMaps
    <3>3. k \in Nat
      OBVIOUS
    <3>4. a = f * PAGE => k = f
      <4>1. k * PAGE <= f * PAGE <=> k <= f
        BY <1>3, <3>3, PageOrder
      <4>2. f * PAGE <= k * PAGE <=> f <= k
        BY <1>3, <3>3, PageOrder
      <4> QED BY <1>3, <3>1, <3>3, <4>1, <4>2
    <3>5. NOWHERE # f * PAGE
      BY <1>3 DEF NOWHERE
    <3> QED BY <3>2, <3>4, <3>5
  <2>2. f < n => f * PAGE \in Page
    <3>1. f < n => f \in 0 .. AllPages - 1
      BY <1>1, <1>3
    <3> QED BY <3>1, PagesAre
  <2> QED BY <1>2, <2>1, <2>2
<1>5. Cardinality(mapped) <= 1
  <2>1. Cardinality({f * PAGE}) = 1 /\ Cardinality({}) = 0
    BY FS_Singleton, FS_EmptySet
  <2> QED BY <1>4, <2>1
<1>6. /\ frames = At(D, J) /\ kernel_directory = D * PAGE /\ J \in Nat
      /\ Layout(mem, D, J, B, made, n) /\ ENTRIES \in Nat
  BY Sizes DEF Shape, Placed
<1>7. J + INDEX_FROM_BIT(f) < ENTRIES => (test_frame(mem, f) <=> f < n)
  BY <1>1, <1>3, <1>6, Tested
<1>8. mapped # {} => test_frame(mem, f)
  <2> SUFFICES ASSUME f < n PROVE test_frame(mem, f)
    BY <1>4
  <2>1. f < J * ENTRIES
    BY <1>1, <1>3
  <2>2. J + INDEX_FROM_BIT(f) < ENTRIES
    BY <1>1, <2>1 DEF Room
  <2> QED BY <1>7, <2>2
<1>9. ~Shadowed(f) => J + INDEX_FROM_BIT(f) < ENTRIES
  <2>1. PICK l : l = J + INDEX_FROM_BIT(f)
    OBVIOUS
  <2>2. l \in Nat /\ BitmapWord(f) = At(D, l)
    <3>1. INDEX_FROM_BIT(f) \in Nat /\ BitmapWord(f) = At(D, J + INDEX_FROM_BIT(f))
      BY <1>3, <1>6, BitmapAt
    <3> QED BY <1>6, <2>1, <3>1
  <2>3. PICK w, e, c : w = WORD /\ e = ENTRIES /\ c = D * PAGE
    OBVIOUS
  <2>4. w \in Nat /\ e \in Nat /\ c \in Nat /\ PAGE = e * w /\ w * l = l * w /\ l * w \in Nat
        /\ e * w \in Nat
    BY <2>2, <2>3, Sizes
  <2>5. ~(l < e) => e * w <= l * w
    BY <2>2, <2>4, Products
  <2>6. ~(l < e) => BitmapWord(f) >= kernel_directory + PAGE
    BY <1>6, <2>2, <2>3, <2>4, <2>5 DEF At
  <2> QED BY <2>1, <2>3, <2>6 DEF Shadowed
<1>10. test_frame(mem, f) /\ ~Shadowed(f) => mapped # {}
  BY <1>4, <1>7, <1>9
<1> QED BY <1>2, <1>5, <1>8, <1>10

LEMMA Meaning ==
  ASSUME IInv, Fits
  PROVE  /\ TypeOK /\ IdentityMapped /\ HeapBacked /\ FramesExact /\ ImageIntact
         /\ HaltsOnlyWhenFull
<1>1. grub \in [start : Starts, mem_upper : MemUppers]
  BY DEF IInv
<1>2. PICK D \in Nat, J \in Nat :
        Chosen(D, J) /\ (Early(D) \/ \E B, made, n \in Nat : Shape(D, J, B, made, n))
  BY DEF IInv
<1>3. PageOf(grub.start) = D * PAGE
  BY <1>2 DEF Chosen
<1>4. CASE Early(D)
  <2>1. TypeOK
    BY <1>1, <1>2, <1>4, EarlyTypes
  <2>2. ~paging /\ heap_start = 0
    BY <1>4 DEF Early
  <2>3. ImageIntact
    BY <1>3, <1>4 DEF Early, ImageIntact
  <2>4. HaltsOnlyWhenFull
    BY <1>4 DEF Early, HaltsOnlyWhenFull
  <2> QED BY <2>1, <2>2, <2>3, <2>4 DEF IdentityMapped, HeapBacked, FramesExact
<1>5. CASE \E B, made, n \in Nat : Shape(D, J, B, made, n)
  <2>1. PICK B \in Nat, made \in Nat, n \in Nat : Shape(D, J, B, made, n)
    BY <1>5
  <2>2. TypeOK
    BY <1>1, <1>2, <2>1, ShapeTypes
  <2>3. IdentityMapped /\ HeapBacked
    BY <1>1, <1>2, <2>1, ShapeIdentity
  <2>4. FramesExact
    BY <1>1, <1>2, <2>1, ShapeFrames
  <2>5. ImageIntact
    BY <1>3, <2>1 DEF Shape, Layout, ImageIntact
  <2>6. HaltsOnlyWhenFull
    <3>1. Stopped(pc, J, n) /\ i = n * PAGE /\ Reach(grub.start) = J * ENTRIES
      BY <1>2, <2>1 DEF Shape, Chosen
    <3> QED BY <3>1 DEF Stopped, HaltsOnlyWhenFull
  <2> QED BY <2>2, <2>3, <2>4, <2>5, <2>6
<1> QED BY <1>2, <1>4, <1>5

(* The variables of mem.c keep their ranges: the addresses it keeps are    *)
(* those of words, the directory and the heap are on whole pages, and no   *)
(* word of memory overflows.                                               *)
THEOREM TypeCorrect == Spec => [](Fits => TypeOK)
<1>1. IInv => (Fits => TypeOK)
  BY Meaning
<1> QED BY <1>1, Invariance, PTL

(* switch_page_directory() and sbrk(): the kernel, its directory, bitmap   *)
(* and tables stay mapped to themselves from the moment paging is on.      *)
THEOREM KernelStaysMapped == Spec => [](Fits => IdentityMapped)
<1>1. IInv => (Fits => IdentityMapped)
  BY Meaning
<1> QED BY <1>1, Invariance, PTL

(* sbrk(): every page it has handed out is backed by a frame there is.     *)
THEOREM SbrkIsBacked == Spec => [](Fits => HeapBacked)
<1>1. IInv => (Fits => HeapBacked)
  BY Meaning
<1> QED BY <1>1, Invariance, PTL

(* alloc_frame(), set_frame() and first_frame(): a frame backs one page at *)
(* most, the bitmap has every frame that backs one, and none is lost.      *)
THEOREM BitmapIsExact == Spec => [](Fits => FramesExact)
<1>1. IInv => (Fits => FramesExact)
  BY Meaning
<1> QED BY <1>1, Invariance, PTL

(* kvmalloc() and get_page(): though placement starts over at page 0 after *)
(* heap_install(), no table is ever placed on the kernel's image.          *)
THEOREM ImageSurvivesSbrk == Spec => [](Fits => ImageIntact)
<1>1. IInv => (Fits => ImageIntact)
  BY Meaning
<1> QED BY <1>1, Invariance, PTL

(* alloc_frame() and page_fault(): the kernel halts for want of frames    *)
(* only when all that first_frame() finds are mapped, and sbrk() faults   *)
(* only when the tables below the bitmap are full.                        *)
THEOREM HaltsForAReason == Spec => [](Fits => HaltsOnlyWhenFull)
<1>1. IInv => (Fits => HaltsOnlyWhenFull)
  BY Meaning
<1> QED BY <1>1, Invariance, PTL
=============================================================================
