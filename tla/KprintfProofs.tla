---------------------------- MODULE KprintfProofs ----------------------------
(***************************************************************************)
(* Theorems about Kprintf: whatever the calls of the kernel and the memory *)
(* their strings are in, every call of kprintf prints what its format and  *)
(* its words mean, and every panic reports itself whole.                   *)
(*                                                                         *)
(* The lemmas say what the operators compute (parse_num the decimal digits *)
(* of any word, CString the text before the first NUL) and how the text of *)
(* a format grows, position by position.  IInv says of each turn of the    *)
(* loop that the buffer holds the text of the positions so far, of each    *)
(* putch that the screen and what is to come are that text, and of a panic *)
(* which of its messages are done.                                         *)
(***************************************************************************)
EXTENDS Kprintf, TLAPS, FiniteSetTheorems, SequenceTheorems, WellFoundedInduction

(***************************************************************************)
(* Induction, and functions defined by recursion.                          *)
(***************************************************************************)
(* A set of natural numbers has a least element.                           *)
LEMMA LeastElement ==
  ASSUME NEW T \in SUBSET Nat, T # {}
  PROVE  \E x \in T : \A y \in T : x <= y
<1> DEFINE R == {ss \in Nat \X Nat : ss[1] < ss[2]}
<1>1. IsWellFoundedOn(R, Nat)
  BY NatLessThanWellFounded, Zenon DEF OpToRel
<1>2. ASSUME NEW a \in Nat, NEW b \in Nat, a < b PROVE <<a, b>> \in R
  BY <1>2
<1> HIDE DEF R
<1>3. PICK x \in T : \A y \in T : ~(<<y, x>> \in R)
  BY <1>1, WFMin
<1>4. \A y \in T : x <= y
  <2> SUFFICES ASSUME NEW y \in T, y < x PROVE FALSE
    OBVIOUS
  <2> QED BY <1>2, <1>3
<1> QED BY <1>4

(* A set that has 0 and the successor of what it has, has every number.    *)
LEMMA EveryNumber ==
  ASSUME NEW T, 0 \in T, \A n \in Nat : n \in T => n + 1 \in T
  PROVE  \A n \in Nat : n \in T
<1> DEFINE bad == {n \in Nat : n \notin T}
<1> SUFFICES ASSUME bad # {} PROVE FALSE
  OBVIOUS
<1>1. PICK n \in bad : \A m \in bad : n <= m
  <2> HIDE DEF bad
  <2>1. bad \in SUBSET Nat
    BY DEF bad
  <2> QED BY <2>1, LeastElement
<1>2. n \in Nat /\ n # 0 /\ n - 1 \in Nat
  BY <1>1
<1>3. n - 1 \in T
  BY <1>1, <1>2
<1> QED BY <1>1, <1>2, <1>3

(* From a start and a step there is the history of m steps.                *)
Steps(h, V) == \A k \in Nat, v \in V : h[<<k, v>>] \in V
IsHistory(f, V, start, h, m) ==
  /\ f \in [0 .. m -> V] /\ f[0] = start
  /\ \A k \in 1 .. m : f[k] = h[<<k, f[k - 1]>>]

LEMMA Iterated ==
  ASSUME NEW V, NEW start \in V, NEW h, Steps(h, V), NEW m \in Nat
  PROVE  \E f : IsHistory(f, V, start, h, m)
<1> USE DEF Steps, IsHistory
<1> DEFINE T == {n \in Nat : \E f \in [0 .. n -> V] :
                   f[0] = start /\ \A k \in 1 .. n : f[k] = h[<<k, f[k - 1]>>]}
<1>1. 0 \in T
  <2>1. PICK f : f = [k \in 0 .. 0 |-> start]
    OBVIOUS
  <2>2. f \in [0 .. 0 -> V] /\ f[0] = start /\ \A k \in 1 .. 0 : f[k] = h[<<k, f[k - 1]>>]
    BY <2>1
  <2> QED BY <2>2
<1>2. ASSUME NEW n \in Nat, n \in T PROVE n + 1 \in T
  <2>1. PICK f \in [0 .. n -> V] :
          f[0] = start /\ \A k \in 1 .. n : f[k] = h[<<k, f[k - 1]>>]
    BY <1>2
  <2>2. PICK x : x = h[<<n + 1, f[n]>>]
    OBVIOUS
  <2>3. x \in V
    BY <2>2
  <2>4. PICK g : g = [k \in 0 .. n + 1 |-> IF k <= n THEN f[k] ELSE x]
    OBVIOUS
  <2>5. g \in [0 .. n + 1 -> V] /\ g[0] = start
    BY <2>1, <2>3, <2>4
  <2>6. ASSUME NEW k \in 1 .. n + 1 PROVE g[k] = h[<<k, g[k - 1]>>]
    <3>1. g[k - 1] = f[k - 1]
      BY <2>4
    <3>2. CASE k <= n
      <4>1. g[k] = f[k] /\ k \in 1 .. n
        BY <2>4, <3>2
      <4> QED BY <2>1, <3>1, <4>1
    <3>3. CASE ~(k <= n)
      <4>1. g[k] = x /\ k = n + 1 /\ k - 1 = n
        BY <2>4, <3>3
      <4> QED BY <2>2, <3>1, <4>1
    <3> QED BY <3>2, <3>3
  <2> QED BY <2>5, <2>6
<1> HIDE DEF T
<1>3. m \in T
  BY <1>1, <1>2, EveryNumber
<1> QED BY <1>3 DEF T

(***************************************************************************)
(* Powers of ten.                                                          *)
(***************************************************************************)
LEMMA Tens ==
  /\ 10^0 = 1 /\ 10^1 = 10 /\ 10^2 = 100 /\ 10^3 = 1000 /\ 10^4 = 10000 /\ 10^5 = 100000
  /\ 10^6 = 1000000 /\ 10^7 = 10000000 /\ 10^8 = 100000000 /\ 10^9 = 1000000000
  /\ 10^10 = 10000000000 /\ 2^16 = 65536
OBVIOUS

(* The same, for the solver does not compute in an exponent.               *)
LEMMA TenTo ==
  ASSUME NEW k, NEW p, p = 10^k
  PROVE  /\ (k = 0 => p = 1) /\ (k = 1 => p = 10) /\ (k = 2 => p = 100)
         /\ (k = 3 => p = 1000) /\ (k = 4 => p = 10000) /\ (k = 5 => p = 100000)
         /\ (k = 6 => p = 1000000) /\ (k = 7 => p = 10000000)
         /\ (k = 8 => p = 100000000) /\ (k = 9 => p = 1000000000)
         /\ (k = 10 => p = 10000000000)
<1>1. ASSUME k = 0 PROVE p = 1
  <2>1. p = 10^0
    BY <1>1, Zenon
  <2> QED BY <2>1, Tens
<1>2. ASSUME k = 1 PROVE p = 10
  <2>1. p = 10^1
    BY <1>2, Zenon
  <2> QED BY <2>1, Tens
<1>3. ASSUME k = 2 PROVE p = 100
  <2>1. p = 10^2
    BY <1>3, Zenon
  <2> QED BY <2>1, Tens
<1>4. ASSUME k = 3 PROVE p = 1000
  <2>1. p = 10^3
    BY <1>4, Zenon
  <2> QED BY <2>1, Tens
<1>5. ASSUME k = 4 PROVE p = 10000
  <2>1. p = 10^4
    BY <1>5, Zenon
  <2> QED BY <2>1, Tens
<1>6. ASSUME k = 5 PROVE p = 100000
  <2>1. p = 10^5
    BY <1>6, Zenon
  <2> QED BY <2>1, Tens
<1>7. ASSUME k = 6 PROVE p = 1000000
  <2>1. p = 10^6
    BY <1>7, Zenon
  <2> QED BY <2>1, Tens
<1>8. ASSUME k = 7 PROVE p = 10000000
  <2>1. p = 10^7
    BY <1>8, Zenon
  <2> QED BY <2>1, Tens
<1>9. ASSUME k = 8 PROVE p = 100000000
  <2>1. p = 10^8
    BY <1>9, Zenon
  <2> QED BY <2>1, Tens
<1>10. ASSUME k = 9 PROVE p = 1000000000
  <2>1. p = 10^9
    BY <1>10, Zenon
  <2> QED BY <2>1, Tens
<1>11. ASSUME k = 10 PROVE p = 10000000000
  <2>1. p = 10^10
    BY <1>11, Zenon
  <2> QED BY <2>1, Tens
<1> QED BY <1>1, <1>2, <1>3, <1>4, <1>5, <1>6, <1>7, <1>8, <1>9, <1>10, <1>11

(* A word is below 10^10.                                                  *)
LEMMA WordIs == ASSUME NEW n, IsWord(n) PROVE n \in Nat /\ n < 10^10
BY Tens DEF IsWord

LEMMA TensGrow ==
  ASSUME NEW v \in 1 .. 10, NEW w \in 1 .. 10, v < w
  PROVE  10^v <= 10^(w - 1)
<1>1. PICK u, p, q : u = w - 1 /\ p = 10^v /\ q = 10^u
  OBVIOUS
<1>2. u = 1 \/ u = 2 \/ u = 3 \/ u = 4 \/ u = 5 \/ u = 6 \/ u = 7 \/ u = 8 \/ u = 9
  BY <1>1
<1>3. p = 10^v /\ q = 10^u
  BY <1>1, Zenon
<1>4. p <= q
  BY <1>1, <1>2, <1>3, TenTo
<1> QED BY <1>1, <1>4

LEMMA DivTen ==
  ASSUME NEW n \in Nat, NEW e \in 1 .. 9
  PROVE  n \div 10^e = (n \div 10) \div 10^(e - 1)
<1>1. PICK d, p, q : d = e - 1 /\ p = 10^e /\ q = 10^d
  OBVIOUS
<1>2. e = 1 \/ e = 2 \/ e = 3 \/ e = 4 \/ e = 5 \/ e = 6 \/ e = 7 \/ e = 8 \/ e = 9
  OBVIOUS
<1>3. p = 10^e /\ q = 10^d
  BY <1>1, Zenon
<1>4. n \div p = (n \div 10) \div q
  BY <1>1, <1>2, <1>3, TenTo
<1> QED BY <1>1, <1>4

(* Some width is right.                                                    *)
LEMMA WidthExists ==
  ASSUME NEW n \in Nat, n < 10^10
  PROVE  \E w \in 1 .. 10 : n < 10^w /\ (w = 1 \/ n >= 10^(w - 1))
BY Tens

(***************************************************************************)
(* Digits.                                                                 *)
(***************************************************************************)
IsWidth(n, w) == w \in 1 .. 10 /\ n < 10^w /\ (w = 1 \/ n >= 10^(w - 1))

LEMMA PowerIsNat == \A k \in 0 .. 10 : 10^k \in Nat /\ 10^k >= 1
<1> SUFFICES ASSUME NEW k \in 0 .. 10 PROVE 10^k \in Nat /\ 10^k >= 1
  OBVIOUS
<1>1. PICK p : p = 10^k
  OBVIOUS
<1>2. k = 0 \/ k = 1 \/ k = 2 \/ k = 3 \/ k = 4 \/ k = 5 \/ k = 6 \/ k = 7 \/ k = 8 \/ k = 9
      \/ k = 10
  OBVIOUS
<1> QED BY <1>1, <1>2, TenTo

(* The width of a number is the only one.                                  *)
LEMMA WidthUnique ==
  ASSUME NEW n \in Nat, NEW v, NEW w, IsWidth(n, v), IsWidth(n, w)
  PROVE  v = w
<1>1. ASSUME NEW a \in 1 .. 10, NEW b \in 1 .. 10, n < 10^a, n >= 10^(b - 1) \/ b = 1
      PROVE  ~(a < b)
  <2> SUFFICES ASSUME a < b PROVE FALSE
    OBVIOUS
  <2>1. 10^a <= 10^(b - 1)
    BY TensGrow
  <2>2. PICK p, q : p = 10^a /\ q = 10^(b - 1)
    OBVIOUS
  <2>3. p \in Nat /\ q \in Nat
    <3>1. a \in 0 .. 10 /\ b - 1 \in 0 .. 10
      OBVIOUS
    <3> QED BY <2>2, <3>1, PowerIsNat, Zenon
  <2>4. n < p /\ n >= q /\ p <= q
    <3>1. b # 1
      OBVIOUS
    <3> QED BY <1>1, <2>1, <2>2, <3>1
  <2> QED BY <2>3, <2>4
<1>2. /\ v \in 1 .. 10 /\ n < 10^v /\ (n >= 10^(v - 1) \/ v = 1)
      /\ w \in 1 .. 10 /\ n < 10^w /\ (n >= 10^(w - 1) \/ w = 1)
  BY Zenon DEF IsWidth
<1>3. ~(v < w) /\ ~(w < v)
  BY <1>1, <1>2, Zenon
<1> QED BY <1>2, <1>3

LEMMA DecimalIs ==
  ASSUME NEW n \in Nat, NEW w, IsWidth(n, w)
  PROVE  Decimal(n) = [k \in 1 .. w |-> 48 + ((n \div 10^(w - k)) % 10)]
<1> DEFINE width == CHOOSE v \in 1 .. 10 : n < 10^v /\ (v = 1 \/ n >= 10^(v - 1))
<1>1. IsWidth(n, width)
  BY DEF IsWidth
<1>2. width = w
  <2> HIDE DEF width
  <2> QED BY <1>1, WidthUnique
<1>3. Decimal(n) = [k \in 1 .. width |-> 48 + ((n \div 10^(width - k)) % 10)]
  BY DEF Decimal
<1> HIDE DEF width
<1> QED BY <1>2, <1>3

(* A number of one digit.                                                  *)
LEMMA OneDigit ==
  ASSUME NEW n \in Nat, n < 10
  PROVE  Decimal(n) = <<48 + (n % 10)>>
<1>1. IsWidth(n, 1)
  BY Tens DEF IsWidth
<1>2. Decimal(n) = [k \in 1 .. 1 |-> 48 + ((n \div 10^(1 - k)) % 10)]
  BY <1>1, DecimalIs
<1>3. \A k \in 1 .. 1 : 10^(1 - k) = 1
  BY Tens
<1>4. n \div 1 = n
  OBVIOUS
<1>5. [k \in 1 .. 1 |-> 48 + ((n \div 10^(1 - k)) % 10)] = [k \in 1 .. 1 |-> 48 + (n % 10)]
  BY <1>3, <1>4
<1> QED BY <1>2, <1>5

(* A number of more digits: those of n / 10, then the last one.            *)
LEMMA MoreDigits ==
  ASSUME NEW n \in Nat, n < 10^10, n >= 10
  PROVE  Decimal(n) = Decimal(n \div 10) \o <<48 + (n % 10)>>
<1>1. PICK w \in 1 .. 10 : IsWidth(n, w)
  BY WidthExists DEF IsWidth
<1>2. PICK m, v : m = n \div 10 /\ v = w - 1
  OBVIOUS
<1>3. m \in Nat /\ w # 1 /\ v \in 1 .. 9
  <2>1. w # 1
    <3>1. ASSUME w = 1 PROVE n < 10^1
      BY <1>1, <3>1, Zenon DEF IsWidth
    <3> QED BY <3>1, Tens
  <2> QED BY <1>2, <2>1
<1>4. IsWidth(m, v)
  <2>1. PICK p, q, r : p = 10^w /\ q = 10^v /\ r = 10^(v - 1)
    OBVIOUS
  <2>2. p \in Nat /\ q \in Nat /\ r \in Nat /\ 10 * q = p /\ (v # 1 => 10 * r = q)
    <3>1. PICK u : u = v - 1
      OBVIOUS
    <3>2. p = 10^w /\ q = 10^v /\ r = 10^u
      BY <2>1, <3>1
    <3>3. v = 1 \/ v = 2 \/ v = 3 \/ v = 4 \/ v = 5 \/ v = 6 \/ v = 7 \/ v = 8 \/ v = 9
      BY <1>3
    <3> QED BY <1>2, <3>1, <3>2, <3>3, TenTo
  <2>3. n < p /\ n >= q
    BY <1>1, <1>2, <1>3, <2>1 DEF IsWidth
  <2>4. m < q /\ (v = 1 \/ m >= r)
    BY <1>2, <2>2, <2>3
  <2> QED BY <1>3, <2>1, <2>4 DEF IsWidth
<1>5. Decimal(n) = [k \in 1 .. w |-> 48 + ((n \div 10^(w - k)) % 10)]
  BY <1>1, DecimalIs
<1>6. Decimal(m) = [k \in 1 .. v |-> 48 + ((m \div 10^(v - k)) % 10)]
  BY <1>3, <1>4, DecimalIs
<1>7. ASSUME NEW k \in 1 .. v PROVE n \div 10^(w - k) = m \div 10^(v - k)
  <2>1. PICK e : e = w - k
    OBVIOUS
  <2>2. e \in 1 .. 9 /\ v - k = e - 1
    BY <1>2, <1>3, <2>1
  <2> QED BY <1>2, <2>1, <2>2, DivTen
<1>8. n \div 10^(w - w) = n
  BY Tens
<1> DEFINE left == [k \in 1 .. w |-> 48 + ((n \div 10^(w - k)) % 10)]
           right == [k \in 1 .. v |-> 48 + ((m \div 10^(v - k)) % 10)]
<1>9. \A k \in 1 .. w : left[k] = IF k <= v THEN right[k] ELSE 48 + (n % 10)
  <2> SUFFICES ASSUME NEW k \in 1 .. w PROVE left[k] = IF k <= v THEN right[k] ELSE 48 + (n % 10)
    OBVIOUS
  <2>1. CASE k <= v
    <3>1. k \in 1 .. v
      BY <1>3, <2>1
    <3>2. /\ left[k] = 48 + ((n \div 10^(w - k)) % 10)
          /\ right[k] = 48 + ((m \div 10^(v - k)) % 10)
      BY <3>1, Zenon
    <3> QED BY <1>7, <2>1, <3>1, <3>2, Zenon
  <2>2. CASE ~(k <= v)
    <3>1. k = w
      BY <1>2, <2>2
    <3> QED BY <1>8, <2>2, <3>1
  <2> QED BY <2>1, <2>2
<1>10. /\ left = [k \in 1 .. w |-> left[k]] /\ Len(left) = w
       /\ right \in Seq(Int) /\ Len(right) = v
  <2>1. \A k \in 1 .. v : 10^(v - k) \in Nat /\ 10^(v - k) >= 1
    <3>1. \A k \in 1 .. v : v - k \in 0 .. 10
      BY <1>3
    <3> QED BY <3>1, PowerIsNat, Zenon
  <2>2. \A k \in 1 .. v : 48 + ((m \div 10^(v - k)) % 10) \in Int
    BY <1>3, <2>1
  <2> QED BY <1>3, <2>2
<1> HIDE DEF left, right
<1>11. left = right \o <<48 + (n % 10)>>
  <2> DEFINE last == <<48 + (n % 10)>>
  <2>1. last \in Seq(Int) /\ Len(last) = 1 /\ last[1] = 48 + (n % 10)
    OBVIOUS
  <2> HIDE DEF last
  <2>2. PICK both : both = right \o last
    OBVIOUS
  <2>4. both \in Seq(Int) /\ Len(both) = w
        /\ \A k \in 1 .. w : both[k] = IF k <= v THEN right[k] ELSE last[k - v]
    <3>1. right \o last \in Seq(Int) /\ Len(right \o last) = v + 1
          /\ \A k \in 1 .. v + 1 :
               (right \o last)[k] = IF k <= v THEN right[k] ELSE last[k - v]
      <4>1. PICK r, l : r = right /\ l = last
        OBVIOUS
      <4>2. r \in Seq(Int) /\ l \in Seq(Int) /\ Len(r) = v /\ Len(l) = 1
        BY <1>10, <2>1, <4>1
      <4>3. /\ r \o l \in Seq(Int) /\ Len(r \o l) = Len(r) + Len(l)
            /\ \A k \in 1 .. Len(r) + Len(l) :
                 (r \o l)[k] = IF k <= Len(r) THEN r[k] ELSE l[k - Len(r)]
        BY <4>2, ConcatProperties
      <4> QED BY <4>1, <4>2, <4>3
    <3>2. v + 1 = w
      BY <1>2, <1>3
    <3> QED BY <2>2, <3>1, <3>2, Zenon
  <2>5. both = [k \in 1 .. w |-> both[k]]
    BY <2>4
  <2>3. \A k \in 1 .. w : left[k] = IF k <= v THEN right[k] ELSE last[k - v]
    BY <1>2, <1>3, <1>9, <2>1
  <2>6. \A k \in 1 .. w : left[k] = both[k]
    BY <2>3, <2>4
  <2> QED BY <1>10, <2>2, <2>5, <2>6, Zenon DEF last
<1> QED BY <1>2, <1>5, <1>6, <1>11 DEF left, right

Digit == 48 .. 57
Byte == 0 .. 255
Chars == Seq(Byte)

LEMMA DecimalDigits ==
  ASSUME NEW n \in Nat, n < 10^10
  PROVE  Decimal(n) \in Seq(Digit) /\ Len(Decimal(n)) \in 1 .. 10
<1>1. PICK w \in 1 .. 10 : IsWidth(n, w)
  BY WidthExists DEF IsWidth
<1>2. Decimal(n) = [k \in 1 .. w |-> 48 + ((n \div 10^(w - k)) % 10)]
  BY <1>1, DecimalIs
<1>3. ASSUME NEW k \in 1 .. w PROVE 48 + ((n \div 10^(w - k)) % 10) \in Digit
  <2>1. PICK p : p = 10^(w - k)
    OBVIOUS
  <2>2. p \in Nat /\ p >= 1
    <3>1. w - k \in 0 .. 10
      OBVIOUS
    <3> QED BY <2>1, <3>1, PowerIsNat, Zenon
  <2>3. n \div p \in Int
    BY <2>2
  <2>4. 48 + ((n \div p) % 10) \in Digit
    BY <2>3 DEF Digit
  <2> QED BY <2>1, <2>4
<1>4. [k \in 1 .. w |-> 48 + ((n \div 10^(w - k)) % 10)] \in Seq(Digit)
  <2> DEFINE d(k) == 48 + ((n \div 10^(w - k)) % 10)
  <2>1. \A k \in 1 .. w : d(k) \in Digit
    BY <1>3
  <2> HIDE DEF d
  <2>2. [k \in 1 .. w |-> d(k)] \in Seq(Digit)
    BY <2>1
  <2> QED BY <2>2 DEF d
<1>5. Len([k \in 1 .. w |-> 48 + ((n \div 10^(w - k)) % 10)]) = w
  OBVIOUS
<1> QED BY <1>2, <1>4, <1>5

(* parse_num prints the decimal digits of any word.                        *)
THEOREM ParseNumIs ==
  ASSUME NEW n, IsWord(n)
  PROVE  parse_num(n) = Decimal(n)
<1>1. n \in Nat /\ n < 10^10
  BY WordIs
<1> DEFINE Parsed(g) == g = [v \in 0 .. n |-> (IF v >= 10 THEN g[v \div 10] ELSE <<>>)
                                               \o <<48 + (v % 10)>>]
           g1 == [v \in 0 .. n |-> Decimal(v)]
           digits == CHOOSE g : Parsed(g)
<1>2. ASSUME NEW v \in 0 .. n
      PROVE  /\ v >= 10 => v \div 10 \in 0 .. n /\ v \div 10 < v
                           /\ Decimal(v) = Decimal(v \div 10) \o <<48 + (v % 10)>>
             /\ v < 10 => Decimal(v) = <<>> \o <<48 + (v % 10)>>
  <2>1. v \in Nat /\ v < 10^10
    <3>1. PICK p : p = 10^10
      OBVIOUS
    <3>2. p \in Nat /\ n < p
      BY <1>1, <3>1, Tens
    <3> QED BY <1>1, <3>1, <3>2
  <2>2. ASSUME v >= 10 PROVE v \div 10 \in 0 .. n /\ v \div 10 < v
    BY <1>1, <2>2
  <2>3. ASSUME v >= 10 PROVE Decimal(v) = Decimal(v \div 10) \o <<48 + (v % 10)>>
    BY <2>1, <2>3, MoreDigits
  <2>4. ASSUME v < 10 PROVE Decimal(v) = <<>> \o <<48 + (v % 10)>>
    <3>1. Decimal(v) = <<48 + (v % 10)>>
      BY <2>1, <2>4, OneDigit
    <3>2. <<48 + (v % 10)>> \in Seq(Int)
      BY <2>1
    <3> QED BY <3>1, <3>2, ConcatEmptySeq
  <2> QED BY <2>2, <2>3, <2>4
<1>3. Parsed(g1)
  <2>1. ASSUME NEW v \in 0 .. n
        PROVE  g1[v] = (IF v >= 10 THEN g1[v \div 10] ELSE <<>>) \o <<48 + (v % 10)>>
    <3>1. CASE v >= 10
      <4>1. g1[v] = Decimal(v) /\ g1[v \div 10] = Decimal(v \div 10)
        BY <1>2, <3>1
      <4> HIDE DEF g1
      <4> QED BY <1>2, <3>1, <4>1
    <3>2. CASE ~(v >= 10)
      <4>1. g1[v] = Decimal(v) /\ v < 10
        BY <1>1, <3>2
      <4> HIDE DEF g1
      <4> QED BY <1>2, <3>2, <4>1
    <3> QED BY <3>1, <3>2
  <2>2. g1 = [v \in 0 .. n |-> g1[v]]
    OBVIOUS
  <2> HIDE DEF g1
  <2> QED BY <2>1, <2>2
<1>4. Parsed(digits)
  <2> HIDE DEF g1, Parsed
  <2> QED BY <1>3
<1>5. parse_num(n) = digits[n]
  BY DEF parse_num
<1>6. \A v \in 0 .. n : digits[v] = (IF v >= 10 THEN digits[v \div 10] ELSE <<>>)
                                    \o <<48 + (v % 10)>>
  <2> HIDE DEF digits
  <2> QED BY <1>4
<1> HIDE DEF digits, g1, Parsed
<1> DEFINE bad == {v \in 0 .. n : digits[v] # Decimal(v)}
<1>7. bad = {}
  <2> SUFFICES ASSUME bad # {} PROVE FALSE
    OBVIOUS
  <2>1. PICK v \in bad : \A u \in bad : v <= u
    <3>1. bad \in SUBSET Nat
      BY <1>1
    <3> HIDE DEF bad
    <3> QED BY <3>1, LeastElement
  <2>2. v \in 0 .. n /\ digits[v] # Decimal(v)
    OBVIOUS
  <2>3. CASE v >= 10
    <3>1. v \div 10 \in 0 .. n /\ v \div 10 < v
      BY <1>2, <2>2, <2>3
    <3>2. v \div 10 \notin bad
      <4> HIDE DEF bad
      <4> QED BY <1>1, <2>1, <2>2, <3>1
    <3>3. digits[v \div 10] = Decimal(v \div 10)
      BY <3>1, <3>2
    <3> QED BY <1>2, <1>6, <2>2, <2>3, <3>3
  <2>4. CASE ~(v >= 10)
    <3>1. v < 10
      BY <1>1, <2>2, <2>4
    <3> QED BY <1>2, <1>6, <2>2, <2>4, <3>1
  <2> QED BY <2>3, <2>4
<1>8. n \in 0 .. n
  BY <1>1
<1> QED BY <1>5, <1>7, <1>8

(* parse_hex prints eight digits.                                          *)
LEMMA ParseHexIs ==
  ASSUME NEW n, IsWord(n)
  PROVE  parse_hex(n) \in Chars /\ Len(parse_hex(n)) = 8
<1> DEFINE d(k) == HexDigit((n \div 16^(8 - k)) % 16)
<1>1. ASSUME NEW k \in 1 .. 8 PROVE d(k) \in Byte
  <2>1. PICK e, p : e = 8 - k /\ p = 16^e
    OBVIOUS
  <2>2. p \in Nat /\ p >= 1
    <3>1. e = 0 \/ e = 1 \/ e = 2 \/ e = 3 \/ e = 4 \/ e = 5 \/ e = 6 \/ e = 7
      BY <2>1
    <3>2. /\ 16^0 = 1 /\ 16^1 = 16 /\ 16^2 = 256 /\ 16^3 = 4096 /\ 16^4 = 65536
          /\ 16^5 = 1048576 /\ 16^6 = 16777216 /\ 16^7 = 268435456
      OBVIOUS
    <3>3. p = 1 \/ p = 16 \/ p = 256 \/ p = 4096 \/ p = 65536 \/ p = 1048576 \/ p = 16777216
          \/ p = 268435456
      <4>1. ASSUME e = 0 PROVE p = 1
        <5>1. p = 16^0
          BY <2>1, <4>1, Zenon
        <5> QED BY <3>2, <5>1
      <4>2. ASSUME e = 1 PROVE p = 16
        <5>1. p = 16^1
          BY <2>1, <4>2, Zenon
        <5> QED BY <3>2, <5>1
      <4>3. ASSUME e = 2 PROVE p = 256
        <5>1. p = 16^2
          BY <2>1, <4>3, Zenon
        <5> QED BY <3>2, <5>1
      <4>4. ASSUME e = 3 PROVE p = 4096
        <5>1. p = 16^3
          BY <2>1, <4>4, Zenon
        <5> QED BY <3>2, <5>1
      <4>5. ASSUME e = 4 PROVE p = 65536
        <5>1. p = 16^4
          BY <2>1, <4>5, Zenon
        <5> QED BY <3>2, <5>1
      <4>6. ASSUME e = 5 PROVE p = 1048576
        <5>1. p = 16^5
          BY <2>1, <4>6, Zenon
        <5> QED BY <3>2, <5>1
      <4>7. ASSUME e = 6 PROVE p = 16777216
        <5>1. p = 16^6
          BY <2>1, <4>7, Zenon
        <5> QED BY <3>2, <5>1
      <4>8. ASSUME e = 7 PROVE p = 268435456
        <5>1. p = 16^7
          BY <2>1, <4>8, Zenon
        <5> QED BY <3>2, <5>1
      <4> QED BY <3>1, <4>1, <4>2, <4>3, <4>4, <4>5, <4>6, <4>7, <4>8
    <3> QED BY <3>3
  <2>3. PICK h : h = (n \div p) % 16
    OBVIOUS
  <2>4. h \in 0 .. 15
    <3>1. n \in Nat
      BY WordIs
    <3>2. n \div p \in Int
      BY <2>2, <3>1
    <3> QED BY <2>3, <3>2
  <2>5. HexDigit(h) \in Byte
    BY <2>4 DEF HexDigit, Byte
  <2> QED BY <2>1, <2>3, <2>5
<1>2. parse_hex(n) = [k \in 1 .. 8 |-> d(k)]
  BY DEF parse_hex
<1> HIDE DEF d
<1>3. [k \in 1 .. 8 |-> d(k)] \in Chars /\ Len([k \in 1 .. 8 |-> d(k)]) = 8
  BY <1>1 DEF Chars
<1> QED BY <1>2, <1>3

(***************************************************************************)
(* Sequences of texts, one after the other.                                *)
(***************************************************************************)
(* f[k] is the first k texts of s.                                         *)
IsFlat(f, s) ==
  /\ f \in [0 .. Len(s) -> Chars] /\ f[0] = <<>>
  /\ \A k \in 1 .. Len(s) : f[k] = f[k - 1] \o s[k]

Flat(s) == CHOOSE f : IsFlat(f, s)

LEMMA FlatExists == ASSUME NEW s \in Seq(Chars) PROVE IsFlat(Flat(s), s)
<1>1. PICK n : n = Len(s)
  OBVIOUS
<1>2. PICK h : h = [kv \in Nat \X Chars |->
                      IF kv[1] \in 1 .. n THEN kv[2] \o s[kv[1]] ELSE kv[2]]
  OBVIOUS
<1>3. n \in Nat /\ \A k \in 1 .. n : s[k] \in Chars
  BY <1>1
<1>4. ASSUME NEW k \in Nat, NEW v \in Chars
      PROVE  /\ h[<<k, v>>] = IF k \in 1 .. n THEN v \o s[k] ELSE v
             /\ h[<<k, v>>] \in Chars
  <2>1. <<k, v>> \in Nat \X Chars /\ <<k, v>>[1] = k /\ <<k, v>>[2] = v
    OBVIOUS
  <2>2. h[<<k, v>>] = IF k \in 1 .. n THEN v \o s[k] ELSE v
    BY <1>2, <2>1
  <2>3. k \in 1 .. n => v \o s[k] \in Chars
    BY <1>3, ConcatProperties DEF Chars
  <2> QED BY <2>2, <2>3
<1>5. PICK start : start = <<>>
  OBVIOUS
<1>6. start \in Chars
  BY <1>5 DEF Chars
<1>7. Steps(h, Chars)
  BY <1>4 DEF Steps
<1>8. PICK f \in [0 .. n -> Chars] : f[0] = start /\ \A k \in 1 .. n : f[k] = h[<<k, f[k - 1]>>]
  <2>1. n \in Nat
    BY <1>3
  <2>2. PICK f : IsHistory(f, Chars, start, h, n)
    BY <1>6, <1>7, <2>1, Iterated
  <2> QED BY <2>2 DEF IsHistory
<1>9. ASSUME NEW k \in 1 .. n PROVE f[k] = f[k - 1] \o s[k]
  <2>1. k \in Nat /\ k - 1 \in 0 .. n
    BY <1>3
  <2>2. f[k - 1] \in Chars
    BY <1>8, <2>1
  <2>3. h[<<k, f[k - 1]>>] = f[k - 1] \o s[k]
    BY <1>4, <2>1, <2>2
  <2> QED BY <1>8, <2>3
<1>10. IsFlat(f, s)
  BY <1>1, <1>5, <1>8, <1>9 DEF IsFlat
<1> QED BY <1>10 DEF Flat

LEMMA FlattenIs ==
  ASSUME NEW s \in Seq(Chars)
  PROVE  FlattenSeq(s) = Flat(s)[Len(s)]
<1>1. PICK f, n : f = Flat(s) /\ n = Len(s)
  OBVIOUS
<1>2. /\ f \in [0 .. n -> Chars] /\ f[0] = <<>> /\ n \in Nat
      /\ \A k \in 1 .. n : f[k] = f[k - 1] \o s[k] /\ s[k] \in Chars
  <2>1. IsFlat(f, s)
    BY <1>1, FlatExists
  <2> QED BY <1>1, <2>1 DEF IsFlat
<1>3. CASE n = 0
  <2>1. s = <<>> /\ f[0] = s
    BY <1>1, <1>2, <1>3, EmptySeq
  <2>2. FlattenSeq(s) = s
    BY <1>1, <1>3 DEF FlattenSeq
  <2> QED BY <1>1, <1>3, <2>1, <2>2
<1>4. CASE n # 0
  <2> DEFINE R(g) == g = [k \in 1 .. n |-> IF k = 1 THEN s[k] ELSE g[k - 1] \o s[k]]
             g1 == [k \in 1 .. n |-> f[k]]
             flatten == CHOOSE g : R(g)
  <2>1. f[1] = s[1]
    <3>1. f[1] = <<>> \o s[1] /\ s[1] \in Seq(Byte)
      <4>1. 1 \in 1 .. n /\ 1 - 1 = 0
        BY <1>2, <1>4
      <4> QED BY <1>2, <4>1 DEF Chars
    <3> QED BY <3>1, ConcatEmptySeq
  <2>2. R(g1)
    <3>1. ASSUME NEW k \in 1 .. n PROVE g1[k] = IF k = 1 THEN s[k] ELSE g1[k - 1] \o s[k]
      <4>1. k # 1 => k - 1 \in 1 .. n
        BY <1>2
      <4> QED BY <1>2, <2>1, <4>1
    <3>2. g1 = [k \in 1 .. n |-> g1[k]]
      OBVIOUS
    <3> HIDE DEF g1
    <3> QED BY <3>1, <3>2
  <2>3. R(flatten)
    <3> HIDE DEF g1, R
    <3> QED BY <2>2
  <2>4. FlattenSeq(s) = flatten[n]
    BY <1>1, <1>4 DEF FlattenSeq
  <2>5. \A k \in 1 .. n : flatten[k] = IF k = 1 THEN s[k] ELSE flatten[k - 1] \o s[k]
    <3> HIDE DEF flatten
    <3> QED BY <2>3
  <2> HIDE DEF flatten, R, g1
  <2> DEFINE T == {k \in Nat : k \in 1 .. n => flatten[k] = f[k]}
  <2>6. 0 \in T
    OBVIOUS
  <2>7. ASSUME NEW k \in Nat, k \in T PROVE k + 1 \in T
    <3> SUFFICES ASSUME k + 1 \in 1 .. n PROVE flatten[k + 1] = f[k + 1]
      OBVIOUS
    <3>1. CASE k = 0
      BY <2>1, <2>5, <3>1
    <3>2. CASE k # 0
      <4>1. k \in 1 .. n /\ (k + 1) - 1 = k /\ k + 1 # 1
        BY <1>2, <3>2
      <4>2. flatten[k] = f[k]
        BY <2>7, <4>1
      <4>3. flatten[k + 1] = flatten[k] \o s[k + 1]
        BY <2>5, <4>1
      <4>4. f[k + 1] = f[k] \o s[k + 1]
        BY <1>2, <4>1
      <4> QED BY <4>2, <4>3, <4>4
    <3> QED BY <3>1, <3>2
  <2>8. n \in T
    <3> HIDE DEF T
    <3> QED BY <1>2, <2>6, <2>7, EveryNumber
  <2> QED BY <1>1, <1>2, <1>4, <2>4, <2>8
<1> QED BY <1>3, <1>4

(* Fewer texts make no longer a text.                                      *)
LEMMA FlatGrows ==
  ASSUME NEW s \in Seq(Chars), NEW k \in 0 .. Len(s)
  PROVE  Len(Flat(s)[k]) <= Len(FlattenSeq(s))
<1>1. PICK f, n : f = Flat(s) /\ n = Len(s)
  OBVIOUS
<1>2. /\ f \in [0 .. n -> Chars] /\ n \in Nat
      /\ \A m \in 1 .. n : f[m] = f[m - 1] \o s[m] /\ s[m] \in Chars
  <2>1. IsFlat(f, s)
    BY <1>1, FlatExists
  <2> QED BY <1>1, <2>1 DEF IsFlat
<1> DEFINE T == {d \in Nat : k + d <= n => Len(f[k]) <= Len(f[k + d])}
<1>3. 0 \in T
  BY <1>1, <1>2 DEF Chars
<1>4. ASSUME NEW d \in Nat, d \in T PROVE d + 1 \in T
  <2> SUFFICES ASSUME k + (d + 1) <= n PROVE Len(f[k]) <= Len(f[k + (d + 1)])
    OBVIOUS
  <2>1. PICK m : m = k + d
    OBVIOUS
  <2>2. m + 1 \in 1 .. n /\ m \in 0 .. n /\ k + (d + 1) = m + 1 /\ (m + 1) - 1 = m
    BY <1>1, <1>2, <2>1
  <2>3. f[m + 1] = f[m] \o s[m + 1] /\ f[m] \in Seq(Byte) /\ s[m + 1] \in Seq(Byte)
        /\ f[k] \in Seq(Byte)
    BY <1>1, <1>2, <2>2 DEF Chars
  <2>4. Len(f[m + 1]) = Len(f[m]) + Len(s[m + 1])
    BY <2>3, ConcatProperties
  <2>5. Len(f[k]) <= Len(f[m])
    BY <1>4, <2>1, <2>2
  <2>6. Len(f[k]) \in Nat /\ Len(f[m]) \in Nat /\ Len(s[m + 1]) \in Nat
    BY <2>3, LenProperties
  <2>7. Len(f[k]) <= Len(f[m + 1])
    <3>1. PICK a, b, c : a = Len(f[k]) /\ b = Len(f[m]) /\ c = Len(s[m + 1])
      OBVIOUS
    <3>2. a \in Nat /\ b \in Nat /\ c \in Nat /\ a <= b
      BY <2>5, <2>6, <3>1
    <3>3. a <= b + c
      BY <3>2
    <3> QED BY <2>4, <3>1, <3>3
  <2> QED BY <2>2, <2>7
<1>5. n - k \in T
  <2>1. n - k \in Nat
    BY <1>1, <1>2
  <2> HIDE DEF T
  <2> QED BY <1>3, <1>4, <2>1, EveryNumber
<1>6. Len(f[k]) <= Len(f[n])
  BY <1>1, <1>2, <1>5
<1> QED BY <1>1, <1>6, FlattenIs

(***************************************************************************)
(* Where something begins in a format.                                     *)
(***************************************************************************)
Special == {Ascii.percent, Ascii.backslash}

LEMMA BeginsIs ==
  ASSUME NEW fmt, NEW n, n = Len(fmt), n \in Nat
  PROVE  /\ Begins(fmt) \subseteq 1 .. n
         /\ n > 0 => 1 \in Begins(fmt)
         /\ \A p \in 2 .. n : p \in Begins(fmt) <=> p - 1 \notin Begins(fmt) \/ fmt[p - 1] \notin Special
<1> DEFINE Rule(p, before) ==
             \/ p = 1
             \/ before /\ fmt[p - 1] \notin Special
             \/ p > 1 /\ ~before
           R(g) == g = [p \in 1 .. Len(fmt) |-> Rule(p, g[p - 1])]
           begins == CHOOSE g : R(g)
<1>1. Begins(fmt) = {p \in 1 .. n : begins[p]}
  <2>1. Begins(fmt) = {p \in 1 .. Len(fmt) : begins[p]}
    BY DEF Begins, Special
  <2> HIDE DEF begins
  <2> QED BY <2>1
<1>2. \E g : R(g)
  <2>1. PICK h : h = [kv \in Nat \X BOOLEAN |-> Rule(kv[1], kv[2])]
    OBVIOUS
  <2>2. \A p, before : Rule(p, before) \in BOOLEAN
    BY Zenon
  <2>3. ASSUME NEW k \in Nat, NEW v \in BOOLEAN
        PROVE  h[<<k, v>>] = Rule(k, v) /\ h[<<k, v>>] \in BOOLEAN
    <3>1. <<k, v>> \in Nat \X BOOLEAN /\ <<k, v>>[1] = k /\ <<k, v>>[2] = v
      OBVIOUS
    <3> HIDE DEF Rule
    <3>2. h[<<k, v>>] = Rule(<<k, v>>[1], <<k, v>>[2])
      BY <2>1, <3>1
    <3> QED BY <2>2, <3>1, <3>2, Zenon
  <2> HIDE DEF Rule
  <2>4. Steps(h, BOOLEAN)
    BY <2>3 DEF Steps
  <2>5. PICK f : IsHistory(f, BOOLEAN, TRUE, h, n)
    <3>1. TRUE \in BOOLEAN
      OBVIOUS
    <3> QED BY <2>4, <3>1, Iterated, Zenon
  <2>6. PICK g : g = [p \in 1 .. n |-> f[p]]
    OBVIOUS
  <2>7. ASSUME NEW p \in 1 .. n PROVE g[p] = Rule(p, g[p - 1])
    <3>1. p \in Nat /\ p - 1 \in 0 .. n /\ (p = 1 \/ p - 1 \in 1 .. n) /\ p \in 0 .. n
      OBVIOUS
    <3>2. f[p - 1] \in BOOLEAN /\ f[p] = h[<<p, f[p - 1]>>]
      BY <2>5, <3>1 DEF IsHistory
    <3>3. f[p] = Rule(p, f[p - 1])
      BY <2>3, <3>1, <3>2, Zenon
    <3>4. g[p] = f[p]
      BY <2>6
    <3>5. CASE p = 1
      <4>1. \A before : Rule(1, before) = TRUE
        BY Zenon DEF Rule
      <4> QED BY <3>3, <3>4, <3>5, <4>1, Zenon
    <3>6. CASE p - 1 \in 1 .. n
      <4>1. g[p - 1] = f[p - 1]
        BY <2>6, <3>6
      <4> QED BY <3>3, <3>4, <4>1, Zenon
    <3> QED BY <3>1, <3>5, <3>6
  <2>8. g = [p \in 1 .. n |-> g[p]]
    BY <2>6, Zenon
  <2>9. R(g)
    <3>1. g = [p \in 1 .. n |-> Rule(p, g[p - 1])]
      BY <2>7, <2>8, Zenon
    <3> HIDE DEF Rule
    <3> QED BY <3>1
  <2> QED BY <2>9
<1>3. \A p \in 1 .. n : begins[p] = Rule(p, begins[p - 1])
  <2>1. R(begins)
    <3> HIDE DEF R
    <3> QED BY <1>2, Zenon
  <2> HIDE DEF begins, Rule
  <2> QED BY <2>1, Zenon
<1> HIDE DEF begins
<1>4. n > 0 => 1 \in Begins(fmt)
  <2> SUFFICES ASSUME n > 0 PROVE 1 \in Begins(fmt)
    OBVIOUS
  <2>1. 1 \in 1 .. n
    OBVIOUS
  <2>2. begins[1]
    BY <1>3, <2>1, Zenon
  <2> QED BY <1>1, <2>1, <2>2, Zenon
<1>5. ASSUME NEW p \in 2 .. n
      PROVE  p \in Begins(fmt) <=> p - 1 \notin Begins(fmt) \/ fmt[p - 1] \notin Special
  <2>1. p \in 1 .. n /\ p - 1 \in 1 .. n /\ p # 1 /\ p > 1
    OBVIOUS
  <2>2. begins[p] = Rule(p, begins[p - 1]) /\ begins[p - 1] = Rule(p - 1, begins[(p - 1) - 1])
    BY <1>3, <2>1, Zenon
  <2>3. p - 1 \in Begins(fmt) <=> begins[p - 1]
    BY <1>1, <2>1, Zenon
  <2>4. p \in Begins(fmt) <=> begins[p]
    BY <1>1, <2>1, Zenon
  <2>5. begins[p - 1] \in BOOLEAN
    <3>1. \A q, before : Rule(q, before) \in BOOLEAN
      BY Zenon
    <3> HIDE DEF Rule
    <3> QED BY <2>2, <3>1, Zenon
  <2>6. begins[p] <=> (begins[p - 1] /\ fmt[p - 1] \notin Special) \/ ~begins[p - 1]
    BY <2>1, <2>2, Zenon
  <2> QED BY <2>3, <2>4, <2>6, Zenon
<1>6. Begins(fmt) \subseteq 1 .. n
  BY <1>1, Zenon
<1> QED BY <1>4, <1>5, <1>6

(***************************************************************************)
(* What the pieces of a format mean.                                       *)
(***************************************************************************)
LEMMA Codes ==
  /\ Ascii.percent = 37 /\ Ascii.backslash = 92 /\ Ascii.s = 115 /\ Ascii.c = 99
  /\ Ascii.x = 120 /\ Ascii.d = 100 /\ Ascii.a = 97 /\ Ascii.b = 98 /\ Ascii.n = 110
  /\ Ascii.r = 114 /\ Ascii.t = 116 /\ Ascii.File = 70 /\ Ascii.Line = 76
  /\ Ascii.PageFault = 80 /\ Ascii.PANIC = 33 /\ Ascii.ASSERTION = 65
BY DEF Ascii

LEMMA MeansIs ==
  ASSUME NEW c, NEW p
  PROVE  /\ Converts(c.fmt, p) /\ c.fmt[p + 1] = Ascii.s
              => Means(c, p) = Memory(Argument(c, p)).text
         /\ Converts(c.fmt, p) /\ c.fmt[p + 1] = Ascii.c
              => Means(c, p) = <<Argument(c, p) % 256>>
         /\ Converts(c.fmt, p) /\ c.fmt[p + 1] = Ascii.x
              => Means(c, p) = parse_hex(Argument(c, p))
         /\ Converts(c.fmt, p) /\ c.fmt[p + 1] = Ascii.d
              => Means(c, p) = Decimal(Argument(c, p))
         /\ c.fmt[p] = Ascii.percent /\ ~Converts(c.fmt, p) => Means(c, p) = <<c.fmt[p + 1]>>
         /\ c.fmt[p] = Ascii.backslash => Means(c, p) = Escape(c.fmt[p + 1])
         /\ c.fmt[p] \notin Special => Means(c, p) = <<c.fmt[p]>>
<1>1. ~Converts(c.fmt, p) \/ c.fmt[p] = Ascii.percent
  BY DEF Converts
<1>2. Ascii.percent # Ascii.backslash
  BY Codes
<1>3. /\ Ascii.s # Ascii.c /\ Ascii.s # Ascii.x /\ Ascii.s # Ascii.d
      /\ Ascii.c # Ascii.x /\ Ascii.c # Ascii.d /\ Ascii.x # Ascii.d
  BY Codes
<1>4. CASE Converts(c.fmt, p)
  BY <1>1, <1>2, <1>3, <1>4 DEF Means, Special
<1>5. CASE ~Converts(c.fmt, p)
  BY <1>1, <1>2, <1>5 DEF Means, Special
<1> QED BY <1>4, <1>5

(* The word a conversion takes, and how many were taken up to k.           *)
Conversions(c, k) == {q \in Begins(c.fmt) : q <= k /\ Converts(c.fmt, q)}
Taken(c, k) == Cardinality(Conversions(c, k))

LEMMA ArgumentIs == ASSUME NEW c, NEW p PROVE Argument(c, p) = c.args[Taken(c, p)]
BY DEF Argument, Taken, Conversions

LEMMA FormatIs ==
  ASSUME NEW c, WellFormed(c)
  PROVE  /\ c.op = "kprintf" /\ Len(c.fmt) \in Nat /\ c.args \in Seq(Nat)
         /\ \A p \in 1 .. Len(c.fmt) : c.fmt[p] \in 1 .. 255
         /\ \A p \in Begins(c.fmt) : /\ p \in 1 .. Len(c.fmt)
                                     /\ c.fmt[p] \in Special => p + 1 \in 1 .. Len(c.fmt)
         /\ Len(c.fmt) > 0 => 1 \in Begins(c.fmt)
         /\ \A p \in 2 .. Len(c.fmt) :
              p \in Begins(c.fmt) <=> p - 1 \notin Begins(c.fmt) \/ c.fmt[p - 1] \notin Special
<1>1. PICK f, n : f = c.fmt /\ n = Len(f)
  OBVIOUS
<1>2. f \in Seq(1 .. 255) /\ n \in Nat /\ c.args \in Seq(Nat) /\ c.op = "kprintf"
  BY <1>1 DEF WellFormed, IsString
<1>3. /\ Begins(f) \subseteq 1 .. n /\ (n > 0 => 1 \in Begins(f))
      /\ \A p \in 2 .. n : p \in Begins(f) <=> p - 1 \notin Begins(f) \/ f[p - 1] \notin Special
  BY <1>1, <1>2, BeginsIs
<1>4. n \in Begins(f) => f[n] \notin Special
  BY <1>1 DEF WellFormed, Special
<1>5. \A p \in Begins(f) : p \in 1 .. n /\ (f[p] \in Special => p + 1 \in 1 .. n)
  <2> SUFFICES ASSUME NEW p \in Begins(f), f[p] \in Special PROVE p + 1 \in 1 .. n
    BY <1>3
  <2>1. p \in 1 .. n /\ p # n
    BY <1>3, <1>4
  <2> QED BY <1>2, <2>1
<1>6. \A p \in 1 .. n : f[p] \in 1 .. 255
  <2>1. f \in [1 .. n -> 1 .. 255]
    BY <1>1, <1>2, LenProperties
  <2> QED BY <2>1
<1> QED BY <1>1, <1>2, <1>3, <1>5, <1>6

LEMMA TakenIs ==
  ASSUME NEW c, WellFormed(c), NEW k \in Nat
  PROVE  /\ Taken(c, k) \in 0 .. Len(c.args)
         /\ Taken(c, 0) = 0
         /\ Taken(c, k + 1) = IF k + 1 \in Begins(c.fmt) /\ Converts(c.fmt, k + 1)
                              THEN Taken(c, k) + 1 ELSE Taken(c, k)
<1>1. PICK n : n = Len(c.fmt)
  OBVIOUS
<1>2. Begins(c.fmt) \subseteq 1 .. n /\ n \in Nat
  BY <1>1, FormatIs
<1>3. IsFiniteSet(1 .. n)
  BY <1>2, FS_Interval
<1>4. IsFiniteSet(Begins(c.fmt))
  BY <1>2, <1>3, FS_Subset
<1> DEFINE All == {q \in Begins(c.fmt) : Converts(c.fmt, q)}
<1>5. IsFiniteSet(All) /\ Cardinality(All) \in Nat /\ Cardinality(All) <= Len(c.args)
  <2>1. All \in SUBSET Begins(c.fmt)
    OBVIOUS
  <2>2. IsFiniteSet(All)
    BY <1>4, <2>1, FS_Subset
  <2>3. Cardinality(All) <= Len(c.args)
    BY DEF WellFormed
  <2> QED BY <2>2, <2>3, FS_CardinalityType
<1>6. ASSUME NEW m \in Nat
      PROVE  IsFiniteSet(Conversions(c, m)) /\ Cardinality(Conversions(c, m)) \in 0 .. Len(c.args)
  <2>1. Conversions(c, m) \in SUBSET All
    BY DEF Conversions
  <2>2. IsFiniteSet(Conversions(c, m)) /\ Cardinality(Conversions(c, m)) <= Cardinality(All)
    BY <1>5, <2>1, FS_Subset
  <2>3. Cardinality(Conversions(c, m)) \in Nat
    BY <2>2, FS_CardinalityType
  <2>4. Len(c.args) \in Nat
    BY FormatIs
  <2> QED BY <1>5, <2>2, <2>3, <2>4
<1>7. Conversions(c, 0) = {}
  BY <1>2 DEF Conversions
<1>8. Taken(c, 0) = 0
  BY <1>7, FS_EmptySet DEF Taken
<1>9. CASE k + 1 \in Begins(c.fmt) /\ Converts(c.fmt, k + 1)
  <2>1. Conversions(c, k + 1) = Conversions(c, k) \cup {k + 1} /\ k + 1 \notin Conversions(c, k)
    BY <1>2, <1>9 DEF Conversions
  <2>2. Cardinality(Conversions(c, k + 1)) = Cardinality(Conversions(c, k)) + 1
    BY <1>6, <2>1, FS_AddElement
  <2> QED BY <1>6, <1>8, <1>9, <2>2 DEF Taken
<1>10. CASE ~(k + 1 \in Begins(c.fmt) /\ Converts(c.fmt, k + 1))
  <2>1. Conversions(c, k + 1) = Conversions(c, k)
    BY <1>2, <1>10 DEF Conversions
  <2> QED BY <1>6, <1>8, <1>10, <2>1 DEF Taken
<1> QED BY <1>9, <1>10

LEMMA StringIsChars ==
  ASSUME NEW s, IsString(s)
  PROVE  s \in Chars /\ \A k \in 1 .. Len(s) : s[k] # NUL
<1>1. s \in [1 .. Len(s) -> 1 .. 255] /\ Len(s) \in Nat
  BY LenProperties DEF IsString
<1>2. s \in [1 .. Len(s) -> Byte]
  BY <1>1 DEF Byte
<1>3. s \in Seq(Byte)
  BY <1>1, <1>2
<1>4. ASSUME NEW k \in 1 .. Len(s) PROVE s[k] # 0
  <2>1. \A v \in 1 .. 255 : v # 0
    OBVIOUS
  <2>2. s[k] \in 1 .. 255
    BY <1>1
  <2> QED BY <2>1, <2>2, Zenon
<1> QED BY <1>3, <1>4 DEF Chars, NUL

LEMMA MemoryIs == ASSUME NEW w PROVE Memory(w).text \in Chars
<1>1. CASE w \in DOMAIN Strings
  <2>1. IsString(Strings[w].text)
    BY <1>1, KprintfAssumption
  <2> QED BY <1>1, <2>1, StringIsChars DEF Memory
<1>2. CASE w \notin DOMAIN Strings
  BY <1>2, EmptySeq DEF Memory, Chars
<1> QED BY <1>1, <1>2

LEMMA EscapeIs == ASSUME NEW ch PROVE Escape(ch) \in Chars
<1>1. Escape(ch) \in {<<7>>, <<8>>, <<9>>, <<10>>, <<13>>, <<Ascii.backslash>>, <<>>}
  BY DEF Escape
<1>2. Ascii.backslash \in Byte /\ {7, 8, 9, 10, 13} \subseteq Byte
  BY Codes DEF Byte
<1>3. \A b \in Byte : <<b>> \in Seq(Byte)
  OBVIOUS
<1>4. <<>> \in Seq(Byte)
  BY EmptySeq
<1> QED BY <1>1, <1>2, <1>3, <1>4 DEF Chars

(* The word of a conversion is one of the arguments.                       *)
LEMMA WordTaken ==
  ASSUME NEW c, WellFormed(c), NEW p \in Begins(c.fmt), Converts(c.fmt, p)
  PROVE  IsWord(Argument(c, p)) /\ Argument(c, p) = c.args[Taken(c, p - 1) + 1]
<1>1. p \in Nat /\ p - 1 \in Nat /\ (p - 1) + 1 = p
  BY FormatIs
<1>2. Taken(c, p) = Taken(c, p - 1) + 1 /\ Taken(c, p) \in 0 .. Len(c.args)
      /\ Taken(c, p - 1) \in 0 .. Len(c.args)
  <2>1. PICK k : k = p - 1
    OBVIOUS
  <2>2. k \in Nat /\ k + 1 = p
    BY <1>1, <2>1
  <2> QED BY <1>1, <2>1, <2>2, TakenIs
<1>3. Taken(c, p) \in DOMAIN c.args
  <2>1. c.args \in Seq(Nat)
    BY FormatIs
  <2> QED BY <1>2, <2>1, LenProperties
<1>4. IsWord(c.args[Taken(c, p)])
  BY <1>3 DEF WellFormed
<1> QED BY <1>2, <1>4, ArgumentIs

LEMMA DecimalText ==
  ASSUME NEW w, IsWord(w)
  PROVE  Decimal(w) \in Chars /\ Len(Decimal(w)) \in 1 .. 10
<1>1. w \in Nat /\ w < 10^10
  BY WordIs
<1>2. Decimal(w) \in Seq(Digit) /\ Len(Decimal(w)) \in 1 .. 10
  BY <1>1, DecimalDigits
<1>3. Decimal(w) \in [1 .. Len(Decimal(w)) -> Digit] /\ Len(Decimal(w)) \in Nat
  BY <1>2, LenProperties
<1>4. Decimal(w) \in [1 .. Len(Decimal(w)) -> Byte]
  BY <1>3 DEF Digit, Byte
<1>5. Decimal(w) \in Seq(Byte)
  <2>1. PICK t : t = Decimal(w)
    OBVIOUS
  <2> QED BY <1>3, <1>4, <2>1
<1> QED BY <1>2, <1>5 DEF Chars

LEMMA MeansText ==
  ASSUME NEW c, WellFormed(c), NEW p \in Begins(c.fmt)
  PROVE  Means(c, p) \in Chars
<1>1. /\ c.fmt[p] \in Byte
      /\ c.fmt[p] \in Special => c.fmt[p + 1] \in Byte
  <2>1. p \in 1 .. Len(c.fmt) /\ (c.fmt[p] \in Special => p + 1 \in 1 .. Len(c.fmt))
    BY FormatIs
  <2>2. c.fmt[p] \in 1 .. 255 /\ (c.fmt[p] \in Special => c.fmt[p + 1] \in 1 .. 255)
    BY <2>1, FormatIs
  <2>3. \A x \in 1 .. 255 : x \in Byte
    BY DEF Byte
  <2> QED BY <2>2, <2>3, Zenon
<1>2. CASE Converts(c.fmt, p)
  <2>1. PICK w : w = Argument(c, p)
    OBVIOUS
  <2>2. IsWord(w)
    BY <1>2, <2>1, WordTaken
  <2>3. Memory(w).text \in Chars
    BY MemoryIs
  <2>4. <<w % 256>> \in Chars
    <3>1. w % 256 \in Byte
      BY <2>2, WordIs DEF Byte
    <3> QED BY <3>1 DEF Chars
  <2>5. parse_hex(w) \in Chars
    BY <2>2, ParseHexIs
  <2>6. Decimal(w) \in Chars
    BY <2>2, DecimalText
  <2>7. c.fmt[p + 1] \in {Ascii.s, Ascii.c, Ascii.x, Ascii.d}
    BY <1>2 DEF Converts
  <2> QED BY <1>2, <2>1, <2>3, <2>4, <2>5, <2>6, <2>7, MeansIs
<1>3. CASE c.fmt[p] = Ascii.percent /\ ~Converts(c.fmt, p)
  <2>1. Means(c, p) = <<c.fmt[p + 1]>> /\ c.fmt[p + 1] \in Byte
    BY <1>1, <1>3, MeansIs DEF Special
  <2> QED BY <2>1 DEF Chars
<1>4. CASE c.fmt[p] = Ascii.backslash
  BY <1>4, MeansIs, EscapeIs
<1>5. CASE c.fmt[p] \notin Special
  <2>1. Means(c, p) = <<c.fmt[p]>>
    BY <1>5, MeansIs
  <2> QED BY <1>1, <2>1 DEF Chars
<1> QED BY <1>2, <1>3, <1>4, <1>5 DEF Special

(* The texts of the positions of a format, and the text up to position k.  *)
Pieces(c) == [p \in 1 .. Len(c.fmt) |-> IF p \in Begins(c.fmt) THEN Means(c, p) ELSE <<>>]
Upto(c, k) == Flat(Pieces(c))[k]

LEMMA PiecesAre ==
  ASSUME NEW c, WellFormed(c)
  PROVE  Pieces(c) \in Seq(Chars) /\ Len(Pieces(c)) = Len(c.fmt)
<1>1. PICK n : n = Len(c.fmt)
  OBVIOUS
<1>2. PICK s : s = [p \in 1 .. n |-> IF p \in Begins(c.fmt) THEN Means(c, p) ELSE <<>>]
  OBVIOUS
<1>3. n \in Nat
  BY <1>1, FormatIs
<1>4. <<>> \in Chars
  BY EmptySeq DEF Chars
<1>5. \A p \in 1 .. n : s[p] \in Chars
  BY <1>2, <1>4, MeansText
<1>6. s \in [1 .. n -> Chars]
  BY <1>2, <1>5
<1>7. s \in Seq(Chars) /\ Len(s) = n
  BY <1>3, <1>6
<1> QED BY <1>1, <1>2, <1>7 DEF Pieces

LEMMA UptoIs ==
  ASSUME NEW c, WellFormed(c)
  PROVE  /\ Upto(c, 0) = <<>>
         /\ Expansion(c) = Upto(c, Len(c.fmt))
         /\ \A k \in 0 .. Len(c.fmt) : Upto(c, k) \in Chars /\ Len(Upto(c, k)) < BufSize
         /\ \A k \in 1 .. Len(c.fmt) :
              Upto(c, k) = IF k \in Begins(c.fmt) THEN Upto(c, k - 1) \o Means(c, k)
                           ELSE Upto(c, k - 1)
<1>1. PICK s, f, n : s = Pieces(c) /\ f = Flat(s) /\ n = Len(s)
  OBVIOUS
<1>2. s \in Seq(Chars) /\ n = Len(c.fmt) /\ n \in Nat
  BY <1>1, PiecesAre, FormatIs
<1>3. IsFlat(f, s)
  BY <1>1, <1>2, FlatExists
<1>4. /\ f \in [0 .. n -> Chars] /\ f[0] = <<>>
      /\ \A k \in 1 .. n : f[k] = f[k - 1] \o s[k]
  BY <1>1, <1>3 DEF IsFlat
<1>5. \A k : Upto(c, k) = f[k]
  BY <1>1 DEF Upto
<1>6. Expansion(c) = FlattenSeq(s)
  BY <1>1 DEF Expansion, Pieces
<1>7. Expansion(c) = f[n]
  BY <1>1, <1>2, <1>6, FlattenIs
<1>8. ASSUME NEW k \in 0 .. n PROVE f[k] \in Chars /\ Len(f[k]) < BufSize
  <2>1. Len(f[k]) <= Len(Expansion(c))
    BY <1>1, <1>2, <1>6, FlatGrows
  <2>2. Len(Expansion(c)) < BufSize
    BY DEF WellFormed
  <2>3. f[k] \in Chars /\ Expansion(c) \in Chars
    BY <1>2, <1>4, <1>7
  <2>4. Len(f[k]) \in Nat /\ Len(Expansion(c)) \in Nat /\ BufSize \in Nat
    BY <2>3, LenProperties, KprintfAssumption DEF Chars
  <2> QED BY <2>1, <2>2, <2>3, <2>4
<1>9. ASSUME NEW k \in 1 .. n
      PROVE  f[k] = IF k \in Begins(c.fmt) THEN f[k - 1] \o Means(c, k) ELSE f[k - 1]
  <2>1. s[k] = IF k \in Begins(c.fmt) THEN Means(c, k) ELSE <<>>
    BY <1>1, <1>2 DEF Pieces
  <2>2. f[k - 1] \in Seq(Byte)
    <3>1. k - 1 \in 0 .. n
      BY <1>2
    <3> QED BY <1>4, <3>1 DEF Chars
  <2>3. f[k - 1] \o <<>> = f[k - 1]
    BY <2>2, ConcatEmptySeq
  <2> QED BY <1>4, <2>1, <2>3
<1> QED BY <1>2, <1>4, <1>5, <1>7, <1>8, <1>9

(***************************************************************************)
(* What puts prints of a buffer.                                           *)
(***************************************************************************)
(* The place of the first NUL of a text, or 0.                             *)
LEMMA FirstNul ==
  ASSUME NEW t \in Chars, NEW n, n = SelectInSeq(t, LAMBDA ch : ch = NUL)
  PROVE  /\ n \in 0 .. Len(t)
         /\ n = 0 => \A k \in 1 .. Len(t) : t[k] # NUL
         /\ n # 0 => t[n] = NUL /\ \A k \in 1 .. n - 1 : t[k] # NUL
<1> DEFINE I == {k \in 1 .. Len(t) : t[k] = NUL}
<1>1. n = IF I # {} THEN Min(I) ELSE 0
  BY DEF SelectInSeq
<1>2. Len(t) \in Nat
  BY LenProperties DEF Chars
<1>3. CASE I = {}
  <2>1. n = 0
    BY <1>1, <1>3, Zenon
  <2>2. \A k \in 1 .. Len(t) : t[k] # NUL
    BY <1>3, Zenon
  <2>3. 0 \in 0 .. Len(t)
    BY <1>2
  <2> QED BY <2>1, <2>2, <2>3, Zenon
<1>4. CASE I # {}
  <2>1. I \in SUBSET Nat
    BY <1>2
  <2>2. PICK m \in I : \A k \in I : m <= k
    <3> HIDE DEF I
    <3> QED BY <1>4, <2>1, LeastElement
  <2>3. Min(I) \in I /\ \A k \in I : Min(I) <= k
    <3> HIDE DEF I
    <3> QED BY <2>2 DEF Min
  <2>4. n \in I /\ \A k \in I : n <= k
    <3> HIDE DEF I
    <3> QED BY <1>1, <1>4, <2>3
  <2>5. \A k \in 1 .. n - 1 : k \notin I /\ k \in 1 .. Len(t)
    <3>1. n \in 1 .. Len(t)
      BY <2>4
    <3>2. \A k \in 1 .. n - 1 : k \in 1 .. Len(t) /\ ~(n <= k)
      BY <1>2, <3>1
    <3> HIDE DEF I
    <3> QED BY <2>4, <3>2
  <2>6. n \in 1 .. Len(t) /\ t[n] = NUL
    BY <2>4, Zenon
  <2>7. n \in 0 .. Len(t) /\ n # 0
    BY <1>2, <2>6
  <2>8. \A k \in 1 .. n - 1 : t[k] # NUL
    BY <2>5, Zenon
  <2> QED BY <2>6, <2>7, <2>8, Zenon
<1> QED BY <1>3, <1>4

(* What puts prints of a text: it stops at the first NUL.                  *)
Cut(t) ==
  LET end == SelectInSeq(t, LAMBDA ch : ch = NUL)
  IN  IF end = 0 THEN t ELSE SubSeq(t, 1, end - 1)

LEMMA StringInBuffer ==
  ASSUME NEW t \in Chars, NEW b \in [0 .. BufSize - 1 -> Byte], Len(t) < BufSize,
         \A k \in 1 .. Len(t) : b[k - 1] = t[k], b[Len(t)] = NUL
  PROVE  CString(b) = Cut(t) /\ CString(b) \in Chars
<1>1. PICK n, l : n = SelectInSeq(t, LAMBDA ch : ch = NUL) /\ l = Len(t)
  OBVIOUS
<1>2. /\ n \in 0 .. l /\ l \in Nat /\ l < BufSize /\ BufSize \in Nat
      /\ n = 0 => \A k \in 1 .. l : t[k] # NUL
      /\ n # 0 => t[n] = NUL /\ \A k \in 1 .. n - 1 : t[k] # NUL
  BY <1>1, FirstNul, LenProperties, KprintfAssumption DEF Chars
<1>3. PICK e : e = IF n = 0 THEN l ELSE n - 1
  OBVIOUS
<1>4. e \in 0 .. l /\ e \in DOMAIN b /\ DOMAIN b = 0 .. BufSize - 1
  BY <1>2, <1>3
<1>5. \A k \in 0 .. l - 1 : b[k] = t[k + 1]
  <2> SUFFICES ASSUME NEW k \in 0 .. l - 1 PROVE b[k] = t[k + 1]
    OBVIOUS
  <2>1. k + 1 \in 1 .. l /\ (k + 1) - 1 = k
    BY <1>2
  <2> QED BY <1>1, <2>1
<1>6. b[e] = NUL
  <2>1. CASE n = 0
    BY <1>1, <1>3, <2>1
  <2>2. CASE n # 0
    <3>1. e \in 0 .. l - 1 /\ e + 1 = n
      BY <1>2, <1>3, <2>2
    <3> QED BY <1>2, <1>5, <2>2, <3>1
  <2> QED BY <2>1, <2>2
<1>7. ASSUME NEW k \in 0 .. e - 1 PROVE b[k] # NUL
  <2>1. k \in 0 .. l - 1 /\ k + 1 \in 1 .. l /\ (n # 0 => k + 1 \in 1 .. n - 1)
    BY <1>2, <1>3
  <2>2. t[k + 1] # NUL
    BY <1>2, <2>1
  <2> QED BY <1>5, <2>1, <2>2
<1> DEFINE End(k) == b[k] = NUL /\ \A m \in 0 .. k - 1 : b[m] # NUL
           end == CHOOSE k \in DOMAIN b : End(k)
<1>8. e \in DOMAIN b /\ End(e)
  BY <1>4, <1>6, <1>7
<1>9. end \in DOMAIN b /\ End(end)
  <2> HIDE DEF End
  <2> QED BY <1>8
<1>10. end = e
  <2>1. PICK d : d = end
    OBVIOUS
  <2>2. d \in Int /\ e \in Int /\ 0 <= d /\ 0 <= e /\ End(d) /\ End(e)
    BY <1>2, <1>4, <1>8, <1>9, <2>1
  <2> HIDE DEF end
  <2>3. ~(d < e) /\ ~(e < d)
    BY <2>2
  <2> QED BY <2>1, <2>2, <2>3
<1>11. CString(b) = [k \in 1 .. end |-> b[k - 1]]
  BY DEF CString
<1> HIDE DEF end
<1>12. CString(b) = [k \in 1 .. e |-> b[k - 1]]
  BY <1>10, <1>11
<1>13. ASSUME NEW k \in 1 .. e PROVE b[k - 1] = t[k]
  <2>1. k - 1 \in 0 .. l - 1 /\ (k - 1) + 1 = k
    BY <1>2, <1>4
  <2> QED BY <1>5, <2>1
<1>14. CString(b) = [k \in 1 .. e |-> t[k]]
  BY <1>12, <1>13
<1>15. t \in [1 .. l -> Byte]
  BY <1>1, LenProperties DEF Chars
<1>16. CString(b) \in Chars /\ Len(CString(b)) = e
  <2>1. e \in Nat /\ \A k \in 1 .. e : t[k] \in Byte
    BY <1>2, <1>4, <1>15
  <2> QED BY <1>14, <2>1 DEF Chars
<1>17. CASE n = 0
  <2>1. t = [k \in 1 .. e |-> t[k]]
    BY <1>3, <1>15, <1>17
  <2>2. Cut(t) = t
    BY <1>1, <1>17 DEF Cut
  <2> QED BY <1>14, <1>16, <2>1, <2>2
<1>18. CASE n # 0
  <2>1. Cut(t) = SubSeq(t, 1, e)
    BY <1>1, <1>3, <1>18 DEF Cut
  <2>2. SubSeq(t, 1, e) = [k \in 1 .. e |-> t[k]]
    BY <1>2, <1>4, <1>1 DEF Chars
  <2> QED BY <1>14, <1>16, <2>1, <2>2
<1> QED BY <1>17, <1>18

LEMMA ExpectedIs ==
  ASSUME NEW c
  PROVE  /\ c.op = "kprintf" => Expected(c) = Cut(Expansion(c))
         /\ c.op = "puts" => Expected(c) = Memory(c.args[1]).text
BY DEF Expected, Cut

(***************************************************************************)
(* The calls of the panic path are well formed.                            *)
(***************************************************************************)
LEMMA FlatLength ==
  ASSUME NEW s \in Seq(Chars), NEW k \in 1 .. Len(s)
  PROVE  /\ Len(Flat(s)[k]) = Len(Flat(s)[k - 1]) + Len(s[k])
         /\ Len(Flat(s)[k - 1]) \in Nat /\ Len(s[k]) \in Nat /\ Len(Flat(s)[0]) = 0
<1>1. PICK f, n : f = Flat(s) /\ n = Len(s)
  OBVIOUS
<1>2. IsFlat(f, s)
  BY <1>1, FlatExists
<1>3. n \in Nat /\ k - 1 \in 0 .. n /\ k \in 1 .. n
  BY <1>1
<1>4. f[k - 1] \in Seq(Byte) /\ s[k] \in Seq(Byte) /\ f[k] = f[k - 1] \o s[k] /\ f[0] = <<>>
  <2>1. f \in [0 .. n -> Chars] /\ f[k] = f[k - 1] \o s[k] /\ f[0] = <<>>
    BY <1>1, <1>2, <1>3 DEF IsFlat
  <2>2. s[k] \in Chars
    BY ElementOfSeq
  <2> QED BY <1>3, <2>1, <2>2 DEF Chars
<1>5. Len(f[k]) = Len(f[k - 1]) + Len(s[k])
  BY <1>4, ConcatProperties
<1>6. Len(f[k - 1]) \in Nat /\ Len(s[k]) \in Nat
  BY <1>4, LenProperties
<1> QED BY <1>1, <1>4, <1>5, <1>6

Chosen(fmt) == {q \in Begins(fmt) : Converts(fmt, q)}

(* A word to %s or %d, with a character in front of it.                    *)
LEMMA LineFits ==
  ASSUME NEW x \in 1 .. 255, x \notin Special, NEW letter \in {Ascii.s, Ascii.d},
         NEW w, IsWord(w), NEW c, c = kprintf(<<x, Ascii.percent, letter>>, <<w>>),
         Len(IF letter = Ascii.s THEN Memory(w).text ELSE Decimal(w)) + 1 < BufSize
  PROVE  WellFormed(c)
<1>1. PICK fmt : fmt = <<x, Ascii.percent, letter>>
  OBVIOUS
<1>2. /\ Len(fmt) = 3 /\ fmt[1] = x /\ fmt[2] = Ascii.percent /\ fmt[3] = letter
      /\ c.op = "kprintf" /\ c.fmt = fmt /\ c.args = <<w>>
  BY <1>1 DEF kprintf
<1>3. fmt \in Seq(1 .. 255)
  <2>1. Ascii.percent \in 1 .. 255 /\ letter \in 1 .. 255
    BY Codes
  <2> QED BY <1>1, <2>1
<1>4. c.args \in Seq(Nat) /\ \A k \in DOMAIN c.args : IsWord(c.args[k])
  <2>1. w \in Nat
    BY WordIs
  <2>2. PICK a : a = <<w>>
    OBVIOUS
  <2>3. a \in Seq(Nat) /\ \A k \in DOMAIN a : a[k] = w
    BY <2>1, <2>2
  <2> QED BY <1>2, <2>2, <2>3, Zenon
<1>5. /\ Begins(fmt) \subseteq 1 .. 3 /\ 1 \in Begins(fmt)
      /\ 2 \in Begins(fmt) /\ 3 \notin Begins(fmt)
  <2>1. /\ Begins(fmt) \subseteq 1 .. 3 /\ 1 \in Begins(fmt)
        /\ \A p \in 2 .. 3 : p \in Begins(fmt) <=> p - 1 \notin Begins(fmt) \/ fmt[p - 1] \notin Special
    <3>1. PICK n : n = Len(fmt)
      OBVIOUS
    <3>2. n = 3
      BY <1>2, <3>1
    <3>3. /\ Begins(fmt) \subseteq 1 .. n /\ (n > 0 => 1 \in Begins(fmt))
          /\ \A p \in 2 .. n : p \in Begins(fmt) <=> p - 1 \notin Begins(fmt)
                                                     \/ fmt[p - 1] \notin Special
      <4>1. n \in Nat
        BY <3>2
      <4> QED BY <3>1, <4>1, BeginsIs, Zenon
    <3>4. 3 > 0
      OBVIOUS
    <3> QED BY <3>2, <3>3, <3>4, Zenon
  <2>2. 2 \in Begins(fmt)
    BY <1>2, <2>1
  <2>3. fmt[2] \in Special
    BY <1>2 DEF Special
  <2> QED BY <2>1, <2>2, <2>3
<1>6. ~Converts(fmt, 1) /\ Converts(fmt, 2)
  BY <1>2 DEF Converts, Special
<1>7. /\ Chosen(fmt) = {2}
      /\ {q \in Begins(c.fmt) : q <= 2 /\ Converts(c.fmt, q)} = {2}
  BY <1>2, <1>5, <1>6 DEF Chosen
<1>8. Cardinality({2}) = 1
  BY FS_Singleton
<1>9. Argument(c, 2) = w
  <2>1. Argument(c, 2) = c.args[1]
    BY <1>7, <1>8, Zenon DEF Argument
  <2> QED BY <1>2, <2>1
<1>10. PICK text : text = IF letter = Ascii.s THEN Memory(w).text ELSE Decimal(w)
  OBVIOUS
<1>11. Means(c, 1) = <<x>> /\ Means(c, 2) = text
  <2>1. Ascii.s # Ascii.d
    BY Codes
  <2> QED BY <1>2, <1>6, <1>9, <1>10, <2>1, MeansIs
<1>12. text \in Chars /\ Len(text) \in Nat
  <2>1. Memory(w).text \in Chars
    BY MemoryIs
  <2>2. Decimal(w) \in Chars
    BY DecimalText
  <2>3. text \in Chars
    BY <1>10, <2>1, <2>2
  <2> QED BY <2>3, LenProperties DEF Chars
<1>13. PICK s : s = [p \in 1 .. 3 |-> IF p \in Begins(fmt) THEN Means(c, p) ELSE <<>>]
  OBVIOUS
<1>14. Expansion(c) = FlattenSeq(s)
  BY <1>2, <1>13 DEF Expansion
<1>15. s[1] = <<x>> /\ s[2] = text /\ s[3] = <<>>
  BY <1>5, <1>11, <1>13
<1>16. s \in Seq(Chars) /\ Len(s) = 3
  <2>1. <<x>> \in Chars /\ <<>> \in Chars
    BY DEF Chars, Byte
  <2>2. \A p \in 1 .. 3 : s[p] \in Chars
    BY <1>12, <1>15, <2>1
  <2> QED BY <1>13, <2>2
<1>17. Len(FlattenSeq(s)) = Len(text) + 1
  <2>1. PICK f : f = Flat(s)
    OBVIOUS
  <2>2. /\ Len(f[1]) = Len(f[0]) + Len(s[1]) /\ Len(f[2]) = Len(f[1]) + Len(s[2])
        /\ Len(f[3]) = Len(f[2]) + Len(s[3]) /\ Len(f[0]) = 0
    <3>1. \A k \in 1 .. 3 : Len(f[k]) = Len(f[k - 1]) + Len(s[k]) /\ Len(f[0]) = 0
      BY <1>16, <2>1, FlatLength
    <3>2. 1 \in 1 .. 3 /\ 2 \in 1 .. 3 /\ 3 \in 1 .. 3 /\ 1 - 1 = 0 /\ 2 - 1 = 1 /\ 3 - 1 = 2
      OBVIOUS
    <3> QED BY <3>1, <3>2, Zenon
  <2>3. Len(s[1]) = 1 /\ Len(s[3]) = 0
    BY <1>15
  <2>4. FlattenSeq(s) = f[3]
    BY <1>16, <2>1, FlattenIs
  <2> QED BY <1>12, <1>15, <2>2, <2>3, <2>4
<1>18. Len(Expansion(c)) < BufSize
  BY <1>10, <1>14, <1>17
<1>19. Cardinality(Chosen(c.fmt)) <= Len(c.args)
  <2>1. Cardinality(Chosen(c.fmt)) = 1
    BY <1>2, <1>7, <1>8, Zenon
  <2>2. Len(c.args) = 1 /\ 1 <= 1
    BY <1>2
  <2> QED BY <2>1, <2>2, Zenon
<1>20. Len(c.fmt) \notin Begins(c.fmt)
  BY <1>2, <1>5
<1> QED BY <1>2, <1>3, <1>4, <1>18, <1>19, <1>20 DEF WellFormed, IsString, Chosen

(* A string with a character behind it.                                    *)
LEMMA NameFits ==
  ASSUME NEW c, c = kprintf(<<Ascii.percent, Ascii.s, Ascii.n>>, <<Message>>)
  PROVE  WellFormed(c)
<1>1. PICK fmt : fmt = <<Ascii.percent, Ascii.s, Ascii.n>>
  OBVIOUS
<1>2. /\ Len(fmt) = 3 /\ fmt[1] = Ascii.percent /\ fmt[2] = Ascii.s /\ fmt[3] = Ascii.n
      /\ c.op = "kprintf" /\ c.fmt = fmt /\ c.args = <<Message>>
  BY <1>1 DEF kprintf
<1>3. fmt \in Seq(1 .. 255)
  BY <1>1, Codes
<1>4. c.args \in Seq(Nat) /\ \A k \in DOMAIN c.args : IsWord(c.args[k])
  <2>1. IsWord(Message) /\ Message \in Nat
    BY KprintfAssumption, WordIs
  <2>2. PICK a : a = <<Message>>
    OBVIOUS
  <2>3. a \in Seq(Nat) /\ \A k \in DOMAIN a : a[k] = Message
    BY <2>1, <2>2
  <2> QED BY <1>2, <2>1, <2>2, <2>3, Zenon
<1>5. /\ Begins(fmt) \subseteq 1 .. 3 /\ 1 \in Begins(fmt)
      /\ 2 \notin Begins(fmt) /\ 3 \in Begins(fmt)
  <2>1. PICK n : n = Len(fmt)
    OBVIOUS
  <2>2. n = 3 /\ n \in Nat /\ 3 > 0
    BY <1>2, <2>1
  <2>3. /\ Begins(fmt) \subseteq 1 .. n /\ (n > 0 => 1 \in Begins(fmt))
        /\ \A p \in 2 .. n : p \in Begins(fmt) <=> p - 1 \notin Begins(fmt)
                                                   \/ fmt[p - 1] \notin Special
    BY <2>1, <2>2, BeginsIs, Zenon
  <2>4. /\ Begins(fmt) \subseteq 1 .. 3 /\ 1 \in Begins(fmt)
        /\ \A p \in 2 .. 3 : p \in Begins(fmt) <=> p - 1 \notin Begins(fmt)
                                                   \/ fmt[p - 1] \notin Special
    BY <2>2, <2>3, Zenon
  <2>5. fmt[1] \in Special
    BY <1>2 DEF Special
  <2> QED BY <2>4, <2>5
<1>6. Converts(fmt, 1) /\ ~Converts(fmt, 3) /\ fmt[3] \notin Special
  BY <1>2, Codes DEF Converts, Special
<1>7. /\ Chosen(fmt) = {1}
      /\ {q \in Begins(c.fmt) : q <= 1 /\ Converts(c.fmt, q)} = {1}
  BY <1>2, <1>5, <1>6 DEF Chosen
<1>8. Cardinality({1}) = 1
  BY FS_Singleton
<1>9. Argument(c, 1) = Message
  <2>1. Argument(c, 1) = c.args[1]
    BY <1>7, <1>8, Zenon DEF Argument
  <2> QED BY <1>2, <2>1
<1>10. Means(c, 1) = Memory(Message).text /\ Means(c, 3) = <<Ascii.n>>
  <2>1. c.fmt[1 + 1] = Ascii.s
    BY <1>2
  <2> QED BY <1>2, <1>6, <1>9, <2>1, MeansIs
<1>11. PICK text : text = Memory(Message).text
  OBVIOUS
<1>12. text \in Chars /\ Len(text) \in Nat /\ Len(text) + 1 < BufSize
  <2>1. text \in Chars
    BY <1>11, MemoryIs
  <2>2. text = Strings[Message].text
    BY <1>11, KprintfAssumption DEF Memory
  <2>3. Len(text) \in Nat
    BY <2>1, LenProperties DEF Chars
  <2> QED BY <2>1, <2>2, <2>3, KprintfAssumption
<1>13. PICK s : s = [p \in 1 .. 3 |-> IF p \in Begins(fmt) THEN Means(c, p) ELSE <<>>]
  OBVIOUS
<1>14. Expansion(c) = FlattenSeq(s)
  BY <1>2, <1>13 DEF Expansion
<1>15. s[1] = text /\ s[2] = <<>> /\ s[3] = <<Ascii.n>>
  BY <1>5, <1>10, <1>11, <1>13
<1>16. s \in Seq(Chars) /\ Len(s) = 3
  <2>1. <<Ascii.n>> \in Chars /\ <<>> \in Chars
    BY Codes DEF Chars, Byte
  <2>2. \A p \in 1 .. 3 : s[p] \in Chars
    BY <1>12, <1>15, <2>1
  <2> QED BY <1>13, <2>2
<1>17. Len(FlattenSeq(s)) = Len(text) + 1
  <2>1. PICK f : f = Flat(s)
    OBVIOUS
  <2>2. /\ Len(f[1]) = Len(f[0]) + Len(s[1]) /\ Len(f[2]) = Len(f[1]) + Len(s[2])
        /\ Len(f[3]) = Len(f[2]) + Len(s[3]) /\ Len(f[0]) = 0
    <3>1. \A k \in 1 .. 3 : Len(f[k]) = Len(f[k - 1]) + Len(s[k]) /\ Len(f[0]) = 0
      BY <1>16, <2>1, FlatLength
    <3>2. 1 \in 1 .. 3 /\ 2 \in 1 .. 3 /\ 3 \in 1 .. 3 /\ 1 - 1 = 0 /\ 2 - 1 = 1 /\ 3 - 1 = 2
      OBVIOUS
    <3> QED BY <3>1, <3>2, Zenon
  <2>3. Len(s[2]) = 0 /\ Len(s[3]) = 1
    BY <1>15
  <2>4. FlattenSeq(s) = f[3]
    BY <1>16, <2>1, FlattenIs
  <2> QED BY <1>12, <1>15, <2>2, <2>3, <2>4
<1>18. Len(Expansion(c)) < BufSize
  BY <1>12, <1>14, <1>17
<1>19. Cardinality(Chosen(c.fmt)) <= Len(c.args)
  <2>1. Cardinality(Chosen(c.fmt)) = 1
    BY <1>2, <1>7, <1>8, Zenon
  <2>2. Len(c.args) = 1 /\ 1 <= 1
    BY <1>2
  <2> QED BY <2>1, <2>2, Zenon
<1>20. c.fmt[Len(c.fmt)] \notin Special
  BY <1>2, <1>6
<1> QED BY <1>2, <1>3, <1>4, <1>18, <1>19, <1>20 DEF WellFormed, IsString, Chosen, Special

(* The report of a page fault: a digit, the address and two characters.    *)
LEMMA ReportFits ==
  ASSUME NEW w, IsWord(w), NEW c,
         c = kprintf(<<Ascii.PageFault, Ascii.percent, Ascii.d, Ascii.percent, Ascii.x, Ascii.n>>,
                     <<1, w>>)
  PROVE  WellFormed(c)
<1>1. PICK fmt :
        fmt = <<Ascii.PageFault, Ascii.percent, Ascii.d, Ascii.percent, Ascii.x, Ascii.n>>
  OBVIOUS
<1>2. /\ Len(fmt) = 6 /\ fmt[1] = Ascii.PageFault /\ fmt[2] = Ascii.percent
      /\ fmt[3] = Ascii.d /\ fmt[4] = Ascii.percent /\ fmt[5] = Ascii.x /\ fmt[6] = Ascii.n
      /\ c.op = "kprintf" /\ c.fmt = fmt /\ c.args = <<1, w>>
  BY <1>1 DEF kprintf
<1>3. fmt \in Seq(1 .. 255)
  BY <1>1, Codes
<1>4. /\ c.args \in Seq(Nat) /\ Len(c.args) = 2 /\ c.args[1] = 1 /\ c.args[2] = w
      /\ \A k \in DOMAIN c.args : IsWord(c.args[k])
  <2>1. w \in Nat /\ IsWord(1)
    BY WordIs, Tens DEF IsWord
  <2>2. PICK a : a = <<1, w>>
    OBVIOUS
  <2>3. a \in Seq(Nat) /\ Len(a) = 2 /\ a[1] = 1 /\ a[2] = w
        /\ \A k \in DOMAIN a : k = 1 \/ k = 2
    BY <2>1, <2>2
  <2> QED BY <1>2, <2>1, <2>2, <2>3, Zenon
<1>5. /\ Begins(fmt) \subseteq 1 .. 6 /\ 1 \in Begins(fmt) /\ 2 \in Begins(fmt)
      /\ 3 \notin Begins(fmt) /\ 4 \in Begins(fmt) /\ 5 \notin Begins(fmt) /\ 6 \in Begins(fmt)
  <2>1. PICK n : n = Len(fmt)
    OBVIOUS
  <2>2. n = 6 /\ n \in Nat /\ 6 > 0
    BY <1>2, <2>1
  <2>3. /\ Begins(fmt) \subseteq 1 .. n /\ (n > 0 => 1 \in Begins(fmt))
        /\ \A p \in 2 .. n : p \in Begins(fmt) <=> p - 1 \notin Begins(fmt)
                                                   \/ fmt[p - 1] \notin Special
    BY <2>1, <2>2, BeginsIs, Zenon
  <2>4. /\ Begins(fmt) \subseteq 1 .. 6 /\ 1 \in Begins(fmt)
        /\ \A p \in 2 .. 6 : p \in Begins(fmt) <=> p - 1 \notin Begins(fmt)
                                                   \/ fmt[p - 1] \notin Special
    BY <2>2, <2>3, Zenon
  <2>5. fmt[1] \notin Special /\ fmt[2] \in Special /\ fmt[4] \in Special
    BY <1>2, Codes DEF Special
  <2> QED BY <2>4, <2>5
<1>6. /\ ~Converts(fmt, 1) /\ Converts(fmt, 2) /\ Converts(fmt, 4) /\ ~Converts(fmt, 6)
      /\ fmt[1] \notin Special /\ fmt[6] \notin Special
  BY <1>2, Codes DEF Converts, Special
<1>7. /\ Chosen(fmt) = {2, 4}
      /\ {q \in Begins(c.fmt) : q <= 2 /\ Converts(c.fmt, q)} = {2}
      /\ {q \in Begins(c.fmt) : q <= 4 /\ Converts(c.fmt, q)} = {2, 4}
  BY <1>2, <1>5, <1>6 DEF Chosen
<1>8. Cardinality({2}) = 1 /\ Cardinality({2, 4}) = 2
  <2>1. Cardinality({2}) = 1 /\ IsFiniteSet({2})
    BY FS_Singleton
  <2>2. Cardinality({2} \cup {4}) = Cardinality({2}) + 1
    BY <2>1, FS_AddElement
  <2>3. {2} \cup {4} = {2, 4}
    OBVIOUS
  <2> QED BY <2>1, <2>2, <2>3
<1>9. Argument(c, 2) = 1 /\ Argument(c, 4) = w
  BY <1>4, <1>7, <1>8, Zenon DEF Argument
<1>10. PICK digits, hex : digits = Decimal(1) /\ hex = parse_hex(w)
  OBVIOUS
<1>11. /\ Means(c, 1) = <<Ascii.PageFault>> /\ Means(c, 2) = digits
       /\ Means(c, 4) = hex /\ Means(c, 6) = <<Ascii.n>>
  <2>1. c.fmt[2 + 1] = Ascii.d /\ c.fmt[4 + 1] = Ascii.x
    BY <1>2
  <2> QED BY <1>2, <1>6, <1>9, <1>10, <2>1, MeansIs
<1>12. digits \in Chars /\ Len(digits) = 1 /\ hex \in Chars /\ Len(hex) = 8
  <2>1. digits = <<48 + (1 % 10)>>
    BY <1>10, OneDigit
  <2>2. PICK b : b = 48 + (1 % 10)
    OBVIOUS
  <2>3. b \in Byte
    BY <2>2 DEF Byte
  <2>4. digits \in Chars /\ Len(digits) = 1
    BY <2>1, <2>2, <2>3 DEF Chars
  <2>5. hex \in Chars /\ Len(hex) = 8
    BY <1>10, ParseHexIs
  <2> QED BY <2>4, <2>5
<1>13. PICK s : s = [p \in 1 .. 6 |-> IF p \in Begins(fmt) THEN Means(c, p) ELSE <<>>]
  OBVIOUS
<1>14. Expansion(c) = FlattenSeq(s)
  BY <1>2, <1>13 DEF Expansion
<1>15. /\ s[1] = <<Ascii.PageFault>> /\ s[2] = digits /\ s[3] = <<>>
       /\ s[4] = hex /\ s[5] = <<>> /\ s[6] = <<Ascii.n>>
  BY <1>5, <1>11, <1>13
<1>16. s \in Seq(Chars) /\ Len(s) = 6
  <2>1. <<Ascii.n>> \in Chars /\ <<Ascii.PageFault>> \in Chars /\ <<>> \in Chars
    BY Codes DEF Chars, Byte
  <2>2. \A p \in 1 .. 6 : s[p] \in Chars
    <3>1. \A p \in 1 .. 6 : p = 1 \/ p = 2 \/ p = 3 \/ p = 4 \/ p = 5 \/ p = 6
      OBVIOUS
    <3> QED BY <1>12, <1>15, <2>1, <3>1, Zenon
  <2> QED BY <1>13, <2>2
<1>17. Len(FlattenSeq(s)) = 11
  <2>1. PICK f : f = Flat(s)
    OBVIOUS
  <2>2. /\ Len(f[1]) = Len(f[0]) + Len(s[1]) /\ Len(f[2]) = Len(f[1]) + Len(s[2])
        /\ Len(f[3]) = Len(f[2]) + Len(s[3]) /\ Len(f[4]) = Len(f[3]) + Len(s[4])
        /\ Len(f[5]) = Len(f[4]) + Len(s[5]) /\ Len(f[6]) = Len(f[5]) + Len(s[6])
        /\ Len(f[0]) = 0
    <3>1. \A k \in 1 .. 6 : Len(f[k]) = Len(f[k - 1]) + Len(s[k]) /\ Len(f[0]) = 0
      BY <1>16, <2>1, FlatLength
    <3>2. /\ 1 \in 1 .. 6 /\ 2 \in 1 .. 6 /\ 3 \in 1 .. 6 /\ 4 \in 1 .. 6 /\ 5 \in 1 .. 6
          /\ 6 \in 1 .. 6 /\ 1 - 1 = 0 /\ 2 - 1 = 1 /\ 3 - 1 = 2 /\ 4 - 1 = 3 /\ 5 - 1 = 4
          /\ 6 - 1 = 5
      OBVIOUS
    <3> QED BY <3>1, <3>2, Zenon
  <2>3. Len(s[1]) = 1 /\ Len(s[2]) = 1 /\ Len(s[3]) = 0 /\ Len(s[4]) = 8 /\ Len(s[5]) = 0
        /\ Len(s[6]) = 1
    BY <1>12, <1>15
  <2>4. FlattenSeq(s) = f[6]
    BY <1>16, <2>1, FlattenIs
  <2> QED BY <2>2, <2>3, <2>4
<1>18. Len(Expansion(c)) < BufSize
  BY <1>14, <1>17, KprintfAssumption
<1>19. Cardinality(Chosen(c.fmt)) <= Len(c.args)
  <2>1. Cardinality(Chosen(c.fmt)) = 2
    BY <1>2, <1>7, <1>8, Zenon
  <2>2. 2 <= 2
    OBVIOUS
  <2> QED BY <1>4, <2>1, <2>2, Zenon
<1>20. c.fmt[Len(c.fmt)] \notin Special
  BY <1>2, <1>6
<1> QED BY <1>2, <1>3, <1>4, <1>18, <1>19, <1>20 DEF WellFormed, IsString, Chosen, Special

(* What the panic path prints.                                             *)
Kinds == {"page fault", "exception", "assertion"}
Ok(c) == WellFormed(c) \/ c = puts(Message)

LEMMA HaltLines ==
  ASSUME NEW x \in {Ascii.PANIC, Ascii.ASSERTION}
  PROVE  \E a, b, c : /\ Halt(x) = <<a, b, c>>
                      /\ WellFormed(a) /\ WellFormed(b) /\ WellFormed(c)
<1>1. PICK a, b, c :
        /\ a = kprintf(<<x, Ascii.percent, Ascii.s>>, <<Message>>)
        /\ b = kprintf(<<Ascii.File, Ascii.percent, Ascii.s>>, <<Message>>)
        /\ c = kprintf(<<Ascii.Line, Ascii.percent, Ascii.d>>, <<230>>)
  OBVIOUS
<1>2. Halt(x) = <<a, b, c>>
  BY <1>1 DEF Halt
<1>3. /\ x \in 1 .. 255 /\ x \notin Special
      /\ Ascii.File \in 1 .. 255 /\ Ascii.File \notin Special
      /\ Ascii.Line \in 1 .. 255 /\ Ascii.Line \notin Special /\ Ascii.s # Ascii.d
  BY Codes DEF Special
<1>4. IsWord(Message) /\ Len(Memory(Message).text) + 1 < BufSize
  BY KprintfAssumption DEF Memory
<1>5. IsWord(230)
  BY Tens DEF IsWord
<1>6. Len(Decimal(230)) + 1 < BufSize
  <2>1. PICK m : m = Len(Decimal(230))
    OBVIOUS
  <2>2. m \in 1 .. 10
    BY <1>5, <2>1, DecimalText
  <2>3. BufSize \in Nat /\ BufSize > 11
    BY KprintfAssumption
  <2>4. m + 1 < BufSize
    BY <2>2, <2>3
  <2> QED BY <2>1, <2>4
<1>7. WellFormed(a) /\ WellFormed(b)
  BY <1>1, <1>3, <1>4, LineFits
<1>8. WellFormed(c)
  <2>1. PICK w : w = 230
    OBVIOUS
  <2>2. IsWord(w) /\ c = kprintf(<<Ascii.Line, Ascii.percent, Ascii.d>>, <<w>>)
    BY <1>1, <1>5, <2>1
  <2>3. Len(IF Ascii.d = Ascii.s THEN Memory(w).text ELSE Decimal(w)) + 1 < BufSize
    BY <1>3, <1>6, <2>1
  <2> QED BY <1>3, <2>2, <2>3, LineFits
<1> QED BY <1>2, <1>7, <1>8

LEMMA PanicCalls ==
  ASSUME NEW kind \in Kinds, NEW w, IsWord(w), NEW P, P = Panic(kind, w)
  PROVE  /\ \E S : P \in Seq(S) /\ \A c \in S : Ok(c)
         /\ Len(P) \in 3 .. 5 /\ WellFormed(P[1])
<1>1. CASE kind = "page fault"
  <2>1. PICK d : d = kprintf(<<Ascii.PageFault, Ascii.percent, Ascii.d, Ascii.percent, Ascii.x,
                               Ascii.n>>, <<1, w>>)
    OBVIOUS
  <2>2. PICK a, b, c : /\ Halt(Ascii.PANIC) = <<a, b, c>>
                       /\ WellFormed(a) /\ WellFormed(b) /\ WellFormed(c)
    BY HaltLines
  <2>3. WellFormed(d)
    BY <2>1, ReportFits
  <2>4. P = <<d>> \o <<a, b, c>>
    BY <1>1, <2>1, <2>2 DEF Panic
  <2>5. PICK S, s, t : S = {a, b, c, d} /\ s = <<d>> /\ t = <<a, b, c>>
    OBVIOUS
  <2>6. s \in Seq(S) /\ t \in Seq(S) /\ Len(s) = 1 /\ Len(t) = 3 /\ s[1] = d
    BY <2>5
  <2>7. P \in Seq({a, b, c, d}) /\ Len(P) = 4 /\ P[1] = d
    BY <2>4, <2>5, <2>6, ConcatProperties
  <2>8. \A e \in {a, b, c, d} : Ok(e)
    BY <2>2, <2>3 DEF Ok
  <2> QED BY <2>3, <2>7, <2>8
<1>2. CASE kind = "exception"
  <2>1. PICK d, p : /\ d = kprintf(<<Ascii.percent, Ascii.s, Ascii.n>>, <<Message>>)
                    /\ p = puts(Message)
    OBVIOUS
  <2>2. PICK a, b, c : /\ Halt(Ascii.PANIC) = <<a, b, c>>
                       /\ WellFormed(a) /\ WellFormed(b) /\ WellFormed(c)
    BY HaltLines
  <2>3. WellFormed(d)
    BY <2>1, NameFits
  <2>4. P = <<d, p>> \o <<a, b, c>>
    BY <1>2, <2>1, <2>2 DEF Panic
  <2>5. PICK S, s, t : S = {a, b, c, d, p} /\ s = <<d, p>> /\ t = <<a, b, c>>
    OBVIOUS
  <2>6. s \in Seq(S) /\ t \in Seq(S) /\ Len(s) = 2 /\ Len(t) = 3 /\ s[1] = d
    BY <2>5
  <2>7. P \in Seq({a, b, c, d, p}) /\ Len(P) = 5 /\ P[1] = d
    BY <2>4, <2>5, <2>6, ConcatProperties
  <2>8. \A e \in {a, b, c, d, p} : Ok(e)
    BY <2>1, <2>2, <2>3 DEF Ok
  <2> QED BY <2>3, <2>7, <2>8
<1>3. CASE kind = "assertion"
  <2>1. PICK a, b, c : /\ Halt(Ascii.ASSERTION) = <<a, b, c>>
                       /\ WellFormed(a) /\ WellFormed(b) /\ WellFormed(c)
    BY HaltLines
  <2>2. P = <<a, b, c>>
    BY <1>3, <2>1 DEF Panic
  <2>3. P \in Seq({a, b, c}) /\ Len(P) = 3 /\ P[1] = a
    BY <2>2
  <2>4. \A e \in {a, b, c} : Ok(e)
    BY <2>1 DEF Ok
  <2> QED BY <2>1, <2>3, <2>4
<1> QED BY <1>1, <1>2, <1>3 DEF Kinds

(* What a call prints is a text.                                           *)
LEMMA ExpectedText == ASSUME NEW c, Ok(c) PROVE Expected(c) \in Chars
<1>1. CASE c = puts(Message)
  <2>1. c.op = "puts"
    BY <1>1 DEF puts
  <2> QED BY <2>1, ExpectedIs, MemoryIs
<1>2. CASE WellFormed(c)
  <2>1. PICK t, n, l : t = Expansion(c) /\ n = SelectInSeq(t, LAMBDA ch : ch = NUL) /\ l = Len(t)
    OBVIOUS
  <2>2. t \in Chars
    <3>1. PICK m : m = Len(c.fmt)
      OBVIOUS
    <3>2. m \in 0 .. m
      BY <1>2, <3>1, FormatIs
    <3> QED BY <1>2, <2>1, <3>1, <3>2, UptoIs
  <2>3. n \in 0 .. l /\ l \in Nat /\ t \in Seq(Byte)
    BY <2>1, <2>2, FirstNul, LenProperties DEF Chars
  <2>4. Expected(c) = Cut(t)
    BY <1>2, <2>1, ExpectedIs, FormatIs
  <2>5. Cut(t) = IF n = 0 THEN t ELSE SubSeq(t, 1, n - 1)
    BY <2>1 DEF Cut
  <2>6. n # 0 => SubSeq(t, 1, n - 1) \in Seq(Byte)
    <3> SUFFICES ASSUME n # 0 PROVE SubSeq(t, 1, n - 1) \in Seq(Byte)
      OBVIOUS
    <3>1. \A k \in 1 .. n - 1 : k \in 1 .. Len(t)
      BY <2>1, <2>3
    <3> QED BY <2>3, <3>1, SubSeqProperties
  <2> QED BY <2>3, <2>4, <2>5, <2>6 DEF Chars
<1> QED BY <1>1, <1>2 DEF Ok

(***************************************************************************)
(* The loop over the format.                                               *)
(***************************************************************************)
(* k positions of c are done, and something begins at the next, if any.    *)
Reached(c, k) ==
  k \in 0 .. Len(c.fmt) /\ (k = Len(c.fmt) \/ k + 1 \in Begins(c.fmt))

(* A turn of the loop takes what begins there, of one or two characters.   *)
LEMMA NextPiece ==
  ASSUME NEW c, WellFormed(c), NEW k, Reached(c, k), k # Len(c.fmt),
         NEW p, p = k + 1, NEW j, j = IF c.fmt[p] \in Special THEN k + 2 ELSE k + 1
  PROVE  /\ p \in Begins(c.fmt) /\ Reached(c, j)
         /\ Upto(c, j) = Upto(c, k) \o Means(c, p)
         /\ Taken(c, j) = IF Converts(c.fmt, p) THEN Taken(c, k) + 1 ELSE Taken(c, k)
<1>1. PICK f, n : f = c.fmt /\ n = Len(f)
  OBVIOUS
<1>2. k \in 0 .. n - 1 /\ n \in Nat /\ p \in Begins(f) /\ p \in 1 .. n /\ p - 1 = k
  <2>1. n \in Nat
    BY <1>1, FormatIs
  <2> QED BY <1>1, <2>1 DEF Reached
<1>3. /\ f[p] \in Special => p + 1 \in 1 .. n
      /\ \A q \in 2 .. n : q \in Begins(f) <=> q - 1 \notin Begins(f) \/ f[q - 1] \notin Special
  BY <1>1, <1>2, FormatIs
<1>4. Upto(c, p) = Upto(c, k) \o Means(c, p) /\ Upto(c, p) \in Chars
  <2>1. p \in 0 .. n
    BY <1>2
  <2> QED BY <1>1, <1>2, <2>1, UptoIs
<1>5. Taken(c, p) = IF Converts(f, p) THEN Taken(c, k) + 1 ELSE Taken(c, k)
  <2>1. k \in Nat /\ p = k + 1
    BY <1>2
  <2>2. Taken(c, k + 1) = IF k + 1 \in Begins(c.fmt) /\ Converts(c.fmt, k + 1)
                          THEN Taken(c, k) + 1 ELSE Taken(c, k)
    BY <2>1, TakenIs
  <2> QED BY <1>1, <1>2, <2>1, <2>2, Zenon
<1>6. CASE f[p] \in Special
  <2>1. j = p + 1 /\ j \in 2 .. n /\ j - 1 = p /\ p \in Nat
    BY <1>1, <1>2, <1>3, <1>6
  <2>2. j \notin Begins(f)
    BY <1>2, <1>3, <1>6, <2>1
  <2>3. j = n \/ j + 1 \in Begins(f)
    <3> SUFFICES ASSUME j # n PROVE j + 1 \in Begins(f)
      OBVIOUS
    <3>1. j + 1 \in 2 .. n /\ (j + 1) - 1 = j
      BY <1>2, <2>1
    <3> QED BY <1>3, <2>2, <3>1
  <2>4. Upto(c, j) = Upto(c, p)
    <3>1. j \in 1 .. n
      BY <2>1
    <3> QED BY <1>1, <2>1, <2>2, <3>1, UptoIs
  <2>5. Taken(c, j) = Taken(c, p)
    <3>1. Taken(c, p + 1) = IF p + 1 \in Begins(c.fmt) /\ Converts(c.fmt, p + 1)
                            THEN Taken(c, p) + 1 ELSE Taken(c, p)
      BY <2>1, TakenIs
    <3> QED BY <1>1, <2>1, <2>2, <3>1, Zenon
  <2>6. Reached(c, j)
    <3>1. j \in 0 .. n
      BY <2>1
    <3> QED BY <1>1, <2>3, <3>1 DEF Reached
  <2> QED BY <1>1, <1>2, <1>4, <1>5, <2>4, <2>5, <2>6, Zenon
<1>7. CASE f[p] \notin Special
  <2>1. j = p
    BY <1>1, <1>7
  <2>2. p = n \/ p + 1 \in Begins(f)
    <3> SUFFICES ASSUME p # n PROVE p + 1 \in Begins(f)
      OBVIOUS
    <3>1. p + 1 \in 2 .. n /\ (p + 1) - 1 = p
      BY <1>2
    <3> QED BY <1>3, <1>7, <3>1
  <2>3. Reached(c, p)
    <3>1. p \in 0 .. n
      BY <1>2
    <3> QED BY <1>1, <2>2, <3>1 DEF Reached
  <2> QED BY <1>1, <1>2, <1>4, <1>5, <2>1, <2>3, Zenon
<1> QED BY <1>6, <1>7

(***************************************************************************)
(* The invariant.                                                          *)
(***************************************************************************)
(* The scan of a call: the buffer holds what the positions so far mean.    *)
Scanning(before) ==
  at = "scan" =>
    /\ WellFormed(call) /\ Reached(call, i)
    /\ arg = Taken(call, i) /\ ptr = Len(Upto(call, i))
    /\ \A k \in 1 .. ptr : buf[k - 1] = Upto(call, i)[k]
    /\ screen = before

(* Its printing: what is on the screen and what is to come, together.      *)
Printing(before) ==
  at = "puts" => Ok(call) /\ out \in Chars /\ screen \o out = before \o Expected(call)

(* Outside a panic.                                                        *)
Serving ==
  /\ Scanning(<<>>) /\ Printing(<<>>) /\ at \in {"idle", "scan", "puts"}
  /\ todo = <<>>
  /\ at = "idle" /\ count.calls > 0 => screen = Expected(call) /\ out = <<>>

(* The calls of a panic, what they print, and the n-th of them.            *)
Report == Panic(count.kind, count.address)
Texts(P) == [k \in 1 .. Len(P) |-> Expected(P[k])]

Reporting(n) ==
  /\ n \in 1 .. Len(Report) /\ call = Report[n]
  /\ todo = SubSeq(Report, n + 1, Len(Report))
  /\ Scanning(Flat(Texts(Report))[n - 1]) /\ Printing(Flat(Texts(Report))[n - 1])

Panicked ==
  /\ count.kind \in Kinds /\ IsWord(count.address)
  /\ at \in {"scan", "puts", "halted"}
  /\ at = "halted" => screen = FlattenSeq(Texts(Report))
  /\ at # "halted" => \E n \in Nat : Reporting(n)

Typed ==
  /\ at \in {"idle", "scan", "puts", "halted"}
  /\ ptr \in -1 .. BufSize - 1
  /\ buf \in [0 .. BufSize - 1 -> Byte]
  /\ screen \in Chars
  /\ count \in [calls : Nat, faults : Nat, kind : Kinds \cup {"none"}, address : Nat]

IInv ==
  /\ Typed
  /\ count.faults = 0 => Serving
  /\ count.faults # 0 => Panicked

(***************************************************************************)
(* What the steps preserve.  before is what was printed earlier: it is a   *)
(* constant, for no step inside a call changes it.                         *)
(***************************************************************************)
(* A turn of the loop that takes the piece at p to the position j.         *)
LEMMA TurnOfLoop ==
  ASSUME NEW before, Typed, Scanning(before), Scan, i # Len(call.fmt),
         NEW p, p = i + 1, NEW j, j = IF call.fmt[p] \in Special THEN i + 2 ELSE i + 1,
         Store(Means(call, p)), i' = j,
         arg' = IF Converts(call.fmt, p) THEN arg + 1 ELSE arg
  PROVE  Typed' /\ Scanning(before)'
<1>1. /\ at = "scan" /\ at' = at /\ call' = call /\ out' = out /\ todo' = todo
      /\ screen' = screen /\ count' = count
  BY DEF Scan
<1>2. /\ WellFormed(call) /\ Reached(call, i) /\ arg = Taken(call, i)
      /\ ptr = Len(Upto(call, i)) /\ screen = before
      /\ \A k \in 1 .. ptr : buf[k - 1] = Upto(call, i)[k]
  BY <1>1 DEF Scanning
<1>3. /\ p \in Begins(call.fmt) /\ Reached(call, j)
      /\ Upto(call, j) = Upto(call, i) \o Means(call, p)
      /\ Taken(call, j) = IF Converts(call.fmt, p) THEN Taken(call, i) + 1 ELSE Taken(call, i)
  BY <1>2, NextPiece
<1>4. PICK old, text, new, size :
        /\ old = Upto(call, i) /\ text = Means(call, p) /\ new = Upto(call, j) /\ size = BufSize
  OBVIOUS
<1>5. /\ old \in Seq(Byte) /\ new \in Seq(Byte) /\ text \in Seq(Byte) /\ new = old \o text
      /\ Len(new) < size /\ size \in Nat
  <2>1. i \in 0 .. Len(call.fmt) /\ j \in 0 .. Len(call.fmt)
    BY <1>2, <1>3 DEF Reached
  <2>2. old \in Chars /\ new \in Chars /\ Len(new) < size
    BY <1>2, <1>4, <2>1, UptoIs
  <2>3. text \in Chars
    BY <1>2, <1>3, <1>4, MeansText
  <2>4. new = old \o text
    BY <1>3, <1>4, Zenon
  <2>5. size \in Nat
    BY <1>4, KprintfAssumption
  <2> QED BY <2>2, <2>3, <2>4, <2>5 DEF Chars
<1>6. PICK l, m : l = Len(old) /\ m = Len(text)
  OBVIOUS
<1>7. /\ l \in Nat /\ m \in Nat /\ Len(new) = l + m /\ ptr = l /\ l + m < size
      /\ \A k \in 1 .. l + m : new[k] = IF k <= l THEN old[k] ELSE text[k - l]
  <2>1. l \in Nat /\ m \in Nat
    BY <1>5, <1>6, LenProperties
  <2>2. /\ Len(old \o text) = l + m
        /\ \A k \in 1 .. l + m : (old \o text)[k] = IF k <= l THEN old[k] ELSE text[k - l]
    BY <1>5, <1>6, ConcatProperties
  <2>3. ptr = l
    BY <1>2, <1>4, <1>6
  <2> QED BY <1>5, <2>1, <2>2, <2>3
<1>8. /\ ptr' = l + m
      /\ buf' = [k \in DOMAIN buf |->
                   IF k \in l .. l + m - 1 THEN text[k - l + 1] ELSE buf[k]]
  BY <1>4, <1>6, <1>7 DEF Store, Stored
<1>9. /\ buf \in [0 .. size - 1 -> Byte] /\ DOMAIN buf = 0 .. size - 1
      /\ \A k \in 1 .. l : buf[k - 1] = old[k]
  BY <1>2, <1>4, <1>7 DEF Typed
<1>10. buf' \in [0 .. size - 1 -> Byte]
  <2>1. ASSUME NEW k \in l .. l + m - 1 PROVE text[k - l + 1] \in Byte
    <3>1. k - l + 1 \in 1 .. m
      BY <1>7
    <3>2. text \in [1 .. m -> Byte]
      BY <1>5, <1>6, LenProperties
    <3> QED BY <3>1, <3>2
  <2> QED BY <1>8, <1>9, <2>1
<1>11. ASSUME NEW k \in 1 .. l + m PROVE buf'[k - 1] = new[k]
  <2>1. k - 1 \in 0 .. size - 1
    BY <1>5, <1>7
  <2>2. CASE k <= l
    <3>1. k \in 1 .. l /\ k - 1 \notin l .. l + m - 1
      BY <1>7, <2>2
    <3>2. buf'[k - 1] = buf[k - 1]
      BY <1>8, <1>9, <2>1, <3>1
    <3> QED BY <1>7, <1>9, <2>2, <3>1, <3>2
  <2>3. CASE ~(k <= l)
    <3>1. k - 1 \in l .. l + m - 1 /\ (k - 1) - l + 1 = k - l
      BY <1>7, <2>3
    <3>2. buf'[k - 1] = text[(k - 1) - l + 1]
      BY <1>8, <1>9, <2>1, <3>1
    <3>3. new[k] = text[k - l]
      BY <1>7, <2>3
    <3> QED BY <3>1, <3>2, <3>3
  <2> QED BY <2>2, <2>3
<1>12. ptr' \in -1 .. size - 1
  BY <1>5, <1>7, <1>8
<1>13. Typed'
  BY <1>1, <1>4, <1>10, <1>12 DEF Typed
<1>14. Scanning(before)'
  <2>1. WellFormed(call') /\ Reached(call', i') /\ screen' = before
    BY <1>1, <1>2, <1>3
  <2>2. arg' = Taken(call', i')
    BY <1>1, <1>2, <1>3, Zenon
  <2>3. Upto(call', i') = new
    BY <1>1, <1>4
  <2>4. ptr' = Len(Upto(call', i'))
    BY <1>7, <1>8, <2>3
  <2>5. \A k \in 1 .. ptr' : buf'[k - 1] = Upto(call', i')[k]
    BY <1>8, <1>11, <2>3
  <2> QED BY <2>1, <2>2, <2>4, <2>5 DEF Scanning
<1> QED BY <1>13, <1>14

(* What the loop reads there.                                              *)
LEMMA Reads ==
  ASSUME NEW before, Scanning(before), at = "scan"
  PROVE  /\ Fmt(i) = NUL <=> i = Len(call.fmt)
         /\ i # Len(call.fmt) => /\ i + 1 \in Begins(call.fmt) /\ Fmt(i) = call.fmt[i + 1]
                                 /\ Fmt(i) \in Special => Fmt(i + 1) = call.fmt[(i + 1) + 1]
         /\ i \in Nat
<1>1. WellFormed(call) /\ Reached(call, i)
  BY DEF Scanning
<1>2. PICK f, n : f = call.fmt /\ n = Len(f)
  OBVIOUS
<1>3. /\ n \in Nat /\ i \in 0 .. n /\ (i = n \/ i + 1 \in Begins(f))
      /\ \A p \in 1 .. n : f[p] \in 1 .. 255
      /\ \A p \in Begins(f) : p \in 1 .. n /\ (f[p] \in Special => p + 1 \in 1 .. n)
  BY <1>1, <1>2, FormatIs DEF Reached
<1>4. \A k : Fmt(k) = IF k < n THEN f[k + 1] ELSE NUL
  BY <1>2 DEF Fmt
<1>5. CASE i = n
  <2>1. ~(i < n)
    BY <1>3, <1>5
  <2> QED BY <1>2, <1>3, <1>4, <1>5, <2>1
<1>6. CASE i # n
  <2>1. i < n /\ i + 1 \in 1 .. n
    BY <1>3, <1>6
  <2>2. Fmt(i) = f[i + 1]
    BY <1>4, <2>1
  <2>3. Fmt(i) # NUL
    <3>1. \A v \in 1 .. 255 : v # NUL
      BY DEF NUL
    <3> QED BY <1>3, <2>1, <2>2, <3>1, Zenon
  <2>4. ASSUME Fmt(i) \in Special PROVE Fmt(i + 1) = f[(i + 1) + 1]
    <3>1. (i + 1) + 1 \in 1 .. n
      BY <1>3, <1>6, <2>2, <2>4
    <3>2. i + 1 < n
      BY <1>3, <3>1
    <3> QED BY <1>4, <3>2
  <2>5. i \in Nat /\ i + 1 \in Begins(f)
    BY <1>3, <1>6
  <2> QED BY <1>2, <1>6, <2>2, <2>3, <2>4, <2>5, Zenon
<1> QED BY <1>5, <1>6

LEMMA LoopTurns ==
  ASSUME NEW before, Typed, Scanning(before), Literal \/ Escaped \/ Verbatim \/ Conversion
  PROVE  Scan /\ Typed' /\ Scanning(before)'
<1>1. Scan
  BY DEF Literal, Escaped, Verbatim, Conversion, Text, Convert
<1>2. at = "scan"
  BY <1>1 DEF Scan
<1>3. WellFormed(call) /\ arg = Taken(call, i)
  BY <1>2 DEF Scanning
<1>4. PICK p, j : p = i + 1 /\ j = IF call.fmt[p] \in Special THEN i + 2 ELSE i + 1
  OBVIOUS
<1>5. /\ Fmt(i) = NUL <=> i = Len(call.fmt)
      /\ i # Len(call.fmt) => /\ p \in Begins(call.fmt) /\ Fmt(i) = call.fmt[p]
                              /\ Fmt(i) \in Special => Fmt(i + 1) = call.fmt[p + 1]
      /\ i \in Nat
  BY <1>2, <1>4, Reads
<1>6. NUL \notin Special /\ Ascii.percent # Ascii.backslash
  BY Codes DEF NUL, Special
<1>7. CASE Literal
  <2>1. i # Len(call.fmt) /\ call.fmt[p] \notin Special /\ Fmt(i) = call.fmt[p]
    BY <1>5, <1>7 DEF Literal, Special
  <2>2. Means(call, p) = <<Fmt(i)>>
    BY <2>1, MeansIs
  <2>3. ~Converts(call.fmt, p)
    BY <2>1 DEF Converts, Special
  <2>4. Store(Means(call, p)) /\ i' = j /\ arg' = arg
    BY <1>4, <1>7, <2>1, <2>2 DEF Literal
  <2> QED BY <1>1, <1>4, <2>1, <2>3, <2>4, TurnOfLoop
<1>8. CASE Escaped
  <2>1. /\ Fmt(i) = Ascii.backslash /\ i # Len(call.fmt) /\ call.fmt[p] = Ascii.backslash
        /\ Fmt(i + 1) = call.fmt[p + 1] /\ call.fmt[p] \in Special
    BY <1>5, <1>6, <1>8 DEF Escaped, Special
  <2>2. Means(call, p) = Escape(Fmt(i + 1))
    BY <2>1, MeansIs
  <2>3. ~Converts(call.fmt, p)
    BY <1>6, <2>1 DEF Converts
  <2>4. Store(Means(call, p)) /\ i' = j /\ arg' = arg
    BY <1>4, <1>8, <2>1, <2>2 DEF Escaped
  <2> QED BY <1>1, <1>4, <2>1, <2>3, <2>4, TurnOfLoop
<1>9. CASE Verbatim
  <2>1. /\ Fmt(i) = Ascii.percent /\ i # Len(call.fmt) /\ call.fmt[p] = Ascii.percent
        /\ Fmt(i + 1) = call.fmt[p + 1] /\ call.fmt[p] \in Special
    BY <1>5, <1>6, <1>9 DEF Verbatim, Special
  <2>2. ~Converts(call.fmt, p)
    BY <1>9, <2>1 DEF Converts, Verbatim
  <2>3. Means(call, p) = <<Fmt(i + 1)>>
    BY <2>1, <2>2, MeansIs
  <2>4. Store(Means(call, p)) /\ i' = j /\ arg' = arg
    BY <1>4, <1>9, <2>1, <2>3 DEF Verbatim
  <2> QED BY <1>1, <1>4, <2>1, <2>2, <2>4, TurnOfLoop
<1>10. CASE Conversion
  <2>1. /\ Fmt(i) = Ascii.percent /\ Fmt(i + 1) \in {Ascii.s, Ascii.c, Ascii.x, Ascii.d}
        /\ i' = i + 2 /\ arg' = arg + 1
    BY <1>10 DEF Conversion, Text, Convert
  <2>2. /\ i # Len(call.fmt) /\ call.fmt[p] = Ascii.percent /\ call.fmt[p] \in Special
        /\ Fmt(i + 1) = call.fmt[p + 1] /\ p \in Begins(call.fmt)
    BY <1>5, <1>6, <2>1 DEF Special
  <2>3. Converts(call.fmt, p)
    BY <2>1, <2>2 DEF Converts
  <2>4. IsWord(Argument(call, p)) /\ Argument(call, p) = Word
    <3>1. IsWord(Argument(call, p)) /\ Argument(call, p) = call.args[Taken(call, p - 1) + 1]
      BY <1>3, <2>2, <2>3, WordTaken
    <3>2. p - 1 = i
      BY <1>4, <1>5
    <3> QED BY <1>3, <3>1, <3>2 DEF Word
  <2>5. Store(Means(call, p))
    <3>1. CASE Text
      BY <2>2, <2>3, <2>4, <3>1, MeansIs DEF Text, Convert
    <3>2. CASE Convert(Ascii.c, <<Word % 256>>)
      BY <2>2, <2>3, <2>4, <3>2, MeansIs DEF Convert
    <3>3. CASE Convert(Ascii.x, parse_hex(Word))
      BY <2>2, <2>3, <2>4, <3>3, MeansIs DEF Convert
    <3>4. CASE Convert(Ascii.d, parse_num(Word))
      <4>1. parse_num(Word) = Decimal(Word)
        BY <2>4, ParseNumIs
      <4> QED BY <2>2, <2>3, <2>4, <3>4, <4>1, MeansIs DEF Convert
    <3> QED BY <1>10, <3>1, <3>2, <3>3, <3>4 DEF Conversion
  <2>6. i' = j
    BY <1>4, <2>1, <2>2
  <2> QED BY <1>1, <1>4, <2>1, <2>2, <2>3, <2>5, <2>6, TurnOfLoop
<1> QED BY <1>1, <1>7, <1>8, <1>9, <1>10

LEMMA TerminateEnds ==
  ASSUME NEW before \in Chars, Typed, Scanning(before), Terminate
  PROVE  Typed' /\ at' = "puts" /\ Printing(before)' /\ Scanning(before)'
<1>1. /\ at = "scan" /\ Fmt(i) = NUL /\ buf' = [buf EXCEPT ![ptr] = NUL]
      /\ at' = "puts" /\ out' = CString(buf') /\ call' = call /\ ptr' = ptr
      /\ screen' = screen /\ count' = count
  BY DEF Terminate
<1>2. /\ WellFormed(call) /\ Reached(call, i) /\ ptr = Len(Upto(call, i)) /\ screen = before
      /\ \A k \in 1 .. ptr : buf[k - 1] = Upto(call, i)[k]
  BY <1>1 DEF Scanning
<1>3. i = Len(call.fmt) /\ i \in 0 .. Len(call.fmt)
  BY <1>1, <1>2, Reads DEF Reached
<1>4. PICK t, l, size : t = Upto(call, i) /\ l = Len(t) /\ size = BufSize
  OBVIOUS
<1>5. t = Expansion(call) /\ t \in Chars /\ l < size
  BY <1>2, <1>3, <1>4, UptoIs
<1>6. l \in Nat /\ size \in Nat /\ ptr = l
  BY <1>2, <1>4, <1>5, LenProperties, KprintfAssumption DEF Chars
<1>7. buf \in [0 .. size - 1 -> Byte] /\ l \in 0 .. size - 1
  BY <1>4, <1>5, <1>6 DEF Typed
<1>8. PICK b : b = buf'
  OBVIOUS
<1>9. b \in [0 .. size - 1 -> Byte] /\ b[l] = NUL
  BY <1>1, <1>6, <1>7, <1>8 DEF Byte, NUL
<1>10. ASSUME NEW k \in 1 .. l PROVE b[k - 1] = t[k]
  <2>1. k - 1 \in 0 .. size - 1 /\ k - 1 # l
    BY <1>6, <1>7
  <2>2. b[k - 1] = buf[k - 1]
    BY <1>1, <1>6, <1>7, <1>8, <2>1
  <2> QED BY <1>2, <1>4, <1>6, <2>2
<1>11. CString(b) = Cut(t) /\ CString(b) \in Chars
  BY <1>4, <1>5, <1>9, <1>10, StringInBuffer
<1>12. Expected(call) = Cut(t)
  BY <1>2, <1>5, ExpectedIs, FormatIs
<1>13. Typed'
  BY <1>1, <1>4, <1>8, <1>9 DEF Typed
<1>14. Printing(before)'
  BY <1>1, <1>2, <1>8, <1>11, <1>12 DEF Printing, Ok
<1>15. Scanning(before)'
  BY <1>1 DEF Scanning
<1> QED BY <1>1, <1>13, <1>14, <1>15

LEMMA PutchMoves ==
  ASSUME NEW before \in Chars, Typed, Printing(before), Putch
  PROVE  Typed' /\ at' = "puts" /\ Printing(before)' /\ Scanning(before)'
<1>1. /\ at = "puts" /\ out # <<>> /\ screen' = Append(screen, Head(out)) /\ out' = Tail(out)
      /\ UNCHANGED <<at, call, i, arg, buf, ptr, todo, count>>
  BY DEF Putch
<1>2. Ok(call) /\ out \in Chars /\ screen \o out = before \o Expected(call)
  BY <1>1 DEF Printing
<1>3. PICK s, o, h, t : s = screen /\ o = out /\ h = Head(out) /\ t = Tail(out)
  OBVIOUS
<1>4. s \in Seq(Byte) /\ o \in Seq(Byte) /\ o # <<>>
  BY <1>1, <1>2, <1>3 DEF Typed, Chars
<1>5. h \in Byte /\ t \in Seq(Byte)
  BY <1>3, <1>4, HeadTailProperties
<1>6. o = <<h>> \o t
  BY <1>3, <1>4, <1>5
<1>7. Append(s, h) = s \o <<h>> /\ Append(s, h) \in Seq(Byte)
  BY <1>4, <1>5, AppendIsConcat, AppendProperties
<1>8. Append(s, h) \o t = s \o o
  <2>1. <<h>> \in Seq(Byte)
    BY <1>5
  <2>2. (s \o <<h>>) \o t = s \o (<<h>> \o t)
    BY <1>4, <1>5, <2>1, ConcatAssociative
  <2> QED BY <1>6, <1>7, <2>2, Zenon
<1>9. Typed'
  BY <1>1, <1>3, <1>7 DEF Typed, Chars
<1>10. Printing(before)'
  <2>1. screen' \o out' = before \o Expected(call)
    BY <1>1, <1>2, <1>3, <1>8, Zenon
  <2>2. Ok(call') /\ call' = call /\ out' \in Chars
    BY <1>1, <1>2, <1>3, <1>5 DEF Chars
  <2> QED BY <2>1, <2>2 DEF Printing
<1>11. Scanning(before)'
  BY <1>1 DEF Scanning
<1> QED BY <1>1, <1>9, <1>10, <1>11

(* A call begins: nothing of it is printed yet.                            *)
LEMMA EnterBegins ==
  ASSUME NEW c, Ok(c), NEW before \in Chars, Typed, Enter(c), screen' = before,
         count' \in [calls : Nat, faults : Nat, kind : Kinds \cup {"none"}, address : Nat]
  PROVE  /\ Typed' /\ at' \in {"scan", "puts"} /\ call' = c
         /\ Scanning(before)' /\ Printing(before)'
<1>1. /\ call' = c /\ i' = 0 /\ arg' = 0 /\ buf' = buf
      /\ c.op = "kprintf" => at' = "scan" /\ ptr' = 0
      /\ c.op # "kprintf" => at' = "puts" /\ ptr' = ptr
      /\ c.op = "puts" => out' = Memory(c.args[1]).text
  BY DEF Enter
<1>2. BufSize \in Nat /\ BufSize > 0
  BY KprintfAssumption
<1>3. CASE WellFormed(c)
  <2>1. c.op = "kprintf" /\ at' = "scan" /\ ptr' = 0
    BY <1>1, <1>3, FormatIs
  <2>2. Reached(c, 0)
    <3>1. PICK n : n = Len(c.fmt)
      OBVIOUS
    <3>2. n \in Nat /\ (n > 0 => 1 \in Begins(c.fmt))
      BY <1>3, <3>1, FormatIs
    <3>3. 0 \in 0 .. n /\ (n = 0 \/ 0 + 1 \in Begins(c.fmt))
      BY <3>2
    <3> QED BY <3>1, <3>3 DEF Reached
  <2>3. Taken(c, 0) = 0
    BY <1>3, TakenIs
  <2>4. Upto(c, 0) = <<>>
    BY <1>3, UptoIs
  <2>5. Len(Upto(c, 0)) = 0
    BY <2>4
  <2>6. Scanning(before)'
    <3>1. \A k \in 1 .. ptr' : buf'[k - 1] = Upto(c, 0)[k]
      BY <2>1
    <3> QED BY <1>1, <1>3, <2>1, <2>2, <2>3, <2>5, <3>1 DEF Scanning
  <2>7. Printing(before)'
    BY <2>1 DEF Printing
  <2>8. Typed'
    <3>1. ptr' \in -1 .. BufSize - 1
      BY <1>2, <2>1
    <3> QED BY <1>1, <2>1, <3>1 DEF Typed
  <2> QED BY <1>1, <2>1, <2>6, <2>7, <2>8
<1>4. CASE c = puts(Message)
  <2>1. c.op = "puts"
    BY <1>4 DEF puts
  <2>2. PICK t : t = Memory(c.args[1]).text
    OBVIOUS
  <2>3. /\ at' = "puts" /\ ptr' = ptr /\ out' = t /\ t \in Chars /\ Expected(c) = t
    BY <1>1, <2>1, <2>2, MemoryIs, ExpectedIs
  <2>4. Printing(before)' /\ Scanning(before)'
    BY <1>1, <2>3 DEF Printing, Scanning
  <2>5. Typed'
    BY <1>1, <2>3 DEF Typed
  <2> QED BY <1>1, <2>3, <2>4, <2>5
<1> QED BY <1>3, <1>4 DEF Ok

(* The texts of a report.                                                  *)
LEMMA ReportIs ==
  ASSUME NEW kind \in Kinds, NEW w, IsWord(w), NEW P, P = Panic(kind, w)
  PROVE  /\ \A k \in 1 .. Len(P) : Ok(P[k])
         /\ \A k \in 0 .. Len(P) : Flat(Texts(P))[k] \in Chars
         /\ Flat(Texts(P))[0] = <<>>
         /\ \A k \in 1 .. Len(P) :
              Flat(Texts(P))[k] = Flat(Texts(P))[k - 1] \o Expected(P[k])
         /\ FlattenSeq(Texts(P)) = Flat(Texts(P))[Len(P)]
<1>1. PICK n, s, f : n = Len(P) /\ s = Texts(P) /\ f = Flat(s)
  OBVIOUS
<1>2. n \in Nat /\ \A k \in 1 .. n : Ok(P[k])
  <2>1. n \in 3 .. 5
    BY <1>1, PanicCalls
  <2>2. PICK S : P \in Seq(S) /\ \A c \in S : Ok(c)
    BY PanicCalls
  <2>3. \A k \in 1 .. n : P[k] \in S
    BY <1>1, <2>2, ElementOfSeq
  <2> QED BY <2>1, <2>2, <2>3
<1>3. s = [k \in 1 .. n |-> Expected(P[k])]
  BY <1>1 DEF Texts
<1>4. s \in Seq(Chars) /\ Len(s) = n
  <2>1. \A k \in 1 .. n : Expected(P[k]) \in Chars
    BY <1>2, ExpectedText
  <2> QED BY <1>2, <1>3, <2>1
<1>5. IsFlat(f, s)
  BY <1>1, <1>4, FlatExists
<1>6. /\ f \in [0 .. n -> Chars] /\ f[0] = <<>>
      /\ \A k \in 1 .. n : f[k] = f[k - 1] \o s[k] /\ s[k] = Expected(P[k])
  BY <1>3, <1>4, <1>5 DEF IsFlat
<1>7. FlattenSeq(s) = f[n]
  BY <1>1, <1>4, FlattenIs
<1> QED BY <1>1, <1>2, <1>6, <1>7

LEMMA FaultReports ==
  ASSUME Typed, NEW kind \in Kinds, NEW w, IsWord(w), Fault(kind, w),
         buf' \in [0 .. BufSize - 1 -> Byte]
  PROVE  Typed' /\ Panicked' /\ count'.faults # 0
<1>1. PICK P, L : P = Panic(kind, w) /\ L = Len(P)
  OBVIOUS
<1>2. /\ count' = [count EXCEPT !.faults = @ + 1, !.kind = kind, !.address = w]
      /\ todo' = Tail(P) /\ call' = Head(P) /\ i' = 0 /\ arg' = 0
      /\ at' = "scan" /\ ptr' = 0 /\ out' = <<>> /\ screen' = <<>>
  BY <1>1 DEF Fault
<1>3. PICK S : P \in Seq(S) /\ \A c \in S : Ok(c)
  BY <1>1, PanicCalls
<1>4. L \in 3 .. 5 /\ WellFormed(P[1])
  BY <1>1, PanicCalls
<1>5. call' = P[1] /\ todo' = SubSeq(P, 1 + 1, L)
  <2>1. P # <<>>
    BY <1>1, <1>4
  <2>2. Tail(P) = SubSeq(P, 2, L)
    BY <1>1, <1>3, <2>1, TailIsSubSeq
  <2>3. Head(P) = P[1]
    OBVIOUS
  <2>4. 2 = 1 + 1
    OBVIOUS
  <2> QED BY <1>2, <2>2, <2>3, <2>4, Zenon
<1>6. /\ count'.faults \in Nat /\ count'.faults # 0
      /\ count'.kind = kind /\ count'.address = w
      /\ count' \in [calls : Nat, faults : Nat, kind : Kinds \cup {"none"}, address : Nat]
  <2>1. w \in Nat
    BY WordIs
  <2>2. PICK c, K : c = count /\ K = Kinds \cup {"none"}
    OBVIOUS
  <2>3. c \in [calls : Nat, faults : Nat, kind : K, address : Nat] /\ kind \in K
    BY <2>2 DEF Typed
  <2>4. PICK d : d = [c EXCEPT !.faults = @ + 1, !.kind = kind, !.address = w]
    OBVIOUS
  <2>5. d = count'
    BY <1>2, <2>2, <2>4
  <2>6. /\ d \in [calls : Nat, faults : Nat, kind : K, address : Nat]
        /\ d.faults = c.faults + 1 /\ d.kind = kind /\ d.address = w
    <3>1. PICK m : m = c.faults + 1
      OBVIOUS
    <3>2. m \in Nat
      BY <2>3, <3>1
    <3>3. PICK d1 : d1 = [c EXCEPT !.faults = m]
      OBVIOUS
    <3>4. d1 \in [calls : Nat, faults : Nat, kind : K, address : Nat] /\ d1.faults = m
      BY <2>3, <3>2, <3>3
    <3>5. PICK d2 : d2 = [d1 EXCEPT !.kind = kind]
      OBVIOUS
    <3>6. /\ d2 \in [calls : Nat, faults : Nat, kind : K, address : Nat]
          /\ d2.faults = m /\ d2.kind = kind
      BY <2>3, <3>4, <3>5
    <3>7. d = [d2 EXCEPT !.address = w]
      BY <2>4, <3>1, <3>3, <3>5
    <3>8. /\ d \in [calls : Nat, faults : Nat, kind : K, address : Nat]
          /\ d.faults = m /\ d.kind = kind /\ d.address = w
      BY <2>1, <3>6, <3>7
    <3> QED BY <3>1, <3>8
  <2>7. d.faults # 0
    BY <2>3, <2>6
  <2> QED BY <2>2, <2>5, <2>6, <2>7
<1>7. Report' = P
  BY <1>1, <1>6 DEF Report
<1>8. Flat(Texts(P))[0] = <<>>
  BY <1>1, ReportIs
<1>9. PICK c : c = P[1]
  OBVIOUS
<1>10. Reached(c, 0)
  <2>1. PICK n : n = Len(c.fmt)
    OBVIOUS
  <2>2. n \in Nat /\ (n > 0 => 1 \in Begins(c.fmt))
    BY <1>4, <1>9, <2>1, FormatIs
  <2>3. 0 \in 0 .. n /\ (n = 0 \/ 0 + 1 \in Begins(c.fmt))
    BY <2>2
  <2> QED BY <2>1, <2>3 DEF Reached
<1>11. Taken(c, 0) = 0 /\ Len(Upto(c, 0)) = 0
  <2>1. Upto(c, 0) = <<>>
    BY <1>4, <1>9, UptoIs
  <2> QED BY <1>4, <1>9, <2>1, TakenIs
<1>12. Scanning(<<>>)' /\ Printing(<<>>)'
  <2>1. \A k \in 1 .. ptr' : buf'[k - 1] = Upto(c, 0)[k]
    BY <1>2
  <2> QED BY <1>2, <1>4, <1>5, <1>9, <1>10, <1>11, <2>1 DEF Scanning, Printing
<1>13. Reporting(1)'
  <2>1. 1 \in 1 .. L /\ 1 - 1 = 0
    BY <1>4
  <2> QED BY <1>1, <1>5, <1>7, <1>8, <1>12, <2>1 DEF Reporting
<1>14. Panicked'
  BY <1>2, <1>6, <1>13 DEF Panicked
<1>15. Typed'
  <2>1. ptr' \in -1 .. BufSize - 1 /\ screen' \in Chars
    BY <1>2, EmptySeq, KprintfAssumption DEF Chars
  <2> QED BY <1>2, <1>6, <2>1 DEF Typed
<1> QED BY <1>6, <1>14, <1>15

(***************************************************************************)
(* The invariant holds.                                                    *)
(***************************************************************************)
(* A step inside a call.                                                   *)
LEMMA InsideCall ==
  ASSUME IInv, at \in {"scan", "puts"}, call' = call, todo' = todo, count' = count,
         Typed', at' \in {"scan", "puts"},
         \A before \in Chars : Scanning(before) /\ Printing(before)
                                 => Scanning(before)' /\ Printing(before)'
  PROVE  IInv'
<1>1. <<>> \in Chars
  BY EmptySeq DEF Chars
<1>2. ASSUME count.faults = 0 PROVE Serving'
  <2>1. Serving
    BY <1>2 DEF IInv
  <2>2. Scanning(<<>>)' /\ Printing(<<>>)'
    BY <1>1, <2>1 DEF Serving
  <2> QED BY <2>1, <2>2 DEF Serving
<1>3. ASSUME count.faults # 0 PROVE Panicked'
  <2>1. Panicked
    BY <1>3 DEF IInv
  <2>2. PICK n \in Nat : Reporting(n)
    BY <2>1 DEF Panicked
  <2>3. PICK P, before : P = Report /\ before = Flat(Texts(P))[n - 1]
    OBVIOUS
  <2>4. before \in Chars
    <3>1. count.kind \in Kinds /\ IsWord(count.address) /\ P = Panic(count.kind, count.address)
      BY <2>1, <2>3 DEF Panicked, Report
    <3>2. n - 1 \in 0 .. Len(P)
      <4>1. n \in 1 .. Len(P) /\ Len(P) \in 3 .. 5
        BY <2>2, <2>3, <3>1, PanicCalls DEF Reporting
      <4> QED BY <4>1
    <3> QED BY <2>3, <3>1, <3>2, ReportIs
  <2>5. Scanning(before) /\ Printing(before)
    BY <2>2, <2>3 DEF Reporting
  <2>6. Scanning(before)' /\ Printing(before)'
    BY <2>4, <2>5
  <2>7. Report' = P
    BY <2>3 DEF Report
  <2>8. Reporting(n)'
    BY <2>2, <2>3, <2>6, <2>7 DEF Reporting
  <2> QED BY <2>1, <2>8 DEF Panicked
<1> QED BY <1>2, <1>3 DEF IInv

(* In a call, what was printed before it is a text.                        *)
LEMMA SomeBefore ==
  ASSUME IInv, at = "scan"
  PROVE  \E before \in Chars : Scanning(before)
<1>1. screen \in Chars /\ Typed
  BY DEF IInv, Typed
<1>2. CASE count.faults = 0
  <2>1. <<>> \in Chars
    BY EmptySeq DEF Chars
  <2> QED BY <1>2, <2>1 DEF IInv, Serving
<1>3. CASE count.faults # 0
  <2>1. PICK n \in Nat : Reporting(n)
    BY <1>3 DEF IInv, Panicked
  <2>2. PICK before : before = Flat(Texts(Report))[n - 1]
    OBVIOUS
  <2>3. Scanning(before)
    BY <2>1, <2>2 DEF Reporting
  <2>4. before = screen
    BY <2>3 DEF Scanning
  <2> QED BY <1>1, <2>3, <2>4
<1> QED BY <1>2, <1>3

LEMMA TextFaultsKeeps == ASSUME IInv, TextFaults PROVE IInv'
<1>1. /\ at = "scan" /\ Fmt(i) = Ascii.percent /\ Fmt(i + 1) = Ascii.s
      /\ buf' = Stored(Memory(Word).text)
      /\ Fault("page fault", Word + Len(Memory(Word).text)) /\ Typed
  BY DEF TextFaults, IInv
<1>2. PICK before \in Chars : Scanning(before)
  BY <1>1, SomeBefore
<1>3. WellFormed(call) /\ arg = Taken(call, i)
  BY <1>1, <1>2 DEF Scanning
<1>4. PICK p : p = i + 1
  OBVIOUS
<1>5. /\ i \in Nat /\ p \in Begins(call.fmt) /\ call.fmt[p] = Ascii.percent
      /\ call.fmt[p + 1] = Ascii.s /\ p - 1 = i
  <2>1. Ascii.percent \in Special /\ Ascii.percent # NUL
    BY Codes DEF Special, NUL
  <2>2. /\ Fmt(i) = NUL <=> i = Len(call.fmt)
        /\ i # Len(call.fmt) => /\ p \in Begins(call.fmt) /\ Fmt(i) = call.fmt[p]
                                /\ Fmt(i) \in Special => Fmt(i + 1) = call.fmt[p + 1]
        /\ i \in Nat
    BY <1>1, <1>2, <1>4, Reads
  <2>3. i # Len(call.fmt) /\ Fmt(i) \in Special
    BY <1>1, <2>1, <2>2, Zenon
  <2>4. p - 1 = i
    BY <1>4, <2>2
  <2> QED BY <1>1, <2>2, <2>3, <2>4, Zenon
<1>6. IsWord(Word)
  <2>1. Converts(call.fmt, p)
    BY <1>5 DEF Converts
  <2>2. IsWord(Argument(call, p)) /\ Argument(call, p) = call.args[Taken(call, p - 1) + 1]
    BY <1>3, <1>5, <2>1, WordTaken
  <2> QED BY <1>3, <1>5, <2>2 DEF Word
<1>7. PICK w, text, n : w = Word /\ text = Memory(w).text /\ n = Len(text)
  OBVIOUS
<1>8. text \in [1 .. n -> Byte] /\ n \in Nat
  BY <1>7, MemoryIs, LenProperties DEF Chars
<1>9. /\ ptr \in Int /\ DOMAIN buf = 0 .. BufSize - 1 /\ BufSize \in Nat
      /\ \A k \in 0 .. BufSize - 1 : buf[k] \in Byte
  <2>1. BufSize \in Nat
    BY KprintfAssumption
  <2>2. ptr \in -1 .. BufSize - 1 /\ buf \in [0 .. BufSize - 1 -> Byte]
    BY <1>1 DEF Typed
  <2> QED BY <2>1, <2>2
<1>10. ASSUME NEW k \in ptr .. ptr + n - 1 PROVE text[k - ptr + 1] \in Byte
  <2>1. k - ptr + 1 \in 1 .. n
    BY <1>8, <1>9
  <2> QED BY <1>8, <2>1
<1>11. buf' = [k \in DOMAIN buf |-> IF k \in ptr .. ptr + n - 1 THEN text[k - ptr + 1] ELSE buf[k]]
  BY <1>1, <1>7 DEF Stored
<1>12. buf' \in [0 .. BufSize - 1 -> Byte]
  BY <1>9, <1>10, <1>11
<1>13. "page fault" \in Kinds
  BY DEF Kinds
<1>14. PICK cr2 : cr2 = w + n
  OBVIOUS
<1>15. IsWord(cr2)
  <2>1. CASE w \in DOMAIN Strings
    BY <1>7, <1>14, <2>1, KprintfAssumption DEF Memory
  <2>2. CASE w \notin DOMAIN Strings
    <3>1. n = 0
      BY <1>7, <2>2 DEF Memory
    <3>2. cr2 = w
      BY <1>6, <1>7, <1>14, <3>1 DEF IsWord
    <3> QED BY <1>6, <1>7, <3>2
  <2> QED BY <2>1, <2>2
<1>16. Fault("page fault", cr2)
  BY <1>1, <1>7, <1>14
<1>17. Typed' /\ Panicked' /\ count'.faults # 0
  BY <1>1, <1>12, <1>13, <1>15, <1>16, FaultReports
<1> QED BY <1>17 DEF IInv

LEMMA ExceptionKeeps ==
  ASSUME IInv, NEW kind \in Kinds, Exception(kind)
  PROVE  IInv'
<1>1. Fault(kind, 4096) /\ buf' = buf /\ Typed
  BY DEF Exception, IInv
<1>2. PICK w : w = 4096
  OBVIOUS
<1>3. IsWord(w)
  <2>1. w \div 65536 = 0 /\ w \in Nat
    BY <1>2
  <2> QED BY <2>1, Tens DEF IsWord
<1>4. buf' \in [0 .. BufSize - 1 -> Byte]
  BY <1>1 DEF Typed
<1>5. Fault(kind, w)
  BY <1>1, <1>2 DEF Fault
<1>6. Typed' /\ Panicked' /\ count'.faults # 0
  BY <1>1, <1>3, <1>4, <1>5, FaultReports
<1> QED BY <1>6 DEF IInv

LEMMA KprintfKeeps ==
  ASSUME IInv, NEW c \in Calls, Kprintf(c)
  PROVE  IInv'
<1>1. /\ at = "idle" /\ count' = [count EXCEPT !.calls = @ + 1] /\ screen' = <<>>
      /\ Enter(c) /\ todo' = todo
  BY DEF Kprintf
<1>2. Typed /\ count.faults = 0 /\ Serving
  BY <1>1 DEF IInv, Panicked
<1>3. /\ count' \in [calls : Nat, faults : Nat, kind : Kinds \cup {"none"}, address : Nat]
      /\ count'.faults = 0
  <2>1. PICK d, e, m, S : /\ d = count /\ m = d.calls + 1 /\ e = [d EXCEPT !.calls = m]
                          /\ S = Kinds \cup {"none"}
    OBVIOUS
  <2>2. d \in [calls : Nat, faults : Nat, kind : S, address : Nat] /\ d.faults = 0
    BY <1>2, <2>1 DEF Typed
  <2>3. m \in Nat
    BY <2>1, <2>2
  <2>4. e \in [calls : Nat, faults : Nat, kind : S, address : Nat] /\ e.faults = 0
    BY <2>1, <2>2, <2>3
  <2> QED BY <1>1, <2>1, <2>4
<1>4. PICK before : before = <<>>
  OBVIOUS
<1>5. Ok(c) /\ before \in Chars
  BY <1>4, CallsAssumption, EmptySeq DEF Ok, Chars
<1>6. Typed' /\ at' \in {"scan", "puts"} /\ Scanning(before)' /\ Printing(before)'
  BY <1>1, <1>2, <1>3, <1>4, <1>5, EnterBegins
<1>7. Serving'
  BY <1>1, <1>2, <1>4, <1>6 DEF Serving
<1> QED BY <1>3, <1>6, <1>7 DEF IInv

LEMMA ReturnKeeps == ASSUME IInv, Return PROVE IInv'
<1>1. /\ at = "puts" /\ out = <<>> /\ todo = <<>>
      /\ at' = IF count.faults = 0 THEN "idle" ELSE "halted"
      /\ UNCHANGED <<call, i, arg, buf, ptr, out, todo, screen, count>>
  BY DEF Return
<1>2. Typed /\ at' \in {"idle", "halted"}
  BY <1>1 DEF IInv
<1>3. Typed'
  BY <1>1, <1>2 DEF Typed
<1>4. PICK s : s = screen
  OBVIOUS
<1>5. s \in Seq(Byte) /\ s \o <<>> = s
  <2>1. s \in Seq(Byte)
    BY <1>2, <1>4 DEF Typed, Chars
  <2> QED BY <2>1, ConcatEmptySeq
<1>6. ASSUME count.faults = 0 PROVE Serving'
  <2>1. Serving
    BY <1>6 DEF IInv
  <2>2. Ok(call) /\ screen \o out = <<>> \o Expected(call)
    BY <1>1, <2>1 DEF Serving, Printing
  <2>3. <<>> \o Expected(call) = Expected(call)
    <3>1. Expected(call) \in Seq(Byte)
      BY <2>2, ExpectedText DEF Chars
    <3> QED BY <3>1, ConcatEmptySeq
  <2>4. screen = Expected(call)
    BY <1>1, <1>4, <1>5, <2>2, <2>3
  <2>5. at' = "idle"
    BY <1>1, <1>6
  <2>6. Scanning(<<>>)' /\ Printing(<<>>)'
    BY <2>5 DEF Scanning, Printing
  <2> QED BY <1>1, <2>4, <2>5, <2>6 DEF Serving
<1>7. ASSUME count.faults # 0 PROVE Panicked'
  <2>1. Panicked
    BY <1>7 DEF IInv
  <2>2. PICK n \in Nat : Reporting(n)
    BY <1>1, <2>1 DEF Panicked
  <2>3. PICK P, L, f : P = Report /\ L = Len(P) /\ f = Flat(Texts(P))
    OBVIOUS
  <2>4. count.kind \in Kinds /\ IsWord(count.address) /\ P = Panic(count.kind, count.address)
    BY <2>1, <2>3 DEF Panicked, Report
  <2>5. L \in 3 .. 5 /\ n \in 1 .. L /\ call = P[n] /\ todo = SubSeq(P, n + 1, L)
    BY <2>2, <2>3, <2>4, PanicCalls DEF Reporting
  <2>6. n = L
    <3>1. PICK S : P \in Seq(S) /\ \A c \in S : Ok(c)
      BY <2>4, PanicCalls
    <3> SUFFICES ASSUME n # L PROVE FALSE
      OBVIOUS
    <3>2. n + 1 \in Int /\ L \in Int /\ n + 1 <= L /\ L - (n + 1) + 1 # 0
      BY <2>5
    <3>3. \A k \in n + 1 .. L : P[k] \in S
      <4>1. \A k \in n + 1 .. L : k \in 1 .. Len(P)
        BY <2>3, <2>5
      <4> QED BY <3>1, <4>1, ElementOfSeq
    <3>4. Len(SubSeq(P, n + 1, L)) = L - (n + 1) + 1
      BY <3>2, <3>3, SubSeqProperties
    <3>5. Len(<<>>) = 0
      OBVIOUS
    <3> QED BY <1>1, <2>5, <3>2, <3>4, <3>5
  <2>7. screen \o out = f[n - 1] \o Expected(P[n])
    BY <1>1, <2>2, <2>3, <2>5 DEF Reporting, Printing
  <2>8. f[n] = f[n - 1] \o Expected(P[n]) /\ FlattenSeq(Texts(P)) = f[L]
    <3>1. /\ \A k \in 1 .. Len(P) : Flat(Texts(P))[k] = Flat(Texts(P))[k - 1] \o Expected(P[k])
          /\ FlattenSeq(Texts(P)) = Flat(Texts(P))[Len(P)]
      <4>1. PICK kind, w : kind = count.kind /\ w = count.address
        OBVIOUS
      <4>2. kind \in Kinds /\ IsWord(w) /\ P = Panic(kind, w)
        BY <2>4, <4>1
      <4> QED BY <4>2, ReportIs
    <3> QED BY <2>3, <2>5, <3>1, Zenon
  <2>9. screen = FlattenSeq(Texts(P))
    <3>1. screen \o out = s
      BY <1>1, <1>4, <1>5
    <3> QED BY <1>4, <2>6, <2>7, <2>8, <3>1
  <2>10. Report' = P
    BY <1>1, <2>3 DEF Report
  <2>11. at' = "halted"
    BY <1>1, <1>7
  <2> QED BY <1>1, <2>1, <2>9, <2>10, <2>11 DEF Panicked
<1> QED BY <1>1, <1>3, <1>6, <1>7 DEF IInv

LEMMA NextMessageKeeps == ASSUME IInv, NextMessage PROVE IInv'
<1>1. /\ at = "puts" /\ out = <<>> /\ todo # <<>>
      /\ Enter(Head(todo)) /\ todo' = Tail(todo) /\ screen' = screen /\ count' = count
  BY DEF NextMessage
<1>2. Typed /\ count.faults # 0 /\ Panicked
  BY <1>1 DEF IInv, Serving
<1>3. PICK n \in Nat : Reporting(n)
  BY <1>1, <1>2 DEF Panicked
<1>4. PICK P, L, f : P = Report /\ L = Len(P) /\ f = Flat(Texts(P))
  OBVIOUS
<1>5. count.kind \in Kinds /\ IsWord(count.address) /\ P = Panic(count.kind, count.address)
  BY <1>2, <1>4 DEF Panicked, Report
<1>6. L \in 3 .. 5 /\ n \in 1 .. L /\ call = P[n] /\ todo = SubSeq(P, n + 1, L)
  BY <1>3, <1>4, <1>5, PanicCalls DEF Reporting
<1>7. n + 1 \in 1 .. L /\ n + 1 \in Nat /\ (n + 1) - 1 = n
  <2> SUFFICES ASSUME n = L PROVE FALSE
    BY <1>6
  <2>1. SubSeq(P, n + 1, L) = <<>>
    <3>1. n + 1 \in Int /\ L \in Int /\ L < n + 1
      BY <1>6
    <3> QED BY <3>1, SubSeqEmpty
  <2> QED BY <1>1, <1>6, <2>1
<1>8. PICK c : c = P[n + 1]
  OBVIOUS
<1>9. Head(todo) = c /\ todo' = SubSeq(P, (n + 1) + 1, L)
  <2>1. PICK S : P \in Seq(S) /\ \A d \in S : Ok(d)
    BY <1>5, PanicCalls
  <2>2. PICK m : m = n + 1
    OBVIOUS
  <2>3. m \in 1 .. Len(P) /\ L \in m .. Len(P)
    BY <1>4, <1>6, <1>7, <2>2
  <2>4. /\ Head(SubSeq(P, m, L)) = P[m] /\ Tail(SubSeq(P, m, L)) = SubSeq(P, m + 1, L)
    BY <2>1, <2>3, HeadTailOfSubSeq
  <2> QED BY <1>1, <1>6, <1>8, <2>2, <2>4, Zenon
<1>10. /\ Ok(c) /\ f[n] \in Chars /\ f[n] = f[n - 1] \o Expected(P[n])
  <2>1. n \in 0 .. L
    BY <1>6
  <2>2. /\ \A k \in 1 .. Len(P) : Ok(P[k])
        /\ \A k \in 0 .. Len(P) : Flat(Texts(P))[k] \in Chars
        /\ \A k \in 1 .. Len(P) : Flat(Texts(P))[k] = Flat(Texts(P))[k - 1] \o Expected(P[k])
    <3>1. PICK kind, w : kind = count.kind /\ w = count.address
      OBVIOUS
    <3>2. kind \in Kinds /\ IsWord(w) /\ P = Panic(kind, w)
      BY <1>5, <3>1
    <3> QED BY <3>2, ReportIs
  <2> QED BY <1>4, <1>6, <1>7, <1>8, <2>1, <2>2, Zenon
<1>11. PICK before : before = f[n]
  OBVIOUS
<1>12. screen = before
  <2>1. screen \o out = f[n - 1] \o Expected(P[n])
    BY <1>1, <1>3, <1>4, <1>6 DEF Reporting, Printing
  <2>2. PICK s : s = screen
    OBVIOUS
  <2>3. s \in Seq(Byte)
    BY <1>2, <2>2 DEF Typed, Chars
  <2>4. s \o <<>> = s
    BY <2>3, ConcatEmptySeq
  <2> QED BY <1>1, <1>10, <1>11, <2>1, <2>2, <2>4
<1>13. Typed' /\ at' \in {"scan", "puts"} /\ call' = c /\ Scanning(before)' /\ Printing(before)'
  <2>1. Enter(c)
    BY <1>1, <1>9 DEF Enter
  <2>2. count' \in [calls : Nat, faults : Nat, kind : Kinds \cup {"none"}, address : Nat]
    BY <1>1, <1>2 DEF Typed
  <2> QED BY <1>1, <1>2, <1>10, <1>11, <1>12, <2>1, <2>2, EnterBegins
<1>14. Report' = P
  BY <1>1, <1>4 DEF Report
<1>15. Reporting(n + 1)'
  BY <1>4, <1>7, <1>8, <1>9, <1>11, <1>13, <1>14 DEF Reporting
<1>16. Panicked'
  <2>1. at' # "halted"
    BY <1>13
  <2> QED BY <1>1, <1>2, <1>7, <1>13, <1>15, <2>1 DEF Panicked
<1> QED BY <1>1, <1>2, <1>13, <1>16 DEF IInv

LEMMA PrintsAfter ==
  ASSUME IInv, at = "puts"
  PROVE  \E before \in Chars : Printing(before)
<1>1. <<>> \in Chars
  BY EmptySeq DEF Chars
<1>2. CASE count.faults = 0
  BY <1>1, <1>2 DEF IInv, Serving
<1>3. CASE count.faults # 0
  <2>1. Panicked
    BY <1>3 DEF IInv
  <2>2. PICK n \in Nat : Reporting(n)
    BY <2>1 DEF Panicked
  <2>3. PICK P : P = Report
    OBVIOUS
  <2>4. count.kind \in Kinds /\ IsWord(count.address) /\ P = Panic(count.kind, count.address)
    BY <2>1, <2>3 DEF Panicked, Report
  <2>5. n - 1 \in 0 .. Len(P)
    <3>1. n \in 1 .. Len(P) /\ Len(P) \in 3 .. 5
      BY <2>2, <2>3, <2>4, PanicCalls DEF Reporting
    <3> QED BY <3>1
  <2>6. Flat(Texts(P))[n - 1] \in Chars
    BY <2>4, <2>5, ReportIs
  <2> QED BY <2>2, <2>3, <2>6 DEF Reporting
<1> QED BY <1>2, <1>3

LEMMA InitHolds == ASSUME Init PROVE IInv
<1>1. BufSize \in Nat /\ BufSize > 0
  BY KprintfAssumption
<1>2. buf \in [0 .. BufSize - 1 -> Byte]
  <2>1. 255 \in Byte /\ NUL \in Byte
    BY DEF Byte, NUL
  <2> QED BY <2>1 DEF Init
<1>3. screen \in Chars /\ ptr \in -1 .. BufSize - 1
  BY <1>1, EmptySeq DEF Init, Chars
<1>4. count \in [calls : Nat, faults : Nat, kind : Kinds \cup {"none"}, address : Nat]
  BY DEF Init
<1>5. count.faults = 0 /\ count.calls = 0 /\ at = "idle" /\ todo = <<>>
  BY DEF Init
<1>6. Typed
  BY <1>2, <1>3, <1>4, <1>5 DEF Typed
<1>7. Serving
  BY <1>5 DEF Serving, Scanning, Printing
<1> QED BY <1>5, <1>6, <1>7 DEF IInv

LEMMA StepKeeps == ASSUME IInv, [Next]_vars PROVE IInv'
<1>1. Typed
  BY DEF IInv
<1>2. ASSUME NEW c \in Calls, Kprintf(c) PROVE IInv'
  BY <1>2, KprintfKeeps
<1>3. ASSUME NEW kind \in Kinds, Exception(kind) PROVE IInv'
  BY <1>3, ExceptionKeeps
<1>4. CASE Literal \/ Escaped \/ Verbatim \/ Conversion
  <2>1. ASSUME NEW before \in Chars, Scanning(before)
        PROVE  Scan /\ Typed' /\ Scanning(before)'
    BY <1>1, <1>4, <2>1, LoopTurns
  <2>2. at = "scan"
    BY <1>4 DEF Literal, Escaped, Verbatim, Conversion, Text, Convert, Scan
  <2>3. PICK before \in Chars : Scanning(before)
    BY <2>2, SomeBefore
  <2>4. Scan /\ Typed'
    BY <2>1, <2>3
  <2>5. /\ at' = "scan" /\ call' = call /\ todo' = todo /\ count' = count
    BY <2>4 DEF Scan
  <2>6. ASSUME NEW b \in Chars, Scanning(b), Printing(b) PROVE Scanning(b)' /\ Printing(b)'
    BY <2>1, <2>5, <2>6 DEF Printing
  <2> QED BY <2>2, <2>4, <2>5, <2>6, InsideCall
<1>5. CASE TextFaults
  BY <1>5, TextFaultsKeeps
<1>6. CASE Terminate
  <2>1. ASSUME NEW b \in Chars, Scanning(b)
        PROVE  Typed' /\ at' = "puts" /\ Printing(b)' /\ Scanning(b)'
    BY <1>1, <1>6, <2>1, TerminateEnds
  <2>2. at = "scan" /\ call' = call /\ todo' = todo /\ count' = count
    BY <1>6 DEF Terminate
  <2>3. Typed' /\ at' = "puts"
    BY <2>1, <2>2, SomeBefore
  <2>4. ASSUME NEW b \in Chars, Scanning(b), Printing(b) PROVE Scanning(b)' /\ Printing(b)'
    BY <2>1, <2>4
  <2> QED BY <2>2, <2>3, <2>4, InsideCall
<1>7. CASE Putch
  <2>1. /\ at = "puts" /\ out # <<>> /\ at' = at /\ call' = call /\ todo' = todo
        /\ count' = count
    BY <1>7 DEF Putch
  <2>2. ASSUME NEW b \in Chars, Printing(b)
        PROVE  Typed' /\ at' = "puts" /\ Printing(b)' /\ Scanning(b)'
    BY <1>1, <1>7, <2>2, PutchMoves
  <2>3. \E b \in Chars : Printing(b)
    BY <2>1, PrintsAfter
  <2>4. Typed' /\ at' = "puts"
    BY <2>2, <2>3
  <2>5. ASSUME NEW b \in Chars, Scanning(b), Printing(b) PROVE Scanning(b)' /\ Printing(b)'
    BY <2>2, <2>5
  <2> QED BY <2>1, <2>4, <2>5, InsideCall
<1>8. CASE Return
  BY <1>8, ReturnKeeps
<1>9. CASE NextMessage
  BY <1>9, NextMessageKeeps
<1>10. CASE UNCHANGED vars
  <2>1. /\ at' = at /\ call' = call /\ i' = i /\ arg' = arg /\ buf' = buf /\ ptr' = ptr
        /\ out' = out /\ todo' = todo /\ screen' = screen /\ count' = count
    BY <1>10 DEF vars
  <2> QED BY <2>1 DEF IInv, Typed, Serving, Panicked, Reporting, Report, Scanning, Printing
<1>11. CASE Rest
  BY <1>10, <1>11 DEF Rest
<1>12. Kinds = {"page fault", "exception", "assertion"}
  BY DEF Kinds
<1>13. \/ \E c \in Calls : Kprintf(c)
       \/ \E kind \in Kinds : Exception(kind)
       \/ Literal \/ Escaped \/ Verbatim \/ Conversion \/ TextFaults \/ Terminate
       \/ Putch \/ Return \/ NextMessage \/ Rest \/ UNCHANGED vars
  BY <1>12, Zenon DEF Next
<1> QED BY <1>2, <1>3, <1>4, <1>5, <1>6, <1>7, <1>8, <1>9, <1>10, <1>11, <1>13

(* The loop, the buffer and the screen agree, in a call and in a panic.    *)
THEOREM Invariance == Spec => []IInv
<1>1. Init => IInv
  BY InitHolds
<1>2. IInv /\ [Next]_vars => IInv'
  BY StepKeeps
<1> QED BY <1>1, <1>2, PTL DEF Spec

(* kprintf: a format that ends, with a word for each conversion and a text *)
(* that fits, keeps the two indices inside what they index, whatever the   *)
(* formats, the words and the memory are.                                  *)
THEOREM TypeCorrect == Spec => []TypeOK
<1>1. IInv => TypeOK
  <2> SUFFICES ASSUME IInv PROVE TypeOK
    OBVIOUS
  <2>1. Typed
    BY DEF IInv
  <2>2. ASSUME at = "scan"
        PROVE  ptr >= 0 /\ i \in 0 .. Len(call.fmt) /\ arg \in 0 .. Len(call.args)
    <3>1. PICK before \in Chars : Scanning(before)
      BY <2>2, SomeBefore
    <3>2. /\ WellFormed(call) /\ Reached(call, i) /\ arg = Taken(call, i)
          /\ ptr = Len(Upto(call, i))
      BY <2>2, <3>1 DEF Scanning
    <3>3. PICK n : n = Len(call.fmt)
      OBVIOUS
    <3>4. n \in Nat /\ i \in 0 .. n
      BY <3>2, <3>3, FormatIs DEF Reached
    <3>5. i \in Nat
      BY <3>4
    <3>6. arg \in 0 .. Len(call.args)
      BY <3>2, <3>5, TakenIs
    <3>7. ptr \in Nat
      <4>1. Upto(call, i) \in Chars
        BY <3>2, <3>3, <3>4, UptoIs
      <4> QED BY <3>2, <4>1, LenProperties DEF Chars
    <3> QED BY <3>3, <3>4, <3>6, <3>7
  <2> QED BY <2>1, <2>2 DEF Typed, TypeOK, Byte
<1> QED BY <1>1, Invariance, PTL

(* What a call prints is what its format and its words mean, whatever the  *)
(* calls before it left in the buffer.                                     *)
THEOREM AlwaysPrintsFormat == Spec => []PrintsFormat
<1>1. IInv => PrintsFormat
  <2> SUFFICES ASSUME IInv, at \in {"puts", "idle"}, count.calls > 0, count.faults = 0
               PROVE  screen \o out = Expected(call)
    BY DEF PrintsFormat
  <2>1. Serving /\ Typed
    BY DEF IInv
  <2>2. CASE at = "puts"
    <3>1. Ok(call) /\ screen \o out = <<>> \o Expected(call)
      BY <2>1, <2>2 DEF Serving, Printing
    <3>2. Expected(call) \in Seq(Byte)
      BY <3>1, ExpectedText DEF Chars
    <3>3. <<>> \o Expected(call) = Expected(call)
      BY <3>2, ConcatEmptySeq
    <3> QED BY <3>1, <3>3
  <2>3. CASE at = "idle"
    <3>1. screen = Expected(call) /\ out = <<>>
      BY <2>1, <2>3 DEF Serving
    <3>2. PICK s : s = screen
      OBVIOUS
    <3>3. s \in Seq(Byte)
      BY <2>1, <3>2 DEF Typed, Chars
    <3>4. s \o <<>> = s
      BY <3>3, ConcatEmptySeq
    <3> QED BY <3>1, <3>2, <3>4
  <2> QED BY <2>2, <2>3
<1> QED BY <1>1, Invariance, PTL

(* fault_handler, page_fault, halt_and_catch_fire: when the machine halts  *)
(* the report of the last panic is on the screen, whole, whatever call or  *)
(* report it interrupted and wherever.                                     *)
THEOREM AlwaysPanicReported == Spec => []PanicReported
<1>1. IInv => PanicReported
  <2> SUFFICES ASSUME IInv, at = "halted"
               PROVE  screen = LET calls == Panic(count.kind, count.address)
                               IN  FlattenSeq([k \in DOMAIN calls |-> Expected(calls[k])])
    BY DEF PanicReported
  <2>1. Panicked
    BY DEF IInv, Serving
  <2>2. PICK P : P = Report
    OBVIOUS
  <2>3. /\ count.kind \in Kinds /\ IsWord(count.address) /\ P = Panic(count.kind, count.address)
        /\ screen = FlattenSeq(Texts(P))
    BY <2>1, <2>2 DEF Panicked, Report
  <2>4. PICK S : P \in Seq(S) /\ \A c \in S : Ok(c)
    BY <2>3, PanicCalls
  <2>5. DOMAIN P = 1 .. Len(P)
    BY <2>4, LenProperties
  <2>6. Texts(P) = [k \in DOMAIN P |-> Expected(P[k])]
    BY <2>5 DEF Texts
  <2> QED BY <2>3, <2>6
<1> QED BY <1>1, Invariance, PTL
=============================================================================
