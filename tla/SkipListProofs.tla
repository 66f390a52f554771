--------------------------- MODULE SkipListProofs ---------------------------
(***************************************************************************)
(* Proofs about the skip list of free big blocks (SkipList), for any set   *)
(* of blocks, any sizes and any number of levels.                          *)
(*                                                                         *)
(* The invariant describes the forward pointers by a rank: blocks are      *)
(* ranked by size, and on every level the pointer of a node leads to the   *)
(* next block in rank that has that level.  Whether a block has a level is *)
(* whether its pointer there was written.  What the three search loops     *)
(* return then does not depend on where they start (TurnUnique), so that   *)
(* insertion and deletion change the same place on every level.            *)
(***************************************************************************)
EXTENDS SkipList, TLAPS, WellFoundedInduction

(* The blocks whose pointer on level i was written.                        *)
On(i) == {b \in Block : forward[b][i] # JUNK}

(* p is what follows node m on level i.                                    *)
Follows(rank, m, i, p) ==
  \/ p = NIL /\ \A c \in On(i) : rank[c] <= rank[m]
  \/ /\ p \in On(i) /\ rank[m] < rank[p]
     /\ \A c \in On(i) : rank[c] <= rank[m] \/ rank[p] <= rank[c]

Ranked(rank, top) ==
  /\ rank \in [Node -> 0 .. top] /\ rank[HEAD] = 0
  /\ \A b \in On(0) : rank[b] > 0
  /\ \A a, b \in On(0) : rank[a] = rank[b] => a = b
  /\ \A a, b \in On(0) : rank[a] < rank[b] => SizeOf[a] <= SizeOf[b]
  /\ \A i \in Level : \A m \in On(i) \cup {HEAD} : Follows(rank, m, i, forward[m][i])

(* Each level is part of the one below; level is the highest in use.       *)
Nested ==
  /\ \A i, j \in Level : i <= j => On(j) \subseteq On(i)
  /\ \A i \in Level : i > level => On(i) = {}
  /\ level > 0 => On(level) # {}

IInv == TypeOK /\ Nested /\ \E top \in Nat : \E rank : Ranked(rank, top)

(* A search for size s leaves level i at node w.                           *)
Turn(w, s, i) ==
  /\ w \in On(i) \cup {HEAD}
  /\ w = HEAD \/ SizeOf[w] < s
  /\ ~Ahead(w, i, s)
-----------------------------------------------------------------------------
(***************************************************************************)
(* Where a search turns.                                                   *)
(***************************************************************************)
(* Of nodes with numbers up to some bound one has the greatest.            *)
LEMMA Greatest ==
  ASSUME NEW S, S # {}, NEW top \in Nat, NEW rank, \A m \in S : rank[m] \in 0 .. top
  PROVE  \E w \in S : \A v \in S : rank[v] <= rank[w]
<1> DEFINE R == {ss \in Nat \X Nat : ss[1] < ss[2]}
           T == {top - rank[m] : m \in S}
<1>1. IsWellFoundedOn(R, Nat)
  BY NatLessThanWellFounded, Zenon DEF OpToRel
<1>2. ASSUME NEW a \in Nat, NEW b \in Nat, a < b PROVE <<a, b>> \in R
  BY <1>2
<1>3. T \subseteq Nat /\ T # {}
  OBVIOUS
<1> HIDE DEF R, T
<1>4. PICK x \in T : \A y \in T : ~(<<y, x>> \in R)
  BY <1>1, <1>3, WFMin
<1>5. PICK w \in S : x = top - rank[w]
  BY <1>4 DEF T
<1>6. ASSUME NEW v \in S, rank[v] > rank[w] PROVE FALSE
  <2>1. top - rank[v] \in T /\ top - rank[v] \in Nat /\ x \in Nat /\ top - rank[v] < x
    BY <1>3, <1>4, <1>5, <1>6 DEF T
  <2> QED BY <1>2, <1>4, <2>1
<1>7. \A v \in S : rank[v] <= rank[w]
  BY <1>6
<1> QED BY <1>7

(* What the constants are.                                                 *)
LEMMA Kinds ==
  /\ \A b \in Block : SizeOf[b] \in Nat /\ b # NIL /\ b # JUNK /\ b # HEAD /\ b \in Node
  /\ NIL \notin Node /\ JUNK \notin Node /\ HEAD \in Node /\ NIL # JUNK
  /\ Requests \subseteq Nat /\ SKIP_MAX_LEVEL \in Nat /\ 0 \in Level
BY SkipListAssumption DEF Node, Level

(* What a block or the head is followed by.                                *)
LEMMA NextOn ==
  ASSUME NEW top \in Nat, NEW rank, Ranked(rank, top), Nested,
         NEW i \in Level, NEW m \in On(i) \cup {HEAD}
  PROVE  /\ Follows(rank, m, i, forward[m][i])
         /\ m \in Node /\ rank[m] \in 0 .. top
         /\ On(i) \subseteq On(0) /\ On(i) \subseteq Block
         /\ forward[m][i] \in On(i) \cup {NIL}
         /\ forward[m][i] \in Block <=> forward[m][i] \in On(i)
<1>1. Follows(rank, m, i, forward[m][i])
  BY DEF Ranked
<1>2. m \in Node /\ rank[m] \in 0 .. top
  BY DEF Ranked, On, Node
<1>3. On(i) \subseteq On(0)
  BY Kinds DEF Nested, Level
<1>4. On(i) \subseteq Block
  BY DEF On
<1>5. forward[m][i] \in On(i) \cup {NIL}
  BY <1>1 DEF Follows
<1> QED BY <1>1, <1>2, <1>3, <1>4, <1>5, Kinds DEF Node

(* A level is left at one place only, wherever the search came from.       *)
LEMMA TurnUnique ==
  ASSUME NEW top \in Nat, NEW rank, Ranked(rank, top), Nested,
         NEW i \in Level, NEW s \in Int, NEW v, NEW w, Turn(v, s, i), Turn(w, s, i)
  PROVE  v = w
<1>1. ASSUME NEW x, NEW y, Turn(x, s, i), Turn(y, s, i), rank[x] < rank[y] PROVE FALSE
  <2>1. x \in On(i) \cup {HEAD} /\ y \in On(i) \cup {HEAD} /\ ~Ahead(x, i, s)
    BY <1>1 DEF Turn
  <2>2. rank[x] \in 0 .. top /\ rank[y] \in 0 .. top
    BY <2>1, NextOn
  <2>3. y \in On(i) /\ SizeOf[y] < s
    BY <1>1, <2>1, <2>2 DEF Turn, Ranked
  <2>4. PICK p : p = forward[x][i]
    OBVIOUS
  <2>5. p \in On(i) /\ rank[p] <= rank[y] /\ p \in On(0) /\ y \in On(0) /\ p \in Block
    BY <1>1, <2>1, <2>2, <2>3, <2>4, NextOn DEF Follows
  <2>6. SizeOf[p] <= SizeOf[y] /\ SizeOf[p] \in Nat /\ SizeOf[y] \in Nat
    <3>1. rank[p] \in 0 .. top
      BY <2>5, Kinds DEF Ranked
    <3> QED BY <2>2, <2>5, <3>1, Kinds DEF Ranked, On
  <2> QED BY <2>1, <2>3, <2>4, <2>5, <2>6 DEF Ahead
<1>2. v \in On(i) \cup {HEAD} /\ w \in On(i) \cup {HEAD}
  BY DEF Turn
<1>3. rank[v] \in 0 .. top /\ rank[w] \in 0 .. top
  BY <1>2, NextOn
<1>4. rank[v] = rank[w]
  BY <1>1, <1>3
<1>5. On(i) \subseteq On(0)
  BY <1>2, NextOn
<1> QED BY <1>2, <1>4, <1>5 DEF Ranked

(* And there is such a place.                                              *)
LEMMA TurnExists ==
  ASSUME NEW top \in Nat, NEW rank, Ranked(rank, top), Nested,
         NEW i \in Level, NEW s \in Int
  PROVE  \E w : Turn(w, s, i)
<1> DEFINE S == {HEAD} \cup {b \in On(i) : SizeOf[b] < s}
<1>1. \A m \in S : rank[m] \in 0 .. top
  BY NextOn
<1>2. PICK w \in S : \A v \in S : rank[v] <= rank[w]
  <2> HIDE DEF S
  <2>1. S # {}
    BY DEF S
  <2> QED BY <1>1, <2>1, Greatest
<1>3. ASSUME Ahead(w, i, s) PROVE FALSE
  <2>1. PICK p : p = forward[w][i]
    OBVIOUS
  <2>2. p \in On(i) /\ SizeOf[p] < s /\ rank[w] < rank[p]
    BY <1>3, <2>1, NextOn, Kinds DEF Ahead, Follows, Node
  <2>3. rank[p] <= rank[w] /\ rank[p] \in Int /\ rank[w] \in Int
    BY <1>1, <1>2, <2>2
  <2> QED BY <2>2, <2>3
<1> QED BY <1>2, <1>3 DEF Turn

-----------------------------------------------------------------------------
(***************************************************************************)
(* The recursive functions of the model.                                   *)
(***************************************************************************)
(* The walk of a search ends where the level is left.                      *)
LEMMA WalkTurns ==
  ASSUME NEW top \in Nat, NEW rank, Ranked(rank, top), Nested,
         NEW i \in Level, NEW s \in Int, NEW n \in On(i) \cup {HEAD},
         n = HEAD \/ SizeOf[n] < s
  PROVE  Turn(LastBelow(s, i, n), s, i)
<1> DEFINE Below == {m \in On(i) \cup {HEAD} : m = HEAD \/ SizeOf[m] < s}
<1>1. PICK w : Turn(w, s, i)
  BY TurnExists
<1>2. ASSUME NEW m \in Below, ~Ahead(m, i, s) PROVE m = w
  BY <1>1, <1>2, TurnUnique DEF Turn
<1>3. ASSUME NEW m \in Below, Ahead(m, i, s)
      PROVE  forward[m][i] \in Below /\ forward[m][i] \in Node /\ rank[m] < rank[forward[m][i]]
  BY <1>3, NextOn, Kinds DEF Ahead, Follows
<1>4. ASSUME NEW m \in Node \ Below PROVE ~Ahead(m, i, s)
  <2>1. CASE m \in On(i)
    <3>1. m # HEAD /\ SizeOf[m] >= s /\ SizeOf[m] \in Nat /\ m \in On(0)
      BY <1>4, <2>1, NextOn, Kinds
    <3>2. SUFFICES ASSUME NEW p \in Block, p = forward[m][i] PROVE SizeOf[p] >= s
      BY Kinds DEF Ahead
    <3>3. p \in On(0) /\ rank[m] < rank[p]
      BY <2>1, <3>2, NextOn, Kinds DEF Follows, Node
    <3>4. SizeOf[m] <= SizeOf[p]
      BY <3>1, <3>3 DEF Ranked
    <3> QED BY <3>1, <3>2, <3>4, Kinds
  <2>2. CASE m \notin On(i)
    <3>1. m \in Block /\ forward[m][i] = JUNK
      BY <1>4, <2>2 DEF Node, On
    <3> QED BY <3>1, SkipListAssumption DEF Ahead
  <2> QED BY <2>1, <2>2
<1> DEFINE Walk(g) == g = [m \in Node |-> IF Ahead(m, i, s) THEN g[forward[m][i]] ELSE m]
           g1 == [m \in Node |-> IF m \in Below THEN w ELSE m]
           walk == CHOOSE g : Walk(g)
<1>5. Walk(g1)
  <2> HIDE DEF Below
  <2>1. ASSUME NEW m \in Node
        PROVE  g1[m] = IF Ahead(m, i, s) THEN g1[forward[m][i]] ELSE m
    <3>1. CASE m \in Below
      BY <1>2, <1>3, <3>1
    <3>2. CASE m \notin Below
      BY <1>4, <3>2
    <3> QED BY <3>1, <3>2
  <2>2. g1 = [m \in Node |-> g1[m]]
    OBVIOUS
  <2> HIDE DEF g1
  <2> QED BY <2>1, <2>2
<1>6. Walk(walk)
  <2> HIDE DEF g1, Walk
  <2> QED BY <1>5
<1>7. LastBelow(s, i, n) = walk[n]
  BY DEF LastBelow
<1> HIDE DEF g1, walk
<1> DEFINE S == {m \in Below : walk[m] # w}
<1>8. \A m \in Below : m \in Node
  BY Kinds DEF On
<1>9. S = {}
  <2>1. SUFFICES ASSUME S # {} PROVE FALSE
    OBVIOUS
  <2>2. \A m \in S : rank[m] \in 0 .. top
    BY NextOn
  <2>3. PICK m \in S : \A v \in S : rank[v] <= rank[m]
    <3> HIDE DEF S
    <3> QED BY <2>1, <2>2, Greatest
  <2>4. m \in Below /\ walk[m] # w /\ m \in Node
    BY <1>8
  <2> HIDE DEF Below
  <2>5. walk[m] = IF Ahead(m, i, s) THEN walk[forward[m][i]] ELSE m
    BY <1>6, <2>4
  <2>6. Ahead(m, i, s) /\ walk[forward[m][i]] # w
    BY <1>2, <2>4, <2>5
  <2>7. forward[m][i] \in S /\ rank[m] < rank[forward[m][i]]
    BY <1>3, <2>4, <2>6
  <2>8. rank[forward[m][i]] <= rank[m] /\ rank[forward[m][i]] \in Int /\ rank[m] \in Int
    BY <2>2, <2>3, <2>7
  <2> QED BY <2>7, <2>8
<1>10. n \in Below
  OBVIOUS
<1> QED BY <1>1, <1>7, <1>9, <1>10

(* So the search for size s leaves each level where it should.             *)
LEMMA UpdateTurns ==
  ASSUME NEW top \in Nat, NEW rank, Ranked(rank, top), Nested, level \in Level, NEW s \in Int
  PROVE  \A i \in 0 .. level : Turn(Update(s)[i], s, i)
<1> DEFINE W(i) == CHOOSE w : Turn(w, s, i)
           Start(u, i) == IF i = level THEN HEAD ELSE u[i + 1]
           Searches(u) == u = [i \in 0 .. level |-> LastBelow(s, i, Start(u, i))]
           u1 == [i \in 0 .. level |-> W(i)]
           update == CHOOSE u : Searches(u)
<1>1. level \in Nat /\ 0 .. level \subseteq Level /\ level <= SKIP_MAX_LEVEL
  BY Kinds DEF Level
<1>2. ASSUME NEW i \in 0 .. level PROVE Turn(W(i), s, i)
  BY <1>1, TurnExists
<1> HIDE DEF W
<1>3. ASSUME NEW i \in 0 .. level, NEW n, i < level => Turn(n, s, i + 1), i = level => n = HEAD
      PROVE  Turn(LastBelow(s, i, n), s, i)
  <2>1. i \in Level
    BY <1>1
  <2>2. n \in On(i) \cup {HEAD} /\ (n = HEAD \/ SizeOf[n] < s)
    <3>1. CASE i = level
      BY <1>3, <3>1
    <3>2. CASE i # level
      <4>1. i < level /\ i + 1 \in Level /\ i <= i + 1
        BY <1>1, <3>2, Kinds DEF Level
      <4>2. On(i + 1) \subseteq On(i)
        BY <2>1, <4>1 DEF Nested
      <4> QED BY <1>3, <4>1, <4>2 DEF Turn
    <3> QED BY <3>1, <3>2
  <2> QED BY <2>1, <2>2, WalkTurns
<1>4. Searches(u1)
  <2>1. ASSUME NEW i \in 0 .. level PROVE u1[i] = LastBelow(s, i, Start(u1, i))
    <3>1. Turn(LastBelow(s, i, Start(u1, i)), s, i)
      <4>1. i < level => i + 1 \in 0 .. level /\ u1[i + 1] = W(i + 1)
        BY <1>1
      <4>2. (i < level => Turn(Start(u1, i), s, i + 1)) /\ (i = level => Start(u1, i) = HEAD)
        BY <1>1, <1>2, <4>1
      <4> HIDE DEF Start
      <4> QED BY <1>3, <4>2
    <3>2. \A v, w : Turn(v, s, i) /\ Turn(w, s, i) => v = w
      BY <1>1, TurnUnique
    <3>3. Turn(W(i), s, i) /\ u1[i] = W(i)
      BY <1>2
    <3> HIDE DEF u1, Start
    <3> QED BY <3>1, <3>2, <3>3
  <2>2. u1 = [i \in 0 .. level |-> u1[i]]
    OBVIOUS
  <2> HIDE DEF u1, Start
  <2> QED BY <2>1, <2>2
<1>5. Searches(update)
  <2> HIDE DEF u1, Searches
  <2> QED BY <1>4
<1>6. Update(s) = update
  BY DEF Update
<1> HIDE DEF u1, update
<1> DEFINE S == {i \in 0 .. level : ~Turn(update[i], s, i)}
<1>7. S = {}
  <2>1. SUFFICES ASSUME S # {} PROVE FALSE
    OBVIOUS
  <2>2. PICK i \in S : \A j \in S : j <= i
    <3>1. PICK id, l : id = [j \in S |-> j] /\ l = level
      OBVIOUS
    <3>2. \A j \in S : id[j] \in 0 .. l /\ id[j] = j
      BY <3>1
    <3>3. l \in Nat
      BY <1>1, <3>1
    <3>4. PICK S1 : S1 = S
      OBVIOUS
    <3> HIDE DEF S
    <3>5. PICK i \in S1 : \A j \in S1 : id[j] <= id[i]
      BY <2>1, <3>2, <3>3, <3>4, Greatest
    <3> QED BY <3>2, <3>4, <3>5
  <2>3. i \in 0 .. level /\ i < level => Turn(update[i + 1], s, i + 1)
    BY <1>1, <2>2
  <2>4. update[i] = LastBelow(s, i, Start(update, i))
    BY <1>5
  <2>5. Turn(LastBelow(s, i, Start(update, i)), s, i)
    <3>1. PICK n : n = Start(update, i)
      OBVIOUS
    <3> QED BY <1>3, <2>3, <3>1
  <2> QED BY <2>4, <2>5
<1> QED BY <1>6, <1>7

(* What is linked on a level is what has that level.                       *)
LEMMA LinkedIs ==
  ASSUME NEW top \in Nat, NEW rank, Ranked(rank, top), Nested, NEW i \in Level
  PROVE  Linked(i) = On(i)
<1> DEFINE After(m) == {x \in On(i) : rank[m] < rank[x]}
           All == Node \cup {NIL, JUNK}
           Chain(g) == g = [m \in All |-> IF m \in Node THEN {m} \cup g[forward[m][i]] ELSE {}]
           g1 == [m \in All |-> IF m \in On(i) \cup {HEAD} THEN {m} \cup After(m)
                                ELSE IF m \in Node THEN {m} ELSE {}]
           from == CHOOSE g : Chain(g)
<1>1. ASSUME NEW m \in On(i) \cup {HEAD}
      PROVE  /\ m \in Node /\ rank[m] \in 0 .. top
             /\ \/ forward[m][i] = NIL /\ After(m) = {}
                \/ /\ forward[m][i] \in On(i) /\ rank[m] < rank[forward[m][i]]
                   /\ After(m) = {forward[m][i]} \cup After(forward[m][i])
  <2>1. Follows(rank, m, i, forward[m][i]) /\ m \in Node /\ rank[m] \in 0 .. top
    BY NextOn
  <2>2. \A c \in On(i) : rank[c] \in 0 .. top /\ c \in On(0)
    BY NextOn
  <2>3. CASE forward[m][i] = NIL /\ \A c \in On(i) : rank[c] <= rank[m]
    BY <2>1, <2>2, <2>3
  <2>4. CASE ~(forward[m][i] = NIL /\ \A c \in On(i) : rank[c] <= rank[m])
    <3>1. PICK p : p = forward[m][i]
      OBVIOUS
    <3>2. /\ p \in On(i) /\ rank[m] < rank[p]
          /\ \A c \in On(i) : rank[c] <= rank[m] \/ rank[p] <= rank[c]
      BY <2>1, <2>4, <3>1 DEF Follows
    <3>3. \A c \in On(i) : rank[c] = rank[p] => c = p
      BY <2>2, <3>2 DEF Ranked
    <3>4. After(m) = {p} \cup After(p)
      BY <2>1, <2>2, <3>2, <3>3
    <3> QED BY <2>1, <3>1, <3>2, <3>4
  <2> QED BY <2>1, <2>3, <2>4
<1> HIDE DEF After
<1>2. \A m \in Block : m \notin On(i) => forward[m][i] = JUNK
  BY DEF On
<1>3. Chain(g1)
  <2>1. ASSUME NEW m \in All
        PROVE  g1[m] = IF m \in Node THEN {m} \cup g1[forward[m][i]] ELSE {}
    <3>1. CASE m \in On(i) \cup {HEAD}
      <4>1. /\ m \in Node /\ g1[m] = {m} \cup After(m)
        BY <1>1, <3>1
      <4>2. CASE forward[m][i] = NIL /\ After(m) = {}
        BY <4>1, <4>2, Kinds DEF On
      <4>3. CASE forward[m][i] \in On(i) /\ After(m) = {forward[m][i]} \cup After(forward[m][i])
        BY <4>1, <4>3, <1>1
      <4> QED BY <1>1, <3>1, <4>2, <4>3
    <3>2. CASE m \notin On(i) \cup {HEAD} /\ m \in Node
      <4>1. forward[m][i] = JUNK
        BY <1>2, <3>2 DEF Node
      <4> QED BY <3>2, <4>1, Kinds DEF On
    <3>3. CASE m \notin Node
      BY <1>1, <3>3
    <3> QED BY <3>1, <3>2, <3>3
  <2>2. g1 = [m \in All |-> g1[m]]
    OBVIOUS
  <2> HIDE DEF g1, All
  <2> QED BY <2>1, <2>2
<1>4. Chain(from)
  <2> HIDE DEF g1, Chain
  <2> QED BY <1>3
<1>5. Linked(i) = from[HEAD] \ {HEAD}
  BY DEF Linked
<1> HIDE DEF g1, from
<1> DEFINE S == {m \in On(i) \cup {HEAD} : from[m] # {m} \cup After(m)}
<1>6. S = {}
  <2>1. SUFFICES ASSUME S # {} PROVE FALSE
    OBVIOUS
  <2>2. \A m \in S : rank[m] \in 0 .. top
    BY <1>1
  <2>3. PICK m \in S : \A v \in S : rank[v] <= rank[m]
    <3> HIDE DEF S
    <3> QED BY <2>1, <2>2, Greatest
  <2>4. m \in Node /\ from[m] = {m} \cup from[forward[m][i]]
    BY <1>1, <1>4, <2>3
  <2>5. CASE forward[m][i] = NIL /\ After(m) = {}
    <3>1. from[NIL] = {}
      BY <1>4, Kinds
    <3> QED BY <2>4, <2>5, <3>1
  <2>6. CASE /\ forward[m][i] \in On(i) /\ rank[m] < rank[forward[m][i]]
             /\ After(m) = {forward[m][i]} \cup After(forward[m][i])
    <3>1. forward[m][i] \in S
      BY <2>4, <2>6
    <3>2. rank[forward[m][i]] <= rank[m] /\ rank[forward[m][i]] \in Int /\ rank[m] \in Int
      BY <2>2, <2>3, <3>1
    <3> QED BY <2>6, <3>2
  <2> QED BY <1>1, <2>3, <2>5, <2>6
<1>7. After(HEAD) = On(i)
  <2>1. \A x \in On(i) : rank[x] > 0
    BY NextOn DEF Ranked
  <2> QED BY <2>1 DEF After, Ranked
<1>8. from[HEAD] = {HEAD} \cup On(i)
  BY <1>6, <1>7
<1>9. HEAD \notin On(i)
  BY Kinds DEF On
<1> QED BY <1>5, <1>8, <1>9

-----------------------------------------------------------------------------
(***************************************************************************)
(* The search.                                                             *)
(***************************************************************************)
(* What is before the turn is smaller than s, what is after it is not.     *)
LEMMA FirstFit ==
  ASSUME NEW top \in Nat, NEW rank, Ranked(rank, top), Nested,
         NEW i \in Level, NEW s \in Int, NEW w, Turn(w, s, i)
  PROVE  /\ w \in On(i) \cup {HEAD} /\ (w = HEAD \/ SizeOf[w] < s)
         /\ \A c \in On(i) : SizeOf[c] < s <=> rank[c] <= rank[w]
         /\ \/ forward[w][i] = NIL /\ \A c \in On(i) : SizeOf[c] < s
            \/ /\ forward[w][i] \in On(i) /\ ~(SizeOf[forward[w][i]] < s)
               /\ \A c \in On(i) : SizeOf[c] < s \/ rank[forward[w][i]] <= rank[c]
<1>1. w \in On(i) \cup {HEAD} /\ (w = HEAD \/ SizeOf[w] < s) /\ ~Ahead(w, i, s)
  BY DEF Turn
<1>2. PICK p : p = forward[w][i]
  OBVIOUS
<1>3. \/ p = NIL /\ \A c \in On(i) : rank[c] <= rank[w]
      \/ /\ p \in On(i) /\ rank[w] < rank[p] /\ ~(SizeOf[p] < s)
         /\ \A c \in On(i) : rank[c] <= rank[w] \/ rank[p] <= rank[c]
  BY <1>1, <1>2, NextOn DEF Follows, Ahead
<1>4. /\ \A c \in On(i) : c \in On(0) /\ rank[c] \in 1 .. top /\ SizeOf[c] \in Int
      /\ rank[w] \in 0 .. top
  <2>1. \A c \in On(i) : c \in On(0) /\ rank[c] \in 0 .. top /\ SizeOf[c] \in Int
    BY NextOn, Kinds
  <2>2. \A c \in On(0) : rank[c] > 0
    BY DEF Ranked
  <2>3. rank[w] \in 0 .. top
    BY <1>1, NextOn
  <2> QED BY <2>1, <2>2, <2>3
<1>5. \A a, b \in On(i) : rank[a] <= rank[b] => SizeOf[a] <= SizeOf[b]
  <2>1. SUFFICES ASSUME NEW a \in On(i), NEW b \in On(i), rank[a] <= rank[b]
                 PROVE  SizeOf[a] <= SizeOf[b]
    OBVIOUS
  <2>2. CASE rank[a] = rank[b]
    BY <1>4, <2>2 DEF Ranked
  <2>3. CASE rank[a] < rank[b]
    BY <1>4, <2>3 DEF Ranked
  <2> QED BY <1>4, <2>1, <2>2, <2>3
<1>6. ASSUME NEW c \in On(i), SizeOf[c] < s PROVE rank[c] <= rank[w]
  <2>1. SUFFICES ASSUME rank[w] < rank[c] PROVE FALSE
    BY <1>4
  <2>2. p \in On(i) /\ rank[p] <= rank[c] /\ ~(SizeOf[p] < s)
    BY <1>3, <1>4, <2>1
  <2>3. SizeOf[p] <= SizeOf[c] /\ SizeOf[p] \in Int /\ SizeOf[c] \in Int
    BY <1>4, <1>5, <2>2
  <2> QED BY <1>6, <2>2, <2>3
<1>7. ASSUME NEW c \in On(i), rank[c] <= rank[w] PROVE SizeOf[c] < s
  <2>1. w # HEAD
    BY <1>4, <1>7 DEF Ranked
  <2>2. SizeOf[c] <= SizeOf[w] /\ SizeOf[w] < s /\ SizeOf[w] \in Int /\ SizeOf[c] \in Int
    BY <1>1, <1>4, <1>5, <1>7, <2>1
  <2> QED BY <2>2
<1> QED BY <1>1, <1>2, <1>3, <1>6, <1>7

(* Where the search leaves each level; above level, at the head.           *)
LEMMA Searched ==
  ASSUME NEW top \in Nat, NEW rank, Ranked(rank, top), Nested, level \in Level, NEW s \in Int
  PROVE  \A i \in Level : Turn(IF i <= level THEN Update(s)[i] ELSE HEAD, s, i)
<1> SUFFICES ASSUME NEW i \in Level
             PROVE  Turn(IF i <= level THEN Update(s)[i] ELSE HEAD, s, i)
  OBVIOUS
<1>1. CASE i <= level
  <2>1. i \in 0 .. level
    BY <1>1, Kinds DEF Level
  <2> QED BY <1>1, <2>1, UpdateTurns
<1>2. CASE ~(i <= level)
  <2>1. i > level
    BY <1>2, Kinds DEF Level
  <2>2. On(i) = {}
    BY <2>1 DEF Nested
  <2>3. forward[HEAD][i] \notin Block
    BY <2>2, NextOn
  <2> QED BY <1>2, <2>3 DEF Turn, Ahead
<1> QED BY <1>1, <1>2

(* The first block of its size is what the search for that size comes to,  *)
(* on every level the block has.                                           *)
LEMMA FirstOfSize ==
  ASSUME NEW top \in Nat, NEW rank, Ranked(rank, top), Nested, NEW b \in On(0),
         \A c \in On(0) : SizeOf[c] < SizeOf[b] \/ rank[b] <= rank[c],
         NEW i \in Level, NEW w, Turn(w, SizeOf[b], i)
  PROVE  /\ w # b /\ w \in On(i) \cup {HEAD}
         /\ forward[w][i] = b <=> b \in On(i)
<1>1. SizeOf[b] \in Int /\ b # HEAD /\ b # NIL
  BY Kinds DEF On
<1>2. PICK p : p = forward[w][i]
  OBVIOUS
<1>3. /\ w \in On(i) \cup {HEAD} /\ (w = HEAD \/ SizeOf[w] < SizeOf[b])
      /\ \/ p = NIL /\ \A c \in On(i) : SizeOf[c] < SizeOf[b]
         \/ /\ p \in On(i) /\ ~(SizeOf[p] < SizeOf[b])
            /\ \A c \in On(i) : SizeOf[c] < SizeOf[b] \/ rank[p] <= rank[c]
  BY <1>1, <1>2, FirstFit
<1>4. w # b
  BY <1>1, <1>3
<1>5. ASSUME b \in On(i) PROVE p = b
  <2>1. p \in On(i) /\ p \in On(0) /\ rank[p] <= rank[b] /\ rank[b] <= rank[p]
    BY <1>1, <1>3, <1>5, NextOn
  <2>2. rank[p] \in Int /\ rank[b] \in Int
    BY <1>5, <2>1, NextOn
  <2> QED BY <2>1, <2>2 DEF Ranked
<1> QED BY <1>1, <1>2, <1>3, <1>4, <1>5

(* findbest: a best fit, the first of its size, or nothing when there is   *)
(* none.                                                                   *)
LEMMA FindBestFinds ==
  ASSUME NEW top \in Nat, NEW rank, Ranked(rank, top), Nested, level \in Level, NEW s \in Int
  PROVE  \/ FindBest(s) = NIL /\ BestFits(On(0), SizeOf, s) = {}
         \/ /\ FindBest(s) \in BestFits(On(0), SizeOf, s)
            /\ \A c \in On(0) :
                 SizeOf[c] < SizeOf[FindBest(s)] \/ rank[FindBest(s)] <= rank[c]
<1>1. PICK w : w = Update(s)[0]
  OBVIOUS
<1>2. Turn(w, s, 0)
  <2>1. 0 <= level
    BY Kinds DEF Level
  <2> QED BY <1>1, <2>1, Searched, Kinds
<1>3. PICK p : p = forward[w][0]
  OBVIOUS
<1>4. FindBest(s) = p
  BY <1>1, <1>3 DEF FindBest
<1>5. \A c \in On(0) : SizeOf[c] \in Int
  BY Kinds DEF On
<1>6. \/ p = NIL /\ \A c \in On(0) : SizeOf[c] < s
      \/ /\ p \in On(0) /\ ~(SizeOf[p] < s)
         /\ \A c \in On(0) : SizeOf[c] < s \/ rank[p] <= rank[c]
  BY <1>2, <1>3, FirstFit, Kinds
<1>7. CASE p = NIL /\ \A c \in On(0) : SizeOf[c] < s
  BY <1>4, <1>5, <1>7 DEF BestFits
<1>8. CASE /\ p \in On(0) /\ ~(SizeOf[p] < s)
           /\ \A c \in On(0) : SizeOf[c] < s \/ rank[p] <= rank[c]
  <2>1. \A c \in On(0) : rank[p] <= rank[c] => SizeOf[p] <= SizeOf[c]
    <3>1. \A c \in On(0) : rank[c] \in Int
      BY NextOn, Kinds
    <3>2. SUFFICES ASSUME NEW c \in On(0), rank[p] <= rank[c] PROVE SizeOf[p] <= SizeOf[c]
      OBVIOUS
    <3>3. rank[p] = rank[c] \/ rank[p] < rank[c]
      BY <1>8, <3>1, <3>2
    <3> QED BY <1>5, <1>8, <3>3 DEF Ranked
  <2>2. p \in BestFits(On(0), SizeOf, s)
    BY <1>5, <1>8, <2>1 DEF BestFits
  <2>3. \A c \in On(0) : SizeOf[c] < SizeOf[p] \/ rank[p] <= rank[c]
    BY <1>5, <1>8
  <2> QED BY <1>4, <2>2, <2>3
<1> QED BY <1>6, <1>7, <1>8

-----------------------------------------------------------------------------
(***************************************************************************)
(* The steps.                                                              *)
(***************************************************************************)
(* Where insertion has changed pointers: b is linked on the levels up to   *)
(* lvl, each time behind the node w[i] at which the search turned down.    *)
Inserted(b, lvl, w) ==
  forward' = [n \in Node |-> [i \in Level |->
                IF i <= lvl /\ n = b THEN forward[w[i]][i]
                ELSE IF i <= lvl /\ n = w[i] THEN b
                ELSE forward[n][i]]]

(* b has the levels up to lvl now, and no other block changed its own.     *)
LEMMA InsertOn ==
  ASSUME NEW top \in Nat, NEW rank, Ranked(rank, top), Nested, NEW b \in Block, b \notin On(0),
         NEW lvl \in Level, NEW w, \A i \in Level : Turn(w[i], SizeOf[b], i),
         Inserted(b, lvl, w)
  PROVE  \A i \in Level : On(i)' = IF i <= lvl THEN On(i) \cup {b} ELSE On(i)
<1> SUFFICES ASSUME NEW i \in Level
             PROVE  On(i)' = IF i <= lvl THEN On(i) \cup {b} ELSE On(i)
  OBVIOUS
<1>1. \A c \in Block : forward'[c][i] = IF i <= lvl /\ c = b THEN forward[w[i]][i]
                                        ELSE IF i <= lvl /\ c = w[i] THEN b
                                        ELSE forward[c][i]
  BY Kinds DEF Inserted
<1>2. b \notin On(i)
  BY NextOn
<1>3. w[i] \in On(i) \cup {HEAD} /\ forward[w[i]][i] # JUNK
  <2>1. w[i] \in On(i) \cup {HEAD}
    BY DEF Turn
  <2>2. forward[w[i]][i] \in On(i) \cup {NIL}
    BY <2>1, NextOn
  <2> QED BY <2>1, <2>2, Kinds DEF On
<1>4. \A c \in Block : forward'[c][i] # JUNK <=> c \in On(i) \/ (i <= lvl /\ c = b)
  BY <1>1, <1>2, <1>3, Kinds DEF On
<1> QED BY <1>4 DEF On

(* The new block is ranked behind all smaller ones and before all others.  *)
LEMMA InsertRanked ==
  ASSUME NEW top \in Nat, NEW rank, Ranked(rank, top), Nested, NEW b \in Block, b \notin On(0),
         NEW lvl \in Level, NEW w, \A i \in Level : Turn(w[i], SizeOf[b], i),
         Inserted(b, lvl, w)
  PROVE  \E t \in Nat : \E r : Ranked(r, t)'
<1> DEFINE s == SizeOf[b]
           r0 == rank[w[0]] + 1
           r1 == [n \in Node |-> IF n = b THEN r0
                                 ELSE IF n \in On(0) /\ ~(SizeOf[n] < s) THEN rank[n] + 1
                                 ELSE IF n \in On(0) \cup {HEAD} THEN rank[n] ELSE 0]
<1>1. /\ \A c \in On(0) : c \in Node /\ c # HEAD /\ c # b /\ rank[c] \in 1 .. top
                          /\ SizeOf[c] \in Int
      /\ b # HEAD /\ b \in Node /\ s \in Int /\ HEAD \in Node /\ rank[HEAD] = 0
  <2>1. \A c \in On(0) : c \in Node /\ c # HEAD /\ c # b /\ SizeOf[c] \in Int
    BY Kinds DEF On
  <2>2. \A c \in On(0) : rank[c] \in 0 .. top /\ rank[c] > 0
    BY <2>1 DEF Ranked
  <2> QED BY <2>1, <2>2, Kinds DEF Ranked
<1>2. /\ r0 \in 1 .. top + 1
      /\ \A c \in On(0) : SizeOf[c] < s <=> rank[c] <= rank[w[0]]
  <2>1. Turn(w[0], s, 0) /\ 0 \in Level
    BY Kinds
  <2>2. PICK v : v = w[0]
    OBVIOUS
  <2>3. v \in On(0) \cup {HEAD} /\ \A c \in On(0) : SizeOf[c] < s <=> rank[c] <= rank[v]
    BY <1>1, <2>1, <2>2, FirstFit
  <2>4. rank[v] \in 0 .. top
    BY <1>1, <2>3
  <2> QED BY <2>2, <2>3, <2>4
<1>3. /\ \A c \in On(0) : SizeOf[c] < s => r1[c] = rank[c] /\ r1[c] < r0
      /\ \A c \in On(0) : ~(SizeOf[c] < s) => r1[c] = rank[c] + 1 /\ r1[c] > r0
      /\ r1[b] = r0 /\ r1[HEAD] = 0
  <2>1. HEAD \notin On(0)
    BY <1>1
  <2> HIDE DEF r0, s
  <2>2. /\ \A c \in On(0) : SizeOf[c] < s => r1[c] = rank[c]
        /\ \A c \in On(0) : ~(SizeOf[c] < s) => r1[c] = rank[c] + 1
        /\ r1[b] = r0 /\ r1[HEAD] = 0
    BY <1>1, <2>1
  <2>3. \A c \in On(0) : rank[c] <= rank[w[0]] <=> rank[c] < r0
    <3>1. r0 = rank[w[0]] + 1 /\ rank[w[0]] \in Int
      <4>1. w[0] \in On(0) \cup {HEAD}
        BY Kinds DEF Turn
      <4> QED BY <1>1, <4>1 DEF r0
    <3> QED BY <1>1, <3>1
  <2> HIDE DEF r1
  <2> QED BY <1>1, <1>2, <2>2, <2>3
<1>4. r1 \in [Node -> 0 .. top + 1]
  <2>1. ASSUME NEW n \in Node PROVE r1[n] \in 0 .. top + 1
    <3> HIDE DEF r0
    <3> QED BY <1>1, <1>2
  <2>2. r1 = [n \in Node |-> r1[n]]
    OBVIOUS
  <2> HIDE DEF r1
  <2> QED BY <2>1, <2>2
<1> HIDE DEF r1
<1>5. PICK r : r = r1
  OBVIOUS
<1>6. /\ \A c \in On(0) : SizeOf[c] < s => r[c] = rank[c] /\ r[c] < r0
      /\ \A c \in On(0) : ~(SizeOf[c] < s) => r[c] = rank[c] + 1 /\ r[c] > r0
      /\ r[b] = r0 /\ r[HEAD] = 0
  BY <1>3, <1>5
<1>7. r \in [Node -> 0 .. top + 1]
  BY <1>4, <1>5
<1>8. \A x, y \in On(0) : rank[x] <= rank[y] => r[x] <= r[y]
  BY <1>1, <1>2, <1>6
<1>9. \A x, y \in On(0) : rank[x] < rank[y] => r[x] < r[y]
  BY <1>1, <1>2, <1>6
<1>10. On(0)' = On(0) \cup {b} /\ (\A i \in Level : On(i)' = IF i <= lvl THEN On(i) \cup {b} ELSE On(i))
  <2>1. \A i \in Level : On(i)' = IF i <= lvl THEN On(i) \cup {b} ELSE On(i)
    BY InsertOn
  <2>2. 0 \in Level /\ 0 <= lvl
    BY Kinds DEF Level
  <2> QED BY <2>1, <2>2
<1>11. \A c \in On(0)' : r[c] > 0
  <2>1. \A c \in On(0) : r[c] > 0
    BY <1>1, <1>6
  <2> QED BY <1>2, <1>6, <1>10, <2>1
<1>12. \A x, y \in On(0)' : r[x] = r[y] => x = y
  <2>1. \A x, y \in On(0) : r[x] = r[y] => x = y
    <3>1. \A x, y \in On(0) : rank[x] = rank[y] \/ rank[x] < rank[y] \/ rank[y] < rank[x]
      BY <1>1
    <3>2. \A x \in On(0) : r[x] \in Int
      BY <1>1, <1>6
    <3>3. \A x, y \in On(0) : rank[x] = rank[y] => x = y
      BY DEF Ranked
    <3> QED BY <1>9, <3>1, <3>2, <3>3
  <2>2. \A x \in On(0) : r[x] # r0
    BY <1>1, <1>2, <1>6
  <2> QED BY <1>6, <1>10, <2>1, <2>2
<1>13. \A x, y \in On(0)' : r[x] < r[y] => SizeOf[x] <= SizeOf[y]
  <2>1. ASSUME NEW x \in On(0), NEW y \in On(0), r[x] < r[y] PROVE SizeOf[x] <= SizeOf[y]
    <3>1. rank[x] < rank[y]
      <4>1. rank[x] \in Int /\ rank[y] \in Int /\ r[x] \in Int /\ r[y] \in Int
        BY <1>1, <1>6
      <4> QED BY <1>8, <2>1, <4>1
    <3> QED BY <3>1 DEF Ranked
  <2>2. ASSUME NEW x \in On(0), r[x] < r0 PROVE SizeOf[x] <= s
    BY <1>1, <1>2, <1>6, <2>2
  <2>3. ASSUME NEW x \in On(0), r0 < r[x] PROVE s <= SizeOf[x]
    BY <1>1, <1>2, <1>6, <2>3
  <2> HIDE DEF r0
  <2> QED BY <1>1, <1>2, <1>6, <1>10, <2>1, <2>2, <2>3
<1>14. ASSUME NEW i \in Level, NEW m \in On(i)' \cup {HEAD}
       PROVE  Follows(r, m, i, forward[m][i])'
  <2>1. /\ w[i] \in On(i) \cup {HEAD} /\ (w[i] = HEAD \/ SizeOf[w[i]] < s)
        /\ \A c \in On(i) : SizeOf[c] < s <=> rank[c] <= rank[w[i]]
        /\ \/ forward[w[i]][i] = NIL /\ \A c \in On(i) : SizeOf[c] < s
           \/ /\ forward[w[i]][i] \in On(i) /\ ~(SizeOf[forward[w[i]][i]] < s)
              /\ \A c \in On(i) : SizeOf[c] < s \/ rank[forward[w[i]][i]] <= rank[c]
    <3>1. PICK v : v = w[i]
      OBVIOUS
    <3>2. Turn(v, s, i)
      BY <3>1
    <3>3. /\ v \in On(i) \cup {HEAD} /\ (v = HEAD \/ SizeOf[v] < s)
          /\ \A c \in On(i) : SizeOf[c] < s <=> rank[c] <= rank[v]
          /\ \/ forward[v][i] = NIL /\ \A c \in On(i) : SizeOf[c] < s
             \/ /\ forward[v][i] \in On(i) /\ ~(SizeOf[forward[v][i]] < s)
                /\ \A c \in On(i) : SizeOf[c] < s \/ rank[forward[v][i]] <= rank[c]
      BY <1>1, <3>2, FirstFit
    <3> QED BY <3>1, <3>3
  <2>2. On(i) \subseteq On(0) /\ b \notin On(i)
    BY NextOn
  <2>3. forward'[m][i] = IF i <= lvl /\ m = b THEN forward[w[i]][i]
                         ELSE IF i <= lvl /\ m = w[i] THEN b ELSE forward[m][i]
    <3>1. m \in Node
      BY <1>1, <1>10, <2>2
    <3> QED BY <3>1 DEF Inserted
  <2>4. CASE i <= lvl /\ m = b
    <3>1. forward'[m][i] = forward[w[i]][i] /\ On(i)' = On(i) \cup {b}
      BY <1>10, <2>3, <2>4
    <3>2. CASE forward[w[i]][i] = NIL /\ \A c \in On(i) : SizeOf[c] < s
      <4>1. \A c \in On(i) \cup {b} : r[c] <= r[b]
        BY <1>1, <1>2, <1>6, <2>2, <3>2
      <4> QED BY <2>4, <3>1, <3>2, <4>1 DEF Follows
    <3>3. CASE /\ forward[w[i]][i] \in On(i) /\ ~(SizeOf[forward[w[i]][i]] < s)
               /\ \A c \in On(i) : SizeOf[c] < s \/ rank[forward[w[i]][i]] <= rank[c]
      <4>1. PICK p : p = forward[w[i]][i]
        OBVIOUS
      <4>2. p \in On(i) /\ ~(SizeOf[p] < s) /\ \A c \in On(i) : SizeOf[c] < s \/ rank[p] <= rank[c]
        BY <3>3, <4>1
      <4>3. r[b] < r[p]
        BY <1>1, <1>2, <1>6, <2>2, <4>2
      <4>4. \A c \in On(i) \cup {b} : r[c] <= r[b] \/ r[p] <= r[c]
        BY <1>1, <1>2, <1>6, <1>8, <2>2, <4>2
      <4> QED BY <2>4, <3>1, <4>1, <4>2, <4>3, <4>4 DEF Follows
    <3> QED BY <2>1, <3>2, <3>3
  <2>5. CASE i <= lvl /\ m # b /\ m = w[i]
    <3>1. forward'[m][i] = b /\ On(i)' = On(i) \cup {b}
      BY <1>10, <2>3, <2>5
    <3>2. r[m] < r[b]
      BY <1>1, <1>2, <1>6, <2>1, <2>2, <2>5
    <3>3. \A c \in On(i) \cup {b} : r[c] <= r[m] \/ r[b] <= r[c]
      <4>1. CASE m = HEAD
        BY <1>1, <1>2, <1>6, <2>1, <2>2, <2>5, <4>1
      <4>2. CASE m # HEAD
        <5>1. m \in On(i) /\ m \in On(0)
          BY <2>1, <2>2, <2>5, <4>2
        <5> QED BY <1>1, <1>2, <1>6, <1>8, <2>1, <2>2, <2>5, <5>1
      <4> QED BY <4>1, <4>2
    <3> QED BY <3>1, <3>2, <3>3 DEF Follows
  <2>6. CASE m # b /\ ~(i <= lvl /\ m = w[i])
    <3>1. PICK p : p = forward[m][i]
      OBVIOUS
    <3>2. forward'[m][i] = p /\ m \in On(i) \cup {HEAD}
      BY <1>10, <2>3, <2>6, <3>1
    <3>3. Follows(rank, m, i, p)
      BY <3>1, <3>2, NextOn
    <3>4. /\ \A c \in On(i) : rank[c] <= rank[m] => r[c] <= r[m]
          /\ \A c \in On(i) : rank[m] < rank[c] => r[m] < r[c]
      <4>1. CASE m = HEAD
        BY <1>1, <1>2, <1>6, <2>2, <4>1
      <4>2. CASE m # HEAD
        BY <1>8, <1>9, <2>2, <3>2, <4>2
      <4> QED BY <4>1, <4>2
    <3>5. \A c, d \in On(i) : rank[c] <= rank[d] => r[c] <= r[d]
      BY <1>8, <2>2
    <3>6. CASE ~(i <= lvl)
      <4>1. On(i)' = On(i)
        BY <1>10, <3>6
      <4> QED BY <3>2, <3>3, <3>4, <3>5, <4>1 DEF Follows
    <3>7. CASE i <= lvl
      <4>1. On(i)' = On(i) \cup {b} /\ m # w[i]
        BY <1>10, <2>6, <3>7
      <4>2. CASE m # HEAD /\ ~(SizeOf[m] < s)
        <5>1. r[b] <= r[m]
          BY <1>1, <1>2, <1>6, <2>2, <3>2, <4>2
        <5> QED BY <3>2, <3>3, <3>4, <3>5, <4>1, <5>1 DEF Follows
      <4>3. CASE m = HEAD \/ SizeOf[m] < s
        <5>1. rank[m] < rank[w[i]] /\ w[i] \in On(i)
          <6>1. CASE m = HEAD
            BY <1>1, <2>1, <2>2, <4>1, <6>1
          <6>2. CASE m # HEAD /\ SizeOf[m] < s
            <7>1. m \in On(i) /\ m \in On(0) /\ rank[m] <= rank[w[i]] /\ rank[m] \in 1 .. top
              BY <1>1, <2>1, <2>2, <3>2, <6>2
            <7>2. w[i] \in On(i) /\ w[i] \in On(0) /\ rank[w[i]] \in 1 .. top
              BY <1>1, <2>1, <2>2, <7>1
            <7>3. rank[m] # rank[w[i]]
              BY <4>1, <7>1, <7>2 DEF Ranked
            <7> QED BY <7>1, <7>2, <7>3
          <6> QED BY <4>3, <6>1, <6>2
        <5>2. p \in On(i) /\ rank[m] < rank[p]
              /\ \A c \in On(i) : rank[c] <= rank[m] \/ rank[p] <= rank[c]
          <6>1. rank[m] \in Int /\ rank[w[i]] \in Int
            BY <1>1, <2>2, <3>2, <5>1
          <6> QED BY <3>3, <5>1, <6>1 DEF Follows
        <5>3. rank[p] <= rank[w[i]]
          BY <1>1, <2>2, <3>2, <5>1, <5>2
        <5>4. SizeOf[p] < s
          BY <2>1, <5>2, <5>3
        <5>5. r[p] <= r[b]
          BY <1>1, <1>2, <1>6, <2>2, <5>2, <5>4
        <5> QED BY <3>2, <3>4, <3>5, <4>1, <5>2, <5>5 DEF Follows
      <4> QED BY <4>2, <4>3
    <3> QED BY <3>6, <3>7
  <2> QED BY <1>1, <1>10, <2>2, <2>4, <2>5, <2>6
<1>15. Ranked(r, top + 1)'
  BY <1>6, <1>7, <1>11, <1>12, <1>13, <1>14 DEF Ranked
<1> QED BY <1>15

(* Insertion keeps the invariant.                                          *)
LEMMA InsertStep ==
  ASSUME IInv, NEW b \in Block, NEW lvl \in Level, Insert(b, lvl)
  PROVE  IInv' /\ b \notin On(0) /\ On(0)' = On(0) \cup {b} /\ found' = found
<1>1. PICK top \in Nat : \E rank : Ranked(rank, top)
  BY DEF IInv
<1>2. PICK rank : Ranked(rank, top)
  BY <1>1
<1>3. TypeOK /\ Nested /\ level \in Level
  BY DEF IInv, TypeOK
<1>4. b \notin On(0) /\ found' = found /\ level' = IF lvl > level THEN lvl ELSE level
  BY <1>2, <1>3, LinkedIs, Kinds DEF Insert
<1>5. PICK w : w = [i \in Level |-> IF i <= level THEN Update(SizeOf[b])[i] ELSE HEAD]
  OBVIOUS
<1>6. SizeOf[b] \in Int
  BY Kinds
<1>7. \A i \in Level : Turn(w[i], SizeOf[b], i)
  BY <1>2, <1>3, <1>5, <1>6, Searched
<1>8. Inserted(b, lvl, w)
  <2> DEFINE u == Update(SizeOf[b])
  <2>1. forward' = [n \in Node |-> [i \in Level |->
                      IF i <= lvl /\ n = b
                      THEN forward[IF i <= level THEN u[i] ELSE HEAD][i]
                      ELSE IF i <= lvl /\ n = (IF i <= level THEN u[i] ELSE HEAD) THEN b
                      ELSE forward[n][i]]]
    BY DEF Insert
  <2> HIDE DEF u
  <2>2. \A i \in Level : w[i] = IF i <= level THEN u[i] ELSE HEAD
    BY <1>5 DEF u
  <2> QED BY <2>1, <2>2 DEF Inserted
<1>9. \A i \in Level : On(i)' = IF i <= lvl THEN On(i) \cup {b} ELSE On(i)
  BY <1>2, <1>3, <1>4, <1>7, <1>8, InsertOn
<1>10. \E t \in Nat : \E r : Ranked(r, t)'
  BY <1>2, <1>3, <1>4, <1>7, <1>8, InsertRanked
<1>11. TypeOK'
  <2>1. \A i \in Level : w[i] \in Node
    <3>1. \A i \in Level : On(i) \subseteq Block
      BY DEF On
    <3> QED BY <1>7, <3>1, Kinds DEF Turn
  <2>2. forward \in [Node -> [Level -> Block \cup {NIL, JUNK}]] /\ found \in Block \cup {NIL}
    BY <1>3 DEF TypeOK
  <2>3. forward' \in [Node -> [Level -> Block \cup {NIL, JUNK}]]
    BY <1>8, <2>1, <2>2 DEF Inserted
  <2>4. level' \in Level
    BY <1>3, <1>4
  <2> QED BY <1>4, <2>2, <2>3, <2>4 DEF TypeOK
<1>12. Nested'
  <2>1. \A i, j \in Level : i <= j => On(j)' \subseteq On(i)'
    <3>1. \A i, j \in Level : i <= j /\ j <= lvl => i <= lvl
      BY Kinds DEF Level
    <3> QED BY <1>3, <1>9, <3>1 DEF Nested
  <2>2. \A i \in Level : i > level' => On(i)' = {}
    <3>1. \A i \in Level : i > level' => i > level /\ ~(i <= lvl)
      BY <1>3, <1>4, Kinds DEF Level
    <3> QED BY <1>3, <1>9, <3>1 DEF Nested
  <2>3. (level > 0 => On(level) # {})'
    <3>1. PICK l : l = level'
      OBVIOUS
    <3>2. l \in Level /\ On(l)' = IF l <= lvl THEN On(l) \cup {b} ELSE On(l)
      BY <1>3, <1>4, <1>9, <3>1
    <3>3. l > 0 => On(l)' # {}
      <4>1. CASE l = lvl
        BY <3>2, <4>1, Kinds DEF Level
      <4>2. CASE l = level
        BY <1>3, <3>2, <4>2 DEF Nested
      <4> QED BY <1>4, <3>1, <4>1, <4>2
    <3> QED BY <3>1, <3>3 DEF On
  <2> QED BY <2>1, <2>2, <2>3 DEF Nested
<1>13. On(0)' = On(0) \cup {b}
  <2>1. 0 \in Level /\ 0 <= lvl
    BY Kinds DEF Level
  <2> QED BY <1>9, <2>1
<1> QED BY <1>4, <1>10, <1>11, <1>12, <1>13 DEF IInv

(* Where deletion has changed pointers: the nodes w[i] before b on its     *)
(* levels point past it, and b itself is forgotten.                        *)
Deleted(b, w) ==
  forward' = [n \in Node |-> [i \in Level |->
                IF n = b THEN JUNK
                ELSE IF b \in On(i) /\ n = w[i] THEN forward[b][i]
                ELSE forward[n][i]]]

(* Deletion of the first block of its size takes it from all levels it     *)
(* has, and the rest stays in rank.                                        *)
LEMMA DeleteRanked ==
  ASSUME NEW top \in Nat, NEW rank, Ranked(rank, top), Nested, NEW b \in On(0),
         NEW w, \A i \in Level : /\ w[i] # b /\ w[i] \in On(i) \cup {HEAD}
                                 /\ forward[w[i]][i] = b <=> b \in On(i),
         Deleted(b, w)
  PROVE  Ranked(rank, top)' /\ \A i \in Level : On(i)' = On(i) \ {b}
<1>1. \A n \in Node, i \in Level :
        forward'[n][i] = IF n = b THEN JUNK
                         ELSE IF b \in On(i) /\ n = w[i] THEN forward[b][i]
                         ELSE forward[n][i]
  BY DEF Deleted
<1>2. \A i \in Level : On(i)' = On(i) \ {b}
  <2> SUFFICES ASSUME NEW i \in Level PROVE On(i)' = On(i) \ {b}
    OBVIOUS
  <2>1. b \in On(i) => forward[b][i] # JUNK /\ forward[w[i]][i] # JUNK
    BY Kinds DEF On
  <2>2. \A c \in Block : forward'[c][i] # JUNK <=> c # b /\ forward[c][i] # JUNK
    BY <1>1, <2>1, Kinds
  <2> QED BY <2>2 DEF On
<1>3. On(0)' \subseteq On(0)
  BY <1>2, Kinds
<1>4. ASSUME NEW i \in Level, NEW m \in On(i)' \cup {HEAD}
      PROVE  Follows(rank, m, i, forward[m][i])'
  <2>1. m \in On(i) \cup {HEAD} /\ m \in Node /\ m # b /\ On(i)' = On(i) \ {b}
    BY <1>2, Kinds DEF On
  <2>2. Follows(rank, m, i, forward[m][i]) /\ \A c \in On(i) \cup {HEAD} : rank[c] \in 0 .. top
    BY <2>1, NextOn
  <2>3. CASE b \in On(i) /\ m = w[i]
    <3>1. forward[m][i] = b /\ forward'[m][i] = forward[b][i]
      BY <1>1, <2>1, <2>3
    <3>2. Follows(rank, b, i, forward[b][i])
      BY <2>3, NextOn
    <3>3. rank[m] < rank[b] /\ \A c \in On(i) : rank[c] <= rank[m] \/ rank[b] <= rank[c]
      BY <2>2, <2>3, <3>1, Kinds DEF Follows, On
    <3>4. \A c \in On(i) \ {b} : rank[c] <= rank[b] => rank[c] <= rank[m]
      <4>1. \A c \in On(i) : rank[c] = rank[b] => c = b
        BY <2>3, NextOn DEF Ranked
      <4> QED BY <2>2, <2>3, <3>3, <4>1
    <3>5. PICK p : p = forward[b][i]
      OBVIOUS
    <3>6. \/ p = NIL /\ \A c \in On(i) : rank[c] <= rank[b]
          \/ /\ p \in On(i) /\ rank[b] < rank[p]
             /\ \A c \in On(i) : rank[c] <= rank[b] \/ rank[p] <= rank[c]
      BY <3>2, <3>5 DEF Follows
    <3>7. CASE p = NIL /\ \A c \in On(i) : rank[c] <= rank[b]
      BY <2>1, <3>1, <3>4, <3>5, <3>7 DEF Follows
    <3>8. CASE /\ p \in On(i) /\ rank[b] < rank[p]
               /\ \A c \in On(i) : rank[c] <= rank[b] \/ rank[p] <= rank[c]
      <4>1. p # b /\ rank[m] < rank[p]
        BY <2>1, <2>2, <2>3, <3>3, <3>8
      <4> QED BY <2>1, <3>1, <3>4, <3>5, <3>8, <4>1 DEF Follows
    <3> QED BY <3>6, <3>7, <3>8
  <2>4. CASE ~(b \in On(i) /\ m = w[i])
    <3>1. PICK p : p = forward[m][i]
      OBVIOUS
    <3>2. forward'[m][i] = p
      BY <1>1, <2>1, <2>4, <3>1
    <3>3. p # b
      <4>1. SUFFICES ASSUME p = b PROVE FALSE
        OBVIOUS
      <4>2. /\ b \in On(i) /\ rank[m] < rank[b]
            /\ \A c \in On(i) : rank[c] <= rank[m] \/ rank[b] <= rank[c]
        BY <2>2, <3>1, <4>1, Kinds DEF Follows, On
      <4>3. PICK v : v = w[i]
        OBVIOUS
      <4>4. v \in On(i) \cup {HEAD} /\ v # m /\ forward[v][i] = b
        BY <2>4, <4>2, <4>3
      <4>5. /\ rank[v] < rank[b]
            /\ \A c \in On(i) : rank[c] <= rank[v] \/ rank[b] <= rank[c]
        <5>1. Follows(rank, v, i, forward[v][i])
          BY <4>4, NextOn
        <5> QED BY <4>2, <4>4, <5>1, Kinds DEF Follows, On
      <4>6. rank[v] <= rank[m] \/ v = HEAD
        BY <2>2, <4>2, <4>4, <4>5
      <4>7. rank[m] <= rank[v] \/ m = HEAD
        BY <2>1, <2>2, <4>2, <4>4, <4>5
      <4>8. \A x, y \in On(i) : rank[x] = rank[y] => x = y
        BY NextOn DEF Ranked
      <4>9. \A x \in On(i) : rank[x] > 0
        BY NextOn DEF Ranked
      <4>10. rank[HEAD] = 0
        BY DEF Ranked
      <4> QED BY <2>1, <2>2, <4>4, <4>6, <4>7, <4>8, <4>9, <4>10
    <3> QED BY <2>1, <2>2, <3>1, <3>2, <3>3 DEF Follows
  <2> QED BY <2>3, <2>4
<1>5. Ranked(rank, top)'
  BY <1>3, <1>4 DEF Ranked
<1> QED BY <1>2, <1>5

(* The level is lowered past the empty lists.                              *)
LEMMA LevelLowers ==
  ASSUME NEW top \in Nat, NEW rank, Ranked(rank, top)',
         TypeOK, Nested, NEW b, \A i \in Level : On(i)' = On(i) \ {b},
         level' = MaxOf({0} \cup {i \in 1 .. level : forward'[HEAD][i] # NIL})
  PROVE  Nested' /\ level' \in Level
<1> DEFINE S == {0} \cup {i \in 1 .. level : forward'[HEAD][i] # NIL}
<1>1. level \in Nat /\ level <= SKIP_MAX_LEVEL
  BY Kinds DEF TypeOK, Level
<1>2. level' \in S /\ \A i \in S : i <= level'
  <2>1. PICK S1, id, l : S1 = S /\ l = level /\ id = [i \in S |-> i]
    OBVIOUS
  <2>2. S1 # {} /\ l \in Nat /\ \A i \in S1 : id[i] \in 0 .. l /\ id[i] = i
    BY <1>1, <2>1
  <2>3. PICK m \in S1 : \A i \in S1 : id[i] <= id[m]
    <3> HIDE DEF S
    <3> QED BY <2>2, Greatest
  <2>4. m \in S /\ \A i \in S : i <= m
    BY <2>1, <2>2, <2>3
  <2> HIDE DEF S
  <2>5. level' = CHOOSE m1 \in S : \A k \in S : k <= m1
    BY DEF MaxOf, S
  <2> QED BY <2>4, <2>5
<1>3. level' \in Level /\ level' <= level
  BY <1>1, <1>2, Kinds DEF Level
<1>4. ASSUME NEW i \in Level PROVE forward'[HEAD][i] # NIL <=> On(i)' # {}
  <2>1. \/ forward'[HEAD][i] = NIL /\ \A c \in On(i)' : rank[c] <= rank[HEAD]
        \/ forward'[HEAD][i] \in On(i)'
    BY DEF Ranked, Follows
  <2>2. \A c \in On(i)' : rank[c] > rank[HEAD]
    <3>1. On(i)' \subseteq On(0)'
      <4>1. On(i) \subseteq On(0) /\ 0 \in Level
        BY Kinds DEF Nested, Level
      <4> QED BY <4>1
    <3>2. \A c \in On(0)' : rank[c] > rank[HEAD]
      BY DEF Ranked
    <3> QED BY <3>1, <3>2
  <2>3. \A c \in On(i)' : c \in Node /\ rank[c] \in Int
    BY Kinds DEF Ranked, On
  <2>4. rank[HEAD] \in Int /\ NIL \notin On(i)'
    BY Kinds DEF Ranked, On
  <2> QED BY <2>1, <2>2, <2>3, <2>4
<1>5. \A i, j \in Level : i <= j => On(j)' \subseteq On(i)'
  BY DEF Nested
<1>6. \A i \in Level : i > level' => On(i)' = {}
  <2>1. SUFFICES ASSUME NEW i \in Level, i > level', On(i)' # {} PROVE FALSE
    OBVIOUS
  <2>2. i <= level
    <3>1. On(i) # {}
      BY <2>1
    <3> QED BY <1>1, <3>1, Kinds DEF Nested, Level
  <2>3. i \in 1 .. level
    BY <1>1, <1>3, <2>1, <2>2, Kinds DEF Level
  <2>4. i \in S
    BY <1>4, <2>1, <2>3
  <2>5. i <= level' /\ i \in Int /\ level' \in Int
    BY <1>2, <1>3, <2>4, Kinds DEF Level
  <2> QED BY <2>1, <2>5
<1>7. (level > 0 => On(level) # {})'
  <2>1. PICK l : l = level'
    OBVIOUS
  <2>2. l > 0 => forward'[HEAD][l] # NIL
    BY <1>2, <2>1
  <2>3. l > 0 => On(l)' # {}
    BY <1>3, <1>4, <2>1, <2>2
  <2> QED BY <2>1, <2>3 DEF On
<1> QED BY <1>3, <1>5, <1>6, <1>7 DEF Nested

(* A request that finds a block: it is a best fit, and is gone.            *)
LEMMA TakeStep ==
  ASSUME IInv, NEW n \in Requests, Take(n)
  PROVE  IInv' /\ found' \in BestFits(On(0), SizeOf, n) /\ On(0)' = On(0) \ {found'}
<1>1. PICK top \in Nat : \E rank : Ranked(rank, top)
  BY DEF IInv
<1>2. PICK rank : Ranked(rank, top)
  BY <1>1
<1>3. TypeOK /\ Nested /\ level \in Level /\ n \in Int
  BY Kinds DEF IInv, TypeOK
<1>4. PICK b : b = FindBest(n)
  OBVIOUS
<1>5. found' = b /\ b # NIL /\ Delete(b)
  BY <1>4 DEF Take
<1>6. /\ b \in BestFits(On(0), SizeOf, n)
      /\ \A c \in On(0) : SizeOf[c] < SizeOf[b] \/ rank[b] <= rank[c]
  BY <1>2, <1>3, <1>4, <1>5, FindBestFinds
<1>7. b \in On(0) /\ b \in Block /\ SizeOf[b] \in Int
  BY <1>6, Kinds DEF BestFits, On
<1>8. PICK w : w = [i \in Level |-> IF i <= level THEN Update(SizeOf[b])[i] ELSE HEAD]
  OBVIOUS
<1>9. \A i \in Level : Turn(w[i], SizeOf[b], i)
  BY <1>2, <1>3, <1>7, <1>8, Searched
<1>10. \A i \in Level : /\ w[i] # b /\ w[i] \in On(i) \cup {HEAD}
                        /\ forward[w[i]][i] = b <=> b \in On(i)
  <2> SUFFICES ASSUME NEW i \in Level
               PROVE  /\ w[i] # b /\ w[i] \in On(i) \cup {HEAD}
                      /\ forward[w[i]][i] = b <=> b \in On(i)
    OBVIOUS
  <2>1. PICK v : v = w[i]
    OBVIOUS
  <2>2. /\ v # b /\ v \in On(i) \cup {HEAD}
        /\ forward[v][i] = b <=> b \in On(i)
    BY <1>2, <1>3, <1>6, <1>7, <1>9, <2>1, FirstOfSize
  <2> QED BY <2>1, <2>2
<1>11. Deleted(b, w)
  <2> DEFINE u == Update(SizeOf[b])
             cut == {i \in 0 .. level : \A j \in 0 .. i : forward[u[j]][j] = b}
  <2>1. forward' = [m \in Node |-> [i \in Level |->
                      IF m = b THEN JUNK
                      ELSE IF i \in cut /\ m = u[i] THEN forward[b][i] ELSE forward[m][i]]]
    BY <1>5 DEF Delete
  <2> HIDE DEF u
  <2>2. \A i \in 0 .. level : w[i] = u[i] /\ i \in Level
    <3>1. \A i \in 0 .. level : i \in Level /\ i <= level
      BY <1>3, Kinds DEF Level
    <3> QED BY <1>8, <3>1 DEF u
  <2>3. \A i \in Level : i \in cut <=> b \in On(i)
    <3>1. ASSUME NEW i \in Level, b \in On(i) PROVE i \in cut
      <4>1. i \in 0 .. level
        <5>1. i <= level
          BY <1>3, <3>1, Kinds DEF Nested, Level
        <5> QED BY <5>1, Kinds DEF Level
      <4>2. ASSUME NEW j \in 0 .. i PROVE forward[u[j]][j] = b
        <5>1. j \in 0 .. level /\ j \in Level /\ j <= i
          BY <1>3, <4>1, Kinds DEF Level
        <5>2. b \in On(j)
          BY <1>3, <3>1, <5>1 DEF Nested
        <5> QED BY <1>10, <2>2, <5>1, <5>2
      <4> QED BY <4>1, <4>2
    <3>2. ASSUME NEW i \in Level, i \in cut PROVE b \in On(i)
      <4>1. i \in 0 .. level /\ i \in 0 .. i
        BY <3>2, Kinds DEF Level
      <4> QED BY <1>10, <2>2, <3>2, <4>1
    <3> QED BY <3>1, <3>2
  <2>4. \A i \in Level : b \in On(i) => w[i] = u[i]
    BY <2>2, <2>3
  <2> HIDE DEF cut
  <2>5. \A i \in Level, m \in Node :
          (IF i \in cut /\ m = u[i] THEN forward[b][i] ELSE forward[m][i])
            = IF b \in On(i) /\ m = w[i] THEN forward[b][i] ELSE forward[m][i]
    BY <2>3, <2>4
  <2> QED BY <2>1, <2>5 DEF Deleted
<1>12. Ranked(rank, top)' /\ \A i \in Level : On(i)' = On(i) \ {b}
  BY <1>2, <1>3, <1>7, <1>10, <1>11, DeleteRanked
<1>13. level' = MaxOf({0} \cup {i \in 1 .. level : forward'[HEAD][i] # NIL})
  BY <1>5 DEF Delete
<1>14. Nested' /\ level' \in Level
  BY <1>3, <1>12, <1>13, LevelLowers
<1>15. TypeOK'
  <2>1. forward \in [Node -> [Level -> Block \cup {NIL, JUNK}]]
    BY <1>3 DEF TypeOK
  <2>2. forward' \in [Node -> [Level -> Block \cup {NIL, JUNK}]]
    BY <1>7, <1>11, <2>1, Kinds DEF Deleted
  <2> QED BY <1>5, <1>7, <1>14, <2>2 DEF TypeOK
<1>16. On(0)' = On(0) \ {b}
  BY <1>12, Kinds
<1> QED BY <1>5, <1>6, <1>12, <1>14, <1>15, <1>16 DEF IInv

(* A request that finds none.                                              *)
LEMMA MissStep ==
  ASSUME IInv, NEW n \in Requests, Miss(n)
  PROVE  BestFits(On(0), SizeOf, n) = {} /\ found' = NIL /\ forward' = forward /\ level' = level
<1>1. PICK top \in Nat : \E rank : Ranked(rank, top)
  BY DEF IInv
<1>2. PICK rank : Ranked(rank, top)
  BY <1>1
<1>3. Nested /\ level \in Level /\ n \in Int
  BY Kinds DEF IInv, TypeOK
<1>4. \A b \in BestFits(On(0), SizeOf, n) : b # NIL
  BY Kinds DEF BestFits, On
<1>5. FindBest(n) = NIL
  BY DEF Miss
<1> QED BY <1>2, <1>3, <1>4, <1>5, FindBestFinds DEF Miss

-----------------------------------------------------------------------------
(***************************************************************************)
(* The invariant, and what follows.                                        *)
(***************************************************************************)
(* It holds of the empty list.                                             *)
LEMMA InitIInv == Init => IInv
<1> SUFFICES ASSUME Init PROVE IInv
  OBVIOUS
<1>1. /\ forward = [n \in Node |-> [i \in Level |-> IF n = HEAD THEN NIL ELSE JUNK]]
      /\ level = 0 /\ found = NIL
  BY DEF Init
<1>2. TypeOK
  BY <1>1, Kinds DEF TypeOK
<1>3. \A i \in Level : On(i) = {} /\ forward[HEAD][i] = NIL
  BY <1>1, Kinds DEF On
<1>4. Nested
  BY <1>1, <1>3 DEF Nested
<1>5. PICK rank : rank = [n \in Node |-> 0]
  OBVIOUS
<1>6. Ranked(rank, 0)
  BY <1>3, <1>5, Kinds DEF Ranked, Follows
<1> QED BY <1>2, <1>4, <1>6 DEF IInv

(* Every step keeps it.                                                    *)
LEMMA NextIInv == IInv /\ [Next]_vars => IInv'
<1> SUFFICES ASSUME IInv, [Next]_vars PROVE IInv'
  OBVIOUS
<1>1. ASSUME NEW b \in Block, NEW lvl \in Level, Insert(b, lvl) PROVE IInv'
  BY <1>1, InsertStep
<1>2. ASSUME NEW n \in Requests, Take(n) PROVE IInv'
  BY <1>2, TakeStep
<1>3. CASE forward' = forward /\ level' = level /\ found' \in Block \cup {NIL}
  BY <1>3 DEF IInv, TypeOK, Nested, Ranked, Follows, On
<1>4. ASSUME NEW n \in Requests, Miss(n) PROVE IInv'
  BY <1>3, <1>4, MissStep
<1>5. CASE UNCHANGED vars
  <2>1. found \in Block \cup {NIL}
    BY DEF IInv, TypeOK
  <2> QED BY <1>3, <1>5, <2>1 DEF vars
<1> QED BY <1>1, <1>2, <1>4, <1>5 DEF Next

(* The invariant of every run of insertions and requests.                  *)
THEOREM Invariance == Spec => []IInv
BY InitIInv, NextIInv, PTL DEF Spec

(* Type correctness: pointers, level and answers.                          *)
THEOREM TypeCorrect == Spec => []TypeOK
<1>1. IInv => TypeOK
  BY DEF IInv
<1> QED BY <1>1, Invariance, PTL

(* What the invariant says of the nodes reached on each level.             *)
LEMMA LevelsAre ==
  IInv => \A i \in Level :
            /\ Linked(i) = On(i)
            /\ \A m \in On(i) \cup {HEAD} : forward[m][i] \in On(i) \cup {NIL}
            /\ \A m \in On(i) : forward[m][i] # NIL => SizeOf[m] <= SizeOf[forward[m][i]]
<1> SUFFICES ASSUME IInv, NEW i \in Level
             PROVE  /\ Linked(i) = On(i)
                    /\ \A m \in On(i) \cup {HEAD} : forward[m][i] \in On(i) \cup {NIL}
                    /\ \A m \in On(i) : forward[m][i] # NIL => SizeOf[m] <= SizeOf[forward[m][i]]
  OBVIOUS
<1>1. PICK top \in Nat : \E rank : Ranked(rank, top)
  BY DEF IInv
<1>2. PICK rank : Ranked(rank, top)
  BY <1>1
<1>3. Nested
  BY DEF IInv
<1>4. Linked(i) = On(i)
  BY <1>2, <1>3, LinkedIs
<1>5. \A m \in On(i) \cup {HEAD} : forward[m][i] \in On(i) \cup {NIL}
  BY <1>2, <1>3, NextOn
<1>6. ASSUME NEW m \in On(i), forward[m][i] # NIL
      PROVE  SizeOf[m] <= SizeOf[forward[m][i]]
  <2>1. PICK p : p = forward[m][i]
    OBVIOUS
  <2>2. p \in On(i) /\ rank[m] < rank[p] /\ On(i) \subseteq On(0)
    BY <1>2, <1>3, <1>6, <2>1, NextOn DEF Follows
  <2>3. SizeOf[m] <= SizeOf[p]
    BY <1>2, <2>2 DEF Ranked
  <2> QED BY <2>1, <2>3
<1> QED BY <1>4, <1>5, <1>6

(* The searches: no walk comes to a pointer that nobody wrote.             *)
THEOREM NoWildWalk == Spec => []NoJunkFollowed
<1>1. IInv => NoJunkFollowed
  <2>1. ASSUME NEW i \in Level PROVE JUNK \notin On(i) \cup {NIL}
    BY Kinds DEF On
  <2> QED BY <2>1, LevelsAre DEF NoJunkFollowed
<1> QED BY <1>1, Invariance, PTL

(* The lists: sorted by size on every level, each a part of the one below. *)
THEOREM SortedLevels == Spec => []LevelsSorted
<1>1. IInv => LevelsSorted
  <2> SUFFICES ASSUME IInv PROVE LevelsSorted
    OBVIOUS
  <2>1. ASSUME NEW i \in Level, i > 0 PROVE Linked(i) \subseteq Linked(i - 1)
    <3>1. i - 1 \in Level /\ i - 1 <= i
      BY <2>1, Kinds DEF Level
    <3>2. On(i) \subseteq On(i - 1)
      BY <3>1 DEF IInv, Nested
    <3> QED BY <3>1, <3>2, LevelsAre
  <2> QED BY <2>1, LevelsAre DEF LevelsSorted
<1> QED BY <1>1, Invariance, PTL

(* klmalloc_big_bins.level is the highest list that is not empty.          *)
THEOREM ExactLevel == Spec => []LevelExact
<1>1. IInv => LevelExact
  <2> SUFFICES ASSUME IInv PROVE LevelExact
    OBVIOUS
  <2>1. \A i \in Level : i > level => forward[HEAD][i] = NIL
    BY LevelsAre DEF IInv, Nested
  <2>2. level > 0 => forward[HEAD][level] # NIL
    <3>1. SUFFICES ASSUME level > 0 PROVE forward[HEAD][level] # NIL
      OBVIOUS
    <3>2. PICK top \in Nat : \E rank : Ranked(rank, top)
      BY DEF IInv
    <3>3. PICK rank : Ranked(rank, top)
      BY <3>2
    <3>4. PICK l : l = level
      OBVIOUS
    <3>5. l \in Level /\ On(l) # {} /\ On(l) \subseteq On(0) /\ On(l) \subseteq Block
      BY <3>1, <3>3, <3>4, NextOn DEF IInv, Nested, TypeOK
    <3>6. PICK c : c \in On(l)
      BY <3>5
    <3>7. rank[c] > rank[HEAD] /\ rank[c] \in Int /\ rank[HEAD] \in Int
      BY <3>3, <3>5, <3>6, Kinds DEF Ranked
    <3>8. forward[HEAD][l] # NIL
      BY <3>3, <3>5, <3>6, <3>7, Kinds DEF Ranked, Follows, On
    <3> QED BY <3>4, <3>8
  <2> QED BY <2>1, <2>2 DEF LevelExact
<1> QED BY <1>1, Invariance, PTL

(* The skip list is a free list with best fit (FreeList): insertion puts a *)
(* block in, a request takes out a best fit, or misses when there is none. *)
THEOREM Refinement == Spec => ImplementsFreeList
<1>1. IInv => Linked(0) = On(0)
  BY LevelsAre, Kinds
<1>2. (IInv => Linked(0) = On(0))'
  BY <1>1, PTL
<1>3. Init => FL!Init
  <2> SUFFICES ASSUME Init PROVE FL!Init
    OBVIOUS
  <2>1. On(0) = {} /\ found = NIL
    BY Kinds DEF Init, On
  <2> QED BY <1>1, <2>1, InitIInv DEF FL!Init
<1>4. IInv /\ [Next]_vars => [FL!Next]_<<Linked(0), found>>
  <2> SUFFICES ASSUME IInv, [Next]_vars PROVE [FL!Next]_<<Linked(0), found>>
    OBVIOUS
  <2>1. Linked(0) = On(0) /\ Linked(0)' = On(0)'
    BY <1>1, <1>2, NextIInv
  <2>2. ASSUME NEW b \in Block, NEW lvl \in Level, Insert(b, lvl) PROVE FL!Next
    BY <2>1, <2>2, InsertStep DEF FL!Next, FL!Put
  <2>3. ASSUME NEW n \in Requests, Take(n) PROVE FL!Next
    <3>1. FL!Take(n)
      BY <2>1, <2>3, TakeStep DEF FL!Take, FL!BestFits, BestFits
    <3> QED BY <3>1 DEF FL!Next
  <2>4. ASSUME NEW n \in Requests, Miss(n) PROVE FL!Next
    <3>1. On(0)' = On(0)
      BY <2>4, MissStep DEF On
    <3>2. FL!Miss(n)
      BY <2>1, <2>4, <3>1, MissStep DEF FL!Miss, FL!BestFits, BestFits
    <3> QED BY <3>2 DEF FL!Next
  <2>5. CASE UNCHANGED vars
    <3>1. On(0)' = On(0) /\ found' = found
      BY <2>5 DEF vars, On
    <3> QED BY <2>1, <3>1
  <2> QED BY <2>2, <2>3, <2>4, <2>5 DEF Next
<1> QED BY <1>3, <1>4, Invariance, PTL DEF Spec, ImplementsFreeList, FL!Spec
=============================================================================
