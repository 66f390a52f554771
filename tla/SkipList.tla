------------------------------ MODULE SkipList ------------------------------
(***************************************************************************)
(* The skip list of free big blocks, klmalloc_big_bins in core/alloc.c:    *)
(* klmalloc_skip_list_findbest, _insert and _delete at the level of        *)
(* forward pointers.                                                       *)
(*                                                                         *)
(* Memory from sbrk is not cleared, so a forward pointer holds JUNK until  *)
(* an insertion at a high enough level sets it.  The pointers of a block   *)
(* that was taken out are dead: the model turns them back into JUNK, so a  *)
(* walk that followed one would be seen.  The random level of a new node   *)
(* is any level: the generator's sequence is not modelled.  size is fixed  *)
(* when a block is created (splitting and coalescing are compiled out),    *)
(* hence a constant here.                                                  *)
(***************************************************************************)
EXTENDS BestFit, FiniteSets

CONSTANTS
  Block,           \* big blocks, each a klmalloc_big_bin_header
  SizeOf,          \* header->size of each block
  Requests,        \* sizes passed to klmalloc
  SKIP_MAX_LEVEL,  \* highest level of a node; 6 in the code
  HEAD,            \* &klmalloc_big_bins.head
  NIL,             \* NULL
  JUNK             \* an uninitialised pointer

ASSUME SkipListAssumption ==
  /\ SizeOf \in [Block -> Nat]
  /\ Requests \subseteq Nat
  /\ SKIP_MAX_LEVEL \in Nat
  /\ HEAD \notin Block
  /\ {NIL, JUNK} \cap (Block \cup {HEAD}) = {} /\ NIL # JUNK

VARIABLES
  forward,   \* node->forward[i], of every block and of the head
  level,     \* klmalloc_big_bins.level
  found      \* what findbest answered the last request

vars == <<forward, level, found>>

Node == Block \cup {HEAD}
Level == 0 .. SKIP_MAX_LEVEL

(* node->forward[i] && node->forward[i]->size < s.  JUNK has no size to    *)
(* read: NoJunkFollowed says that no walk comes to it.                     *)
Ahead(n, i, s) == forward[n][i] \in Block /\ SizeOf[forward[n][i]] < s

(* Mutated form: the walk takes at most one step.                          *)
LastBelowOnce(s, i, n) == IF Ahead(n, i, s) THEN forward[n][i] ELSE n

(* Mutated form: <= for <, so that a search passes over an exact fit.      *)
LastBelowOrEqual(s, i, n) ==
  LET walk[m \in Node] == IF Ahead(m, i, s + 1) THEN walk[forward[m][i]] ELSE m
  IN  walk[n]

(* The last node on level i, from node n on, with a size below s: the      *)
(* inner loop of the three functions.                                      *)
LastBelow(s, i, n) ==
  LET walk[m \in Node] == IF Ahead(m, i, s) THEN walk[forward[m][i]] ELSE m
  IN  walk[n]

(* update[i]: where the search for size s turns down from level i.         *)
Update(s) ==
  LET update[i \in 0 .. level] ==
        LastBelow(s, i, IF i = level THEN HEAD ELSE update[i + 1])
  IN  update

(* The first node of size s or more on level 0, or NIL.                    *)
FindBest(s) == forward[Update(s)[0]][0]

(* The nodes linked on level i (a junk pointer ends the list).             *)
Linked(i) ==
  LET from[m \in Node \cup {NIL, JUNK}] ==
        IF m \in Node THEN {m} \cup from[forward[m][i]] ELSE {}
  IN  from[HEAD] \ {HEAD}

MaxOf(S) == CHOOSE m \in S : \A k \in S : k <= m
-----------------------------------------------------------------------------
Init ==
  /\ forward = [n \in Node |-> [i \in Level |-> IF n = HEAD THEN NIL ELSE JUNK]]
  /\ level = 0
  /\ found = NIL

(* Mutated form: the loops run to i < lvl, and leave out the top level.    *)
InsertBelowTop(b, lvl) ==
  LET update == Update(SizeOf[b])
      before(i) == IF i <= level THEN update[i] ELSE HEAD
  IN  /\ b \notin Linked(0)
      /\ FindBest(SizeOf[b]) # b
      /\ level' = IF lvl > level THEN lvl ELSE level
      /\ forward' = [n \in Node |-> [i \in Level |->
                       IF i < lvl /\ n = b THEN forward[before(i)][i]
                       ELSE IF i <= lvl /\ n = before(i) THEN b
                       ELSE forward[n][i]]]
      /\ UNCHANGED found

(* Mutated form: a higher node raises the list by its level, not to it.    *)
InsertRaised(b, lvl) ==
  LET update == Update(SizeOf[b])
      before(i) == IF i <= level THEN update[i] ELSE HEAD
  IN  /\ b \notin Linked(0)
      /\ FindBest(SizeOf[b]) # b
      /\ level' = IF lvl > level THEN level + lvl ELSE level
      /\ forward' = [n \in Node |-> [i \in Level |->
                       IF i <= lvl /\ n = b THEN forward[before(i)][i]
                       ELSE IF i <= lvl /\ n = before(i) THEN b
                       ELSE forward[n][i]]]
      /\ UNCHANGED found

(* klmalloc_skip_list_insert, called by klfree with the level lvl that     *)
(* klmalloc_random_level drew.  A block is freed once, so it is not yet    *)
(* linked; the code itself only tests that the first candidate is not b.   *)
Insert(b, lvl) ==
  LET update == Update(SizeOf[b])
      before(i) == IF i <= level THEN update[i] ELSE HEAD
  IN  /\ b \notin Linked(0)
      /\ FindBest(SizeOf[b]) # b
      /\ level' = IF lvl > level THEN lvl ELSE level
      /\ forward' = [n \in Node |-> [i \in Level |->
                       IF i <= lvl /\ n = b THEN forward[before(i)][i]
                       ELSE IF i <= lvl /\ n = before(i) THEN b
                       ELSE forward[n][i]]]
      /\ UNCHANGED found

(* Mutated form: only the bottom level is unlinked.                        *)
DeleteBottom(b) ==
  LET update == Update(SizeOf[b])
  IN  /\ forward' = [n \in Node |-> [i \in Level |->
                       IF n = b THEN JUNK
                       ELSE IF i = 0 /\ n = update[i] THEN forward[b][i]
                       ELSE forward[n][i]]]
      /\ level' = MaxOf({0} \cup {i \in 1 .. level : forward'[HEAD][i] # NIL})

(* Mutated form: the level is not lowered.                                 *)
DeleteHigh(b) ==
  LET update == Update(SizeOf[b])
      cut == {i \in 0 .. level : \A j \in 0 .. i : forward[update[j]][j] = b}
  IN  /\ forward' = [n \in Node |-> [i \in Level |->
                       IF n = b THEN JUNK
                       ELSE IF i \in cut /\ n = update[i] THEN forward[b][i]
                       ELSE forward[n][i]]]
      /\ level' = level

(* klmalloc_skip_list_delete(b): unlinks b from level 0 up to the first    *)
(* level whose predecessor does not point to it, then lowers the level     *)
(* past the empty lists.                                                   *)
Delete(b) ==
  LET update == Update(SizeOf[b])
      cut == {i \in 0 .. level : \A j \in 0 .. i : forward[update[j]][j] = b}
  IN  /\ forward' = [n \in Node |-> [i \in Level |->
                       IF n = b THEN JUNK
                       ELSE IF i \in cut /\ n = update[i] THEN forward[b][i]
                       ELSE forward[n][i]]]
      /\ level' = MaxOf({0} \cup {i \in 1 .. level : forward'[HEAD][i] # NIL})

(* A request of klmalloc for n bytes: findbest, then delete of what it     *)
(* found.                                                                  *)
Take(n) ==
  /\ found' = FindBest(n)
  /\ found' # NIL
  /\ Delete(found')

(* The request finds nothing: klmalloc goes to sbrk.                       *)
Miss(n) ==
  /\ FindBest(n) = NIL
  /\ found' = NIL
  /\ UNCHANGED <<forward, level>>

Next ==
  \/ \E b \in Block, lvl \in Level : Insert(b, lvl)
  \/ \E n \in Requests : Take(n) \/ Miss(n)

Spec == Init /\ [][Next]_vars
-----------------------------------------------------------------------------
TypeOK ==
  /\ forward \in [Node -> [Level -> Block \cup {NIL, JUNK}]]
  /\ level \in Level
  /\ found \in Block \cup {NIL}

(* A walk never follows a pointer nobody wrote: on every level in use, the *)
(* nodes linked there had that level of their forward array set (insertion *)
(* sets forward[0..level] of a header that sbrk'd memory left unclear).    *)
NoJunkFollowed ==
  \A i \in Level : \A n \in Linked(i) \cup {HEAD} : forward[n][i] # JUNK

(* Every level is sorted by size and is a sub-list of the level below, so  *)
(* that turning down a level never skips a better fit.                     *)
LevelsSorted ==
  \A i \in Level :
    /\ \A n \in Linked(i) :
         forward[n][i] # NIL => SizeOf[n] <= SizeOf[forward[n][i]]
    /\ i > 0 => Linked(i) \subseteq Linked(i - 1)

(* level is exact: the highest list that is not empty.  A level that is    *)
(* too low would make delete leave a dangling pointer above it; one that   *)
(* is too high only costs time.                                            *)
LevelExact ==
  /\ \A i \in Level : i > level => forward[HEAD][i] = NIL
  /\ level > 0 => forward[HEAD][level] # NIL

FL == INSTANCE FreeList WITH free <- Linked(0)

(* The skip list is a free list with best fit: no block is lost, handed    *)
(* out twice, or passed over for a larger one.                             *)
ImplementsFreeList == FL!Spec
=============================================================================
