SPECIFICATION Spec
CONSTANTS
  b1 = b1
  b2 = b2
  b3 = b3
  b4 = b4
  Block = {b1, b2, b3, b4}
  SizeOf <- MCSizeOf
  Requests = {1, 2, 3, 4}
  SKIP_MAX_LEVEL = 2
  HEAD = HEAD
  NIL = NIL
  JUNK = JUNK
INVARIANTS
  TypeOK
  NoJunkFollowed
  LevelsSorted
  LevelExact
PROPERTIES
  ImplementsFreeList
