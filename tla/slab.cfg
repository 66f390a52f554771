SPECIFICATION Spec
CONSTANTS
  Requests = {1000, 2000, 3000, 5000}
  HeapBase <- MCHeapBase
  HeapLimit <- MCHeapLimit
INVARIANTS
  TypeOK
  HeapTiled
  CellsConserved
  ListsExact
  BlocksDisjoint
  HeadersSafe
  Roomy
PROPERTIES
  GrowOnlyWhenFull
  ImplementsMalloc
