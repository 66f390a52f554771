SPECIFICATION Spec
CONSTANTS
  Requests = {1000, 2000}
  HeapBase <- MCHeapBase
  HeapLimit <- MCHeapLimit
INVARIANT NoSpill
