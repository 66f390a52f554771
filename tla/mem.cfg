SPECIFICATION Spec
CONSTANTS
  ENTRIES = 8
  WORD = 2
  WORD_BITS = 10
  HEADER = 4
  KernelStart <- MCKernelStart
  Starts <- MCStarts
  MemUppers <- MCMemUppers
  Increments <- MCIncrements
INVARIANTS
  TypeOK
  IdentityMapped
  HeapBacked
  FramesExact
  ImageIntact
PROPERTIES
  Boots
