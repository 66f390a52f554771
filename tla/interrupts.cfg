SPECIFICATION Spec
CONSTANTS
  TICKS_A_SECOND = 2
  Keys = {"text", "lshift"}
  SlaveLine = 8
  Waits = {1}
  MaxTicks = 2
  MaxCodes = 3
  MaxNoise = 1
INVARIANTS
  TypeOK
  VectorsRight
  NothingInService
  NoStaleRead
  EchoesKeys
PROPERTIES
  WedgedOnlyEarly
  KeysHandled
  WaitReturns
  ImplementsService
