SPECIFICATION Spec
CONSTANTS
  BufSize = 17
  Calls <- MCCalls
  Strings <- MCStrings
  Message <- MCMessage
  MaxCalls = 2
  MaxFaults = 2
INVARIANTS
  TypeOK
  PrintsFormat
  PanicReported
