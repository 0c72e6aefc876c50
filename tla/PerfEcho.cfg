\* Two connections, three frames of two parts, one fault, every engine and mode.
SPECIFICATION Spec
CONSTANTS
  N = 2
  Messages = 3
  Size = 2
  Window = 6
  Cases <- AllCases
  MaxFaults = 1
INVARIANTS
  TypeOK
  PassIsEarned
  OnlyFaultsFailUnshared
PROPERTIES
  ResultIsFinal
  RunEndsOrFlushes
CHECK_DEADLOCK FALSE
