\* One connection, no faults: the sequential mode of the py-netty engine, where
\* the main thread and a loop both run send_next.
SPECIFICATION Spec
CONSTANTS
  N = 1
  Messages = 2
  Size = 1
  Window = 2
  Cases <- SequentialNetty
  MaxFaults = 0
INVARIANT OnlyFaultsFail
CHECK_DEADLOCK FALSE
