\* asyncio, a burst larger than what the sockets and the echo server hold: the
\* client is cancelled with frames it has not sent, and waits for them to be taken.
SPECIFICATION Spec
CONSTANTS
  N = 1
  Messages = 3
  Size = 1
  Window = 2
  Cases <- AsyncioBurst
  MaxFaults = 0
PROPERTY RunEnds
CHECK_DEADLOCK FALSE
