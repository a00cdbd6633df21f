\* Two threads that send, one that closes, a socket that takes half a pdu at
\* a time; the peer sends two pdus, or length fields that are too big.
SPECIFICATION Spec
CONSTANTS
  Senders = {s1, s2}
  Closer = closer
  MaxSends = 1
  PduSz = 2
  HdrSz = 1
  SockBuf = 1
  MaxIn = 4
  MaxRefusals = 1
INVARIANTS OutputInOrder DeliveredInOrder CallbacksInOrder
PROPERTIES SendReturns CloseReturns BreakIsNoticed
\* The sends are bounded, and a failed VERIFY ends the process.
CHECK_DEADLOCK FALSE
