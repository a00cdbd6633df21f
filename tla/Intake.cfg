\* Two threads and a queue for two jobs, two connections, either of them perhaps
\* of a client without at-most-once logic, and three requests.
SPECIFICATION Spec
CONSTANTS
  Workers = {w1, w2}
  QMax = 2
  Clients = {0, 1}
  MaxConns = 2
  MaxPdus <- Pdus
INVARIANTS RefsCounted QueueInOrder
PROPERTIES DeleteReturns RefusedIsRetried
\* The server may be deleted, and a NULL connection ends the process.
CHECK_DEADLOCK FALSE
