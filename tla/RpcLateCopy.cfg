\* One thread, a connection that breaks while the server has a copy queued.
SPECIFICATION SafeSpec
CONSTANTS
  Threads = {t1}
  MaxXid = 3
  MaxConns = 2
  MaxTimeouts = 0
  MaxRestarts = 0
  Cancels = FALSE
INVARIANTS AtMostOnce
\* The calls are bounded, so every behaviour ends.
CHECK_DEADLOCK FALSE
