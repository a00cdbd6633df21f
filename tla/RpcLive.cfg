\* Two threads, a connection whose ends die separately and one that lasts, cancel.
SPECIFICATION Spec
CONSTANTS
  Threads = {t1, t2}
  MaxXid = 3
  MaxConns = 2
  MaxTimeouts = 0
  MaxRestarts = 0
  Cancels = TRUE
PROPERTIES CallsAnswered CancelReturns
\* The calls are bounded, so every behaviour ends.
CHECK_DEADLOCK FALSE
