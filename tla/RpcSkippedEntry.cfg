\* Two threads leave two answered entries in the window.
SPECIFICATION SafeSpec
CONSTANTS
  Threads = {t1, t2}
  MaxXid = 4
  MaxConns = 2
  MaxTimeouts = 0
  MaxRestarts = 0
  Cancels = FALSE
SYMMETRY ThreadSymmetry
INVARIANTS OnceWhileWaiting
\* The calls are bounded, so every behaviour ends.
CHECK_DEADLOCK FALSE
