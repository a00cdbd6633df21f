\* Two threads, half-open connections, delayed copies, a timeout, a restart, cancel.
SPECIFICATION SafeSpec
CONSTANTS
  Threads = {t1, t2}
  MaxXid = 3
  MaxConns = 2
  MaxTimeouts = 1
  MaxRestarts = 1
  Cancels = TRUE
SYMMETRY ThreadSymmetry
INVARIANTS RepIsHonest NeverForgottenEarly ReplyKept OkMeansExecuted FreedIsAnswered
PROPERTIES CancelSticks RepeatsExplained
\* The calls are bounded, so every behaviour ends.
CHECK_DEADLOCK FALSE
