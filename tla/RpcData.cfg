\* Every order of one or two calls of update_xid_rep for each of five xids;
\* calls with up to two arguments, in a buffer they outgrow, read with any
\* list of up to two types; timeouts of whole seconds and of fractions.
SPECIFICATION PartsSpec
CONSTANTS
  MaxXid = 5
  MaxCalls = 2
  Radix = 4
  DEFAULT_RPC_SZ = 26
  Values <- MCValues
  MaxArgs = 2
  MaxBytes = 64
  Headers <- MCHeaders
  Rets <- MCRets
  MsPerSec = 4
  Timeouts = {0, 3, 4, 6, 12}
  MaxSec = 6
INVARIANTS WindowIsExact Inside CallArrives GivesUpOnTime
PROPERTIES CallEnds
\* The calls are bounded.
CHECK_DEADLOCK FALSE
