\* Three callers of two locks on a pool of two threads; one caller may die.
SPECIFICATION Spec
CONSTANTS
  Clients = {c1, c2, c3}
  Lids = {d, f}
  PoolSize = 2
  MaxAborts = 1
INVARIANTS MutualExclusion NoLostWakeup
PROPERTIES ImplementsLockSpec ReleasesReturn
\* Clients that nest locks in different orders, or exhaust the pool, or die
\* in a scope, leave the others waiting for ever.
CHECK_DEADLOCK FALSE
