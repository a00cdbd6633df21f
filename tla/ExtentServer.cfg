\* Two threads, five requests of every kind.
SPECIFICATION Spec
CONSTANTS
  root = root
  file = file
  ann = ann
  bob = bob
  staff = staff
  ka = ka
  kb = kb
  Threads = {t1, t2}
  Ids = {root, file}
  Root = root
  Users = {ann, bob}
  Gids = {staff}
  Keys = {ka, kb}
  Bufs <- SomeBufs
  Modes <- SomeModes
  Calls <- SomeCalls
  MaxCalls = 5
INVARIANTS AttrsContentsAgree
PROPERTIES KeySettles CallsReturn
\* The requests are bounded.
CHECK_DEADLOCK FALSE
