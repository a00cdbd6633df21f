\* Two clients that work on names or on a file, four requests, one call lost, one
\* client killed.
SPECIFICATION WorkSpec
CONSTANTS
  root = root
  sub = sub
  f1 = f1
  f2 = f2
  n5 = n5
  n59 = n59
  ann = ann
  g = g
  h = h
  Clients = {ann, bob}
  Owner = ann
  Dirs = {root, sub}
  Files = {f1, f2}
  Root = root
  Names = {n5, n59}
  Within <- SomeWithin
  Blocks <- OneByte
  Offsets = {0, 1}
  MaxSize = 2
  Bytes <- SomeBytes
  Zero = 0
  Modes <- SomeModes
  Gids = {g, h}
  getgid <- OneGroup
  Requests <- AllRequests
  Lossy = {"link", "remove", "save"}
  MaxCalls = 4
  MaxLost = 1
  MaxDeaths = 1
INVARIANTS UnlinkFindsItsEntry TreeIsSound CopyIsCurrent NoDeadlock
PROPERTIES ImplementsFsSpec CallsReturn
\* The requests are bounded.
CHECK_DEADLOCK FALSE
