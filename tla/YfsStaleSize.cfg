\* Two clients and one file: create, write, and requests that make it longer.
SPECIFICATION SafeSpec
CONSTANTS
  root = root
  sub = sub
  f1 = f1
  f2 = f2
  n5 = n5
  n59 = n59
  ann = ann
  g = g
  h = h
  Clients = {ann, bob}
  Owner = ann
  Dirs = {root}
  Files = {f1}
  Root = root
  Names = {n5}
  Within <- OneName
  Blocks <- OneByte
  Offsets = {0, 1}
  MaxSize = 2
  Bytes <- SomeBytes
  Zero = 0
  Modes <- SomeModes
  Gids = {g, h}
  getgid <- OneGroup
  Requests <- GrowRequests
  Lossy = {}
  MaxCalls = 4
  MaxLost = 0
  MaxDeaths = 0
INVARIANTS SizeIsAsAsked
CHECK_DEADLOCK FALSE
