---------------------------- MODULE MCYfsClient ----------------------------
EXTENDS YfsClient

CONSTANTS root, sub, f1, f2, n5, n59, ann, g, h

\* As for the names 5 and 59 and the inums 2147483659 and 2147483660.
SomeWithin == {<<n5, n5>>, <<n59, n59>>, <<n5, n59>>, <<n5, f1>>, <<n59, f1>>}
OneName == {<<n5, n5>>}
\* 0777, 0644 and 0444.
SomeModes == {OpenToAll, {"r", "ur", "uw"}, {"r", "ur"}}
SomeBytes == {0, 1}
OneByte == {<<1>>}
OneGroup == [c \in Clients |-> g]

\* Names in one directory and one below it.
NameRequests ==
  [op : {"create"}, parent : Dirs, name : Names, mode : {{"r", "ur", "uw"}}]
  \cup [op : {"mkdir"}, parent : {root}, name : {n5}, mode : {{"r", "ur", "uw"}}]
  \cup [op : {"lookup"}, parent : {root}, name : Names]
  \cup [op : {"unlink"}, parent : Dirs, name : Names]
  \cup [op : {"readdir", "access"}, ino : {root}]

\* One file, its bytes and its attributes.
FileRequests ==
  [op : {"create"}, parent : {root}, name : {n5}, mode : {OpenToAll}]
  \cup [op : {"unlink"}, parent : {root}, name : {n5}]
  \cup [op : {"read"}, ino : {f1}, off : {1}]
  \cup [op : {"write"}, ino : {f1}, off : {0, 1}, data : OneByte]
  \cup [op : {"setattr"}, ino : {f1}, toset : {{"size", "mode"}}, size : {0, 2},
        mode : {{"r", "ur"}}, uid : {ann}, gid : {g}]
  \cup [op : {"setattr"}, ino : {f1}, toset : {{"uid", "gid"}}, size : {0},
        mode : {OpenToAll}, uid : {ann}, gid : {h}]

\* Two programs that overwrite one file.
SizeRequests ==
  [op : {"create"}, parent : {root}, name : {n5}, mode : {OpenToAll}]
  \cup [op : {"write"}, ino : {f1}, off : {0}, data : OneByte]
  \cup [op : {"setattr"}, ino : {f1}, toset : {{"size"}}, size : {0},
        mode : {OpenToAll}, uid : {ann}, gid : {g}]

\* A file that one program writes while another makes it longer.
GrowRequests ==
  [op : {"create"}, parent : {root}, name : {n5}, mode : {OpenToAll}]
  \cup [op : {"write"}, ino : {f1}, off : {0}, data : OneByte]
  \cup [op : {"setattr"}, ino : {f1}, toset : {{"size"}}, size : {2},
        mode : {OpenToAll}, uid : {ann}, gid : {g}]
=============================================================================
