--------------------------- MODULE MCExtentServer ---------------------------
EXTENDS ExtentServer

CONSTANTS root, file, ann, bob, staff, ka, kb

\* Owner only, owner and group, and everybody.
SomeModes == {{"u"} \X {"r", "w"}, {"u", "g"} \X {"r", "w"}, AllBits}
SomeBufs == {<<>>, <<"x">>}

Ann == [user |-> ann, key |-> ka]
Bob == [user |-> bob, key |-> kb]
AnnElsewhere == [user |-> ann, key |-> kb]  \* mounted with another key

\* Mounts, and runs of group_util, by users with and without their key.
AccountCalls ==
  [op : {"reg"}, who : {Ann, Bob, AnnElsewhere}]
  \cup [op : {"groupadd", "groupdel"}, gid : {staff}, who : {Ann}]
  \cup [op : {"useradd", "userdel"}, gid : {staff}, uid : {bob}, who : {Ann}]
  \cup [op : {"useradd"}, gid : {staff}, uid : {ann}, who : {Ann}]

\* Each operation, on the root or a file, by one who may and one who may not.
SomeCalls ==
  AccountCalls
  \cup [op : {"put"}, id : {file}, buf : {<<"x">>}, who : {Ann, Bob}]
  \cup [op : {"get", "remove"}, id : {file}, who : {Bob}]
  \cup [op : {"put"}, id : {root}, buf : SomeBufs, who : {Ann}]
  \cup [op : {"getattr"}, id : {file}, who : {Bob}]
  \cup [op : {"setattr"}, id : {file}, mode : SomeModes, uid : {ann},
        gid : {staff}, who : {Ann}]
=============================================================================
