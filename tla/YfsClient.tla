----------------------------- MODULE YfsClient -----------------------------
(***************************************************************************)
(* The file system clients: the FUSE handlers of fuse.cc and the           *)
(* operations of yfs_client.cc they call, on extents that all clients      *)
(* share.  Each client handles one request of its kernel at a time         *)
(* (fuse_session_loop).  A call of the extent server is atomic (module     *)
(* ExtentServer) and so is taking a free lock (module LockSpec); a handler *)
(* is a sequence of such calls, between which other clients run.  A scope  *)
(* with a single call in it is one step.                                   *)
(*                                                                         *)
(* A directory is the list of its <name, inum> pairs; Within says which    *)
(* names occur inside the text of which names and inums.  No name is the   *)
(* whole numeral of an inum.  A mode is what its owner may do to an extent *)
(* ("ur", "uw") and what anybody may ("r", "w").  Times, the permissions   *)
(* of groups and error numbers are left out.                               *)
(***************************************************************************)
EXTENDS Naturals, Sequences, FiniteSets

CONSTANTS Clients, Owner,     \* mounts, each of a user; the one who runs the server
          Dirs, Files, Root,  \* inode numbers, by the bit isfile tests
          Names, Within,
          Blocks, Offsets, MaxSize,   \* what is written, where; sizes set
          Bytes, Zero,
          Modes, Gids, getgid,  \* ... and the group of each client
          Requests,           \* what the kernels ask for
          Lossy,              \* the steps whose call of the extent server may fail
          MaxCalls, MaxLost, MaxDeaths  \* bounds on requests and faults

Inums == Dirs \cup Files
Entry == [name : Names, inum : Inums]
Attr == [mode : Modes, uid : Clients, gid : Gids]
OpenToAll == {"r", "w", "ur", "uw"}  \* mode 0777

NoCall == [op |-> "none"]
Request ==
  [op : {"getattr", "access"}, ino : Inums]
  \cup [op : {"lookup", "unlink"}, parent : Dirs, name : Names]
  \cup [op : {"create", "mkdir"}, parent : Dirs, name : Names, mode : Modes]
  \cup [op : {"readdir"}, ino : Dirs]
  \cup [op : {"read"}, ino : Files, off : Offsets]
  \cup [op : {"write"}, ino : Files, off : Offsets, data : Blocks]
  \cup [op : {"setattr"}, ino : Inums, toset : SUBSET {"size", "mode", "uid", "gid"},
        size : 0 .. MaxSize, mode : Modes, uid : Clients, gid : Gids]

ASSUME InumsAssumption == Root \in Dirs /\ Dirs \cap Files = {}
ASSUME TextAssumption == Within \subseteq Names \X (Names \cup Inums)
                         /\ \A n \in Names : <<n, n>> \in Within
ASSUME OwnersAssumption == OpenToAll \in Modes /\ Owner \in Clients /\ getgid \in [Clients -> Gids]
ASSUME DataAssumption == /\ Offsets \subseteq Nat /\ MaxSize \in Nat
                         /\ Zero \in Bytes /\ Blocks \subseteq Seq(Bytes)
ASSUME RequestsAssumption ==
  /\ Requests \subseteq Request
  /\ \A r \in Requests : r.op = "setattr" /\ "size" \in r.toset => r.ino \in Files
ASSUME BoundsAssumption == MaxCalls \in Nat /\ MaxLost \in Nat /\ MaxDeaths \in Nat

VARIABLES
  data, attr,    \* the extents: contents and attributes, for those there are
  lock,          \* inode number -> the clients in a scope of its lock
  pc, rq,        \* each client's place and request
  loc,           \* its local variables
  fate,          \* whether it runs, was killed, or ended by an exception
  calls, lost    \* requests handled and calls lost so far

vars == <<data, attr, lock, pc, rq, loc, fate, calls, lost>>
extents == <<data, attr>>

\* fnum: the inode at hand; buf, att: what was read from the extent server;
\* st: the size getattr gave; todo: the attributes still to set; refused:
\* whether the last of several calls returned NOACCESS.
Blank == [fnum |-> Root, buf |-> <<>>, att |-> [mode |-> OpenToAll],
          st |-> 0, todo |-> {}, refused |-> FALSE]

Places == {"idle", "lookup", "stat", "readdir", "read", "write", "save", "attrs",
           "chattr", "restat", "lockparent", "lockfile", "link", "make", "init",
           "unlink", "cut", "remove"}

TypeOK ==
  /\ DOMAIN data \subseteq Inums /\ DOMAIN attr = DOMAIN data
  /\ \A i \in DOMAIN data : data[i] \in Seq(IF i \in Dirs THEN Entry ELSE Bytes)
  /\ \A i \in DOMAIN attr : attr[i] \in Attr
  /\ lock \in [Inums -> SUBSET Clients]
  /\ pc \in [Clients -> Places] /\ rq \in [Clients -> Requests \cup {NoCall}]
  /\ \A c \in Clients : /\ DOMAIN loc[c] = DOMAIN Blank
                        /\ loc[c].fnum \in Inums /\ loc[c].st \in Nat
                        /\ loc[c].refused \in BOOLEAN
                        /\ loc[c].todo \subseteq {"size", "mode", "uid", "gid"}
  /\ fate \in [Clients -> {"runs", "killed", "threw"}]
  /\ calls \in 0 .. MaxCalls /\ lost \in 0 .. MaxLost

\* The extent server makes the root directory, open to all.
Init ==
  /\ data = [i \in {Root} |-> <<>>]
  /\ attr = [i \in {Root} |-> [mode |-> OpenToAll, uid |-> Owner, gid |-> getgid[Owner]]]
  /\ lock = [i \in Inums |-> {}]
  /\ pc = [c \in Clients |-> "idle"] /\ rq = [c \in Clients |-> NoCall]
  /\ loc = [c \in Clients |-> Blank]
  /\ fate = [c \in Clients |-> "runs"]
  /\ calls = 0 /\ lost = 0

-----------------------------------------------------------------------------
(* Directories as text.                                                    *)

NamesIn(d) == {d[k].name : k \in DOMAIN d}

\* std::find in the list that split makes of the text.
Find(d, n) == CHOOSE k \in DOMAIN d : /\ d[k].name = n
                                      /\ \A j \in 1 .. k - 1 : d[j].name # n
InumOf(d, n) == d[Find(d, n)].inum

\* buf.find: n occurs in the text of pair e, anywhere.
OccursIn(n, e) == <<n, e.name>> \in Within \/ <<n, e.inum>> \in Within

\* Mutant: only a whole name counts.
Occurs_WholeName(n, d) == n \in NamesIn(d)

Occurs(n, d) == \E k \in DOMAIN d : OccursIn(n, d[k])

Occurrence(d, n) == CHOOSE k \in DOMAIN d : /\ OccursIn(n, d[k])
                                            /\ \A j \in 1 .. k - 1 : ~OccursIn(n, d[j])

\* A text that is no list of pairs.
Garbled == <<[name |-> "garbled", inum |-> Root]>>

\* As many characters as the entry of n has are erased from where n first
\* occurs in the text.
Erased(d, n) ==
  LET k == Occurrence(d, n)
  IN IF d[k].name = n THEN SubSeq(d, 1, k - 1) \o SubSeq(d, k + 1, Len(d))
                      ELSE Garbled

-----------------------------------------------------------------------------
(* Steps.                                                                  *)

With(f, k, v) == [x \in DOMAIN f \cup {k} |-> IF x = k THEN v ELSE f[x]]
Without(f, k) == [x \in DOMAIN f \ {k} |-> f[x]]

At(c, p) == pc[c] = p /\ fate[c] = "runs"
Goto(c, p, l) == /\ pc' = [pc EXCEPT ![c] = p]
                 /\ loc' = [loc EXCEPT ![c] = l]
                 /\ UNCHANGED rq
Return(c) == /\ pc' = [pc EXCEPT ![c] = "idle"]
             /\ rq' = [rq EXCEPT ![c] = NoCall]
             /\ loc' = [loc EXCEPT ![c] = Blank]

\* ServerScopedLock: a scope is entered when nobody is in it; all scopes of
\* a handler end together.
Free(i) == lock[i] = {}
Hold(c, i) == lock' = [lock EXCEPT ![i] = @ \cup {c}]
Release(c) == lock' = [i \in Inums |-> lock[i] \ {c}]

\* The exception ends the process; its locks stay with the lock server.
Throw(c, i) == Hold(c, i) /\ fate' = [fate EXCEPT ![c] = "threw"]

\* Whether the call of step k gets no answer; it then returns neither NOENT
\* nor NOACCESS, which is all that yfs_client tests for.
MayLose(k) == {FALSE} \cup {b \in {TRUE} : k \in Lossy /\ lost < MaxLost}
Count(lose) == lost' = IF lose THEN lost + 1 ELSE lost

\* The extent server's answers.
OwnerBit == [r |-> "ur", w |-> "uw"]
Granted(c, i, x) ==
  i \in DOMAIN attr => \/ x \in attr[i].mode
                       \/ attr[i].uid = c /\ OwnerBit[x] \in attr[i].mode
Gets(c, i, lose) == lose \/ (i \in DOMAIN data /\ Granted(c, i, "r"))
Got(i, lose) == IF lose THEN <<>> ELSE data[i]
Refuses(c, i, lose) == ~lose /\ ~Granted(c, i, "w")
NewAttr == [mode : {OpenToAll}, uid : Clients, gid : Gids]
Put(c, i, v, lose) ==
  IF lose \/ ~Granted(c, i, "w") THEN UNCHANGED extents
  ELSE /\ data' = With(data, i, v)
       /\ attr' \in IF i \in DOMAIN attr THEN {attr} ELSE {With(attr, i, a) : a \in NewAttr}
SetAttr(c, i, a, lose) ==
  /\ attr' = IF lose \/ ~Granted(c, i, "w") \/ i \notin DOMAIN data THEN attr
             ELSE [attr EXCEPT ![i] = a]
  /\ UNCHANGED data

-----------------------------------------------------------------------------
(* The kernel's requests.                                                  *)

\* random_inum: a number that is nowhere in use.
Unused(i) ==
  /\ i \notin DOMAIN data
  /\ \A c \in Clients : loc[c].fnum # i
  /\ \A d \in Dirs \cap DOMAIN data : \A k \in DOMAIN data[d] : data[d][k].inum # i

\* The kernel has looked at what it asks to change: it creates names that
\* were not there, unlinks files, and uses inodes that were there.
Plausible(r) ==
  IF r.op \in {"lookup", "create", "mkdir", "unlink"}
  THEN /\ r.parent \in DOMAIN data
       /\ r.op \in {"create", "mkdir"} => r.name \notin NamesIn(data[r.parent])
       /\ r.op = "unlink" => /\ r.name \in NamesIn(data[r.parent])
                             /\ InumOf(data[r.parent], r.name) \in Files
  ELSE r.ino \in DOMAIN data

Targets(r) == CASE r.op = "create" -> {f \in Files : Unused(f)}
                [] r.op = "mkdir" -> {d \in Dirs : Unused(d)}
                [] r.op \in {"lookup", "unlink"} -> {r.parent}
                [] OTHER -> {r.ino}

Start(op) == CASE op \in {"lookup", "unlink", "readdir"} -> op
               [] op \in {"create", "mkdir"} -> "lockparent"
               [] OTHER -> "stat"

begin(c, r) ==
  /\ At(c, "idle") /\ calls < MaxCalls /\ Plausible(r)
  /\ pc' = [pc EXCEPT ![c] = Start(r.op)]
  /\ rq' = [rq EXCEPT ![c] = r]
  /\ \E i \in Targets(r) :
       loc' = [loc EXCEPT ![c] = [Blank EXCEPT !.fnum = i,
                                               !.todo = IF r.op = "setattr" THEN r.toset ELSE {}]]
  /\ calls' = calls + 1
  /\ UNCHANGED <<extents, lock, fate, lost>>

\* The process is killed, or a VERIFY in lock_client fails, in a handler.
die(c) ==
  /\ fate[c] = "runs" /\ pc[c] # "idle"
  /\ Cardinality({b \in Clients : fate[b] = "killed"}) < MaxDeaths
  /\ fate' = [fate EXCEPT ![c] = "killed"]
  /\ UNCHANGED <<extents, lock, pc, rq, loc, calls, lost>>

-----------------------------------------------------------------------------
(* Looking.                                                                *)

\* The handlers of an inode that go on after a getattr that found it.
Then == [read |-> "read", write |-> "write", setattr |-> "attrs"]

\* getfile gives a size and getdir does not.
SizeOf(i) == IF i \in Files THEN Len(data[i]) ELSE 0

\* fuse.cc's getattr, which every handler of an inode calls first, and those
\* of a name last.
stat(c) ==
  LET i == loc[c].fnum
  IN /\ At(c, "stat") /\ Free(i)
     /\ IF i \in DOMAIN data /\ rq[c].op \in DOMAIN Then
        THEN Goto(c, Then[rq[c].op], [loc[c] EXCEPT !.st = SizeOf(i)])
        ELSE Return(c)
     /\ UNCHANGED <<extents, lock, fate, calls, lost>>

lookup(c) ==
  LET p == rq[c].parent
      n == rq[c].name
  IN /\ At(c, "lookup") /\ Free(p)
     /\ \E lose \in MayLose("get") :
          /\ IF Gets(c, p, lose) /\ n \in NamesIn(Got(p, lose))
             THEN Goto(c, "stat", [loc[c] EXCEPT !.fnum = InumOf(data[p], n)])
             ELSE Return(c)
          /\ Count(lose)
     /\ UNCHANGED <<extents, lock, fate, calls>>

\* Whatever get returns is replied.
readdir(c) ==
  /\ At(c, "readdir") /\ Free(rq[c].ino)
  /\ Return(c)
  /\ UNCHANGED <<extents, lock, fate, calls, lost>>

\* string::replace throws when the offset is beyond the contents.
read(c) ==
  LET i == rq[c].ino
  IN /\ At(c, "read") /\ Free(i)
     /\ \E lose \in MayLose("get") :
          /\ IF Gets(c, i, lose) /\ rq[c].off > Len(Got(i, lose))
             THEN Throw(c, i) /\ UNCHANGED <<pc, rq, loc>>
             ELSE Return(c) /\ UNCHANGED <<lock, fate>>
          /\ Count(lose)
     /\ UNCHANGED <<extents, calls>>

-----------------------------------------------------------------------------
(* Contents and attributes.                                                *)

Zeros(k) == [j \in 1 .. k |-> Zero]

\* yfs_client::write: replace, or append after a gap of zeros.
Written(s, off, b) ==
  IF off < Len(s) THEN SubSeq(s, 1, off) \o b \o SubSeq(s, off + Len(b) + 1, Len(s))
                  ELSE s \o Zeros(off - Len(s)) \o b

\* yfs_client::truncate is given the number of bytes to cut.
Truncated(s, k) == SubSeq(s, 1, Len(s) - k)

write(c) ==
  LET i == rq[c].ino
  IN /\ At(c, "write") /\ Free(i)
     /\ \E lose \in MayLose("get") :
          /\ IF Gets(c, i, lose)
             THEN Goto(c, "save", [loc[c] EXCEPT !.buf = Got(i, lose)]) /\ Hold(c, i)
             ELSE Return(c) /\ UNCHANGED lock
          /\ Count(lose)
     /\ UNCHANGED <<extents, fate, calls>>

\* The attributes that setattr sets, in its order.
Current(todo) == CHOOSE a \in todo : \/ a = "size"
                                     \/ a = "mode" /\ "size" \notin todo
                                     \/ a = "uid" /\ todo \cap {"size", "mode"} = {}
                                     \/ todo = {"gid"}
Setting(c, a) == At(c, "attrs") /\ loc[c].todo # {} /\ Current(loc[c].todo) = a

\* setattr goes on to the next attribute with what the last call returned.
NextAttr(c, refused) ==
  Goto(c, "attrs", [loc[c] EXCEPT !.todo = @ \ {Current(@)}, !.refused = refused])

\* The size is changed relative to the one stat saw.  To cut more bytes than
\* there are makes string::erase throw.
resize(c) ==
  LET i == rq[c].ino
      cut == loc[c].st - rq[c].size
  IN /\ Setting(c, "size") /\ Free(i)
     /\ \E lose \in MayLose("get") :
          /\ IF ~Gets(c, i, lose)
             THEN NextAttr(c, i \in DOMAIN data) /\ UNCHANGED <<lock, fate>>
             ELSE IF rq[c].size <= loc[c].st /\ cut > Len(Got(i, lose))
             THEN Throw(c, i) /\ UNCHANGED <<pc, rq, loc>>
             ELSE /\ Goto(c, "save", [loc[c] EXCEPT !.buf = Got(i, lose)])
                  /\ Hold(c, i) /\ UNCHANGED fate
          /\ Count(lose)
     /\ UNCHANGED <<extents, calls>>

NewContents(c) ==
  LET l == loc[c]
      r == rq[c]
  IN IF r.op = "write" THEN Written(l.buf, r.off, r.data)
     ELSE IF r.size > l.st THEN Written(l.buf, l.st, Zeros(r.size - l.st))
     ELSE Truncated(l.buf, l.st - r.size)

\* The put that ends write and truncate.
save(c) ==
  LET i == rq[c].ino
  IN /\ At(c, "save")
     /\ \E lose \in MayLose("save") :
          /\ Put(c, i, NewContents(c), lose)
          /\ IF rq[c].op = "write" THEN Return(c) ELSE NextAttr(c, Refuses(c, i, lose))
          /\ Count(lose)
     /\ Release(c)
     /\ UNCHANGED <<fate, calls>>

\* Mutant: the lock is not taken.
chattr_read_NoLock(c) ==
  LET i == rq[c].ino
  IN /\ \E a \in {"mode", "uid", "gid"} : Setting(c, a)
     /\ IF i \in DOMAIN data
        THEN Goto(c, "chattr", [loc[c] EXCEPT !.att = attr[i]])
        ELSE NextAttr(c, FALSE)
     /\ UNCHANGED <<extents, lock, fate, calls, lost>>

\* chmod, chuid and chgid: all attributes are read, and written back with one
\* of them changed.
chattr_read(c) ==
  LET i == rq[c].ino
  IN /\ \E a \in {"mode", "uid", "gid"} : Setting(c, a)
     /\ Free(i)
     /\ IF i \in DOMAIN data
        THEN Goto(c, "chattr", [loc[c] EXCEPT !.att = attr[i]]) /\ Hold(c, i)
        ELSE NextAttr(c, FALSE) /\ UNCHANGED lock
     /\ UNCHANGED <<extents, fate, calls, lost>>

chattr(c) ==
  LET i == rq[c].ino
      a == Current(loc[c].todo)
  IN /\ At(c, "chattr")
     /\ \E lose \in MayLose("setattr") :
          /\ SetAttr(c, i, [loc[c].att EXCEPT ![a] = rq[c][a]], lose)
          /\ NextAttr(c, Refuses(c, i, lose))
          /\ Count(lose)
     /\ Release(c)
     /\ UNCHANGED <<fate, calls>>

\* Only what the last of the calls returned decides on the reply.
setattr_end(c) ==
  /\ At(c, "attrs") /\ loc[c].todo = {}
  /\ IF loc[c].refused THEN Return(c) ELSE Goto(c, "restat", loc[c])
  /\ UNCHANGED <<extents, lock, fate, calls, lost>>

restat(c) ==
  /\ At(c, "restat") /\ Free(rq[c].ino)
  /\ Return(c)
  /\ UNCHANGED <<extents, lock, fate, calls, lost>>

-----------------------------------------------------------------------------
(* Names.                                                                  *)

\* Mutant: the lock is not waited for.
create_lock_NoWait(c) ==
  /\ At(c, "lockparent")
  /\ Hold(c, rq[c].parent) /\ Goto(c, "lockfile", loc[c])
  /\ UNCHANGED <<extents, fate, calls, lost>>

\* create takes the directory's lock, then the new inode's.
create_lock(c) ==
  /\ At(c, "lockparent") /\ Free(rq[c].parent)
  /\ Hold(c, rq[c].parent) /\ Goto(c, "lockfile", loc[c])
  /\ UNCHANGED <<extents, fate, calls, lost>>

\* Mutant: the directory stays locked when the name exists.
create_get_KeepsLock(c) ==
  LET p == rq[c].parent
      i == loc[c].fnum
  IN /\ At(c, "lockfile") /\ Free(i)
     /\ \E lose \in MayLose("get") :
          /\ IF Gets(c, p, lose) /\ ~Occurs(rq[c].name, Got(p, lose))
             THEN Goto(c, "link", [loc[c] EXCEPT !.buf = Got(p, lose)]) /\ Hold(c, i)
             ELSE Return(c) /\ UNCHANGED lock
          /\ Count(lose)
     /\ UNCHANGED <<extents, fate, calls>>

\* get fails, or the name exists, or its entry is linked next.
create_get(c) ==
  LET p == rq[c].parent
      i == loc[c].fnum
  IN /\ At(c, "lockfile") /\ Free(i)
     /\ \E lose \in MayLose("get") :
          /\ IF Gets(c, p, lose) /\ ~Occurs(rq[c].name, Got(p, lose))
             THEN Goto(c, "link", [loc[c] EXCEPT !.buf = Got(p, lose)]) /\ Hold(c, i)
             ELSE Return(c) /\ Release(c)
          /\ Count(lose)
     /\ UNCHANGED <<extents, fate, calls>>

\* One of create's calls that change an extent is over: the next step
\* follows, unless it returned NOACCESS.
Creating(c, refused, place) ==
  IF refused THEN Return(c) /\ Release(c)
  ELSE Goto(c, place, loc[c]) /\ IF place = "stat" THEN Release(c) ELSE UNCHANGED lock

link(c) ==
  LET p == rq[c].parent
      e == [name |-> rq[c].name, inum |-> loc[c].fnum]
  IN /\ At(c, "link")
     /\ \E lose \in MayLose("link") :
          /\ Put(c, p, Append(loc[c].buf, e), lose)
          /\ Creating(c, Refuses(c, p, lose), "make")
          /\ Count(lose)
     /\ UNCHANGED <<fate, calls>>

make(c) ==
  LET i == loc[c].fnum
  IN /\ At(c, "make")
     /\ \E lose \in MayLose("make") :
          /\ Put(c, i, <<>>, lose)
          /\ Creating(c, Refuses(c, i, lose), "init")
          /\ Count(lose)
     /\ UNCHANGED <<fate, calls>>

\* The new inode gets its mode and owners.
init(c) ==
  LET i == loc[c].fnum
  IN /\ At(c, "init")
     /\ \E lose \in MayLose("init") :
          /\ SetAttr(c, i, [mode |-> rq[c].mode, uid |-> c, gid |-> getgid[c]], lose)
          /\ Creating(c, Refuses(c, i, lose), "stat")
          /\ Count(lose)
     /\ UNCHANGED <<fate, calls>>

\* The directory is locked and read, and the name found in it.
unlink(c) ==
  LET p == rq[c].parent
      n == rq[c].name
  IN /\ At(c, "unlink") /\ Free(p)
     /\ \E lose \in MayLose("get") :
          /\ IF Gets(c, p, lose) /\ n \in NamesIn(Got(p, lose))
             THEN /\ Goto(c, "cut", [loc[c] EXCEPT !.buf = data[p],
                                                   !.fnum = InumOf(data[p], n)])
                  /\ Hold(c, p)
             ELSE Return(c) /\ UNCHANGED lock
          /\ Count(lose)
     /\ UNCHANGED <<extents, fate, calls>>

\* Mutant: the directory is not written back.
cut_NoPut(c) ==
  /\ At(c, "cut")
  /\ Goto(c, "remove", loc[c])
  /\ UNCHANGED <<extents, lock, fate, calls, lost>>

\* The directory is written back without the entry.
cut(c) ==
  LET p == rq[c].parent
  IN /\ At(c, "cut")
     /\ \E lose \in MayLose("cut") :
          /\ Put(c, p, Erased(loc[c].buf, rq[c].name), lose)
          /\ IF Refuses(c, p, lose) THEN Return(c) /\ Release(c)
                                    ELSE Goto(c, "remove", loc[c]) /\ UNCHANGED lock
          /\ Count(lose)
     /\ UNCHANGED <<fate, calls>>

\* Under the inode's own lock its extent is removed, if that is permitted.
remove(c) ==
  LET i == loc[c].fnum
  IN /\ At(c, "remove") /\ Free(i)
     /\ \E lose \in MayLose("remove") :
          /\ IF lose \/ ~Granted(c, i, "w") THEN UNCHANGED extents
             ELSE data' = Without(data, i) /\ attr' = Without(attr, i)
          /\ Count(lose)
     /\ Return(c) /\ Release(c)
     /\ UNCHANGED <<fate, calls>>

-----------------------------------------------------------------------------
Handle(c) ==
  \/ stat(c) \/ lookup(c) \/ readdir(c) \/ read(c)
  \/ write(c) \/ resize(c) \/ save(c)
  \/ chattr_read(c) \/ chattr(c) \/ setattr_end(c) \/ restat(c)
  \/ create_lock(c) \/ create_get(c) \/ link(c) \/ make(c) \/ init(c)
  \/ unlink(c) \/ cut(c) \/ remove(c)

Next == \E c \in Clients : Handle(c) \/ die(c) \/ \E r \in Requests : begin(c, r)

SafeSpec == Init /\ [][Next]_vars

\* A client that runs goes on, and gets a lock that stays free.
Spec == SafeSpec /\ \A c \in Clients : WF_vars(Handle(c))

-----------------------------------------------------------------------------
\* What a client is about to write back is what the server has now: no other
\* client has changed the directory, the file or the attributes since they
\* were read.  (It does not say that the change to it is the one asked for:
\* setattr computes its change from a size that may be stale, see Stale.)
CopyIsCurrent == \A c \in Clients :
  /\ pc[c] \in {"link", "cut"} => rq[c].parent \in DOMAIN data /\ data[rq[c].parent] = loc[c].buf
  /\ pc[c] = "save" => rq[c].ino \in DOMAIN data /\ data[rq[c].ino] = loc[c].buf
  /\ pc[c] = "chattr" => rq[c].ino \in DOMAIN attr /\ attr[rq[c].ino] = loc[c].att

\* The first place where the name of an entry occurs in the directory's text
\* is that entry.  unlink erases the text from there on, so it removes the
\* entry it has looked up and not a part of another one; create sees to it by
\* refusing names that occur anywhere in the text.
UnlinkFindsItsEntry ==
  \A d \in Dirs \cap DOMAIN data : \A k \in DOMAIN data[d] :
    Occurrence(data[d], data[d][k].name) = k

\* Every entry of a directory leads to an extent, except while (or because)
\* its creator has not come to make it, and no two entries lead to the same
\* one.  A client may be killed between any two calls.  TypeOK is a part of
\* it: directories hold entries and files bytes, each with its attributes.
Entries == {e \in (Dirs \cap DOMAIN data) \X (1 .. MaxCalls) : e[2] \in DOMAIN data[e[1]]}
InumAt(e) == data[e[1]][e[2]].inum
TreeIsSound ==
  /\ TypeOK
  /\ \A e \in Entries : \/ InumAt(e) \in DOMAIN data
                       \/ \E c \in Clients : pc[c] = "make" /\ loc[c].fnum = InumAt(e)
  /\ \A e, f \in Entries : InumAt(e) = InumAt(f) => e = f

\* No clients wait for each other in a circle, nor one for itself: create and
\* unlink wait for an inode's lock while they have a directory's, and nobody
\* else's locks come in the opposite order.  A lock whose holder has ended is
\* not a part of it.
Wants(c) ==
  CASE pc[c] \in {"stat", "lockfile", "remove"} -> {loc[c].fnum}
    [] pc[c] \in {"lookup", "lockparent", "unlink"} -> {rq[c].parent}
    [] pc[c] \in {"readdir", "read", "write", "restat"} -> {rq[c].ino}
    [] pc[c] = "attrs" /\ loc[c].todo # {} -> {rq[c].ino}
    [] OTHER -> {}
WaitsAmong(c, S) == fate[c] = "runs" /\ \E i \in Wants(c) : lock[i] \cap S # {}
NoDeadlock == \A S \in SUBSET Clients \ {{}} : \E c \in S : ~WaitsAmong(c, S)

\* setattr is about to change a size other than the one its getattr gave.
Stale(c) == pc[c] = "save" /\ rq[c].op = "setattr" /\ loc[c].st # Len(loc[c].buf)

\* Each step of a handler is one atomic change of the abstract file system
\* that its request asks for: of the map of a directory, the bytes of a file
\* or one attribute.  The one exception is the change setattr makes to the
\* bytes of its file when it goes by a size the file no longer has.
MapOf(d) == [n \in NamesIn(d) |-> InumOf(d, n)]
nodeBar == [i \in DOMAIN data |-> IF i \in Dirs THEN MapOf(data[i]) ELSE data[i]]
newBar == {loc[c].fnum : c \in {b \in Clients : pc[b] = "init"}} \cap DOMAIN data
Fs == INSTANCE FsSpec WITH
  node <- nodeBar,
  new <- newBar,
  asked <- {rq[c] : c \in Clients},
  Users <- Clients
StaleResize == \E c \in Clients : Stale(c) /\ Fs!Change(rq[c].ino, nodeBar'[rq[c].ino])
ImplementsFsSpec == Fs!Init /\ [][Fs!Next \/ StaleResize]_(Fs!vars)

\* What setattr is about to write is the file with the length asked for: "The
\* new size is in attr->st_size.  If the new size is bigger than the current
\* file size, fill the new bytes with '\0'" (fuse.cc:164-166).  It is not so
\* when the size that getattr gave is no more the file's.
SizeIsAsAsked == \A c \in Clients :
  pc[c] = "save" /\ rq[c].op = "setattr" =>
    NewContents(c) = Fs!Resized(loc[c].buf, rq[c].size)

\* Every request is answered, unless some client has ended with a lock.
CallsReturn == \A c \in Clients :
  pc[c] # "idle" ~> pc[c] = "idle" \/ \E b \in Clients : fate[b] # "runs"

\* Setting a file's length, "often used as part of overwriting a file, to set
\* the file length to zero", and reading it never end the client.
NoThrow == \A c \in Clients : fate[c] # "threw"
=============================================================================
