--------------------------- MODULE YfsClientProofs ---------------------------
(***************************************************************************)
(* Proofs about YfsClient, for any clients, directories, files, names,     *)
(* requests and bounds: no update of a shared extent is lost, unlink       *)
(* erases the entry it looked up, the tree stays sound, and the clients    *)
(* implement the abstract file system of FsSpec.                           *)
(*                                                                         *)
(* The argument is one of rely and guarantee.  Own(c) is what client c     *)
(* knows of its own state and of the extents it has locked.  A step of c   *)
(* keeps to Guarantee(c): it changes nobody else's state, takes free locks *)
(* only, and leaves extents alone that others have locked.  So it need     *)
(* only be shown that it establishes Own(c) again.  The tree has a second  *)
(* invariant of the same form, TInv: what a creator knows of the number it *)
(* has picked, and unlink of the one it has found, and TreeStep(c).        *)
(***************************************************************************)
EXTENDS YfsClient, SequenceTheorems, TLAPS

OfName == {"lookup", "unlink", "create", "mkdir"}
Creates == {"create", "mkdir"}

\* Which requests' handlers can be at which place.
OpAtPlace(p, op) ==
  /\ p = "lookup" => op = "lookup"
  /\ p \in {"lockparent", "lockfile", "link", "make", "init"} => op \in Creates
  /\ p \in {"unlink", "cut", "remove"} => op = "unlink"
  /\ p = "readdir" => op = "readdir"
  /\ p = "read" => op = "read"
  /\ p = "write" => op = "write"
  /\ p = "save" => op \in {"write", "setattr"}
  /\ p \in {"attrs", "chattr", "restat"} => op = "setattr"

Control(c) ==
  /\ DOMAIN loc[c] = DOMAIN Blank /\ loc[c].fnum \in Inums
  /\ pc[c] # "idle" => rq[c] \in Requests /\ OpAtPlace(pc[c], rq[c].op)
  /\ pc[c] # "idle" /\ rq[c].op = "setattr" => loc[c].todo \subseteq rq[c].toset
  /\ pc[c] = "chattr" => loc[c].todo # {}
  /\ pc[c] = "save" => rq[c].ino \in Files

\* The locks it has, place by place.
Locks(c) ==
  /\ pc[c] \in {"lockfile", "link", "make", "init", "cut", "remove"} => c \in lock[rq[c].parent]
  /\ pc[c] \in {"link", "make", "init"} => c \in lock[loc[c].fnum]
  /\ pc[c] \in {"save", "chattr"} => c \in lock[rq[c].ino]

\* CopyIsCurrent, of one client; a get that is lost makes an empty copy.
Current1(c) ==
  /\ pc[c] \in {"link", "cut"} => rq[c].parent \in DOMAIN data /\ data[rq[c].parent] = loc[c].buf
  /\ pc[c] = "save" => rq[c].ino \in DOMAIN data /\ data[rq[c].ino] = loc[c].buf
  /\ pc[c] = "chattr" => rq[c].ino \in DOMAIN attr /\ attr[rq[c].ino] = loc[c].att
Copies(c) == "get" \notin Lossy => Current1(c)

\* No name occurs in the text of an earlier pair.
Clean(d) ==
  /\ d \in Seq(Entry)
  /\ \A j, k \in DOMAIN d : j < k => ~OccursIn(d[k].name, d[j])

Texts(c) ==
  /\ pc[c] = "link" => Clean(loc[c].buf) /\ ~Occurs(rq[c].name, loc[c].buf)
  /\ pc[c] = "cut" => Clean(loc[c].buf) /\ rq[c].name \in NamesIn(loc[c].buf)

Own(c) == Control(c) /\ Locks(c) /\ Copies(c) /\ Texts(c)

Functions ==
  /\ pc = [c \in Clients |-> pc[c]]
  /\ rq = [c \in Clients |-> rq[c]]
  /\ loc = [c \in Clients |-> loc[c]]

LocksOk == /\ lock \in [Inums -> SUBSET Clients]
           /\ \A i \in Inums : \A a, b \in lock[i] : a = b

ExtentsOk == /\ DOMAIN attr = DOMAIN data
             /\ \A d \in Dirs \cap DOMAIN data : Clean(data[d])

IInv == Functions /\ LocksOk /\ ExtentsOk /\ \A c \in Clients : Own(c)

\* What a step of c does not do.
OthersStay(c) ==
  \A e \in Clients \ {c} : pc'[e] = pc[e] /\ rq'[e] = rq[e] /\ loc'[e] = loc[e]
LockStep(c) ==
  /\ lock' = [i \in Inums |-> lock'[i]]
  /\ \A i \in Inums : \/ lock'[i] = lock[i] \/ lock'[i] = lock[i] \ {c}
                      \/ lock[i] = {} /\ lock'[i] = {c}
DataStep(c) ==
  /\ DOMAIN attr' = DOMAIN data'
  /\ \A i \in DOMAIN data : lock[i] \ {c} # {} =>
       i \in DOMAIN data' /\ data'[i] = data[i] /\ attr'[i] = attr[i]
Guarantee(c) == OthersStay(c) /\ LockStep(c) /\ DataStep(c)

-----------------------------------------------------------------------------
(* Requests and attributes to set.                                         *)

\* What the fields of a request are.
LEMMA RequestFields ==
  ASSUME NEW r \in Requests
  PROVE  /\ r.op \in OfName => r.parent \in Dirs /\ r.name \in Names
         /\ r.op \notin OfName => r.ino \in Inums
         /\ r.op \in {"read", "write"} => r.ino \in Files
         /\ r.op = "setattr" => r.toset \subseteq {"size", "mode", "uid", "gid"}
         /\ r.op = "setattr" /\ "size" \in r.toset => r.ino \in Files
<1>1. r \in Request
  BY RequestsAssumption
<1>2. QED
  BY <1>1, RequestsAssumption DEF Request, Inums, OfName

\* The local variables.
LEMMA BlankFields ==
  /\ DOMAIN Blank = {"fnum", "buf", "att", "st", "todo", "refused"}
  /\ Blank.fnum = Root /\ Root \in Inums
  BY InumsAssumption DEF Blank, Inums

\* The attribute set next is one of those left to set.
LEMMA CurrentIsLeft ==
  ASSUME NEW todo \in SUBSET {"size", "mode", "uid", "gid"}, todo # {}
  PROVE  Current(todo) \in todo
<1>1. CASE "size" \in todo
  BY <1>1 DEF Current
<1>2. CASE "size" \notin todo /\ "mode" \in todo
  BY <1>2 DEF Current
<1>3. CASE todo \cap {"size", "mode"} = {} /\ "uid" \in todo
  BY <1>3 DEF Current
<1>4. CASE todo = {"gid"}
  BY <1>4 DEF Current
<1>5. QED
  BY <1>1, <1>2, <1>3, <1>4

-----------------------------------------------------------------------------
(* Directories as text.                                                    *)

\* The empty directory.
LEMMA EmptyIsClean == Clean(<<>>) /\ NamesIn(<<>>) = {}
  BY DEF Clean, NamesIn

\* The pairs of a clean text.
LEMMA PairsOf ==
  ASSUME NEW d, Clean(d), NEW k \in DOMAIN d
  PROVE  k \in Nat /\ k \in 1 .. Len(d) /\ d[k].name \in Names /\ d[k].inum \in Inums
<1>1. d \in Seq(Entry)
  BY DEF Clean
<1>2. k \in Nat /\ k \in 1 .. Len(d) /\ d[k] \in Entry
  BY <1>1
<1>3. QED
  BY <1>2 DEF Entry

\* In a clean text a name occurs first in its own pair.
LEMMA FirstOccurrence ==
  ASSUME NEW d, Clean(d), NEW k \in DOMAIN d
  PROVE  Occurrence(d, d[k].name) = k
<1>1. k \in Nat /\ d[k].name \in Names
  BY PairsOf
<1>2. OccursIn(d[k].name, d[k])
  BY <1>1, TextAssumption DEF OccursIn
<1>3. \A j \in 1 .. k - 1 : j \in DOMAIN d /\ j < k
  BY <1>1 DEF Clean
<1>4. \A j \in 1 .. k - 1 : ~OccursIn(d[k].name, d[j])
  BY <1>3 DEF Clean
<1>5. ASSUME NEW m \in DOMAIN d, OccursIn(d[k].name, d[m]),
             \A j \in 1 .. m - 1 : ~OccursIn(d[k].name, d[j])
      PROVE  m = k
  <2>1. m \in Nat /\ k \in Nat /\ m >= 1 /\ k >= 1
    BY DEF Clean
  <2>2. ~(m < k)
    BY <1>4, <1>5, <2>1
  <2>3. ~(k < m)
    BY <1>2, <1>5, <2>1
  <2>4. QED
    BY <2>1, <2>2, <2>3
<1>6. QED
  BY <1>2, <1>4, <1>5 DEF Occurrence

\* std::find gives the pair with the name.
LEMMA FindsName ==
  ASSUME NEW d, Clean(d), NEW n \in NamesIn(d)
  PROVE  InumOf(d, n) \in Inums
<1>1. PICK k \in DOMAIN d : d[k].name = n
  BY DEF NamesIn
<1>2. k \in Nat /\ n \in Names
  BY <1>1, PairsOf
<1>3. \A j \in 1 .. k - 1 : j \in DOMAIN d /\ j < k
  BY <1>2 DEF Clean
<1>4. \A j \in 1 .. k - 1 : d[j].name # n
  BY <1>1, <1>2, <1>3, TextAssumption DEF Clean, OccursIn
<1>5. Find(d, n) \in DOMAIN d
  BY <1>1, <1>4 DEF Find
<1>6. QED
  BY <1>5, PairsOf DEF InumOf

\* link appends a pair whose name occurs nowhere.
LEMMA AppendIsClean ==
  ASSUME NEW d, Clean(d), NEW n \in Names, NEW i \in Inums, ~Occurs(n, d)
  PROVE  Clean(Append(d, [name |-> n, inum |-> i]))
<1> DEFINE e == [name |-> n, inum |-> i]
           s == Append(d, e)
<1>1. e \in Entry /\ d \in Seq(Entry)
  BY DEF Entry, Clean
<1>2. s \in Seq(Entry) /\ Len(s) = Len(d) + 1 /\ Len(d) \in Nat
  BY <1>1
<1>3. \A j \in DOMAIN d : s[j] = d[j]
  BY <1>1
<1>4. s[Len(d) + 1] = e /\ e.name = n
  BY <1>1
<1>5. ASSUME NEW j \in DOMAIN s, NEW k \in DOMAIN s, j < k
      PROVE  ~OccursIn(s[k].name, s[j])
  <2>1. j \in DOMAIN d
    BY <1>1, <1>2, <1>5
  <2>2. CASE k = Len(d) + 1
    BY <1>3, <1>4, <2>1, <2>2 DEF Occurs
  <2>3. CASE k \in DOMAIN d
    BY <1>3, <1>5, <2>1, <2>3 DEF Clean
  <2>4. QED
    BY <1>1, <1>2, <2>2, <2>3
<1> HIDE DEF s
<1>6. QED
  BY <1>2, <1>5 DEF Clean, s

\* A list without its k-th element.
LEMMA WithoutOne ==
  ASSUME NEW d \in Seq(Entry), NEW k \in 1 .. Len(d),
         NEW s, s = SubSeq(d, 1, k - 1) \o SubSeq(d, k + 1, Len(d))
  PROVE  /\ s \in Seq(Entry) /\ Len(s) = Len(d) - 1 /\ DOMAIN s = 1 .. Len(d) - 1
         /\ \A j \in 1 .. Len(d) - 1 : s[j] = d[IF j < k THEN j ELSE j + 1]
<1>1. PICK n \in Nat : n = Len(d)
  OBVIOUS
<1>2. PICK a : a = SubSeq(d, 1, k - 1)
  OBVIOUS
<1>3. PICK b : b = SubSeq(d, k + 1, n)
  OBVIOUS
<1>4. k \in Nat /\ 1 <= k /\ k <= n
  BY <1>1
<1>5. a \in Seq(Entry) /\ Len(a) = k - 1 /\ \A j \in 1 .. k - 1 : a[j] = d[j]
  BY <1>1, <1>2, <1>4
<1>6. b \in Seq(Entry) /\ Len(b) = n - k /\ \A j \in 1 .. n - k : b[j] = d[k + j]
  BY <1>1, <1>3, <1>4
<1>7. s = a \o b
  BY <1>1, <1>2, <1>3
<1>8. /\ s \in Seq(Entry) /\ Len(s) = Len(a) + Len(b)
      /\ \A j \in 1 .. Len(a) + Len(b) : s[j] = IF j <= Len(a) THEN a[j] ELSE b[j - Len(a)]
  <2>1. a \in Seq(Entry) /\ b \in Seq(Entry)
    BY <1>5, <1>6
  <2>2. /\ a \o b \in Seq(Entry) /\ Len(a \o b) = Len(a) + Len(b)
        /\ \A j \in 1 .. Len(a) + Len(b) :
             (a \o b)[j] = IF j <= Len(a) THEN a[j] ELSE b[j - Len(a)]
    BY <2>1, ConcatProperties, Zenon
  <2>3. QED
    BY <1>7, <2>2, Zenon
<1>9. Len(a) + Len(b) = n - 1
  BY <1>4, <1>5, <1>6
<1>10. Len(s) = n - 1 /\ DOMAIN s = 1 .. n - 1
  <2>1. s \in Seq(Entry) /\ Len(s) = n - 1
    BY <1>8, <1>9, Zenon
  <2>2. DOMAIN s = 1 .. Len(s)
    BY <2>1, LenProperties, Zenon
  <2>3. QED
    BY <2>1, <2>2, Zenon
<1>11. \A j \in 1 .. n - 1 : s[j] = IF j <= k - 1 THEN a[j] ELSE b[j - (k - 1)]
  BY <1>5, <1>8, <1>9, Zenon
<1>12. ASSUME NEW j \in 1 .. n - 1
       PROVE  s[j] = d[IF j < k THEN j ELSE j + 1]
  <2>1. CASE j < k
    <3>1. j <= k - 1 /\ j \in 1 .. k - 1
      BY <1>4, <2>1
    <3>2. s[j] = a[j] /\ a[j] = d[j]
      BY <1>5, <1>11, <3>1
    <3>3. QED
      BY <2>1, <3>2
  <2>2. CASE ~(j < k)
    <3>1. PICK i \in 1 .. n - k : i = j - (k - 1)
      BY <1>4, <2>2
    <3>2. ~(j <= k - 1) /\ k + i = j + 1
      BY <1>4, <2>2, <3>1
    <3>3. s[j] = b[i] /\ b[i] = d[j + 1]
      BY <1>6, <1>11, <3>1, <3>2
    <3>4. QED
      BY <2>2, <3>3
  <2>3. QED
    BY <2>1, <2>2
<1>13. QED
  BY <1>1, <1>8, <1>10, <1>12

\* cut erases the pair of the name and nothing else.
LEMMA ErasedIsClean ==
  ASSUME NEW d, Clean(d), NEW n \in NamesIn(d)
  PROVE  Clean(Erased(d, n))
<1>1. PICK k \in DOMAIN d : d[k].name = n
  BY DEF NamesIn
<1>2. Occurrence(d, n) = k
  BY <1>1, FirstOccurrence
<1>3. PICK s : s = SubSeq(d, 1, k - 1) \o SubSeq(d, k + 1, Len(d))
  OBVIOUS
<1>4. Erased(d, n) = s
  BY <1>1, <1>2, <1>3 DEF Erased
<1>5. d \in Seq(Entry) /\ k \in 1 .. Len(d) /\ Len(d) \in Nat /\ DOMAIN d = 1 .. Len(d)
  BY DEF Clean
<1>6. s \in Seq(Entry) /\ Len(s) = Len(d) - 1 /\ DOMAIN s = 1 .. Len(d) - 1
  BY <1>3, <1>5, WithoutOne, Zenon
<1>7. \A j \in DOMAIN s : s[j] = d[IF j < k THEN j ELSE j + 1]
  <2>1. \A j \in 1 .. Len(d) - 1 : s[j] = d[IF j < k THEN j ELSE j + 1]
    BY <1>3, <1>5, WithoutOne, Zenon
  <2>2. QED
    BY <1>6, <2>1, Zenon
<1>8. ASSUME NEW i \in DOMAIN s, NEW j \in DOMAIN s, i < j
      PROVE  ~OccursIn(s[j].name, s[i])
  <2> DEFINE At1(x) == IF x < k THEN x ELSE x + 1
  <2>1. At1(i) \in DOMAIN d /\ At1(j) \in DOMAIN d /\ At1(i) < At1(j)
    BY <1>5, <1>6, <1>8
  <2>2. s[i] = d[At1(i)] /\ s[j] = d[At1(j)]
    BY <1>7
  <2> HIDE DEF At1
  <2>3. QED
    BY <2>1, <2>2 DEF Clean
<1>9. QED
  BY <1>4, <1>6, <1>8 DEF Clean

-----------------------------------------------------------------------------
(* What the parts of a step do.                                            *)

\* Going on, returning and staying: only c's own state changes.
LEMMA Goes ==
  ASSUME Functions, NEW c \in Clients, NEW p, NEW l, Goto(c, p, l)
  PROVE  Functions' /\ OthersStay(c) /\ pc'[c] = p /\ loc'[c] = l /\ rq'[c] = rq[c]
  BY DEF Functions, Goto, OthersStay

\* A handler that returns clears its client's state and nobody else's.
LEMMA Returns ==
  ASSUME Functions, NEW c \in Clients, Return(c)
  PROVE  Functions' /\ OthersStay(c) /\ pc'[c] = "idle" /\ loc'[c] = Blank
  BY DEF Functions, Return, OthersStay

\* A client that has returned knows nothing.
LEMMA IdleOwns ==
  ASSUME NEW c \in Clients, pc'[c] = "idle", loc'[c] = Blank
  PROVE  Own(c)'
  BY BlankFields DEF Own, Control, Locks, Copies, Current1, Texts

\* A scope is entered when it is free.
LEMMA Holds ==
  ASSUME LocksOk, NEW c \in Clients, NEW i \in Inums, Free(i), Hold(c, i)
  PROVE  LockStep(c) /\ c \in lock'[i] /\ \A j \in Inums : c \in lock[j] => c \in lock'[j]
  BY DEF LocksOk, Free, Hold, LockStep

\* The end of a handler's scopes takes c out of its locks only.
LEMMA Releases ==
  ASSUME NEW c \in Clients, Release(c)
  PROVE  LockStep(c)
  BY DEF Release, LockStep

\* A step that leaves the locks alone keeps to the guarantee.
LEMMA LocksStay ==
  ASSUME LocksOk, NEW c \in Clients, UNCHANGED lock
  PROVE  LockStep(c)
  BY DEF LocksOk, LockStep

\* So does one that leaves the extents alone.
LEMMA ExtentsStay ==
  ASSUME ExtentsOk, NEW c \in Clients, UNCHANGED extents
  PROVE  DataStep(c) /\ ExtentsOk'
  BY DEF ExtentsOk, DataStep, extents

\* A client changes extents that nobody else has locked, and keeps
\* directories clean.
LEMMA Puts ==
  ASSUME ExtentsOk, NEW c \in Clients, NEW i, lock[i] \ {c} = {},
         NEW v, NEW lose, i \in Dirs => Clean(v), Put(c, i, v, lose)
  PROVE  DataStep(c) /\ ExtentsOk'
<1>1. CASE UNCHANGED extents
  BY <1>1, ExtentsStay
<1>2. CASE /\ data' = With(data, i, v)
           /\ attr' \in IF i \in DOMAIN attr THEN {attr} ELSE {With(attr, i, a) : a \in NewAttr}
  <2>1. /\ DOMAIN data' = DOMAIN data \cup {i} /\ data'[i] = v
        /\ \A j \in DOMAIN data \ {i} : data'[j] = data[j]
    BY <1>2 DEF With
  <2>2. /\ DOMAIN attr' = DOMAIN attr \cup {i}
        /\ \A j \in DOMAIN attr \ {i} : attr'[j] = attr[j]
    <3>1. CASE i \in DOMAIN attr
      BY <1>2, <3>1
    <3>2. CASE i \notin DOMAIN attr
      BY <1>2, <3>2 DEF With
    <3>3. QED
      BY <3>1, <3>2
  <2>3. QED
    BY <2>1, <2>2 DEF ExtentsOk, DataStep
<1>3. QED
  BY <1>1, <1>2 DEF Put

\* setattr changes the attributes of an extent that nobody else has locked.
LEMMA SetsAttr ==
  ASSUME ExtentsOk, NEW c \in Clients, NEW i, lock[i] \ {c} = {},
         NEW a, NEW lose, SetAttr(c, i, a, lose)
  PROVE  DataStep(c) /\ ExtentsOk'
  BY DEF ExtentsOk, DataStep, SetAttr

\* remove takes away an extent that nobody else has locked.
LEMMA Removes ==
  ASSUME ExtentsOk, NEW c \in Clients, NEW i, lock[i] \ {c} = {},
         data' = Without(data, i), attr' = Without(attr, i)
  PROVE  DataStep(c) /\ ExtentsOk'
  BY DEF ExtentsOk, DataStep, Without

\* A lock that c has, nobody else has.
LEMMA Alone ==
  ASSUME LocksOk, NEW c \in Clients, NEW i \in Inums, c \in lock[i]
  PROVE  lock[i] \ {c} = {}
  BY DEF LocksOk

\* What the others know survives a step that keeps to the guarantee.
LEMMA Rely ==
  ASSUME IInv, NEW c \in Clients,
         Functions', Guarantee(c), ExtentsOk', Own(c)'
  PROVE  IInv'
<1>1. LocksOk'
  BY DEF IInv, Guarantee, LockStep, LocksOk
<1>2. ASSUME NEW e \in Clients, e # c
      PROVE  Own(e)'
  <2>1. pc'[e] = pc[e] /\ rq'[e] = rq[e] /\ loc'[e] = loc[e]
    BY <1>2 DEF Guarantee, OthersStay
  <2>2. Own(e)
    BY DEF IInv
  <2>3. \A i \in Inums : e \in lock[i] => e \in lock'[i]
    BY <1>2 DEF Guarantee, LockStep
  <2>4. \A i \in DOMAIN data : e \in lock[i] =>
          i \in DOMAIN data' /\ data'[i] = data[i] /\ i \in DOMAIN attr' /\ attr'[i] = attr[i]
    BY <1>2 DEF Guarantee, DataStep
  <2>5. Control(e)' /\ Texts(e)'
    BY <2>1, <2>2 DEF Own, Control, Texts
  <2>6. /\ pc[e] \in {"lockfile", "link", "make", "init", "cut", "remove"} => rq[e].parent \in Inums
        /\ pc[e] \in {"save", "chattr"} => rq[e].ino \in Inums
        /\ loc[e].fnum \in Inums
    BY <2>2, RequestFields DEF Own, Control, OpAtPlace, OfName, Creates, Inums
  <2>7. Locks(e)'
    BY <2>1, <2>2, <2>3, <2>6 DEF Own, Locks
  <2>8. Copies(e)'
    BY <2>1, <2>2, <2>4 DEF Own, Locks, Copies, Current1, IInv, ExtentsOk
  <2>9. QED
    BY <2>5, <2>7, <2>8 DEF Own
<1>3. QED
  BY <1>1, <1>2 DEF IInv

-----------------------------------------------------------------------------
(* The steps.                                                              *)

Good(c) == Functions' /\ Guarantee(c) /\ ExtentsOk' /\ Own(c)'

\* Places where a client has no lock and no copy.
Quiet == {"idle", "stat", "lookup", "unlink", "readdir", "read", "write", "attrs",
          "restat", "lockparent"}

\* At a place without lock or copy there is only the control to show.
LEMMA QuietOwns ==
  ASSUME NEW c \in Clients, pc'[c] \in Quiet, Control(c)'
  PROVE  Own(c)'
  BY DEF Quiet, Own, Locks, Copies, Current1, Texts

\* What a client that is at a place knows.
LEMMA Knows ==
  ASSUME IInv, NEW c \in Clients
  PROVE  /\ Functions /\ LocksOk /\ ExtentsOk /\ Own(c) /\ Control(c)
         /\ pc[c] # "idle" => rq[c] \in Requests
         /\ pc[c] \in {"lookup", "unlink", "cut", "remove", "lockparent", "lockfile",
                       "link", "make", "init"}
              => rq[c].parent \in Dirs /\ rq[c].parent \in Inums /\ rq[c].name \in Names
         /\ pc[c] \in {"readdir", "read", "write", "save", "attrs", "chattr", "restat"}
              => rq[c].ino \in Inums
<1>1. Own(c) /\ Control(c)
  BY DEF IInv, Own
<1>2. pc[c] # "idle" => rq[c] \in Requests /\ OpAtPlace(pc[c], rq[c].op)
  BY <1>1 DEF Control
<1>3. QED
  BY <1>1, <1>2, RequestFields DEF IInv, OpAtPlace, OfName, Creates, Inums

\* A handler that only looks, and returns.
LEMMA ReturnIsGood ==
  ASSUME IInv, NEW c \in Clients, Return(c), LockStep(c), DataStep(c), ExtentsOk'
  PROVE  Good(c)
<1>1. Functions' /\ OthersStay(c) /\ pc'[c] = "idle" /\ loc'[c] = Blank
  BY Returns, Knows
<1>2. QED
  BY <1>1, IdleOwns DEF Good, Guarantee

\* setattr goes on to the next attribute.
LEMMA NextAttrIsGood ==
  ASSUME IInv, NEW c \in Clients, NEW refused, pc[c] # "idle", rq[c].op = "setattr",
         NextAttr(c, refused), LockStep(c), DataStep(c), ExtentsOk'
  PROVE  Good(c)
<1> DEFINE l == [loc[c] EXCEPT !.todo = @ \ {Current(@)}, !.refused = refused]
<1>1. Functions' /\ OthersStay(c) /\ pc'[c] = "attrs" /\ loc'[c] = l /\ rq'[c] = rq[c]
  BY Goes, Knows DEF NextAttr
<1>2. Control(c)
  BY Knows
<1>3. DOMAIN l = DOMAIN Blank /\ l.fnum = loc[c].fnum /\ l.todo \subseteq loc[c].todo
  BY <1>2, BlankFields DEF Control
<1> HIDE DEF l
<1>4. Control(c)'
  BY <1>1, <1>2, <1>3 DEF Control, OpAtPlace
<1>5. QED
  BY <1>1, <1>4, QuietOwns DEF Good, Guarantee, Quiet

\* A request begins.
LEMMA BeginIsGood ==
  ASSUME IInv, NEW c \in Clients, NEW r \in Requests, begin(c, r)
  PROVE  Good(c)
<1>1. PICK i \in Targets(r) :
        loc' = [loc EXCEPT ![c] = [Blank EXCEPT !.fnum = i,
                                                !.todo = IF r.op = "setattr" THEN r.toset ELSE {}]]
  BY DEF begin
<1>2. i \in Inums
  BY RequestFields DEF Targets, OfName, Inums
<1>3. /\ Functions' /\ OthersStay(c)
      /\ pc'[c] = Start(r.op) /\ rq'[c] = r
      /\ loc'[c] = [Blank EXCEPT !.fnum = i, !.todo = IF r.op = "setattr" THEN r.toset ELSE {}]
  BY <1>1 DEF begin, IInv, Functions, OthersStay
<1>4. /\ DOMAIN loc'[c] = DOMAIN Blank /\ loc'[c].fnum \in Inums
      /\ r.op = "setattr" => loc'[c].todo \subseteq r.toset
  BY <1>2, <1>3, BlankFields
<1>5. Start(r.op) \in Quiet \ {"idle"} /\ OpAtPlace(Start(r.op), r.op)
  BY DEF Start, OpAtPlace, Quiet, Creates
<1>6. Control(c)'
  BY <1>3, <1>4, <1>5 DEF Control, Quiet
<1>7. QED
  BY <1>3, <1>5, <1>6, QuietOwns, LocksStay, ExtentsStay, Knows DEF Good, Guarantee, begin

\* A client is killed.
LEMMA DieIsGood ==
  ASSUME IInv, NEW c \in Clients, UNCHANGED <<extents, lock, pc, rq, loc>>
  PROVE  Good(c)
<1>1. Functions' /\ OthersStay(c)
  BY DEF IInv, Functions, OthersStay
<1>2. Own(c)'
  BY Knows DEF Own, Control, Locks, Copies, Current1, Texts, extents
<1>3. QED
  BY <1>1, <1>2, LocksStay, ExtentsStay, Knows DEF Good, Guarantee

\* getattr of fuse.cc.
LEMMA StatIsGood ==
  ASSUME IInv, NEW c \in Clients, stat(c)
  PROVE  Good(c)
<1>1. LockStep(c) /\ DataStep(c) /\ ExtentsOk'
  BY LocksStay, ExtentsStay, Knows DEF stat
<1>2. CASE Return(c)
  BY <1>1, <1>2, ReturnIsGood
<1>3. ASSUME NEW v, rq[c].op \in DOMAIN Then, Goto(c, Then[rq[c].op], [loc[c] EXCEPT !.st = v])
      PROVE  Good(c)
  <2>1. /\ Functions' /\ OthersStay(c) /\ pc'[c] = Then[rq[c].op] /\ rq'[c] = rq[c]
        /\ loc'[c] = [loc[c] EXCEPT !.st = v]
    BY <1>3, Goes, Knows
  <2>2. Control(c) /\ pc[c] # "idle"
    BY Knows DEF stat, At
  <2>3. pc'[c] \in Quiet /\ OpAtPlace(pc'[c], rq[c].op)
    BY <1>3, <2>1 DEF Then, Quiet, OpAtPlace
  <2>4. DOMAIN loc'[c] = DOMAIN Blank /\ loc'[c].fnum = loc[c].fnum /\ loc'[c].todo = loc[c].todo
    BY <2>1, <2>2, BlankFields DEF Control
  <2>5. Control(c)'
    BY <2>1, <2>2, <2>3, <2>4 DEF Control, Quiet
  <2>6. QED
    BY <1>1, <2>1, <2>3, <2>5, QuietOwns DEF Good, Guarantee
<1>4. QED
  BY <1>2, <1>3 DEF stat

\* lookup finds an inode number in a clean directory.
LEMMA LookupIsGood ==
  ASSUME IInv, NEW c \in Clients, lookup(c)
  PROVE  Good(c)
<1> DEFINE p == rq[c].parent
           n == rq[c].name
<1>1. LockStep(c) /\ DataStep(c) /\ ExtentsOk'
  BY LocksStay, ExtentsStay, Knows DEF lookup
<1>2. CASE Return(c)
  BY <1>1, <1>2, ReturnIsGood
<1>3. ASSUME NEW lose, Gets(c, p, lose), n \in NamesIn(Got(p, lose)),
             Goto(c, "stat", [loc[c] EXCEPT !.fnum = InumOf(data[p], n)])
      PROVE  Good(c)
  <2>1. /\ Functions' /\ OthersStay(c) /\ pc'[c] = "stat" /\ rq'[c] = rq[c]
        /\ loc'[c] = [loc[c] EXCEPT !.fnum = InumOf(data[p], n)]
    BY <1>3, Goes, Knows
  <2>2. Control(c) /\ pc[c] # "idle" /\ pc[c] = "lookup"
    BY Knows DEF lookup, At
  <2>3. ~lose
    BY <1>3, EmptyIsClean DEF Got
  <2>4. p \in Dirs \cap DOMAIN data /\ n \in NamesIn(data[p])
    BY <1>3, <2>2, <2>3, Knows DEF Got, Gets
  <2>5. InumOf(data[p], n) \in Inums
    BY <2>4, FindsName, Knows DEF ExtentsOk
  <2>6. DOMAIN loc'[c] = DOMAIN Blank /\ loc'[c].fnum \in Inums /\ loc'[c].todo = loc[c].todo
    BY <2>1, <2>2, <2>5, BlankFields DEF Control
  <2>7. Control(c)'
    BY <2>1, <2>2, <2>6 DEF Control, OpAtPlace
  <2>8. QED
    BY <1>1, <2>1, <2>7, QuietOwns DEF Good, Guarantee, Quiet
<1>4. QED
  BY <1>2, <1>3 DEF lookup

\* readdir, and the getattr that ends setattr.
LEMMA LooksAreGood ==
  ASSUME IInv, NEW c \in Clients, readdir(c) \/ restat(c)
  PROVE  Good(c)
  BY ReturnIsGood, LocksStay, ExtentsStay, Knows DEF readdir, restat

\* The exception leaves the lock taken and all else as it was.
LEMMA ThrowIsGood ==
  ASSUME IInv, NEW c \in Clients, pc[c] \in {"read", "attrs"}, NEW i \in Inums, Free(i),
         Throw(c, i), UNCHANGED <<pc, rq, loc>>, UNCHANGED extents
  PROVE  Good(c)
<1>1. Functions' /\ OthersStay(c)
  BY DEF IInv, Functions, OthersStay
<1>2. Control(c)'
  BY Knows DEF Control
<1>3. QED
  BY <1>1, <1>2, QuietOwns, Holds, ExtentsStay, Knows DEF Good, Guarantee, Throw, Quiet

\* read returns or throws.
LEMMA ReadIsGood ==
  ASSUME IInv, NEW c \in Clients, read(c)
  PROVE  Good(c)
<1>1. pc[c] = "read" /\ rq[c].ino \in Inums /\ Free(rq[c].ino) /\ UNCHANGED extents
  BY Knows DEF read, At
<1>2. CASE Throw(c, rq[c].ino) /\ UNCHANGED <<pc, rq, loc>>
  BY <1>1, <1>2, ThrowIsGood
<1>3. CASE Return(c) /\ UNCHANGED <<lock, fate>>
  BY <1>1, <1>3, ReturnIsGood, LocksStay, ExtentsStay, Knows
<1>4. QED
  BY <1>2, <1>3 DEF read

\* A get that is not lost gives what the server has.
LEMMA Gives ==
  ASSUME NEW c, NEW i, NEW lose \in MayLose("get"), Gets(c, i, lose)
  PROVE  /\ "get" \notin Lossy => i \in DOMAIN data /\ Got(i, lose) = data[i]
         /\ \/ i \in DOMAIN data /\ Got(i, lose) = data[i]
            \/ Got(i, lose) = <<>>
  BY DEF MayLose, Gets, Got

\* write and truncate: the file is locked and read.
LEMMA ReadToSaveIsGood ==
  ASSUME IInv, NEW c \in Clients, NEW lose \in MayLose("get"), pc[c] # "idle",
         rq[c].op \in {"write", "setattr"}, rq[c].ino \in Files, Free(rq[c].ino),
         Gets(c, rq[c].ino, lose), Hold(c, rq[c].ino),
         Goto(c, "save", [loc[c] EXCEPT !.buf = Got(rq[c].ino, lose)]), UNCHANGED extents
  PROVE  Good(c)
<1> DEFINE i == rq[c].ino
           l == [loc[c] EXCEPT !.buf = Got(i, lose)]
<1>1. Functions' /\ OthersStay(c) /\ pc'[c] = "save" /\ rq'[c] = rq[c] /\ loc'[c] = l
  BY Goes, Knows
<1>2. LockStep(c) /\ c \in lock'[i]
  BY Holds, Knows DEF Inums
<1>3. DataStep(c) /\ ExtentsOk'
  BY ExtentsStay, Knows
<1>4. Control(c)
  BY Knows
<1>5. /\ DOMAIN l = DOMAIN Blank /\ l.fnum = loc[c].fnum /\ l.todo = loc[c].todo
      /\ l.buf = Got(i, lose)
  BY <1>4, BlankFields DEF Control
<1> HIDE DEF l
<1>6. Control(c)'
  BY <1>1, <1>4, <1>5 DEF Control, OpAtPlace
<1>7. Locks(c)' /\ Texts(c)'
  BY <1>1, <1>2 DEF Locks, Texts
<1>8. Copies(c)'
  BY <1>1, <1>5, Gives DEF Copies, Current1, extents
<1>9. QED
  BY <1>1, <1>2, <1>3, <1>6, <1>7, <1>8 DEF Good, Guarantee, Own

\* write reads the file it is to write to.
LEMMA WriteIsGood ==
  ASSUME IInv, NEW c \in Clients, write(c)
  PROVE  Good(c)
<1> DEFINE i == rq[c].ino
<1>1. pc[c] = "write" /\ rq[c].op = "write" /\ i \in Files /\ Free(i) /\ UNCHANGED extents
  BY Knows, RequestFields DEF write, At, Control, OpAtPlace
<1>2. CASE Return(c) /\ UNCHANGED lock
  BY <1>1, <1>2, ReturnIsGood, LocksStay, ExtentsStay, Knows
<1>3. ASSUME NEW lose \in MayLose("get"), Gets(c, i, lose),
             Goto(c, "save", [loc[c] EXCEPT !.buf = Got(i, lose)]), Hold(c, i)
      PROVE  Good(c)
  BY <1>1, <1>3, ReadToSaveIsGood
<1>4. QED
  BY <1>2, <1>3 DEF write

\* Which attribute is set.
LEMMA SettingOne ==
  ASSUME IInv, NEW c \in Clients, NEW a, Setting(c, a)
  PROVE  /\ pc[c] = "attrs" /\ rq[c].op = "setattr" /\ rq[c].ino \in Inums
         /\ loc[c].todo # {} /\ a \in loc[c].todo
         /\ a = "size" => rq[c].ino \in Files
<1>1. pc[c] = "attrs" /\ loc[c].todo # {} /\ Current(loc[c].todo) = a
  BY DEF Setting, At
<1>2. rq[c] \in Requests /\ rq[c].op = "setattr" /\ loc[c].todo \subseteq rq[c].toset
      /\ rq[c].ino \in Inums
  BY <1>1, Knows DEF Control, OpAtPlace
<1>3. loc[c].todo \in SUBSET {"size", "mode", "uid", "gid"}
  BY <1>2, RequestFields
<1>4. a \in loc[c].todo
  BY <1>1, <1>3, CurrentIsLeft
<1>5. QED
  BY <1>1, <1>2, <1>4, RequestFields

\* setattr of the size: refused, thrown out, or about to be saved.
LEMMA ResizeIsGood ==
  ASSUME IInv, NEW c \in Clients, resize(c)
  PROVE  Good(c)
<1> DEFINE i == rq[c].ino
<1>1. Setting(c, "size") /\ Free(i) /\ UNCHANGED extents
  BY DEF resize
<1>2. pc[c] = "attrs" /\ rq[c].op = "setattr" /\ i \in Files /\ i \in Inums
  BY <1>1, SettingOne
<1>3. ASSUME NEW refused, NextAttr(c, refused), UNCHANGED <<lock, fate>>
      PROVE  Good(c)
  BY <1>1, <1>2, <1>3, NextAttrIsGood, LocksStay, ExtentsStay, Knows
<1>4. CASE Throw(c, i) /\ UNCHANGED <<pc, rq, loc>>
  BY <1>1, <1>2, <1>4, ThrowIsGood
<1>5. ASSUME NEW lose \in MayLose("get"), Gets(c, i, lose),
             Goto(c, "save", [loc[c] EXCEPT !.buf = Got(i, lose)]), Hold(c, i)
      PROVE  Good(c)
  BY <1>1, <1>2, <1>5, ReadToSaveIsGood
<1>6. QED
  BY <1>3, <1>4, <1>5 DEF resize

\* The put of write and truncate.
LEMMA SaveIsGood ==
  ASSUME IInv, NEW c \in Clients, save(c)
  PROVE  Good(c)
<1> DEFINE i == rq[c].ino
<1>1. pc[c] = "save" /\ Release(c)
  BY DEF save, At
<1>2. i \in Files /\ i \in Inums /\ c \in lock[i] /\ rq[c].op \in {"write", "setattr"}
  BY <1>1, Knows DEF Own, Control, Locks, OpAtPlace
<1>3. LockStep(c) /\ lock[i] \ {c} = {} /\ i \notin Dirs
  BY <1>1, <1>2, Releases, Alone, Knows, InumsAssumption
<1>4. PICK lose \in MayLose("save") :
        /\ Put(c, i, NewContents(c), lose)
        /\ IF rq[c].op = "write" THEN Return(c) ELSE NextAttr(c, Refuses(c, i, lose))
  BY DEF save
<1>5. DataStep(c) /\ ExtentsOk'
  BY <1>3, <1>4, Puts, Knows
<1>6. CASE rq[c].op = "write"
  BY <1>3, <1>4, <1>5, <1>6, ReturnIsGood
<1>7. CASE rq[c].op = "setattr"
  BY <1>1, <1>3, <1>4, <1>5, <1>7, NextAttrIsGood
<1>8. QED
  BY <1>2, <1>6, <1>7

\* chmod, chuid and chgid: the attributes are locked and read.
LEMMA ChattrReadIsGood ==
  ASSUME IInv, NEW c \in Clients, chattr_read(c)
  PROVE  Good(c)
<1> DEFINE i == rq[c].ino
           l == [loc[c] EXCEPT !.att = attr[i]]
<1>1. PICK a \in {"mode", "uid", "gid"} : Setting(c, a)
  BY DEF chattr_read
<1>2. pc[c] = "attrs" /\ rq[c].op = "setattr" /\ i \in Inums /\ loc[c].todo # {}
  BY <1>1, SettingOne
<1>3. DataStep(c) /\ ExtentsOk'
  BY ExtentsStay, Knows DEF chattr_read
<1>4. CASE NextAttr(c, FALSE) /\ UNCHANGED lock
  BY <1>2, <1>3, <1>4, NextAttrIsGood, LocksStay, Knows
<1>5. CASE i \in DOMAIN data /\ Goto(c, "chattr", l) /\ Hold(c, i)
  <2>1. Functions' /\ OthersStay(c) /\ pc'[c] = "chattr" /\ rq'[c] = rq[c] /\ loc'[c] = l
    BY <1>5, Goes, Knows
  <2>2. LockStep(c) /\ c \in lock'[i]
    BY <1>2, <1>5, Holds, Knows DEF chattr_read
  <2>3. Control(c)
    BY Knows
  <2>4. /\ DOMAIN l = DOMAIN Blank /\ l.fnum = loc[c].fnum /\ l.todo = loc[c].todo
        /\ l.att = attr[i]
    BY <2>3, BlankFields DEF Control
  <2> HIDE DEF l
  <2>5. Control(c)'
    BY <1>2, <2>1, <2>3, <2>4 DEF Control, OpAtPlace
  <2>6. Locks(c)' /\ Texts(c)'
    BY <2>1, <2>2 DEF Locks, Texts
  <2>7. i \in DOMAIN attr /\ UNCHANGED attr
    BY <1>5, Knows DEF ExtentsOk, chattr_read, extents
  <2>8. Copies(c)'
    BY <2>1, <2>4, <2>7 DEF Copies, Current1
  <2>9. QED
    BY <1>3, <2>1, <2>2, <2>5, <2>6, <2>8 DEF Good, Guarantee, Own
<1>6. QED
  BY <1>4, <1>5 DEF chattr_read

\* The setattr of chmod, chuid and chgid.
LEMMA ChattrIsGood ==
  ASSUME IInv, NEW c \in Clients, chattr(c)
  PROVE  Good(c)
<1> DEFINE i == rq[c].ino
           a == Current(loc[c].todo)
<1>1. pc[c] = "chattr" /\ Release(c)
  BY DEF chattr, At
<1>2. i \in Inums /\ c \in lock[i] /\ rq[c].op = "setattr"
  BY <1>1, Knows DEF Own, Control, Locks, OpAtPlace
<1>3. LockStep(c) /\ lock[i] \ {c} = {}
  BY <1>1, <1>2, Releases, Alone, Knows
<1>4. PICK lose \in MayLose("setattr") :
        /\ SetAttr(c, i, [loc[c].att EXCEPT ![a] = rq[c][a]], lose)
        /\ NextAttr(c, Refuses(c, i, lose))
  BY DEF chattr
<1>5. DataStep(c) /\ ExtentsOk'
  BY <1>3, <1>4, SetsAttr, Knows
<1>6. QED
  BY <1>1, <1>2, <1>3, <1>4, <1>5, NextAttrIsGood

\* Going on to a place without a lock or a copy, with the same locals.
LEMMA GoesOnQuietly ==
  ASSUME IInv, NEW c \in Clients, NEW p \in Quiet, pc[c] # "idle", OpAtPlace(p, rq[c].op),
         Goto(c, p, loc[c]), LockStep(c), DataStep(c), ExtentsOk'
  PROVE  Good(c)
<1>1. Functions' /\ OthersStay(c) /\ pc'[c] = p /\ rq'[c] = rq[c] /\ loc'[c] = loc[c]
  BY Goes, Knows
<1>2. Control(c)'
  BY <1>1, Knows DEF Control, Quiet
<1>3. QED
  BY <1>1, <1>2, QuietOwns DEF Good, Guarantee

\* The end of setattr.
LEMMA SetattrEndIsGood ==
  ASSUME IInv, NEW c \in Clients, setattr_end(c)
  PROVE  Good(c)
<1>1. LockStep(c) /\ DataStep(c) /\ ExtentsOk'
  BY LocksStay, ExtentsStay, Knows DEF setattr_end
<1>2. CASE Return(c)
  BY <1>1, <1>2, ReturnIsGood
<1>3. CASE Goto(c, "restat", loc[c])
  <2>1. pc[c] = "attrs" /\ rq[c].op = "setattr"
    BY Knows DEF setattr_end, At, Control, OpAtPlace
  <2>2. "restat" \in Quiet /\ OpAtPlace("restat", rq[c].op)
    BY <2>1 DEF Quiet, OpAtPlace
  <2>3. QED
    BY <1>1, <1>3, <2>1, <2>2, GoesOnQuietly
<1>4. QED
  BY <1>2, <1>3 DEF setattr_end

\* create locks the directory.
LEMMA CreateLockIsGood ==
  ASSUME IInv, NEW c \in Clients, create_lock(c)
  PROVE  Good(c)
<1>1. pc[c] = "lockparent" /\ rq[c].parent \in Inums /\ rq[c].op \in Creates
  BY Knows DEF create_lock, At, Control, OpAtPlace
<1>2. Functions' /\ OthersStay(c) /\ pc'[c] = "lockfile" /\ rq'[c] = rq[c] /\ loc'[c] = loc[c]
  BY Goes, Knows DEF create_lock
<1>3. LockStep(c) /\ c \in lock'[rq[c].parent]
  BY <1>1, Holds, Knows DEF create_lock
<1>4. DataStep(c) /\ ExtentsOk'
  BY ExtentsStay, Knows DEF create_lock
<1>5. Control(c)'
  BY <1>1, <1>2, Knows DEF Control, OpAtPlace
<1>6. Locks(c)' /\ Texts(c)' /\ Copies(c)'
  BY <1>2, <1>3 DEF Locks, Texts, Copies, Current1
<1>7. QED
  BY <1>2, <1>3, <1>4, <1>5, <1>6 DEF Good, Guarantee, Own

\* What a get of a directory gives is clean.
LEMMA GivesClean ==
  ASSUME ExtentsOk, NEW c, NEW p \in Dirs, NEW lose \in MayLose("get"), Gets(c, p, lose)
  PROVE  Clean(Got(p, lose))
  BY Gives, EmptyIsClean DEF ExtentsOk

\* create locks the new inode and reads the directory, or gives up.
LEMMA CreateGetIsGood ==
  ASSUME IInv, NEW c \in Clients, create_get(c)
  PROVE  Good(c)
<1> DEFINE p == rq[c].parent
           i == loc[c].fnum
<1>1. /\ pc[c] = "lockfile" /\ p \in Dirs /\ p \in Inums /\ rq[c].op \in Creates
      /\ i \in Inums /\ c \in lock[p] /\ Free(i)
  BY Knows DEF create_get, At, Own, Control, OpAtPlace, Locks
<1>2. DataStep(c) /\ ExtentsOk'
  BY ExtentsStay, Knows DEF create_get
<1>3. CASE Return(c) /\ Release(c)
  BY <1>2, <1>3, ReturnIsGood, Releases
<1>4. ASSUME NEW lose \in MayLose("get"), Gets(c, p, lose), ~Occurs(rq[c].name, Got(p, lose)),
             Goto(c, "link", [loc[c] EXCEPT !.buf = Got(p, lose)]), Hold(c, i)
      PROVE  Good(c)
  <2> DEFINE l == [loc[c] EXCEPT !.buf = Got(p, lose)]
  <2>1. Functions' /\ OthersStay(c) /\ pc'[c] = "link" /\ rq'[c] = rq[c] /\ loc'[c] = l
    BY <1>4, Goes, Knows
  <2>2. LockStep(c) /\ c \in lock'[i] /\ c \in lock'[p]
    BY <1>1, <1>4, Holds, Knows
  <2>3. Control(c)
    BY Knows
  <2>4. /\ DOMAIN l = DOMAIN Blank /\ l.fnum = i /\ l.todo = loc[c].todo
        /\ l.buf = Got(p, lose)
    BY <2>3, BlankFields DEF Control
  <2> HIDE DEF l
  <2>5. Control(c)'
    BY <1>1, <2>1, <2>3, <2>4 DEF Control, OpAtPlace, Creates
  <2>6. Locks(c)'
    BY <2>1, <2>2, <2>4 DEF Locks
  <2>7. Texts(c)'
    BY <1>1, <1>4, <2>1, <2>4, GivesClean, Knows DEF Texts
  <2>8. Copies(c)'
    BY <1>4, <2>1, <2>4, Gives DEF Copies, Current1, create_get, extents
  <2>9. QED
    BY <1>2, <2>1, <2>2, <2>5, <2>6, <2>7, <2>8 DEF Good, Guarantee, Own
<1>5. QED
  BY <1>3, <1>4 DEF create_get

\* create goes on with both locks, or ends without any.
LEMMA CreatingIsGood ==
  ASSUME IInv, NEW c \in Clients, pc[c] \in {"link", "make", "init"}, NEW refused,
         NEW place \in {"make", "init", "stat"}, Creating(c, refused, place),
         DataStep(c), ExtentsOk'
  PROVE  Good(c)
<1>1. CASE Return(c) /\ Release(c)
  BY <1>1, ReturnIsGood, Releases
<1>2. CASE place = "stat" /\ Goto(c, place, loc[c]) /\ Release(c)
  <2>1. pc[c] # "idle" /\ place \in Quiet /\ OpAtPlace(place, rq[c].op)
    BY <1>2 DEF Quiet, OpAtPlace
  <2>2. QED
    BY <1>2, <2>1, Releases, GoesOnQuietly
<1>3. CASE place # "stat" /\ Goto(c, place, loc[c]) /\ UNCHANGED lock
  <2>1. Functions' /\ OthersStay(c) /\ pc'[c] = place /\ rq'[c] = rq[c] /\ loc'[c] = loc[c]
    BY <1>3, Goes, Knows
  <2>2. LockStep(c)
    BY <1>3, LocksStay, Knows
  <2>3. Control(c)'
    BY <1>3, <2>1, Knows DEF Control, OpAtPlace
  <2>4. Locks(c)' /\ Texts(c)' /\ Copies(c)'
    BY <1>3, <2>1, Knows DEF Own, Locks, Texts, Copies, Current1
  <2>5. QED
    BY <2>1, <2>2, <2>3, <2>4 DEF Good, Guarantee, Own
<1>4. QED
  BY <1>1, <1>2, <1>3 DEF Creating

\* create writes the directory with the new entry.
LEMMA LinkIsGood ==
  ASSUME IInv, NEW c \in Clients, link(c)
  PROVE  Good(c)
<1> DEFINE p == rq[c].parent
           e == [name |-> rq[c].name, inum |-> loc[c].fnum]
<1>1. pc[c] = "link"
  BY DEF link, At
<1>2. /\ p \in Inums /\ rq[c].name \in Names /\ loc[c].fnum \in Inums /\ c \in lock[p]
      /\ Clean(loc[c].buf) /\ ~Occurs(rq[c].name, loc[c].buf)
  BY <1>1, Knows DEF Own, Control, Locks, Texts
<1>3. lock[p] \ {c} = {} /\ Clean(Append(loc[c].buf, e))
  BY <1>2, Alone, AppendIsClean, Knows
<1>4. PICK lose \in MayLose("link") :
        Put(c, p, Append(loc[c].buf, e), lose) /\ Creating(c, Refuses(c, p, lose), "make")
  BY DEF link
<1>5. DataStep(c) /\ ExtentsOk'
  BY <1>3, <1>4, Puts, Knows
<1>6. QED
  BY <1>1, <1>4, <1>5, CreatingIsGood

\* create writes the new extent.
LEMMA MakeIsGood ==
  ASSUME IInv, NEW c \in Clients, make(c)
  PROVE  Good(c)
<1> DEFINE i == loc[c].fnum
<1>1. pc[c] = "make"
  BY DEF make, At
<1>2. lock[i] \ {c} = {}
  BY <1>1, Alone, Knows DEF Own, Control, Locks
<1>3. PICK lose \in MayLose("make") :
        Put(c, i, <<>>, lose) /\ Creating(c, Refuses(c, i, lose), "init")
  BY DEF make
<1>4. DataStep(c) /\ ExtentsOk'
  BY <1>2, <1>3, Puts, EmptyIsClean, Knows
<1>5. QED
  BY <1>1, <1>3, <1>4, CreatingIsGood

\* create gives the new extent its attributes.
LEMMA InitIsGood ==
  ASSUME IInv, NEW c \in Clients, init(c)
  PROVE  Good(c)
<1> DEFINE i == loc[c].fnum
<1>1. pc[c] = "init"
  BY DEF init, At
<1>2. lock[i] \ {c} = {}
  BY <1>1, Alone, Knows DEF Own, Control, Locks
<1>3. PICK lose \in MayLose("init") :
        /\ SetAttr(c, i, [mode |-> rq[c].mode, uid |-> c, gid |-> getgid[c]], lose)
        /\ Creating(c, Refuses(c, i, lose), "stat")
  BY DEF init
<1>4. DataStep(c) /\ ExtentsOk'
  BY <1>2, <1>3, SetsAttr, Knows
<1>5. QED
  BY <1>1, <1>3, <1>4, CreatingIsGood

\* unlink locks and reads the directory.
LEMMA UnlinkIsGood ==
  ASSUME IInv, NEW c \in Clients, unlink(c)
  PROVE  Good(c)
<1> DEFINE p == rq[c].parent
           n == rq[c].name
           l == [loc[c] EXCEPT !.buf = data[p], !.fnum = InumOf(data[p], n)]
<1>1. pc[c] = "unlink" /\ p \in Dirs /\ p \in Inums /\ Free(p) /\ rq[c].op = "unlink"
  BY Knows DEF unlink, At, Control, OpAtPlace
<1>2. DataStep(c) /\ ExtentsOk'
  BY ExtentsStay, Knows DEF unlink
<1>3. CASE Return(c) /\ UNCHANGED lock
  BY <1>2, <1>3, ReturnIsGood, LocksStay, Knows
<1>4. ASSUME NEW lose, Gets(c, p, lose), n \in NamesIn(Got(p, lose)),
             Goto(c, "cut", l), Hold(c, p)
      PROVE  Good(c)
  <2>1. Functions' /\ OthersStay(c) /\ pc'[c] = "cut" /\ rq'[c] = rq[c] /\ loc'[c] = l
    BY <1>4, Goes, Knows
  <2>2. LockStep(c) /\ c \in lock'[p]
    BY <1>1, <1>4, Holds, Knows
  <2>3. Control(c)
    BY Knows
  <2>4. ~lose
    BY <1>4, EmptyIsClean DEF Got
  <2>5. p \in Dirs \cap DOMAIN data /\ n \in NamesIn(data[p])
    BY <1>1, <1>4, <2>4 DEF Got, Gets
  <2>6. Clean(data[p]) /\ InumOf(data[p], n) \in Inums
    BY <2>5, FindsName, Knows DEF ExtentsOk
  <2>7. /\ DOMAIN l = DOMAIN Blank /\ l.fnum \in Inums /\ l.todo = loc[c].todo
        /\ l.buf = data[p]
    BY <2>3, <2>6, BlankFields DEF Control
  <2> HIDE DEF l
  <2>8. Control(c)'
    BY <1>1, <2>1, <2>3, <2>7 DEF Control, OpAtPlace
  <2>9. Locks(c)' /\ Texts(c)'
    BY <2>1, <2>2, <2>5, <2>6, <2>7 DEF Locks, Texts
  <2>10. Copies(c)'
    BY <2>1, <2>5, <2>7 DEF Copies, Current1, unlink, extents
  <2>11. QED
    BY <1>2, <2>1, <2>2, <2>8, <2>9, <2>10 DEF Good, Guarantee, Own
<1>5. QED
  BY <1>3, <1>4 DEF unlink

\* unlink writes the directory without the entry.
LEMMA CutIsGood ==
  ASSUME IInv, NEW c \in Clients, cut(c)
  PROVE  Good(c)
<1> DEFINE p == rq[c].parent
<1>1. pc[c] = "cut"
  BY DEF cut, At
<1>2. /\ p \in Inums /\ c \in lock[p] /\ rq[c].op = "unlink"
      /\ Clean(loc[c].buf) /\ rq[c].name \in NamesIn(loc[c].buf)
  BY <1>1, Knows DEF Own, Control, Locks, Texts, OpAtPlace
<1>3. lock[p] \ {c} = {} /\ Clean(Erased(loc[c].buf, rq[c].name))
  BY <1>2, Alone, ErasedIsClean, Knows
<1>4. PICK lose \in MayLose("cut") :
        /\ Put(c, p, Erased(loc[c].buf, rq[c].name), lose)
        /\ IF Refuses(c, p, lose) THEN Return(c) /\ Release(c)
                                  ELSE Goto(c, "remove", loc[c]) /\ UNCHANGED lock
  BY DEF cut
<1>5. DataStep(c) /\ ExtentsOk'
  BY <1>3, <1>4, Puts, Knows
<1>6. CASE Return(c) /\ Release(c)
  BY <1>5, <1>6, ReturnIsGood, Releases
<1>7. CASE Goto(c, "remove", loc[c]) /\ UNCHANGED lock
  <2>1. Functions' /\ OthersStay(c) /\ pc'[c] = "remove" /\ rq'[c] = rq[c] /\ loc'[c] = loc[c]
    BY <1>7, Goes, Knows
  <2>2. LockStep(c)
    BY <1>7, LocksStay, Knows
  <2>3. Control(c)'
    BY <1>1, <1>2, <2>1, Knows DEF Control, OpAtPlace
  <2>4. Locks(c)' /\ Texts(c)' /\ Copies(c)'
    BY <1>2, <1>7, <2>1 DEF Locks, Texts, Copies, Current1
  <2>5. QED
    BY <1>5, <2>1, <2>2, <2>3, <2>4 DEF Good, Guarantee, Own
<1>8. QED
  BY <1>4, <1>6, <1>7

\* unlink removes the extent.
LEMMA RemoveIsGood ==
  ASSUME IInv, NEW c \in Clients, remove(c)
  PROVE  Good(c)
<1> DEFINE i == loc[c].fnum
<1>1. lock[i] \ {c} = {} /\ Return(c) /\ LockStep(c)
  BY Releases DEF remove, Free
<1>2. \/ UNCHANGED extents
      \/ data' = Without(data, i) /\ attr' = Without(attr, i)
  BY DEF remove
<1>3. DataStep(c) /\ ExtentsOk'
  BY <1>1, <1>2, ExtentsStay, Removes, Knows
<1>4. QED
  BY <1>1, <1>3, ReturnIsGood

-----------------------------------------------------------------------------
(* The theorems.                                                           *)

\* The invariant holds at the start.
LEMMA InitInv == Init => IInv
<1> SUFFICES ASSUME Init PROVE IInv
  OBVIOUS
<1>1. Functions /\ LocksOk
  BY DEF Init, Functions, LocksOk
<1>2. ExtentsOk
  BY EmptyIsClean DEF Init, ExtentsOk
<1>3. ASSUME NEW c \in Clients
      PROVE  Own(c)
  BY BlankFields DEF Init, Own, Control, Locks, Copies, Current1, Texts
<1>4. QED
  BY <1>1, <1>2, <1>3 DEF IInv

\* Every step of a handler keeps to the guarantee.
LEMMA HandleIsGood ==
  ASSUME IInv, NEW c \in Clients, Handle(c)
  PROVE  Good(c)
  BY StatIsGood, LookupIsGood, LooksAreGood, ReadIsGood, WriteIsGood, ResizeIsGood, SaveIsGood,
     ChattrReadIsGood, ChattrIsGood, SetattrEndIsGood, CreateLockIsGood, CreateGetIsGood,
     LinkIsGood, MakeIsGood, InitIsGood, UnlinkIsGood, CutIsGood, RemoveIsGood DEF Handle

\* Every step keeps the invariant.
LEMMA NextInv ==
  ASSUME IInv, [Next]_vars
  PROVE  IInv'
<1>1. ASSUME NEW c \in Clients, Good(c)
      PROVE  IInv'
  BY <1>1, Rely DEF Good
<1>2. ASSUME NEW c \in Clients, Handle(c) PROVE IInv'
  BY <1>1, <1>2, HandleIsGood
<1>3. ASSUME NEW c \in Clients, die(c) PROVE IInv'
  BY <1>1, <1>3, DieIsGood DEF die
<1>4. ASSUME NEW c \in Clients, NEW r \in Requests, begin(c, r) PROVE IInv'
  BY <1>1, <1>4, BeginIsGood
<1>5. CASE UNCHANGED vars
  BY <1>5 DEF vars, IInv, Functions, LocksOk, ExtentsOk, Own, Control, Locks, Copies, Current1, Texts
<1>6. QED
  BY <1>2, <1>3, <1>4, <1>5 DEF Next

\* The inductive invariant holds always.
THEOREM YfsInvariant == SafeSpec => []IInv
  BY InitInv, NextInv, PTL DEF SafeSpec

\* unlink erases the entry it has looked up: the first place where the name of
\* an entry occurs in a directory's text is that entry.  This holds even if
\* any call is lost.
THEOREM UnlinkErasesItsEntry == SafeSpec => []UnlinkFindsItsEntry
<1>1. IInv => UnlinkFindsItsEntry
  BY FirstOccurrence DEF IInv, ExtentsOk, UnlinkFindsItsEntry
<1>2. QED
  BY <1>1, YfsInvariant, PTL

\* If no get is lost, what a client writes back is a change of what the server
\* has: nobody has changed the directory, the file or the attributes since.
THEOREM CopiesStayCurrent ==
  ASSUME "get" \notin Lossy
  PROVE  SafeSpec => []CopyIsCurrent
<1>1. IInv => CopyIsCurrent
  BY DEF IInv, Own, Copies, Current1, CopyIsCurrent
<1>2. QED
  BY <1>1, YfsInvariant, PTL

-----------------------------------------------------------------------------
(* The tree.                                                               *)

NoEntry(i) == \A d \in Dirs \cap DOMAIN data : \A k \in DOMAIN data[d] : data[d][k].inum # i

\* The places of create before its entry is linked, and before its extent has
\* its attributes.
Before == {"lockparent", "lockfile", "link"}
After == {"make", "init"}

\* The number of a file to be created is nowhere in use: nobody else handles
\* it until the entry is linked, and no other creator until the end.
Fresh(c) ==
  /\ pc[c] \in Before => /\ loc[c].fnum \notin DOMAIN data /\ NoEntry(loc[c].fnum)
                         /\ \A e \in Clients \ {c} : loc[e].fnum # loc[c].fnum
  /\ pc[c] = "make" => loc[c].fnum \notin DOMAIN data
  /\ pc[c] \in After => \A e \in Clients \ {c} : pc[e] \in After => loc[e].fnum # loc[c].fnum

\* What unlink removes is what its entry led to, and nothing leads there then.
Found(c) ==
  /\ pc[c] = "cut" => loc[c].fnum = InumOf(loc[c].buf, rq[c].name)
  /\ pc[c] \in {"cut", "remove"} => loc[c].fnum # Root
  /\ pc[c] = "remove" /\ "cut" \notin Lossy => NoEntry(loc[c].fnum)

RootStays == Root \in DOMAIN data /\ NoEntry(Root)

Single == \A d, e \in Dirs \cap DOMAIN data : \A j \in DOMAIN data[d], k \in DOMAIN data[e] :
            data[d][j].inum = data[e][k].inum => d = e /\ j = k

Leads(i) == i \in DOMAIN data \/ \E c \in Clients : pc[c] = "make" /\ loc[c].fnum = i
Led == {"make", "cut"} \cap Lossy = {} =>
         \A d \in Dirs \cap DOMAIN data : \A k \in DOMAIN data[d] : Leads(data[d][k].inum)

Tree == RootStays /\ Single /\ Led /\ \A c \in Clients : Fresh(c) /\ Found(c)

\* What the handlers of setattr have made sure of.
Sizes(c) ==
  /\ pc[c] = "save" /\ rq[c].op = "setattr" /\ rq[c].size <= loc[c].st
       => loc[c].st - rq[c].size <= Len(loc[c].buf)
  /\ pc[c] = "save" /\ rq[c].op = "setattr" => "size" \in rq[c].toset
  /\ pc[c] = "chattr" => Current(loc[c].todo) \in {"mode", "uid", "gid"}

TInv == TypeOK /\ Tree /\ \A c \in Clients : Sizes(c)

-----------------------------------------------------------------------------
(* Types.                                                                  *)

LocalTypes(l) ==
  /\ DOMAIN l = DOMAIN Blank /\ l.fnum \in Inums /\ l.st \in Nat /\ l.refused \in BOOLEAN
  /\ l.todo \subseteq {"size", "mode", "uid", "gid"}

ContentsType(i) == Seq(IF i \in Dirs THEN Entry ELSE Bytes)
DataTypes ==
  /\ DOMAIN data \subseteq Inums /\ DOMAIN attr = DOMAIN data
  /\ \A i \in DOMAIN data : data[i] \in ContentsType(i)
  /\ \A i \in DOMAIN attr : attr[i] \in Attr

ClientTypes ==
  /\ pc \in [Clients -> Places] /\ rq \in [Clients -> Requests \cup {NoCall}]
  /\ \A c \in Clients : LocalTypes(loc[c])

CountTypes ==
  /\ fate \in [Clients -> {"runs", "killed", "threw"}]
  /\ calls \in 0 .. MaxCalls /\ lost \in 0 .. MaxLost

\* TypeOK, by what a step may change.
LEMMA TypeParts ==
  TypeOK <=> DataTypes /\ ClientTypes /\ CountTypes /\ lock \in [Inums -> SUBSET Clients]
  BY DEF TypeOK, DataTypes, ClientTypes, CountTypes, LocalTypes, ContentsType

\* The same of the next state.
LEMMA TypePartsNext ==
  ASSUME DataTypes', ClientTypes', CountTypes', IInv'
  PROVE  TypeOK'
  BY DEF TypeOK, DataTypes, ClientTypes, CountTypes, LocalTypes, ContentsType, IInv, LocksOk

\* A handler goes on with locals of their types.
LEMMA GoesTyped ==
  ASSUME IInv, ClientTypes, NEW c \in Clients, NEW p \in Places, NEW l, LocalTypes(l), Goto(c, p, l)
  PROVE  ClientTypes'
<1>1. pc' \in [Clients -> Places] /\ rq' \in [Clients -> Requests \cup {NoCall}]
  BY DEF ClientTypes, Goto
<1>2. ASSUME NEW e \in Clients
      PROVE  LocalTypes(loc'[e])
  <2>1. OthersStay(c) /\ loc'[c] = l
    BY Goes DEF IInv
  <2>2. CASE e = c
    BY <2>1, <2>2
  <2>3. CASE e # c
    BY <2>1, <2>3 DEF OthersStay, ClientTypes
  <2>4. QED
    BY <2>2, <2>3
<1>3. QED
  BY <1>1, <1>2 DEF ClientTypes

\* The locals at the start.
LEMMA BlankTyped == LocalTypes(Blank) /\ "idle" \in Places
  BY InumsAssumption DEF LocalTypes, Blank, Inums, Places

\* A handler that returns.
LEMMA ReturnsTyped ==
  ASSUME IInv, ClientTypes, NEW c \in Clients, Return(c)
  PROVE  ClientTypes'
<1>1. pc' \in [Clients -> Places] /\ rq' \in [Clients -> Requests \cup {NoCall}]
  BY BlankTyped DEF ClientTypes, Return
<1>2. ASSUME NEW e \in Clients
      PROVE  LocalTypes(loc'[e])
  <2>1. OthersStay(c) /\ loc'[c] = Blank
    BY Returns DEF IInv
  <2>2. CASE e = c
    BY <2>1, <2>2, BlankTyped
  <2>3. CASE e # c
    BY <2>1, <2>3 DEF OthersStay, ClientTypes
  <2>4. QED
    BY <2>2, <2>3
<1>3. QED
  BY <1>1, <1>2 DEF ClientTypes

\* setattr goes on to the next attribute.
LEMMA NextAttrTyped ==
  ASSUME IInv, ClientTypes, NEW c \in Clients, NEW refused \in BOOLEAN, NextAttr(c, refused)
  PROVE  ClientTypes'
<1> DEFINE l == [loc[c] EXCEPT !.todo = @ \ {Current(@)}, !.refused = refused]
<1>1. LocalTypes(loc[c])
  BY DEF ClientTypes
<1>2. LocalTypes(l)
  BY <1>1, BlankFields DEF LocalTypes
<1>3. "attrs" \in Places /\ Goto(c, "attrs", l)
  BY DEF Places, NextAttr
<1> HIDE DEF l
<1>4. QED
  BY <1>2, <1>3, GoesTyped

\* A step that leaves the clients alone.
LEMMA StaysTyped ==
  ASSUME ClientTypes, UNCHANGED <<pc, rq, loc>>
  PROVE  ClientTypes'
  BY DEF ClientTypes

\* A step that leaves the extents alone.
LEMMA ExtentsTyped ==
  ASSUME DataTypes, UNCHANGED extents
  PROVE  DataTypes'
  BY DEF DataTypes, extents, ContentsType

\* A put of contents of their type.
LEMMA PutTyped ==
  ASSUME DataTypes, NEW c, NEW i \in Inums, NEW v \in ContentsType(i), NEW lose, Put(c, i, v, lose)
  PROVE  DataTypes'
<1>1. CASE UNCHANGED extents
  BY <1>1, ExtentsTyped
<1>2. CASE /\ data' = With(data, i, v)
           /\ attr' \in IF i \in DOMAIN attr THEN {attr} ELSE {With(attr, i, a) : a \in NewAttr}
  <2>1. /\ DOMAIN data' = DOMAIN data \cup {i} /\ data'[i] = v
        /\ \A j \in DOMAIN data \ {i} : data'[j] = data[j]
    BY <1>2 DEF With
  <2>2. NewAttr \subseteq Attr
    BY OwnersAssumption DEF NewAttr, Attr
  <2>3. DOMAIN attr' = DOMAIN attr \cup {i} /\ \A j \in DOMAIN attr' : attr'[j] \in Attr
    <3>1. CASE i \in DOMAIN attr
      BY <1>2, <3>1 DEF DataTypes
    <3>2. CASE i \notin DOMAIN attr
      <4>1. PICK a \in NewAttr : attr' = With(attr, i, a)
        BY <1>2, <3>2
      <4>2. QED
        BY <2>2, <4>1 DEF With, DataTypes
    <3>3. QED
      BY <3>1, <3>2
  <2>4. \A j \in DOMAIN data' : data'[j] \in ContentsType(j)
    BY <2>1 DEF DataTypes
  <2>5. QED
    BY <2>1, <2>3, <2>4 DEF DataTypes, ContentsType
<1>3. QED
  BY <1>1, <1>2 DEF Put

\* A setattr of attributes of their type.
LEMMA SetAttrTyped ==
  ASSUME DataTypes, NEW c, NEW i, NEW a \in Attr, NEW lose, SetAttr(c, i, a, lose)
  PROVE  DataTypes'
  BY DEF DataTypes, SetAttr, ContentsType

\* A call that may be lost is counted.
LEMMA Counted ==
  ASSUME CountTypes, NEW k, NEW lose \in MayLose(k), Count(lose), UNCHANGED <<fate, calls>>
  PROVE  CountTypes'
<1>1. lose \in BOOLEAN /\ (lose => lost < MaxLost)
  BY DEF MayLose
<1>2. CASE lose = TRUE
  BY <1>1, <1>2, BoundsAssumption DEF CountTypes, Count
<1>3. CASE lose = FALSE
  BY <1>3 DEF CountTypes, Count
<1>4. QED
  BY <1>1, <1>2, <1>3

\* A call that is not counted.
LEMMA NotCounted ==
  ASSUME CountTypes, UNCHANGED <<fate, calls, lost>>
  PROVE  CountTypes'
  BY DEF CountTypes

\* More of the fields of a request.
LEMMA RequestTypes ==
  ASSUME NEW r \in Requests
  PROVE  /\ r.op \in Creates => r.mode \in Modes
         /\ r.op = "setattr" => /\ r.size \in 0 .. MaxSize /\ r.mode \in Modes
                                /\ r.uid \in Clients /\ r.gid \in Gids
         /\ r.op \in {"read", "write"} => r.off \in Offsets
         /\ r.op = "write" => r.data \in Blocks
<1>1. r \in Request
  BY RequestsAssumption
<1>2. QED
  BY <1>1 DEF Request, Creates

\* Zeros are bytes.
LEMMA ZerosTyped ==
  ASSUME NEW k \in Nat
  PROVE  Zeros(k) \in Seq(Bytes) /\ Len(Zeros(k)) = k /\ \A j \in 1 .. k : Zeros(k)[j] = Zero
  BY DataAssumption DEF Zeros

\* What write makes of a string of bytes.
LEMMA WrittenTyped ==
  ASSUME NEW s \in Seq(Bytes), NEW off \in Nat, NEW b \in Seq(Bytes)
  PROVE  Written(s, off, b) \in Seq(Bytes)
<1>1. CASE off < Len(s)
  <2>1. SubSeq(s, 1, off) \in Seq(Bytes) /\ SubSeq(s, off + Len(b) + 1, Len(s)) \in Seq(Bytes)
    BY <1>1
  <2>2. QED
    BY <1>1, <2>1 DEF Written
<1>2. CASE off >= Len(s)
  <2>1. Zeros(off - Len(s)) \in Seq(Bytes)
    BY <1>2, ZerosTyped
  <2>2. QED
    BY <1>2, <2>1 DEF Written
<1>3. QED
  BY <1>1, <1>2

\* A handler about to save has bytes to write, that fit the file it read.
LEMMA SavesBytes ==
  ASSUME IInv, TypeOK, "get" \notin Lossy, NEW c \in Clients, pc[c] = "save"
  PROVE  /\ rq[c].ino \in Files /\ rq[c].ino \in DOMAIN data /\ data[rq[c].ino] = loc[c].buf
         /\ loc[c].buf \in Seq(Bytes) /\ loc[c].st \in Nat /\ rq[c] \in Requests
         /\ rq[c].op \in {"write", "setattr"}
         /\ rq[c].op = "write" => rq[c].off \in Nat /\ rq[c].data \in Seq(Bytes)
         /\ rq[c].op = "setattr" => rq[c].size \in Nat /\ rq[c].size \in 0 .. MaxSize
<1>1. /\ rq[c].ino \in Files /\ rq[c].ino \in DOMAIN data /\ data[rq[c].ino] = loc[c].buf
      /\ rq[c] \in Requests /\ rq[c].op \in {"write", "setattr"}
  BY Knows DEF Own, Copies, Current1, Control, OpAtPlace
<1>2. loc[c].buf \in Seq(Bytes)
  <2>1. data[rq[c].ino] \in ContentsType(rq[c].ino) /\ rq[c].ino \notin Dirs
    BY <1>1, TypeParts, InumsAssumption DEF DataTypes
  <2>2. QED
    BY <1>1, <2>1 DEF ContentsType
<1>3. loc[c].st \in Nat
  BY DEF TypeOK
<1>4. /\ rq[c].op = "write" => rq[c].off \in Offsets /\ rq[c].data \in Blocks
      /\ rq[c].op = "setattr" => rq[c].size \in 0 .. MaxSize
  BY <1>1, RequestTypes
<1>5. rq[c].op = "write" => rq[c].off \in Nat /\ rq[c].data \in Seq(Bytes)
  BY <1>4, DataAssumption
<1>6. rq[c].op = "setattr" => rq[c].size \in Nat
  BY <1>4, DataAssumption
<1>7. QED
  BY <1>1, <1>2, <1>3, <1>4, <1>5, <1>6

\* So what it saves are bytes.
LEMMA NewContentsTyped ==
  ASSUME IInv, TypeOK, "get" \notin Lossy, NEW c \in Clients, pc[c] = "save", Sizes(c)
  PROVE  NewContents(c) \in Seq(Bytes)
<1>1. /\ loc[c].buf \in Seq(Bytes) /\ loc[c].st \in Nat /\ rq[c].op \in {"write", "setattr"}
      /\ rq[c].op = "write" => rq[c].off \in Nat /\ rq[c].data \in Seq(Bytes)
      /\ rq[c].op = "setattr" => rq[c].size \in Nat
  BY SavesBytes
<1>2. CASE rq[c].op = "write"
  BY <1>1, <1>2, WrittenTyped DEF NewContents
<1>3. CASE rq[c].op = "setattr" /\ rq[c].size > loc[c].st
  <2>1. Zeros(rq[c].size - loc[c].st) \in Seq(Bytes)
    BY <1>1, <1>3, ZerosTyped
  <2>2. QED
    BY <1>1, <1>3, <2>1, WrittenTyped DEF NewContents
<1>4. CASE rq[c].op = "setattr" /\ rq[c].size <= loc[c].st
  <2>1. loc[c].st - rq[c].size \in Nat /\ loc[c].st - rq[c].size <= Len(loc[c].buf)
    BY <1>1, <1>4 DEF Sizes
  <2>2. ASSUME NEW s \in Seq(Bytes), NEW k \in Nat, k <= Len(s)
        PROVE  Truncated(s, k) \in Seq(Bytes)
    BY <2>2 DEF Truncated
  <2>3. NewContents(c) = Truncated(loc[c].buf, loc[c].st - rq[c].size)
    BY <1>1, <1>4 DEF NewContents
  <2>4. QED
    BY <1>1, <2>1, <2>2, <2>3
<1>5. QED
  BY <1>1, <1>2, <1>3, <1>4

\* Every step keeps the types.
StepTyped == DataTypes' /\ ClientTypes' /\ CountTypes'

\* A request begins.
LEMMA BeginTyped ==
  ASSUME IInv, TypeOK, NEW c \in Clients, NEW r \in Requests, begin(c, r)
  PROVE  StepTyped
<1>1. DataTypes /\ ClientTypes /\ CountTypes
  BY TypeParts
<1>2. PICK i \in Targets(r) :
        loc' = [loc EXCEPT ![c] = [Blank EXCEPT !.fnum = i,
                                                !.todo = IF r.op = "setattr" THEN r.toset ELSE {}]]
  BY DEF begin
<1> DEFINE l == [Blank EXCEPT !.fnum = i, !.todo = IF r.op = "setattr" THEN r.toset ELSE {}]
<1>3. i \in Inums
  BY RequestFields DEF Targets, OfName, Inums
<1>4. LocalTypes(l)
  BY <1>3, BlankFields, BlankTyped, RequestFields DEF LocalTypes
<1>5. Start(r.op) \in Places
  <2>1. r.op \in {"lookup", "unlink", "readdir", "create", "mkdir"} => Start(r.op) \in Places
    BY DEF Start, Places
  <2>2. r.op \notin {"lookup", "unlink", "readdir", "create", "mkdir"} => Start(r.op) \in Places
    BY DEF Start, Places
  <2>3. QED
    BY <2>1, <2>2
<1>6. OthersStay(c) /\ loc'[c] = l
  BY <1>2 DEF IInv, Functions, OthersStay, begin
<1> HIDE DEF l
<1>7. \A e \in Clients : LocalTypes(loc'[e])
  BY <1>1, <1>4, <1>6 DEF OthersStay, ClientTypes
<1>8. pc' \in [Clients -> Places] /\ rq' \in [Clients -> Requests \cup {NoCall}]
  BY <1>1, <1>5 DEF begin, ClientTypes
<1>9. CountTypes'
  BY <1>1, BoundsAssumption DEF CountTypes, begin
<1>10. QED
  BY <1>1, <1>7, <1>8, <1>9, ExtentsTyped DEF StepTyped, ClientTypes, begin

\* A client is killed.
LEMMA DieTyped ==
  ASSUME TypeOK, NEW c \in Clients, die(c)
  PROVE  StepTyped
<1>1. DataTypes /\ ClientTypes /\ CountTypes
  BY TypeParts
<1>2. CountTypes'
  BY <1>1 DEF CountTypes, die
<1>3. QED
  BY <1>1, <1>2, StaysTyped, ExtentsTyped DEF StepTyped, die

\* The handlers that only look.
LEMMA LookTyped ==
  ASSUME IInv, TypeOK, NEW c \in Clients, stat(c) \/ lookup(c) \/ readdir(c) \/ restat(c)
  PROVE  StepTyped
<1>1. DataTypes /\ ClientTypes /\ CountTypes
  BY TypeParts
<1>2. DataTypes'
  BY <1>1, ExtentsTyped DEF stat, lookup, readdir, restat
<1>3. CountTypes'
  BY <1>1, Counted, NotCounted DEF stat, lookup, readdir, restat
<1>4. CASE Return(c)
  BY <1>1, <1>2, <1>3, <1>4, ReturnsTyped DEF StepTyped
<1>5. CASE stat(c) /\ ~Return(c)
  <2> DEFINE i == loc[c].fnum
             l == [loc[c] EXCEPT !.st = SizeOf(i)]
  <2>1. i \in DOMAIN data /\ rq[c].op \in DOMAIN Then /\ Goto(c, Then[rq[c].op], l)
    BY <1>5 DEF stat
  <2>2. Then[rq[c].op] \in Places
    BY <2>1 DEF Then, Places
  <2>3. SizeOf(i) \in Nat
    <3>1. CASE i \in Files
      <4>1. data[i] \in Seq(Bytes)
        BY <1>1, <2>1, <3>1, InumsAssumption DEF DataTypes, ContentsType
      <4>2. QED
        BY <3>1, <4>1 DEF SizeOf
    <3>2. QED
      BY <3>1 DEF SizeOf
  <2>4. LocalTypes(l)
    BY <1>1, <2>3, BlankFields DEF LocalTypes, ClientTypes
  <2>5. QED
    BY <1>1, <1>2, <1>3, <2>1, <2>2, <2>4, GoesTyped DEF StepTyped
<1>6. CASE lookup(c) /\ ~Return(c)
  <2> DEFINE l == [loc[c] EXCEPT !.fnum = InumOf(data[rq[c].parent], rq[c].name)]
  <2>1. Goto(c, "stat", l)
    BY <1>6 DEF lookup
  <2>2. loc'[c] = l
    BY <2>1, Goes DEF IInv
  <2>3. loc'[c].fnum \in Inums
    BY <1>6, LookupIsGood DEF Good, Own, Control
  <2>4. LocalTypes(loc[c])
    BY <1>1 DEF ClientTypes
  <2>5. LocalTypes(l)
    BY <2>2, <2>3, <2>4, BlankFields DEF LocalTypes
  <2>6. "stat" \in Places
    BY DEF Places
  <2>7. QED
    BY <1>1, <1>2, <1>3, <2>1, <2>5, <2>6, GoesTyped DEF StepTyped
<1>7. QED
  BY <1>4, <1>5, <1>6 DEF readdir, restat

\* A scope that ends in an exception.
LEMMA ThrowTyped ==
  ASSUME TypeOK, NEW c \in Clients, NEW i, Throw(c, i), UNCHANGED <<pc, rq, loc>>,
         UNCHANGED <<extents, calls>>, NEW lose \in MayLose("get"), Count(lose)
  PROVE  StepTyped
<1>1. DataTypes /\ ClientTypes /\ CountTypes
  BY TypeParts
<1>2. lost' \in 0 .. MaxLost
  <2>1. lose \in BOOLEAN /\ (lose => lost < MaxLost)
    BY DEF MayLose
  <2>2. CASE lose = TRUE
    BY <1>1, <2>1, <2>2, BoundsAssumption DEF CountTypes, Count
  <2>3. CASE lose = FALSE
    BY <1>1, <2>3 DEF CountTypes, Count
  <2>4. QED
    BY <2>1, <2>2, <2>3
<1>3. CountTypes'
  BY <1>1, <1>2 DEF CountTypes, Throw
<1>4. QED
  BY <1>1, <1>3, StaysTyped, ExtentsTyped DEF StepTyped

\* read and write.
LEMMA ReadWriteTyped ==
  ASSUME IInv, TypeOK, NEW c \in Clients, read(c) \/ write(c)
  PROVE  StepTyped
<1> DEFINE i == rq[c].ino
<1>1. DataTypes /\ ClientTypes /\ CountTypes
  BY TypeParts
<1>2. UNCHANGED extents /\ UNCHANGED calls
  BY DEF read, write
<1>3. DataTypes'
  BY <1>1, <1>2, ExtentsTyped
<1>4. ASSUME NEW lose \in MayLose("get"), Throw(c, i), UNCHANGED <<pc, rq, loc>>, Count(lose)
      PROVE  StepTyped
  BY <1>2, <1>4, ThrowTyped
<1>5. ASSUME NEW lose \in MayLose("get"), Return(c), UNCHANGED fate, Count(lose)
      PROVE  StepTyped
  BY <1>1, <1>2, <1>3, <1>5, ReturnsTyped, Counted DEF StepTyped
<1>6. ASSUME NEW lose \in MayLose("get"), UNCHANGED fate, Count(lose),
             Goto(c, "save", [loc[c] EXCEPT !.buf = Got(i, lose)])
      PROVE  StepTyped
  <2>1. LocalTypes([loc[c] EXCEPT !.buf = Got(i, lose)]) /\ "save" \in Places
    BY <1>1, BlankFields DEF LocalTypes, ClientTypes, Places
  <2>2. QED
    BY <1>1, <1>2, <1>3, <1>6, <2>1, GoesTyped, Counted DEF StepTyped
<1>7. QED
  BY <1>4, <1>5, <1>6 DEF read, write

\* setattr of the size.
LEMMA ResizeTyped ==
  ASSUME IInv, TypeOK, NEW c \in Clients, resize(c)
  PROVE  StepTyped
<1> DEFINE i == rq[c].ino
<1>1. DataTypes /\ ClientTypes /\ CountTypes
  BY TypeParts
<1>2. UNCHANGED extents /\ UNCHANGED calls
  BY DEF resize
<1>3. DataTypes'
  BY <1>1, <1>2, ExtentsTyped
<1>4. ASSUME NEW lose \in MayLose("get"), Throw(c, i), UNCHANGED <<pc, rq, loc>>, Count(lose)
      PROVE  StepTyped
  BY <1>2, <1>4, ThrowTyped
<1>5. ASSUME NEW lose \in MayLose("get"), NextAttr(c, i \in DOMAIN data), UNCHANGED fate, Count(lose)
      PROVE  StepTyped
  <2>1. (i \in DOMAIN data) \in BOOLEAN
    OBVIOUS
  <2>2. ClientTypes'
    BY <1>1, <1>5, <2>1, NextAttrTyped
  <2>3. CountTypes'
    BY <1>1, <1>2, <1>5, Counted
  <2>4. QED
    BY <1>3, <2>2, <2>3 DEF StepTyped
<1>6. ASSUME NEW lose \in MayLose("get"), UNCHANGED fate, Count(lose),
             Goto(c, "save", [loc[c] EXCEPT !.buf = Got(i, lose)])
      PROVE  StepTyped
  <2>1. LocalTypes([loc[c] EXCEPT !.buf = Got(i, lose)]) /\ "save" \in Places
    BY <1>1, BlankFields DEF LocalTypes, ClientTypes, Places
  <2>2. QED
    BY <1>1, <1>2, <1>3, <1>6, <2>1, GoesTyped, Counted DEF StepTyped
<1>7. QED
  BY <1>4, <1>5, <1>6 DEF resize

\* The put of write and truncate.
LEMMA SaveTyped ==
  ASSUME IInv, TypeOK, "get" \notin Lossy, NEW c \in Clients, Sizes(c), save(c)
  PROVE  StepTyped
<1> DEFINE i == rq[c].ino
<1>1. DataTypes /\ ClientTypes /\ CountTypes
  BY TypeParts
<1>2. PICK lose \in MayLose("save") :
        /\ Put(c, i, NewContents(c), lose)
        /\ IF rq[c].op = "write" THEN Return(c) ELSE NextAttr(c, Refuses(c, i, lose))
        /\ Count(lose)
  BY DEF save
<1>3. pc[c] = "save" /\ UNCHANGED <<fate, calls>>
  BY DEF save, At
<1>4. i \in Inums /\ i \notin Dirs
  BY <1>3, SavesBytes, InumsAssumption DEF Inums
<1>5. NewContents(c) \in ContentsType(i)
  BY <1>3, <1>4, NewContentsTyped DEF ContentsType
<1>6. DataTypes'
  BY <1>1, <1>2, <1>4, <1>5, PutTyped
<1>7. Refuses(c, i, lose) \in BOOLEAN
  BY DEF Refuses
<1>8. ClientTypes'
  BY <1>1, <1>2, <1>7, ReturnsTyped, NextAttrTyped
<1>9. QED
  BY <1>1, <1>2, <1>3, <1>6, <1>8, Counted DEF StepTyped

\* chmod, chuid and chgid read the attributes.
LEMMA ChattrReadTyped ==
  ASSUME IInv, TypeOK, NEW c \in Clients, chattr_read(c)
  PROVE  StepTyped
<1> DEFINE l == [loc[c] EXCEPT !.att = attr[rq[c].ino]]
<1>1. DataTypes /\ ClientTypes /\ CountTypes
  BY TypeParts
<1>2. DataTypes' /\ CountTypes'
  BY <1>1, ExtentsTyped, NotCounted DEF chattr_read
<1>3. LocalTypes(l) /\ "chattr" \in Places
  BY <1>1, BlankFields DEF LocalTypes, ClientTypes, Places
<1>4. NextAttr(c, FALSE) \/ Goto(c, "chattr", l)
  BY DEF chattr_read
<1> HIDE DEF l
<1>5. ClientTypes'
  BY <1>1, <1>3, <1>4, GoesTyped, NextAttrTyped
<1>6. QED
  BY <1>2, <1>5 DEF StepTyped

\* What chmod, chuid and chgid write: the attributes they read, one changed.
LEMMA ChattrWrites ==
  ASSUME IInv, TypeOK, "get" \notin Lossy, NEW c \in Clients, pc[c] = "chattr", Sizes(c)
  PROVE  /\ rq[c].ino \in DOMAIN attr /\ attr[rq[c].ino] = loc[c].att /\ loc[c].att \in Attr
         /\ Current(loc[c].todo) \in {"mode", "uid", "gid"}
         /\ rq[c].mode \in Modes /\ rq[c].uid \in Clients /\ rq[c].gid \in Gids
<1>1. rq[c].ino \in DOMAIN attr /\ attr[rq[c].ino] = loc[c].att
  BY Knows DEF Own, Copies, Current1
<1>2. rq[c] \in Requests /\ rq[c].op = "setattr"
  BY Knows DEF Control, OpAtPlace
<1>3. loc[c].att \in Attr
  BY <1>1 DEF TypeOK
<1>4. QED
  BY <1>1, <1>2, <1>3, RequestTypes DEF Sizes

\* The setattr of chmod, chuid and chgid.
LEMMA ChattrTyped ==
  ASSUME IInv, TypeOK, "get" \notin Lossy, NEW c \in Clients, Sizes(c), chattr(c)
  PROVE  StepTyped
<1> DEFINE i == rq[c].ino
           a == Current(loc[c].todo)
<1>1. DataTypes /\ ClientTypes /\ CountTypes
  BY TypeParts
<1>2. PICK lose \in MayLose("setattr") :
        /\ SetAttr(c, i, [loc[c].att EXCEPT ![a] = rq[c][a]], lose)
        /\ NextAttr(c, Refuses(c, i, lose))
        /\ Count(lose)
  BY DEF chattr
<1>3. pc[c] = "chattr" /\ UNCHANGED <<fate, calls>>
  BY DEF chattr, At
<1>4. [loc[c].att EXCEPT ![a] = rq[c][a]] \in Attr
  <2>1. /\ loc[c].att \in Attr /\ a \in {"mode", "uid", "gid"}
        /\ rq[c].mode \in Modes /\ rq[c].uid \in Clients /\ rq[c].gid \in Gids
    BY <1>3, ChattrWrites
  <2> HIDE DEF a
  <2>2. CASE a = "mode"
    BY <2>1, <2>2 DEF Attr
  <2>3. CASE a = "uid"
    BY <2>1, <2>3 DEF Attr
  <2>4. CASE a = "gid"
    BY <2>1, <2>4 DEF Attr
  <2>5. QED
    BY <2>1, <2>2, <2>3, <2>4
<1>5. DataTypes'
  BY <1>1, <1>2, <1>4, SetAttrTyped
<1>6. Refuses(c, i, lose) \in BOOLEAN
  BY DEF Refuses
<1>7. ClientTypes'
  BY <1>1, <1>2, <1>6, NextAttrTyped
<1>8. QED
  BY <1>1, <1>2, <1>3, <1>5, <1>7, Counted DEF StepTyped

\* The end of setattr, and the locks of create.
LEMMA MoveTyped ==
  ASSUME IInv, TypeOK, NEW c \in Clients, setattr_end(c) \/ create_lock(c)
  PROVE  StepTyped
<1>1. DataTypes /\ ClientTypes /\ CountTypes
  BY TypeParts
<1>2. DataTypes' /\ CountTypes'
  BY <1>1, ExtentsTyped, NotCounted DEF setattr_end, create_lock
<1>3. LocalTypes(loc[c]) /\ "restat" \in Places /\ "lockfile" \in Places
  BY <1>1 DEF ClientTypes, Places
<1>4. ClientTypes'
  BY <1>1, <1>3, GoesTyped, ReturnsTyped DEF setattr_end, create_lock
<1>5. QED
  BY <1>2, <1>4 DEF StepTyped

\* create reads the directory.
LEMMA CreateGetTyped ==
  ASSUME IInv, TypeOK, NEW c \in Clients, create_get(c)
  PROVE  StepTyped
<1> DEFINE p == rq[c].parent
<1>1. DataTypes /\ ClientTypes /\ CountTypes
  BY TypeParts
<1>2. PICK lose \in MayLose("get") :
        /\ \/ Return(c)
           \/ Goto(c, "link", [loc[c] EXCEPT !.buf = Got(p, lose)])
        /\ Count(lose)
  BY DEF create_get
<1>3. LocalTypes([loc[c] EXCEPT !.buf = Got(p, lose)]) /\ "link" \in Places
  BY <1>1, BlankFields DEF LocalTypes, ClientTypes, Places
<1>4. ClientTypes'
  BY <1>1, <1>2, <1>3, GoesTyped, ReturnsTyped
<1>5. UNCHANGED extents /\ UNCHANGED <<fate, calls>>
  BY DEF create_get
<1>6. QED
  BY <1>1, <1>2, <1>4, <1>5, ExtentsTyped, Counted DEF StepTyped

\* The calls of create that change extents go on or return.
LEMMA CreatingTyped ==
  ASSUME IInv, ClientTypes, NEW c \in Clients, NEW refused, NEW place \in {"make", "init", "stat"},
         Creating(c, refused, place)
  PROVE  ClientTypes'
<1>1. LocalTypes(loc[c]) /\ place \in Places
  BY DEF ClientTypes, Places
<1>2. QED
  BY <1>1, GoesTyped, ReturnsTyped DEF Creating

\* create writes the directory, the extent and its attributes.
LEMMA CreateTyped ==
  ASSUME IInv, TypeOK, NEW c \in Clients, link(c) \/ make(c) \/ init(c)
  PROVE  StepTyped
<1> DEFINE p == rq[c].parent
           i == loc[c].fnum
           e == [name |-> rq[c].name, inum |-> i]
           a == [mode |-> rq[c].mode, uid |-> c, gid |-> getgid[c]]
<1>1. DataTypes /\ ClientTypes /\ CountTypes
  BY TypeParts
<1>2. i \in Inums /\ UNCHANGED <<fate, calls>>
  BY Knows DEF Control, link, make, init
<1>3. CASE link(c)
  <2>1. PICK lose \in MayLose("link") :
          /\ Put(c, p, Append(loc[c].buf, e), lose)
          /\ Creating(c, Refuses(c, p, lose), "make") /\ Count(lose)
    BY <1>3 DEF link
  <2>2. pc[c] = "link"
    BY <1>3 DEF link, At
  <2>3. p \in Dirs /\ p \in Inums /\ rq[c].name \in Names /\ loc[c].buf \in Seq(Entry)
    BY <2>2, Knows DEF Own, Texts, Clean
  <2>4. Append(loc[c].buf, e) \in ContentsType(p)
    BY <1>2, <2>3 DEF ContentsType, Entry
  <2>5. DataTypes'
    BY <1>1, <2>1, <2>3, <2>4, PutTyped
  <2>6. ClientTypes'
    BY <1>1, <2>1, CreatingTyped
  <2>7. QED
    BY <1>1, <1>2, <2>1, <2>5, <2>6, Counted DEF StepTyped
<1>4. CASE make(c)
  <2>1. PICK lose \in MayLose("make") :
          /\ Put(c, i, <<>>, lose) /\ Creating(c, Refuses(c, i, lose), "init") /\ Count(lose)
    BY <1>4 DEF make
  <2>2. <<>> \in ContentsType(i)
    BY DEF ContentsType
  <2>3. DataTypes'
    BY <1>1, <1>2, <2>1, <2>2, PutTyped
  <2>4. ClientTypes'
    BY <1>1, <2>1, CreatingTyped
  <2>5. QED
    BY <1>1, <1>2, <2>1, <2>3, <2>4, Counted DEF StepTyped
<1>5. CASE init(c)
  <2>1. PICK lose \in MayLose("init") :
          /\ SetAttr(c, i, a, lose) /\ Creating(c, Refuses(c, i, lose), "stat") /\ Count(lose)
    BY <1>5 DEF init
  <2>2. rq[c].mode \in Modes
    BY <1>5, Knows, RequestTypes DEF init, At, Control, OpAtPlace
  <2>3. a \in Attr
    BY <2>2, OwnersAssumption DEF Attr
  <2>4. DataTypes'
    BY <1>1, <2>1, <2>3, SetAttrTyped
  <2>5. ClientTypes'
    BY <1>1, <2>1, CreatingTyped
  <2>6. QED
    BY <1>1, <1>2, <2>1, <2>4, <2>5, Counted DEF StepTyped
<1>6. QED
  BY <1>3, <1>4, <1>5

\* unlink reads the directory.
LEMMA UnlinkTyped ==
  ASSUME IInv, TypeOK, NEW c \in Clients, unlink(c)
  PROVE  StepTyped
<1> DEFINE p == rq[c].parent
           l == [loc[c] EXCEPT !.buf = data[p], !.fnum = InumOf(data[p], rq[c].name)]
<1>1. DataTypes /\ ClientTypes /\ CountTypes
  BY TypeParts
<1>2. PICK lose \in MayLose("get") : (Return(c) \/ Goto(c, "cut", l)) /\ Count(lose)
  BY DEF unlink
<1>3. UNCHANGED extents /\ UNCHANGED <<fate, calls>>
  BY DEF unlink
<1>4. CASE Goto(c, "cut", l)
  <2>1. loc'[c] = l
    BY <1>4, Goes DEF IInv
  <2>2. loc'[c].fnum \in Inums
    BY UnlinkIsGood DEF Good, Own, Control
  <2>3. LocalTypes(loc[c])
    BY <1>1 DEF ClientTypes
  <2>4. LocalTypes(l)
    BY <2>1, <2>2, <2>3, BlankFields DEF LocalTypes
  <2>5. "cut" \in Places
    BY DEF Places
  <2>6. QED
    BY <1>1, <1>2, <1>3, <1>4, <2>4, <2>5, GoesTyped, ExtentsTyped, Counted DEF StepTyped
<1>5. CASE Return(c)
  BY <1>1, <1>2, <1>3, <1>5, ReturnsTyped, ExtentsTyped, Counted DEF StepTyped
<1>6. QED
  BY <1>2, <1>4, <1>5

\* unlink writes the directory without the entry.
LEMMA CutTyped ==
  ASSUME IInv, TypeOK, NEW c \in Clients, cut(c)
  PROVE  StepTyped
<1> DEFINE p == rq[c].parent
           v == Erased(loc[c].buf, rq[c].name)
<1>1. DataTypes /\ ClientTypes /\ CountTypes
  BY TypeParts
<1>2. PICK lose \in MayLose("cut") :
        /\ Put(c, p, v, lose) /\ (Return(c) \/ Goto(c, "remove", loc[c])) /\ Count(lose)
  BY DEF cut
<1>3. pc[c] = "cut" /\ UNCHANGED <<fate, calls>>
  BY DEF cut, At
<1>4. p \in Dirs /\ p \in Inums /\ Clean(loc[c].buf) /\ rq[c].name \in NamesIn(loc[c].buf)
  BY <1>3, Knows DEF Own, Texts
<1>5. Clean(v)
  BY <1>4, ErasedIsClean
<1> HIDE DEF v
<1>6. v \in ContentsType(p)
  BY <1>4, <1>5 DEF Clean, ContentsType
<1>7. DataTypes'
  BY <1>1, <1>2, <1>4, <1>6, PutTyped
<1>8. LocalTypes(loc[c]) /\ "remove" \in Places
  BY <1>1 DEF ClientTypes, Places
<1>9. ClientTypes'
  BY <1>1, <1>2, <1>8, ReturnsTyped, GoesTyped
<1>10. QED
  BY <1>1, <1>2, <1>3, <1>7, <1>9, Counted DEF StepTyped

\* unlink removes the extent.
LEMMA RemoveTyped ==
  ASSUME IInv, TypeOK, NEW c \in Clients, remove(c)
  PROVE  StepTyped
<1> DEFINE i == loc[c].fnum
<1>1. DataTypes /\ ClientTypes /\ CountTypes
  BY TypeParts
<1>2. PICK lose \in MayLose("remove") :
        /\ UNCHANGED extents \/ (data' = Without(data, i) /\ attr' = Without(attr, i))
        /\ Count(lose)
  BY DEF remove
<1>3. DataTypes'
  BY <1>1, <1>2, ExtentsTyped DEF DataTypes, ContentsType, Without
<1>4. Return(c) /\ UNCHANGED <<fate, calls>>
  BY DEF remove
<1>5. QED
  BY <1>1, <1>2, <1>3, <1>4, ReturnsTyped, Counted DEF StepTyped

\* Every step keeps the types.
LEMMA NextTyped ==
  ASSUME IInv, TypeOK, "get" \notin Lossy, \A c \in Clients : Sizes(c), [Next]_vars
  PROVE  TypeOK'
<1>1. IInv'
  BY NextInv
<1>2. ASSUME NEW c \in Clients, Handle(c) PROVE StepTyped
  BY <1>2, LookTyped, ReadWriteTyped, ResizeTyped, SaveTyped, ChattrReadTyped, ChattrTyped,
     MoveTyped, CreateGetTyped, CreateTyped, UnlinkTyped, CutTyped, RemoveTyped DEF Handle
<1>3. CASE Next
  <2>1. StepTyped
    BY <1>2, <1>3, DieTyped, BeginTyped DEF Next
  <2>2. QED
    BY <1>1, <2>1, TypePartsNext DEF StepTyped
<1>4. CASE UNCHANGED vars
  BY <1>4 DEF TypeOK, vars
<1>5. QED
  BY <1>3, <1>4

-----------------------------------------------------------------------------
(* What setattr has made sure of stays so.                                 *)

\* At the other places there is nothing to show.
LEMMA NoSizes ==
  ASSUME NEW c \in Clients, pc'[c] \notin {"save", "chattr"}
  PROVE  Sizes(c)'
  BY DEF Sizes

\* The handlers that go to other places.
LEMMA SizesElsewhere ==
  ASSUME IInv, NEW c \in Clients,
         \/ stat(c) \/ lookup(c) \/ readdir(c) \/ restat(c) \/ setattr_end(c)
         \/ create_lock(c) \/ create_get(c) \/ link(c) \/ make(c) \/ init(c)
         \/ unlink(c) \/ cut(c) \/ remove(c) \/ save(c) \/ chattr(c)
  PROVE  OthersStay(c) /\ Sizes(c)'
<1>1. Functions
  BY DEF IInv
<1>2. CASE Return(c)
  BY <1>1, <1>2, Returns, NoSizes
<1>3. ASSUME NEW p, p \notin {"save", "chattr"}, NEW l, Goto(c, p, l)
      PROVE  OthersStay(c) /\ Sizes(c)'
  BY <1>1, <1>3, Goes, NoSizes
<1>4. ASSUME NEW refused, NextAttr(c, refused)
      PROVE  OthersStay(c) /\ Sizes(c)'
  BY <1>3, <1>4 DEF NextAttr
<1>5. CASE stat(c)
  <2>1. \A op \in DOMAIN Then : Then[op] \notin {"save", "chattr"}
    BY DEF Then
  <2>2. QED
    BY <1>2, <1>3, <1>5, <2>1 DEF stat
<1>6. ASSUME NEW refused, NEW place \in {"make", "init", "stat"}, Creating(c, refused, place)
      PROVE  OthersStay(c) /\ Sizes(c)'
  BY <1>2, <1>3, <1>6 DEF Creating
<1>7. CASE link(c) \/ make(c) \/ init(c)
  BY <1>6, <1>7 DEF link, make, init
<1>8. CASE save(c) \/ chattr(c)
  BY <1>2, <1>4, <1>8 DEF save, chattr
<1>9. CASE lookup(c) \/ readdir(c) \/ restat(c) \/ setattr_end(c)
  BY <1>2, <1>3, <1>9 DEF lookup, readdir, restat, setattr_end
<1>10. CASE create_lock(c) \/ create_get(c) \/ unlink(c) \/ cut(c) \/ remove(c)
  BY <1>2, <1>3, <1>10 DEF create_lock, create_get, unlink, cut, remove
<1>11. QED
  BY <1>5, <1>7, <1>8, <1>9, <1>10

\* read returns or throws, write goes on to save.
LEMMA SizesReadWrite ==
  ASSUME IInv, NEW c \in Clients, Sizes(c), read(c) \/ write(c)
  PROVE  OthersStay(c) /\ Sizes(c)'
<1>1. Functions
  BY DEF IInv
<1>2. CASE Return(c)
  BY <1>1, <1>2, Returns, NoSizes
<1>3. CASE UNCHANGED <<pc, rq, loc>>
  BY <1>3 DEF OthersStay, Sizes
<1>4. ASSUME NEW l, write(c), Goto(c, "save", l)
      PROVE  OthersStay(c) /\ Sizes(c)'
  <2>1. rq[c].op = "write"
    BY <1>4, Knows DEF write, At, Control, OpAtPlace
  <2>2. OthersStay(c) /\ pc'[c] = "save" /\ rq'[c] = rq[c]
    BY <1>1, <1>4, Goes
  <2>3. QED
    BY <2>1, <2>2 DEF Sizes
<1>5. QED
  BY <1>2, <1>3, <1>4 DEF read, write

\* truncate throws when there is not so much to cut.
LEMMA SizesResize ==
  ASSUME IInv, TypeOK, NEW c \in Clients, Sizes(c), resize(c)
  PROVE  OthersStay(c) /\ Sizes(c)'
<1> DEFINE i == rq[c].ino
<1>1. Functions
  BY DEF IInv
<1>2. ASSUME NEW refused, NextAttr(c, refused)
      PROVE  OthersStay(c) /\ Sizes(c)'
  BY <1>1, <1>2, Goes, NoSizes DEF NextAttr
<1>3. CASE UNCHANGED <<pc, rq, loc>>
  BY <1>3 DEF OthersStay, Sizes
<1>4. ASSUME NEW lose \in MayLose("get"), Gets(c, i, lose),
             ~(rq[c].size <= loc[c].st /\ loc[c].st - rq[c].size > Len(Got(i, lose))),
             Goto(c, "save", [loc[c] EXCEPT !.buf = Got(i, lose)])
      PROVE  OthersStay(c) /\ Sizes(c)'
  <2> DEFINE l == [loc[c] EXCEPT !.buf = Got(i, lose)]
  <2>1. OthersStay(c) /\ pc'[c] = "save" /\ rq'[c] = rq[c] /\ loc'[c] = l
    BY <1>1, <1>4, Goes
  <2>2. Setting(c, "size")
    BY DEF resize
  <2>3. rq[c] \in Requests /\ rq[c].op = "setattr" /\ i \in Files /\ pc[c] = "attrs"
    BY <2>2, SettingOne, Knows
  <2>4. Got(i, lose) \in Seq(Bytes)
    <3>1. CASE i \in DOMAIN data /\ Got(i, lose) = data[i]
      <4>1. data[i] \in ContentsType(i) /\ i \notin Dirs
        BY <2>3, <3>1, TypeParts, InumsAssumption DEF DataTypes
      <4>2. QED
        BY <3>1, <4>1 DEF ContentsType
    <3>2. CASE Got(i, lose) = <<>>
      BY <3>2
    <3>3. QED
      BY <1>4, <3>1, <3>2, Gives
  <2>5. rq[c].size \in 0 .. MaxSize /\ loc[c].st \in Nat /\ DOMAIN loc[c] = DOMAIN Blank
    BY <2>3, RequestTypes DEF TypeOK
  <2>6. l.buf = Got(i, lose) /\ l.st = loc[c].st
    BY <2>5, BlankFields
  <2> HIDE DEF l
  <2>7. rq[c].size <= loc[c].st => loc[c].st - rq[c].size <= Len(Got(i, lose))
    <3>1. Len(Got(i, lose)) \in Nat /\ rq[c].size \in Nat
      BY <2>4, <2>5, DataAssumption
    <3>2. QED
      BY <1>4, <2>5, <3>1
  <2>8. "size" \in rq[c].toset
    <3>1. loc[c].todo \subseteq rq[c].toset
      BY <2>3, Knows DEF Control
    <3>2. QED
      BY <2>2, <3>1, SettingOne
  <2>9. QED
    BY <2>1, <2>6, <2>7, <2>8 DEF Sizes
<1>5. QED
  BY <1>2, <1>3, <1>4 DEF resize

\* chmod, chuid and chgid are for one of their attributes.
LEMMA SizesChattrRead ==
  ASSUME IInv, NEW c \in Clients, chattr_read(c)
  PROVE  OthersStay(c) /\ Sizes(c)'
<1> DEFINE l == [loc[c] EXCEPT !.att = attr[rq[c].ino]]
<1>1. Functions
  BY DEF IInv
<1>2. CASE NextAttr(c, FALSE)
  BY <1>1, <1>2, Goes, NoSizes DEF NextAttr
<1>3. CASE Goto(c, "chattr", l)
  <2>1. OthersStay(c) /\ pc'[c] = "chattr" /\ loc'[c] = l
    BY <1>1, <1>3, Goes
  <2>2. Current(loc[c].todo) \in {"mode", "uid", "gid"}
    BY DEF chattr_read, Setting
  <2>3. l.todo = loc[c].todo
    BY Knows, BlankFields DEF Control
  <2> HIDE DEF l
  <2>4. QED
    BY <2>1, <2>2, <2>3 DEF Sizes
<1>4. QED
  BY <1>2, <1>3 DEF chattr_read

\* Every step.
LEMMA NextSizes ==
  ASSUME IInv, TypeOK, \A c \in Clients : Sizes(c), [Next]_vars
  PROVE  \A c \in Clients : Sizes(c)'
<1>1. ASSUME NEW c \in Clients, OthersStay(c), Sizes(c)', NEW e \in Clients
      PROVE  Sizes(e)'
  <2>1. CASE e = c
    BY <1>1, <2>1
  <2>2. CASE e # c
    BY <1>1, <2>2 DEF OthersStay, Sizes
  <2>3. QED
    BY <2>1, <2>2
<1>2. ASSUME NEW c \in Clients, Handle(c)
      PROVE  OthersStay(c) /\ Sizes(c)'
  BY <1>2, SizesElsewhere, SizesReadWrite, SizesResize, SizesChattrRead DEF Handle
<1>3. ASSUME NEW c \in Clients, NEW r \in Requests, begin(c, r)
      PROVE  OthersStay(c) /\ Sizes(c)'
  <2>1. OthersStay(c) /\ pc'[c] = Start(r.op)
    BY <1>3 DEF begin, OthersStay, IInv, Functions
  <2>2. Start(r.op) \notin {"save", "chattr"}
    BY DEF Start
  <2>3. QED
    BY <2>1, <2>2, NoSizes
<1>4. CASE UNCHANGED <<pc, rq, loc>>
  BY <1>4 DEF Sizes
<1>5. QED
  BY <1>1, <1>2, <1>3, <1>4 DEF Next, die, vars

-----------------------------------------------------------------------------
(* The tree: what a step of c does to it.                                  *)

TreeStep(c) ==
  /\ \A i \in DOMAIN data' : i \in DOMAIN data \/ (i = loc[c].fnum /\ pc[c] = "make")
  /\ \A i \in Inums : NoEntry(i) => NoEntry(i)' \/ (i = loc[c].fnum /\ pc[c] = "link")
  /\ \/ loc'[c].fnum = loc[c].fnum \/ loc'[c].fnum \in DOMAIN data
     \/ ~NoEntry(loc'[c].fnum) \/ Unused(loc'[c].fnum)
  /\ pc'[c] \in After => pc[c] \in {"link", "make"} /\ loc'[c].fnum = loc[c].fnum

\* What the others know of the tree survives such a step.
LEMMA TreeRely ==
  ASSUME IInv, Tree, NEW c \in Clients, OthersStay(c), TreeStep(c), NEW e \in Clients, e # c
  PROVE  Fresh(e)' /\ Found(e)'
<1>1. pc'[e] = pc[e] /\ rq'[e] = rq[e] /\ loc'[e] = loc[e] /\ loc[e].fnum \in Inums
  BY DEF OthersStay, IInv, Own, Control
<1>2. Fresh(e) /\ Found(e) /\ Fresh(c)
  BY DEF Tree
<1>3. ASSUME pc[e] \in Before
      PROVE  /\ loc[e].fnum \notin DOMAIN data' /\ NoEntry(loc[e].fnum)'
             /\ \A f \in Clients \ {e} : loc'[f].fnum # loc[e].fnum
  <2>1. /\ loc[e].fnum \notin DOMAIN data /\ NoEntry(loc[e].fnum)
        /\ \A f \in Clients \ {e} : loc[f].fnum # loc[e].fnum
    BY <1>2, <1>3 DEF Fresh
  <2>2. loc[e].fnum # loc[c].fnum
    BY <2>1
  <2>3. loc[e].fnum \notin DOMAIN data' /\ NoEntry(loc[e].fnum)'
    BY <1>1, <2>1, <2>2 DEF TreeStep
  <2>4. loc'[c].fnum # loc[e].fnum
    BY <2>1, <2>2 DEF TreeStep, Unused
  <2>5. QED
    BY <2>1, <2>3, <2>4 DEF OthersStay
<1>4. ASSUME pc[e] = "make"
      PROVE  loc[e].fnum \notin DOMAIN data'
  <2>1. loc[e].fnum \notin DOMAIN data /\ (pc[c] \in After => loc[c].fnum # loc[e].fnum)
    BY <1>2, <1>4 DEF Fresh, After
  <2>2. QED
    BY <2>1 DEF TreeStep, After
<1>5. ASSUME pc[e] \in After, NEW f \in Clients \ {e}, pc'[f] \in After
      PROVE  loc'[f].fnum # loc[e].fnum
  <2>1. CASE f = c
    BY <1>2, <1>5, <2>1 DEF TreeStep, Fresh, Before, After
  <2>2. CASE f # c
    BY <1>2, <1>5, <2>2 DEF OthersStay, Fresh
  <2>3. QED
    BY <2>1, <2>2
<1>6. Fresh(e)'
  BY <1>1, <1>3, <1>4, <1>5 DEF Fresh
<1>7. ASSUME pc[e] = "remove", "cut" \notin Lossy
      PROVE  NoEntry(loc[e].fnum)'
  <2>1. NoEntry(loc[e].fnum)
    BY <1>2, <1>7 DEF Found
  <2>2. pc[c] = "link" => loc[c].fnum # loc[e].fnum
    BY <1>2 DEF Fresh, Before
  <2>3. QED
    BY <1>1, <2>1, <2>2 DEF TreeStep
<1>8. Found(e)'
  BY <1>1, <1>2, <1>7 DEF Found
<1>9. QED
  BY <1>6, <1>8

\* So does the tree as a whole, if c's part and the entries are in order.
LEMMA TreeGoesOn ==
  ASSUME IInv, Tree, NEW c \in Clients, OthersStay(c), TreeStep(c), Fresh(c)', Found(c)',
         RootStays', Single', Led'
  PROVE  Tree'
<1>1. ASSUME NEW e \in Clients
      PROVE  Fresh(e)' /\ Found(e)'
  BY <1>1, TreeRely
<1>2. QED
  BY <1>1 DEF Tree

\* A step that leaves directories as they are, and takes or leaves no extent.
Shape == /\ DOMAIN data' = DOMAIN data
         /\ \A d \in Dirs \cap DOMAIN data : data'[d] = data[d]

\* Then the entries stay as they are, and lead where they did.
LEMMA ShapeStays ==
  ASSUME Tree, Shape
  PROVE  RootStays' /\ Single' /\ \A i : NoEntry(i)' <=> NoEntry(i)
  BY DEF Tree, Shape, RootStays, Single, NoEntry

\* Unless a creator gives up before it has made its extent.
LEMMA ShapeLeads ==
  ASSUME Tree, Shape, NEW c \in Clients, OthersStay(c), pc[c] = "make" => "make" \in Lossy
  PROVE  Led'
<1> SUFFICES ASSUME {"make", "cut"} \cap Lossy = {},
                    NEW d \in Dirs \cap DOMAIN data, NEW k \in DOMAIN data[d]
             PROVE  Leads(data[d][k].inum)'
  BY DEF Led, Shape
<1>1. Leads(data[d][k].inum) /\ pc[c] # "make"
  BY DEF Tree, Led
<1>2. QED
  BY <1>1 DEF Leads, OthersStay, Shape

\* Places of c where it knows nothing of the tree.
Away == Places \ (Before \cup After \cup {"cut", "remove"})

\* A step to such a place that leaves directories as they are.
LEMMA AwayKeepsTree ==
  ASSUME IInv, Tree, NEW c \in Clients, OthersStay(c), Shape, pc[c] = "make" => "make" \in Lossy,
         pc'[c] \in Away,
         \/ loc'[c].fnum = loc[c].fnum \/ loc'[c].fnum \in DOMAIN data
         \/ ~NoEntry(loc'[c].fnum) \/ Unused(loc'[c].fnum)
  PROVE  Tree'
<1>1. RootStays' /\ Single' /\ Led' /\ \A i : NoEntry(i)' <=> NoEntry(i)
  BY ShapeStays, ShapeLeads
<1>2. TreeStep(c)
  BY <1>1 DEF TreeStep, Shape, Away
<1>3. Fresh(c)' /\ Found(c)'
  BY DEF Fresh, Found, Away, Before, After
<1>4. QED
  BY <1>1, <1>2, <1>3, TreeGoesOn

\* So with every handler that returns.
LEMMA ReturnKeepsTree ==
  ASSUME IInv, Tree, NEW c \in Clients, Return(c), Shape, pc[c] = "make" => "make" \in Lossy
  PROVE  Tree'
<1>1. OthersStay(c) /\ pc'[c] = "idle" /\ loc'[c] = Blank
  BY Returns DEF IInv
<1>2. loc'[c].fnum \in DOMAIN data
  BY <1>1, BlankFields DEF Tree, RootStays
<1>3. pc'[c] \in Away
  BY <1>1 DEF Away, Places, Before, After
<1>4. QED
  BY <1>1, <1>2, <1>3, AwayKeepsTree

\* And with every one that goes on with the same inode.
LEMMA GotoKeepsTree ==
  ASSUME IInv, Tree, NEW c \in Clients, NEW p \in Away, NEW l, Goto(c, p, l),
         l.fnum = loc[c].fnum, Shape, pc[c] # "make"
  PROVE  Tree'
<1>1. OthersStay(c) /\ pc'[c] = p /\ loc'[c] = l
  BY Goes DEF IInv
<1>2. QED
  BY <1>1, AwayKeepsTree

\* Locals in which something else is changed.
LEMMA SameInode ==
  ASSUME IInv, NEW c \in Clients, NEW v, NEW w
  PROVE  /\ [loc[c] EXCEPT !.buf = v].fnum = loc[c].fnum
         /\ [loc[c] EXCEPT !.att = v].fnum = loc[c].fnum
         /\ [loc[c] EXCEPT !.st = v].fnum = loc[c].fnum
         /\ [loc[c] EXCEPT !.todo = v, !.refused = w].fnum = loc[c].fnum
<1>1. DOMAIN loc[c] = DOMAIN Blank
  BY DEF IInv, Own, Control
<1>2. QED
  BY <1>1, BlankFields

\* setattr goes on to the next attribute.
LEMMA NextAttrKeepsTree ==
  ASSUME IInv, Tree, NEW c \in Clients, NEW refused, NextAttr(c, refused), Shape, pc[c] # "make"
  PROVE  Tree'
<1> DEFINE l == [loc[c] EXCEPT !.todo = @ \ {Current(@)}, !.refused = refused]
<1>1. Goto(c, "attrs", l)
  BY DEF NextAttr
<1>2. l.fnum = loc[c].fnum
  BY SameInode
<1>3. "attrs" \in Away
  BY DEF Away, Places, Before, After
<1> HIDE DEF l
<1>4. QED
  BY <1>1, <1>2, <1>3, GotoKeepsTree

\* A step that leaves the clients and directories alone.
LEMMA StayKeepsTree ==
  ASSUME Tree, UNCHANGED <<data, pc, rq, loc>>
  PROVE  Tree'
  BY DEF Tree, RootStays, Single, Led, Leads, Fresh, Found, NoEntry

\* No extent changes its shape if none is changed, or a file, or attributes.
LEMMA ExtentsShape ==
  ASSUME UNCHANGED extents \/ UNCHANGED data
  PROVE  Shape
  BY DEF Shape, extents

-----------------------------------------------------------------------------
(* The steps that leave the directories alone.                             *)

\* A request begins: with a number that is not in use, or one that is there.
LEMMA BeginKeepsTree ==
  ASSUME IInv, Tree, NEW c \in Clients, NEW r \in Requests, begin(c, r)
  PROVE  Tree'
<1> DEFINE i == loc'[c].fnum
<1>1. PICK j \in Targets(r) :
        loc' = [loc EXCEPT ![c] = [Blank EXCEPT !.fnum = j,
                                                !.todo = IF r.op = "setattr" THEN r.toset ELSE {}]]
  BY DEF begin
<1>2. OthersStay(c) /\ pc'[c] = Start(r.op) /\ i = j
  BY <1>1, BlankFields DEF begin, OthersStay, IInv, Functions
<1>3. Shape /\ pc[c] = "idle"
  BY ExtentsShape DEF begin, At
<1>4. CASE r.op \in Creates
  <2>1. Unused(i) /\ pc'[c] = "lockparent"
    BY <1>1, <1>2, <1>4 DEF Targets, Creates, Start
  <2>2. RootStays' /\ Single' /\ Led' /\ \A k : NoEntry(k)' <=> NoEntry(k)
    BY <1>2, <1>3, ShapeStays, ShapeLeads
  <2>3. TreeStep(c)
    BY <1>3, <2>1, <2>2 DEF TreeStep, Shape, After
  <2>4. NoEntry(j)
    BY <1>2, <2>1 DEF Unused, NoEntry
  <2>5. /\ j \notin DOMAIN data' /\ NoEntry(j)'
        /\ \A e \in Clients \ {c} : loc'[e].fnum # j
    BY <1>2, <1>3, <2>1, <2>2, <2>4 DEF Unused, Shape, OthersStay
  <2>6. Fresh(c)' /\ Found(c)'
    BY <1>2, <2>1, <2>5 DEF Fresh, Found, After
  <2>7. QED
    BY <1>2, <2>2, <2>3, <2>6, TreeGoesOn
<1>5. CASE r.op \notin Creates
  <2>1. i \in DOMAIN data
    <3>1. CASE r.op \in {"lookup", "unlink"}
      <4>1. i = r.parent
        BY <1>1, <1>2, <3>1 DEF Targets
      <4>2. QED
        BY <3>1, <4>1 DEF begin, Plausible
    <3>2. CASE r.op \notin {"lookup", "unlink"}
      <4>1. i = r.ino
        BY <1>1, <1>2, <1>5, <3>2 DEF Targets, Creates
      <4>2. QED
        BY <1>5, <3>2, <4>1 DEF begin, Plausible, Creates
    <3>3. QED
      BY <3>1, <3>2
  <2>2. pc'[c] \in {"lookup", "unlink", "readdir", "stat"}
    BY <1>2, <1>5 DEF Start, Creates
  <2>3. pc'[c] \in Away
    BY <2>2 DEF Away, Places, Before, After
  <2>4. QED
    BY <1>2, <1>3, <2>1, <2>3, AwayKeepsTree
<1>6. QED
  BY <1>4, <1>5

\* std::find gives one of the pairs.
LEMMA FindsPair ==
  ASSUME NEW d, Clean(d), NEW n \in NamesIn(d)
  PROVE  \E k \in DOMAIN d : Find(d, n) = k /\ d[k].name = n /\ InumOf(d, n) = d[k].inum
<1>1. PICK k \in DOMAIN d : d[k].name = n
  BY DEF NamesIn
<1>2. k \in Nat /\ n \in Names
  BY <1>1, PairsOf
<1>3. \A j \in 1 .. k - 1 : j \in DOMAIN d /\ j < k
  BY <1>2 DEF Clean
<1>4. \A j \in 1 .. k - 1 : d[j].name # n
  BY <1>1, <1>2, <1>3, TextAssumption DEF Clean, OccursIn
<1>5. Find(d, n) \in DOMAIN d /\ d[Find(d, n)].name = n
  BY <1>1, <1>4 DEF Find
<1>6. QED
  BY <1>5 DEF InumOf

\* What lookup and unlink find in a directory is the number of an entry.
LEMMA FoundIsEntry ==
  ASSUME IInv, NEW p \in Dirs \cap DOMAIN data, NEW n \in NamesIn(data[p])
  PROVE  ~NoEntry(InumOf(data[p], n))
<1>1. Clean(data[p])
  BY DEF IInv, ExtentsOk
<1>2. PICK k \in DOMAIN data[p] : InumOf(data[p], n) = data[p][k].inum
  BY <1>1, FindsPair
<1>3. QED
  BY <1>2 DEF NoEntry

\* lookup.
LEMMA LookupKeepsTree ==
  ASSUME IInv, Tree, "get" \notin Lossy, NEW c \in Clients, lookup(c)
  PROVE  Tree'
<1> DEFINE p == rq[c].parent
           n == rq[c].name
           l == [loc[c] EXCEPT !.fnum = InumOf(data[p], n)]
<1>1. Shape /\ pc[c] = "lookup"
  BY ExtentsShape DEF lookup, At
<1>2. CASE Return(c)
  BY <1>1, <1>2, ReturnKeepsTree
<1>3. ASSUME NEW lose \in MayLose("get"), Gets(c, p, lose), n \in NamesIn(Got(p, lose)),
             Goto(c, "stat", l)
      PROVE  Tree'
  <2>1. p \in Dirs \cap DOMAIN data /\ n \in NamesIn(data[p])
    BY <1>1, <1>3, Gives, Knows
  <2>2. OthersStay(c) /\ pc'[c] = "stat" /\ loc'[c] = l
    BY <1>3, Goes DEF IInv
  <2>3. l.fnum = InumOf(data[p], n)
    BY Knows, BlankFields DEF Control
  <2> HIDE DEF l
  <2>4. ~NoEntry(loc'[c].fnum)
    BY <2>1, <2>2, <2>3, FoundIsEntry
  <2>5. pc'[c] \in Away
    BY <2>2 DEF Away, Places, Before, After
  <2>6. QED
    BY <1>1, <2>2, <2>4, <2>5, AwayKeepsTree
<1>4. QED
  BY <1>2, <1>3 DEF lookup

\* The other handlers that look, and those of a file's bytes and attributes.
LEMMA FilesKeepTree ==
  ASSUME IInv, TypeOK, Tree, "get" \notin Lossy, NEW c \in Clients,
         \/ stat(c) \/ readdir(c) \/ restat(c) \/ setattr_end(c)
         \/ read(c) \/ write(c) \/ resize(c) \/ save(c) \/ chattr_read(c) \/ chattr(c)
  PROVE  Tree'
<1>1. pc[c] # "make"
  BY DEF stat, readdir, restat, setattr_end, read, write, resize, save, chattr_read, chattr, At, Setting
<1>2. Shape
  <2>1. CASE save(c)
    <3> DEFINE i == rq[c].ino
    <3>1. pc[c] = "save"
      BY <2>1 DEF save, At
    <3>2. i \in DOMAIN data /\ i \notin Dirs
      BY <3>1, SavesBytes, InumsAssumption
    <3>3. UNCHANGED extents \/ data' = With(data, i, NewContents(c))
      BY <2>1 DEF save, Put
    <3>4. CASE data' = With(data, i, NewContents(c))
      BY <3>2, <3>4 DEF With, Shape
    <3>5. QED
      BY <3>3, <3>4, ExtentsShape
  <2>2. CASE chattr(c)
    <3>1. UNCHANGED data
      BY <2>2 DEF chattr, SetAttr
    <3>2. QED
      BY <3>1, ExtentsShape
  <2>3. CASE stat(c) \/ readdir(c) \/ restat(c) \/ setattr_end(c) \/ read(c)
    <3>1. UNCHANGED extents
      BY <2>3 DEF stat, readdir, restat, setattr_end, read
    <3>2. QED
      BY <3>1, ExtentsShape
  <2>4. CASE write(c) \/ resize(c) \/ chattr_read(c)
    <3>1. UNCHANGED extents
      BY <2>4 DEF write, resize, chattr_read
    <3>2. QED
      BY <3>1, ExtentsShape
  <2>5. QED
    BY <2>1, <2>2, <2>3, <2>4
<1>3. CASE Return(c)
  BY <1>1, <1>2, <1>3, ReturnKeepsTree
<1>4. ASSUME NEW refused, NextAttr(c, refused)
      PROVE  Tree'
  BY <1>1, <1>2, <1>4, NextAttrKeepsTree
<1>5. CASE UNCHANGED <<pc, rq, loc>> /\ UNCHANGED extents
  BY <1>5, StayKeepsTree DEF extents
<1>6. {"save", "chattr", "restat", "read", "write", "attrs"} \subseteq Away
  BY DEF Away, Places, Before, After
<1>7. ASSUME NEW p \in Away, NEW l, Goto(c, p, l), l.fnum = loc[c].fnum
      PROVE  Tree'
  BY <1>1, <1>2, <1>7, GotoKeepsTree
<1>8. CASE stat(c)
  <2>1. \A op \in DOMAIN Then : Then[op] \in Away
    BY <1>6 DEF Then
  <2>2. QED
    BY <1>3, <1>7, <1>8, <2>1, SameInode DEF stat
<1>9. CASE readdir(c) \/ restat(c) \/ setattr_end(c)
  BY <1>3, <1>6, <1>7, <1>9 DEF readdir, restat, setattr_end
<1>10. CASE read(c) \/ write(c)
  BY <1>3, <1>5, <1>6, <1>7, <1>10, SameInode DEF read, write
<1>11. CASE resize(c)
  BY <1>4, <1>5, <1>6, <1>7, <1>11, SameInode DEF resize
<1>12. CASE save(c) \/ chattr(c)
  BY <1>3, <1>4, <1>12 DEF save, chattr
<1>13. CASE chattr_read(c)
  BY <1>4, <1>6, <1>7, <1>13, SameInode DEF chattr_read
<1>14. QED
  BY <1>8, <1>9, <1>10, <1>11, <1>12, <1>13

\* create before its entry is linked: its number stays fresh.
LEMMA BeforeKeepsTree ==
  ASSUME IInv, Tree, NEW c \in Clients, NEW p \in Before, NEW l, Goto(c, p, l),
         l.fnum = loc[c].fnum, pc[c] \in Before, Shape
  PROVE  Tree'
<1>1. OthersStay(c) /\ pc'[c] = p /\ loc'[c] = l
  BY Goes DEF IInv
<1>2. RootStays' /\ Single' /\ Led' /\ \A i : NoEntry(i)' <=> NoEntry(i)
  BY <1>1, ShapeStays, ShapeLeads DEF Before
<1>3. TreeStep(c)
  BY <1>1, <1>2 DEF TreeStep, Shape, Before, After
<1>4. /\ loc[c].fnum \notin DOMAIN data /\ NoEntry(loc[c].fnum)
      /\ \A e \in Clients \ {c} : loc[e].fnum # loc[c].fnum
  BY DEF Tree, Fresh
<1>5. Fresh(c)' /\ Found(c)'
  BY <1>1, <1>2, <1>4 DEF Fresh, Found, Shape, OthersStay, Before, After
<1>6. QED
  BY <1>1, <1>2, <1>3, <1>5, TreeGoesOn

\* The locks and the get of create.
LEMMA CreateKeepsTree ==
  ASSUME IInv, Tree, NEW c \in Clients, create_lock(c) \/ create_get(c)
  PROVE  Tree'
<1>1. Shape /\ pc[c] \in Before /\ pc[c] # "make"
  BY ExtentsShape DEF create_lock, create_get, At, Before
<1>2. CASE Return(c)
  BY <1>1, <1>2, ReturnKeepsTree
<1>3. ASSUME NEW p \in Before, NEW l, Goto(c, p, l), l.fnum = loc[c].fnum
      PROVE  Tree'
  BY <1>1, <1>3, BeforeKeepsTree
<1>4. "lockfile" \in Before /\ "link" \in Before
  BY DEF Before
<1>5. QED
  BY <1>2, <1>3, <1>4, SameInode DEF create_lock, create_get

-----------------------------------------------------------------------------
(* The steps that change directories, or make and remove extents.          *)

\* A put that is refused or lost, or that replaces the contents.
Stored(i, v) == /\ DOMAIN data' = DOMAIN data \cup {i} /\ data'[i] = v
                /\ \A j \in DOMAIN data \ {i} : data'[j] = data[j]
\* One of the two happens.
LEMMA PutOutcomes ==
  ASSUME NEW c, NEW i, NEW v, NEW lose, Put(c, i, v, lose)
  PROVE  \/ UNCHANGED extents /\ (lose \/ ~Granted(c, i, "w"))
         \/ Stored(i, v) /\ ~lose /\ Granted(c, i, "w")
  BY DEF Put, With, Stored

\* Whether a call is lost.
LEMMA LoseIsBoolean ==
  ASSUME NEW k, NEW lose \in MayLose(k)
  PROVE  lose \in BOOLEAN /\ (lose => k \in Lossy)
  BY DEF MayLose

\* What create's calls do when they are over.
LEMMA CreatingOutcomes ==
  ASSUME IInv, NEW c \in Clients, NEW refused, NEW place, Creating(c, refused, place)
  PROVE  /\ OthersStay(c)
         /\ refused => Return(c)
         /\ ~refused => /\ Goto(c, place, loc[c]) /\ pc'[c] = place
                        /\ loc'[c] = loc[c] /\ rq'[c] = rq[c]
<1>1. Functions
  BY DEF IInv
<1>2. CASE refused
  <2>1. Return(c)
    BY <1>2 DEF Creating
  <2>2. QED
    BY <1>1, <1>2, <2>1, Returns
<1>3. CASE ~refused
  <2>1. Goto(c, place, loc[c])
    BY <1>3 DEF Creating
  <2>2. QED
    BY <1>1, <1>3, <2>1, Goes
<1>4. QED
  BY <1>2, <1>3

\* What is known of a number before its entry is linked.
LEMMA KnownFresh ==
  ASSUME Tree, NEW c \in Clients, pc[c] \in Before
  PROVE  /\ loc[c].fnum \notin DOMAIN data /\ NoEntry(loc[c].fnum) /\ loc[c].fnum # Root
         /\ \A e \in Clients \ {c} : loc[e].fnum # loc[c].fnum
  BY DEF Tree, Fresh, RootStays

\* The entry of a new file is linked; it will be made next.
LEMMA LinkKeepsTree ==
  ASSUME IInv, Tree, "get" \notin Lossy, NEW c \in Clients, link(c)
  PROVE  Tree'
<1>1. PICK p, i, n : p = rq[c].parent /\ i = loc[c].fnum /\ n = rq[c].name
  OBVIOUS
<1>2. PICK e : e = [name |-> n, inum |-> i]
  OBVIOUS
<1>3. pc[c] = "link" /\ pc[c] \in Before
  BY DEF link, At, Before
<1>4. PICK lose \in MayLose("link") :
        /\ Put(c, p, Append(loc[c].buf, e), lose)
        /\ Creating(c, Refuses(c, p, lose), "make")
  BY <1>1, <1>2 DEF link
<1>5. lose \in BOOLEAN
  BY LoseIsBoolean
<1>6. /\ i \notin DOMAIN data /\ NoEntry(i) /\ i # Root /\ i \in Inums
      /\ \A f \in Clients \ {c} : loc[f].fnum # i
  BY <1>1, <1>3, KnownFresh, Knows DEF Control
<1>7. p \in Dirs \cap DOMAIN data /\ data[p] = loc[c].buf /\ data[p] \in Seq(Entry)
  BY <1>1, <1>3, Knows DEF Own, Copies, Current1, Texts, Clean
<1>8. CASE Refuses(c, p, lose)
  <2>1. Return(c) /\ Shape
    <3>1. ~Granted(c, p, "w")
      BY <1>8 DEF Refuses
    <3>2. UNCHANGED extents
      BY <1>4, <3>1 DEF Put
    <3>3. QED
      BY <1>4, <1>8, <3>2, CreatingOutcomes, ExtentsShape
  <2>2. QED
    BY <1>3, <2>1, ReturnKeepsTree
<1>9. CASE ~Refuses(c, p, lose)
  <2>1. OthersStay(c) /\ pc'[c] = "make" /\ loc'[c] = loc[c] /\ rq'[c] = rq[c]
    BY <1>4, <1>9, CreatingOutcomes
  <2>2. CASE UNCHANGED extents
    <3>1. Shape
      BY <2>2, ExtentsShape
    <3>2. RootStays' /\ Single' /\ Led' /\ \A j : NoEntry(j)' <=> NoEntry(j)
      BY <1>3, <2>1, <3>1, ShapeStays, ShapeLeads
    <3>3. TreeStep(c)
      BY <1>3, <2>1, <3>1, <3>2 DEF TreeStep, Shape
    <3>4. Fresh(c)' /\ Found(c)'
      BY <1>1, <1>6, <2>1, <3>1 DEF Fresh, Found, Shape, OthersStay, Before
    <3>5. QED
      BY <2>1, <3>2, <3>3, <3>4, TreeGoesOn
  <2>3. CASE Stored(p, Append(loc[c].buf, e))
    <3>1. DOMAIN data' = DOMAIN data
      BY <1>7, <2>3 DEF Stored
    <3>2. /\ DOMAIN data'[p] = 1 .. Len(data[p]) + 1 /\ DOMAIN data[p] = 1 .. Len(data[p])
          /\ \A k \in DOMAIN data[p] : data'[p][k] = data[p][k]
          /\ data'[p][Len(data[p]) + 1].inum = i /\ Len(data[p]) \in Nat
      <4>1. data'[p] = Append(data[p], e) /\ e \in Entry
        BY <1>1, <1>2, <1>3, <1>6, <1>7, <2>3, Knows DEF Entry, Stored
      <4>2. QED
        BY <1>2, <1>7, <4>1
    <3>3. \A d \in Dirs \cap DOMAIN data : \A k \in DOMAIN data'[d] :
            \/ k \in DOMAIN data[d] /\ data'[d][k] = data[d][k]
            \/ d = p /\ k = Len(data[p]) + 1 /\ data'[d][k].inum = i
      <4>1. ASSUME NEW k \in DOMAIN data'[p]
            PROVE  k \in DOMAIN data[p] \/ k = Len(data[p]) + 1
        BY <3>2
      <4>2. QED
        BY <2>3, <3>2, <4>1 DEF Stored
    <3>4. \A j \in Inums : NoEntry(j) => NoEntry(j)' \/ j = i
      BY <3>1, <3>3 DEF NoEntry
    <3>5. RootStays'
      <4>1. Root \in Inums /\ NoEntry(Root) /\ Root \in DOMAIN data
        BY InumsAssumption DEF Inums, Tree, RootStays
      <4>2. QED
        BY <1>6, <3>1, <3>4, <4>1 DEF RootStays
    <3>6. Single'
      <4> SUFFICES ASSUME NEW d \in Dirs \cap DOMAIN data, NEW f \in Dirs \cap DOMAIN data,
                          NEW j \in DOMAIN data'[d], NEW k \in DOMAIN data'[f],
                          data'[d][j].inum = data'[f][k].inum
                   PROVE  d = f /\ j = k
        BY <3>1 DEF Single
      <4>1. CASE j \in DOMAIN data[d] /\ data'[d][j] = data[d][j]
        <5>1. data[d][j].inum # i
          BY <1>6, <4>1 DEF NoEntry
        <5>2. k \in DOMAIN data[f] /\ data'[f][k] = data[f][k]
          BY <3>3, <4>1, <5>1
        <5>3. QED
          BY <4>1, <5>2 DEF Tree, Single
      <4>2. CASE d = p /\ j = Len(data[p]) + 1 /\ data'[d][j].inum = i
        <5>1. ~(k \in DOMAIN data[f] /\ data'[f][k] = data[f][k])
          BY <1>6, <4>2 DEF NoEntry
        <5>2. QED
          BY <3>3, <4>2, <5>1
      <4>3. QED
        BY <3>3, <4>1, <4>2
    <3>7. Led'
      <4> SUFFICES ASSUME {"make", "cut"} \cap Lossy = {},
                          NEW d \in Dirs \cap DOMAIN data, NEW k \in DOMAIN data'[d]
                   PROVE  Leads(data[d][k].inum)'
        BY <3>1 DEF Led
      <4>1. CASE k \in DOMAIN data[d] /\ data'[d][k] = data[d][k]
        <5>1. Leads(data[d][k].inum)
          BY <4>1 DEF Tree, Led
        <5>2. QED
          BY <1>3, <2>1, <3>1, <4>1, <5>1 DEF Leads, OthersStay
      <4>2. CASE data'[d][k].inum = i
        BY <1>1, <2>1, <4>2 DEF Leads
      <4>3. QED
        BY <3>3, <4>1, <4>2
    <3>8. TreeStep(c)
      BY <1>1, <1>3, <2>1, <3>1, <3>4 DEF TreeStep
    <3>9. Fresh(c)' /\ Found(c)'
      BY <1>1, <1>6, <2>1, <3>1 DEF Fresh, Found, OthersStay, Before
    <3>10. QED
      BY <2>1, <3>5, <3>6, <3>7, <3>8, <3>9, TreeGoesOn
  <2>4. QED
    <3>1. UNCHANGED extents \/ Stored(p, Append(loc[c].buf, e))
      BY <1>4, PutOutcomes
    <3>2. QED
      BY <2>2, <2>3, <3>1
<1>10. QED
  BY <1>8, <1>9

\* The extent is made; its entry leads there now.
LEMMA MakeKeepsTree ==
  ASSUME IInv, Tree, NEW c \in Clients, make(c)
  PROVE  Tree'
<1>1. PICK i : i = loc[c].fnum
  OBVIOUS
<1>2. pc[c] = "make" /\ pc[c] \in After
  BY DEF make, At, After
<1>3. PICK lose \in MayLose("make") :
        Put(c, i, <<>>, lose) /\ Creating(c, Refuses(c, i, lose), "init")
  BY <1>1 DEF make
<1>4. lose \in BOOLEAN /\ (lose => "make" \in Lossy)
  BY LoseIsBoolean
<1>5. /\ i \notin DOMAIN data /\ i \in Inums /\ DOMAIN attr = DOMAIN data
      /\ \A e \in Clients \ {c} : pc[e] \in After => loc[e].fnum # i
  BY <1>1, <1>2, Knows DEF Tree, Fresh, Control, ExtentsOk
<1>6. ~Refuses(c, i, lose)
  BY <1>5 DEF Refuses, Granted
<1>7. OthersStay(c) /\ pc'[c] = "init" /\ loc'[c] = loc[c] /\ rq'[c] = rq[c]
  BY <1>3, <1>6, CreatingOutcomes
<1>8. Fresh(c)' /\ Found(c)'
  BY <1>1, <1>5, <1>7 DEF Fresh, Found, OthersStay, Before
<1>9. CASE UNCHANGED extents /\ lose
  <2>1. Shape
    BY <1>9, ExtentsShape
  <2>2. RootStays' /\ Single' /\ Led' /\ \A j : NoEntry(j)' <=> NoEntry(j)
    BY <1>4, <1>7, <1>9, <2>1, ShapeStays, ShapeLeads
  <2>3. TreeStep(c)
    BY <1>2, <1>7, <2>1, <2>2 DEF TreeStep, Shape
  <2>4. QED
    BY <1>7, <1>8, <2>2, <2>3, TreeGoesOn
<1>10. CASE Stored(i, <<>>)
  <2>1. \A d \in Dirs \cap DOMAIN data' : \A k \in DOMAIN data'[d] :
          d \in Dirs \cap DOMAIN data /\ data'[d] = data[d] /\ k \in DOMAIN data[d]
    BY <1>5, <1>10 DEF Stored
  <2>2. \A j \in Inums : NoEntry(j) => NoEntry(j)'
    BY <2>1 DEF NoEntry
  <2>3. RootStays'
    <3>1. Root \in Inums /\ NoEntry(Root) /\ Root \in DOMAIN data
      BY InumsAssumption DEF Inums, Tree, RootStays
    <3>2. QED
      BY <1>10, <2>2, <3>1 DEF RootStays, Stored
  <2>4. Single'
    BY <2>1 DEF Tree, Single
  <2>5. Led'
    <3> SUFFICES ASSUME {"make", "cut"} \cap Lossy = {},
                        NEW d \in Dirs \cap DOMAIN data', NEW k \in DOMAIN data'[d]
                 PROVE  Leads(data[d][k].inum)'
      BY DEF Led
    <3>1. d \in Dirs \cap DOMAIN data /\ data'[d] = data[d] /\ k \in DOMAIN data[d]
      BY <2>1
    <3>2. Leads(data[d][k].inum)
      BY <3>1 DEF Tree, Led
    <3>3. QED
      BY <1>1, <1>7, <1>10, <3>1, <3>2 DEF Leads, OthersStay, Stored
  <2>6. TreeStep(c)
    BY <1>1, <1>2, <1>7, <1>10, <2>2 DEF TreeStep, Stored
  <2>7. QED
    BY <1>7, <1>8, <2>3, <2>4, <2>5, <2>6, TreeGoesOn
<1>11. Granted(c, i, "w")
  BY <1>5 DEF Granted
<1>12. (UNCHANGED extents /\ lose) \/ Stored(i, <<>>)
  BY <1>3, <1>11, PutOutcomes
<1>13. QED
  BY <1>9, <1>10, <1>12

\* The new extent gets its attributes.
LEMMA InitKeepsTree ==
  ASSUME IInv, Tree, NEW c \in Clients, init(c)
  PROVE  Tree'
<1>1. pc[c] = "init" /\ UNCHANGED data
  BY DEF init, At, SetAttr
<1>2. Shape
  BY <1>1, ExtentsShape
<1>3. PICK lose \in MayLose("init") : Creating(c, Refuses(c, loc[c].fnum, lose), "stat")
  BY DEF init
<1>4. "stat" \in Away
  BY DEF Away, Places, Before, After
<1>5. QED
  BY <1>1, <1>2, <1>3, <1>4, CreatingOutcomes, ReturnKeepsTree, GotoKeepsTree

\* unlink finds an entry, which does not lead to the root.
LEMMA UnlinkKeepsTree ==
  ASSUME IInv, Tree, "get" \notin Lossy, NEW c \in Clients, unlink(c)
  PROVE  Tree'
<1> DEFINE p == rq[c].parent
           n == rq[c].name
           l == [loc[c] EXCEPT !.buf = data[p], !.fnum = InumOf(data[p], n)]
<1>1. Shape /\ pc[c] = "unlink"
  BY ExtentsShape DEF unlink, At
<1>2. CASE Return(c)
  BY <1>1, <1>2, ReturnKeepsTree
<1>3. ASSUME NEW lose \in MayLose("get"), Gets(c, p, lose), n \in NamesIn(Got(p, lose)),
             Goto(c, "cut", l)
      PROVE  Tree'
  <2>1. p \in Dirs \cap DOMAIN data /\ n \in NamesIn(data[p])
    BY <1>1, <1>3, Gives, Knows
  <2>2. OthersStay(c) /\ pc'[c] = "cut" /\ loc'[c] = l /\ rq'[c] = rq[c]
    BY <1>3, Goes DEF IInv
  <2>3. l.fnum = InumOf(data[p], n) /\ l.buf = data[p]
    BY Knows, BlankFields DEF Control
  <2> HIDE DEF l
  <2>4. ~NoEntry(loc'[c].fnum)
    BY <2>1, <2>2, <2>3, FoundIsEntry
  <2>5. RootStays' /\ Single' /\ Led' /\ \A j : NoEntry(j)' <=> NoEntry(j)
    BY <1>1, <2>2, ShapeStays, ShapeLeads
  <2>6. TreeStep(c)
    BY <1>1, <2>2, <2>4, <2>5 DEF TreeStep, Shape, After
  <2>7. loc'[c].fnum # Root
    BY <2>4 DEF Tree, RootStays
  <2>8. Fresh(c)' /\ Found(c)'
    BY <2>2, <2>3, <2>7 DEF Fresh, Found, Before, After
  <2>9. QED
    BY <2>2, <2>5, <2>6, <2>8, TreeGoesOn
<1>4. QED
  BY <1>2, <1>3 DEF unlink

\* Erasing the entry of n leaves the other entries, in their order.
Kept(s, d, k, m) == \A j \in DOMAIN s : m[j] \in DOMAIN d \ {k} /\ s[j] = d[m[j]]
\* So it is in a clean text: m says which pair each one was.
LEMMA ErasedPairs ==
  ASSUME NEW d, Clean(d), NEW n \in NamesIn(d)
  PROVE  \E k \in DOMAIN d : \E m :
           /\ InumOf(d, n) = d[k].inum /\ d[k].name = n
           /\ Kept(Erased(d, n), d, k, m)
           /\ \A i, j \in DOMAIN Erased(d, n) : m[i] = m[j] => i = j
           /\ \A i \in DOMAIN d \ {k} : \E j \in DOMAIN Erased(d, n) : m[j] = i
<1>1. PICK k \in DOMAIN d : d[k].name = n /\ InumOf(d, n) = d[k].inum
  BY FindsPair
<1>2. Occurrence(d, n) = k
  BY <1>1, FirstOccurrence
<1>3. PICK s : s = SubSeq(d, 1, k - 1) \o SubSeq(d, k + 1, Len(d))
  OBVIOUS
<1>4. Erased(d, n) = s
  BY <1>1, <1>2, <1>3 DEF Erased
<1>5. d \in Seq(Entry) /\ k \in 1 .. Len(d) /\ Len(d) \in Nat /\ DOMAIN d = 1 .. Len(d)
  BY DEF Clean
<1>6. s \in Seq(Entry) /\ Len(s) = Len(d) - 1 /\ DOMAIN s = 1 .. Len(d) - 1
  BY <1>3, <1>5, WithoutOne, Zenon
<1>7. \A j \in DOMAIN s : s[j] = d[IF j < k THEN j ELSE j + 1]
  <2>1. \A j \in 1 .. Len(d) - 1 : s[j] = d[IF j < k THEN j ELSE j + 1]
    BY <1>3, <1>5, WithoutOne, Zenon
  <2>2. QED
    BY <1>6, <2>1, Zenon
<1>8. PICK m : m = [j \in DOMAIN s |-> IF j < k THEN j ELSE j + 1]
  OBVIOUS
<1>9. Kept(s, d, k, m)
  BY <1>5, <1>6, <1>7, <1>8 DEF Kept
<1>10. \A i, j \in DOMAIN s : m[i] = m[j] => i = j
  BY <1>5, <1>6, <1>8
<1>11. ASSUME NEW i \in DOMAIN d \ {k}
       PROVE  \E j \in DOMAIN s : m[j] = i
  <2>1. CASE i < k
    <3>1. i \in DOMAIN s /\ m[i] = i
      BY <1>5, <1>6, <1>8, <2>1
    <3>2. QED
      BY <3>1
  <2>2. CASE i > k
    <3>1. i - 1 \in DOMAIN s /\ m[i - 1] = i
      BY <1>5, <1>6, <1>8, <2>2
    <3>2. QED
      BY <3>1
  <2>3. QED
    BY <1>5, <2>1, <2>2
<1>12. QED
  BY <1>1, <1>4, <1>9, <1>10, <1>11

\* The entry is cut: nothing leads to its inode any more.
LEMMA CutKeepsTree ==
  ASSUME IInv, Tree, "get" \notin Lossy, NEW c \in Clients, cut(c)
  PROVE  Tree'
<1>1. PICK p, i, n : p = rq[c].parent /\ i = loc[c].fnum /\ n = rq[c].name
  OBVIOUS
<1>2. pc[c] = "cut"
  BY DEF cut, At
<1>3. PICK lose \in MayLose("cut") :
        /\ Put(c, p, Erased(loc[c].buf, n), lose)
        /\ IF Refuses(c, p, lose) THEN Return(c)
                                  ELSE Goto(c, "remove", loc[c])
  BY <1>1 DEF cut
<1>4. lose \in BOOLEAN /\ (lose => "cut" \in Lossy)
  BY LoseIsBoolean
<1>5. /\ p \in Dirs \cap DOMAIN data /\ data[p] = loc[c].buf /\ Clean(data[p])
      /\ n \in NamesIn(data[p])
  BY <1>1, <1>2, Knows DEF Own, Copies, Current1, Texts
<1>6. i = InumOf(data[p], n) /\ i # Root
  BY <1>1, <1>2, <1>5 DEF Tree, Found
<1>7. CASE Refuses(c, p, lose)
  <2>1. ~Granted(c, p, "w")
    BY <1>7 DEF Refuses
  <2>2. UNCHANGED extents
    BY <1>3, <2>1 DEF Put
  <2>3. QED
    BY <1>2, <1>3, <1>7, <2>2, ExtentsShape, ReturnKeepsTree
<1>8. CASE ~Refuses(c, p, lose)
  <2>1. OthersStay(c) /\ pc'[c] = "remove" /\ loc'[c] = loc[c] /\ rq'[c] = rq[c]
    BY <1>3, <1>8, Goes DEF IInv
  <2>2. CASE UNCHANGED extents /\ lose
    <3>1. Shape
      BY <2>2, ExtentsShape
    <3>2. RootStays' /\ Single' /\ Led' /\ \A j : NoEntry(j)' <=> NoEntry(j)
      BY <1>2, <2>1, <3>1, ShapeStays, ShapeLeads
    <3>3. TreeStep(c)
      BY <2>1, <3>1, <3>2 DEF TreeStep, Shape, After
    <3>4. Fresh(c)' /\ Found(c)'
      BY <1>1, <1>4, <1>6, <2>1, <2>2 DEF Fresh, Found, Before, After
    <3>5. QED
      BY <2>1, <3>2, <3>3, <3>4, TreeGoesOn
  <2>3. CASE Stored(p, Erased(loc[c].buf, n))
    <3>1. DOMAIN data' = DOMAIN data /\ data'[p] = Erased(data[p], n)
      BY <1>5, <2>3 DEF Stored
    <3>2. PICK k \in DOMAIN data[p] : \E m :
           /\ i = data[p][k].inum
           /\ Kept(data'[p], data[p], k, m)
           /\ \A a, b \in DOMAIN data'[p] : m[a] = m[b] => a = b
      BY <1>5, <1>6, <3>1, ErasedPairs
    <3>3. PICK m :
           /\ i = data[p][k].inum
           /\ Kept(data'[p], data[p], k, m)
           /\ \A a, b \in DOMAIN data'[p] : m[a] = m[b] => a = b
      BY <3>2
    <3>4. \A d \in Dirs \cap DOMAIN data : \A j \in DOMAIN data'[d] :
            \/ d # p /\ data'[d] = data[d] /\ j \in DOMAIN data[d]
            \/ d = p /\ m[j] \in DOMAIN data[p] \ {k} /\ data'[p][j] = data[p][m[j]]
      BY <2>3, <3>3 DEF Stored, Kept
    <3>5. \A j : NoEntry(j) => NoEntry(j)'
      BY <3>1, <3>4 DEF NoEntry
    <3>6. RootStays'
      BY <3>1, <3>5 DEF Tree, RootStays
    <3>7. Single'
      <4> SUFFICES ASSUME NEW d \in Dirs \cap DOMAIN data, NEW f \in Dirs \cap DOMAIN data,
                          NEW a \in DOMAIN data'[d], NEW b \in DOMAIN data'[f],
                          data'[d][a].inum = data'[f][b].inum
                   PROVE  d = f /\ a = b
        BY <3>1 DEF Single
      <4>1. Single
        BY DEF Tree
      <4>2. CASE d # p /\ f # p
        BY <3>4, <4>1, <4>2 DEF Single
      <4>3. CASE d = p /\ f # p
        BY <3>4, <4>1, <4>3 DEF Single
      <4>4. CASE d # p /\ f = p
        BY <3>4, <4>1, <4>4 DEF Single
      <4>5. CASE d = p /\ f = p
        <5>1. /\ m[a] \in DOMAIN data[p] /\ data'[p][a] = data[p][m[a]]
              /\ m[b] \in DOMAIN data[p] /\ data'[p][b] = data[p][m[b]]
          BY <3>4, <4>5
        <5>2. m[a] = m[b]
          BY <4>1, <4>5, <5>1 DEF Single
        <5>3. QED
          BY <3>3, <4>5, <5>2
      <4>6. QED
        BY <4>2, <4>3, <4>4, <4>5
    <3>8. Led'
      <4> SUFFICES ASSUME {"make", "cut"} \cap Lossy = {},
                          NEW d \in Dirs \cap DOMAIN data, NEW j \in DOMAIN data'[d]
                   PROVE  Leads(data[d][j].inum)'
        BY <3>1 DEF Led
      <4>1. PICK x \in DOMAIN data[d] : data'[d][j] = data[d][x]
        BY <3>4
      <4>2. Leads(data[d][x].inum)
        BY DEF Tree, Led
      <4>3. QED
        BY <1>2, <2>1, <3>1, <4>1, <4>2 DEF Leads, OthersStay
    <3>9. TreeStep(c)
      BY <2>1, <3>1, <3>5 DEF TreeStep, After
    <3>10. NoEntry(i)'
      <4> SUFFICES ASSUME NEW d \in Dirs \cap DOMAIN data, NEW j \in DOMAIN data'[d]
                   PROVE  data'[d][j].inum # i
        BY <3>1 DEF NoEntry
      <4>1. CASE d # p
        <5>1. data'[d][j] = data[d][j] /\ j \in DOMAIN data[d]
          BY <3>4, <4>1
        <5>2. \A x \in DOMAIN data[p] : data[d][j].inum # data[p][x].inum
          BY <1>5, <4>1, <5>1 DEF Tree, Single
        <5>3. QED
          BY <3>3, <5>1, <5>2
      <4>2. CASE d = p
        BY <3>3, <3>4, <4>2 DEF Tree, Single
      <4>3. QED
        BY <4>1, <4>2
    <3>11. Fresh(c)' /\ Found(c)'
      BY <1>1, <1>6, <2>1, <3>10 DEF Fresh, Found, Before, After
    <3>12. QED
      BY <2>1, <3>6, <3>7, <3>8, <3>9, <3>11, TreeGoesOn
  <2>4. (UNCHANGED extents /\ lose) \/ Stored(p, Erased(loc[c].buf, n))
    BY <1>3, <1>4, <1>8, PutOutcomes DEF Refuses
  <2>5. QED
    BY <2>2, <2>3, <2>4
<1>9. QED
  BY <1>7, <1>8

\* The extent is removed: no entry leads there, so none is left dangling.
LEMMA RemoveKeepsTree ==
  ASSUME IInv, Tree, NEW c \in Clients, remove(c)
  PROVE  Tree'
<1>1. PICK i : i = loc[c].fnum
  OBVIOUS
<1>2. pc[c] = "remove" /\ Return(c)
  BY DEF remove, At
<1>3. CASE UNCHANGED extents
  BY <1>2, <1>3, ExtentsShape, ReturnKeepsTree
<1>4. CASE data' = Without(data, i)
  <2>1. i # Root /\ ("cut" \notin Lossy => NoEntry(i))
    BY <1>1, <1>2 DEF Tree, Found
  <2>2. DOMAIN data' = DOMAIN data \ {i} /\ \A d \in DOMAIN data' : data'[d] = data[d]
    BY <1>4 DEF Without
  <2>3. OthersStay(c) /\ pc'[c] = "idle" /\ loc'[c] = Blank
    BY <1>2, Returns DEF IInv
  <2>4. \A j : NoEntry(j) => NoEntry(j)'
    BY <2>2 DEF NoEntry
  <2>5. RootStays'
    BY <2>1, <2>2, <2>4 DEF Tree, RootStays
  <2>6. Single'
    BY <2>2 DEF Tree, Single
  <2>7. Led'
    <3> SUFFICES ASSUME {"make", "cut"} \cap Lossy = {},
                        NEW d \in Dirs \cap DOMAIN data', NEW k \in DOMAIN data'[d]
                 PROVE  Leads(data[d][k].inum)'
      BY DEF Led
    <3>1. d \in Dirs \cap DOMAIN data /\ data'[d] = data[d] /\ k \in DOMAIN data[d]
      BY <2>2
    <3>2. Leads(data[d][k].inum) /\ data[d][k].inum # i
      BY <2>1, <3>1 DEF Tree, Led, NoEntry
    <3>3. QED
      BY <1>2, <2>2, <2>3, <3>1, <3>2 DEF Leads, OthersStay
  <2>8. TreeStep(c)
    <3>1. loc'[c].fnum \in DOMAIN data
      BY <2>3, BlankFields DEF Tree, RootStays
    <3>2. QED
      BY <2>2, <2>3, <2>4, <3>1 DEF TreeStep, After
  <2>9. Fresh(c)' /\ Found(c)'
    BY <2>3 DEF Fresh, Found, Before, After
  <2>10. QED
    BY <2>3, <2>5, <2>6, <2>7, <2>8, <2>9, TreeGoesOn
<1>5. QED
  BY <1>1, <1>3, <1>4 DEF remove

-----------------------------------------------------------------------------
\* The tree at the start: an empty root.
LEMMA InitTree == Init => TInv
<1> SUFFICES ASSUME Init PROVE TInv
  OBVIOUS
<1>1. TypeOK
  <2>1. DataTypes
    <3>1. <<>> \in ContentsType(Root)
      BY DEF ContentsType
    <3>2. [mode |-> OpenToAll, uid |-> Owner, gid |-> getgid[Owner]] \in Attr
      BY OwnersAssumption DEF Attr
    <3>3. Root \in Inums
      BY InumsAssumption DEF Inums
    <3>4. QED
      BY <3>1, <3>2, <3>3 DEF DataTypes, Init
  <2>2. ClientTypes
    BY BlankTyped DEF ClientTypes, Init
  <2>3. CountTypes
    BY BoundsAssumption DEF CountTypes, Init
  <2>4. QED
    BY <2>1, <2>2, <2>3, TypeParts DEF Init
<1>2. Tree
  <2>1. DOMAIN data = {Root} /\ data[Root] = <<>>
    BY DEF Init
  <2>2. \A d \in Dirs \cap DOMAIN data : DOMAIN data[d] = {}
    BY <2>1
  <2>3. RootStays /\ Single /\ Led
    BY <2>1, <2>2 DEF RootStays, NoEntry, Single, Led
  <2>4. QED
    BY <2>3 DEF Tree, Fresh, Found, Init, Before, After
<1>3. \A c \in Clients : Sizes(c)
  BY DEF Sizes, Init
<1>4. QED
  BY <1>1, <1>2, <1>3 DEF TInv

\* Every step keeps the tree.
LEMMA NextTree ==
  ASSUME IInv, TInv, "get" \notin Lossy, [Next]_vars
  PROVE  TInv'
<1>1. TypeOK /\ Tree /\ \A c \in Clients : Sizes(c)
  BY DEF TInv
<1>2. TypeOK' /\ \A c \in Clients : Sizes(c)'
  BY <1>1, NextTyped, NextSizes
<1>3. ASSUME NEW c \in Clients, Handle(c) PROVE Tree'
  BY <1>1, <1>3, LookupKeepsTree, FilesKeepTree, CreateKeepsTree, LinkKeepsTree, MakeKeepsTree,
     InitKeepsTree, UnlinkKeepsTree, CutKeepsTree, RemoveKeepsTree DEF Handle
<1>4. ASSUME NEW c \in Clients, NEW r \in Requests, begin(c, r) PROVE Tree'
  BY <1>1, <1>4, BeginKeepsTree
<1>5. ASSUME NEW c \in Clients, die(c) PROVE Tree'
  BY <1>1, <1>5, StayKeepsTree DEF die, extents
<1>6. ASSUME UNCHANGED vars PROVE Tree'
  BY <1>1, <1>6, StayKeepsTree DEF vars
<1>7. Tree'
  BY <1>3, <1>4, <1>5, <1>6 DEF Next
<1>8. QED
  BY <1>2, <1>7 DEF TInv

\* If no get is lost, the types and the tree hold always.
THEOREM TreeInvariant ==
  ASSUME "get" \notin Lossy
  PROVE  SafeSpec => [](IInv /\ TInv)
<1>1. Init => IInv /\ TInv
  BY InitInv, InitTree
<1>2. IInv /\ TInv /\ [Next]_vars => (IInv /\ TInv)'
  BY NextInv, NextTree
<1>3. QED
  BY <1>1, <1>2, PTL DEF SafeSpec

\* If no get, no put of a new extent and no put of a shortened directory is
\* lost, entries lead to extents, or to one that its creator is about to
\* make, and no two lead to the same one, although clients are killed between
\* any two calls.
THEOREM TreeStaysSound ==
  ASSUME {"get", "make", "cut"} \cap Lossy = {}
  PROVE  SafeSpec => []TreeIsSound
<1>1. TInv => TreeIsSound
  <2> SUFFICES ASSUME TInv PROVE TreeIsSound
    OBVIOUS
  <2>1. TypeOK /\ Single /\ Led
    BY DEF TInv, Tree
  <2>2. \A e \in Entries : e[1] \in Dirs \cap DOMAIN data /\ e[2] \in DOMAIN data[e[1]]
    BY DEF Entries
  <2>3. \A e \in Entries : Leads(InumAt(e))
    BY <2>1, <2>2 DEF Led, InumAt
  <2>4. \A e, f \in Entries : e = <<e[1], e[2]>> /\ f = <<f[1], f[2]>>
    BY DEF Entries
  <2>5. \A e, f \in Entries : InumAt(e) = InumAt(f) => e = f
    BY <2>1, <2>2, <2>4 DEF Single, InumAt
  <2>6. QED
    BY <2>1, <2>3, <2>5 DEF TreeIsSound, Leads
<1>2. "get" \notin Lossy
  OBVIOUS
<1>3. SafeSpec => [](IInv /\ TInv)
  BY <1>2, TreeInvariant
<1>4. QED
  BY <1>1, <1>3, PTL

-----------------------------------------------------------------------------
(* YfsClient implements FsSpec.                                            *)

\* In a clean text two pairs have different names.
LEMMA NamesDiffer ==
  ASSUME NEW d, Clean(d), NEW j \in DOMAIN d, NEW k \in DOMAIN d, d[j].name = d[k].name
  PROVE  j = k
<1>1. \A i \in DOMAIN d : i \in Nat /\ OccursIn(d[i].name, d[i])
  BY PairsOf, TextAssumption DEF OccursIn
<1>2. ASSUME NEW a \in DOMAIN d, NEW b \in DOMAIN d, a < b, d[a].name = d[b].name
      PROVE  FALSE
  <2>1. ~OccursIn(d[b].name, d[a])
    BY <1>2 DEF Clean
  <2>2. QED
    BY <1>1, <1>2, <2>1
<1>3. j \in Nat /\ k \in Nat
  BY <1>1
<1>4. QED
  BY <1>2, <1>3

\* So the map of a clean text takes a name to the number in its pair.
LEMMA MapTakes ==
  ASSUME NEW d, Clean(d)
  PROVE  /\ DOMAIN MapOf(d) = NamesIn(d)
         /\ \A k \in DOMAIN d : d[k].name \in NamesIn(d) /\ MapOf(d)[d[k].name] = d[k].inum
<1>1. ASSUME NEW k \in DOMAIN d
      PROVE  d[k].name \in NamesIn(d) /\ MapOf(d)[d[k].name] = d[k].inum
  <2>1. d[k].name \in NamesIn(d)
    BY DEF NamesIn
  <2>2. PICK j \in DOMAIN d : d[j].name = d[k].name /\ InumOf(d, d[k].name) = d[j].inum
    BY <2>1, FindsPair
  <2>3. j = k
    BY <2>2, NamesDiffer
  <2>4. QED
    BY <2>1, <2>2, <2>3 DEF MapOf
<1>2. QED
  BY <1>1 DEF MapOf

\* A map is its text's if it takes the names of the pairs to their numbers.
Takes(d, S, f) ==
  /\ f = [n \in S |-> f[n]]
  /\ \A k \in DOMAIN d : d[k].name \in S /\ f[d[k].name] = d[k].inum
  /\ \A n \in S : \E k \in DOMAIN d : d[k].name = n
\* There is only one such map.
LEMMA MapIs ==
  ASSUME NEW d, Clean(d), NEW S, NEW f, Takes(d, S, f)
  PROVE  MapOf(d) = f
<1> USE DEF Takes
<1>1. NamesIn(d) = S
  BY DEF NamesIn
<1>2. ASSUME NEW n \in S
      PROVE  MapOf(d)[n] = f[n]
  <2>1. PICK k \in DOMAIN d : d[k].name = n
    OBVIOUS
  <2>2. QED
    BY <2>1, MapTakes
<1>3. MapOf(d) = [n \in S |-> MapOf(d)[n]]
  BY <1>1 DEF MapOf
<1>4. QED
  BY <1>2, <1>3

\* The map of the empty text.
LEMMA MapOfEmpty == MapOf(<<>>) = Fs!NoNames
<1>1. Clean(<<>>) /\ NamesIn(<<>>) = {}
  BY EmptyIsClean
<1>2. MapOf(<<>>) = [n \in {} |-> InumOf(<<>>, n)]
  BY <1>1 DEF MapOf
<1>3. QED
  BY <1>2 DEF Fs!NoNames

\* A pair is appended.
LEMMA MapOfAppend ==
  ASSUME NEW d, Clean(d), NEW n \in Names, NEW i \in Inums, ~Occurs(n, d)
  PROVE  /\ n \notin NamesIn(d)
         /\ MapOf(Append(d, [name |-> n, inum |-> i])) =
              [m \in DOMAIN MapOf(d) \cup {n} |-> IF m = n THEN i ELSE MapOf(d)[m]]
<1>1. PICK e : e = [name |-> n, inum |-> i]
  OBVIOUS
<1>2. PICK s : s = Append(d, e)
  OBVIOUS
<1>3. Clean(s)
  BY <1>1, <1>2, AppendIsClean
<1>4. d \in Seq(Entry) /\ e \in Entry /\ e.name = n /\ e.inum = i
  BY <1>1 DEF Clean, Entry
<1>5. /\ DOMAIN s = 1 .. Len(d) + 1 /\ DOMAIN d = 1 .. Len(d) /\ Len(d) \in Nat
      /\ s[Len(d) + 1] = e /\ \A k \in DOMAIN d : s[k] = d[k]
  BY <1>2, <1>4
<1>6. n \notin NamesIn(d)
  BY TextAssumption DEF NamesIn, Occurs, OccursIn
<1>7. PICK f : f = [m \in NamesIn(d) \cup {n} |-> IF m = n THEN i ELSE MapOf(d)[m]]
  OBVIOUS
<1>8. ASSUME NEW k \in DOMAIN s
      PROVE  s[k].name \in NamesIn(d) \cup {n} /\ f[s[k].name] = s[k].inum
  <2>1. CASE k \in DOMAIN d
    <3>1. d[k].name \in NamesIn(d) /\ MapOf(d)[d[k].name] = d[k].inum /\ s[k] = d[k]
      BY <1>5, <2>1, MapTakes
    <3>2. QED
      BY <1>6, <1>7, <3>1
  <2>2. CASE k = Len(d) + 1
    BY <1>4, <1>5, <1>7, <2>2
  <2>3. QED
    BY <1>5, <2>1, <2>2
<1>9. ASSUME NEW m \in NamesIn(d) \cup {n}
      PROVE  \E k \in DOMAIN s : s[k].name = m
  <2>1. CASE m = n
    <3>1. Len(d) + 1 \in DOMAIN s /\ s[Len(d) + 1].name = m
      BY <1>4, <1>5, <2>1
    <3>2. QED
      BY <3>1
  <2>2. CASE m \in NamesIn(d)
    <3>1. PICK k \in DOMAIN d : d[k].name = m
      BY <2>2 DEF NamesIn
    <3>2. k \in DOMAIN s /\ s[k].name = m
      BY <1>5, <3>1
    <3>3. QED
      BY <3>2
  <2>3. QED
    BY <2>1, <2>2
<1>10. f = [m \in NamesIn(d) \cup {n} |-> f[m]]
  BY <1>7
<1>11. Takes(s, NamesIn(d) \cup {n}, f)
  BY <1>8, <1>9, <1>10 DEF Takes
<1>12. DOMAIN MapOf(d) = NamesIn(d)
  BY MapTakes
<1>13. MapOf(s) = f
  BY <1>3, <1>11, MapIs
<1>14. QED
  BY <1>1, <1>2, <1>6, <1>7, <1>12, <1>13

\* A pair is erased.
LEMMA MapOfErased ==
  ASSUME NEW d, Clean(d), NEW n \in NamesIn(d)
  PROVE  MapOf(Erased(d, n)) = [m \in DOMAIN MapOf(d) \ {n} |-> MapOf(d)[m]]
<1>1. PICK s : s = Erased(d, n)
  OBVIOUS
<1>2. Clean(s)
  BY <1>1, ErasedIsClean
<1>3. PICK k \in DOMAIN d : \E h :
        /\ d[k].name = n /\ Kept(s, d, k, h)
        /\ \A i \in DOMAIN d \ {k} : \E j \in DOMAIN s : h[j] = i
  BY <1>1, ErasedPairs
<1>4. PICK h :
        /\ d[k].name = n /\ Kept(s, d, k, h)
        /\ \A i \in DOMAIN d \ {k} : \E j \in DOMAIN s : h[j] = i
  BY <1>3
<1>5. PICK f : f = [m \in NamesIn(d) \ {n} |-> MapOf(d)[m]]
  OBVIOUS
<1>6. ASSUME NEW j \in DOMAIN s
      PROVE  s[j].name \in NamesIn(d) \ {n} /\ f[s[j].name] = s[j].inum
  <2>1. h[j] \in DOMAIN d /\ h[j] # k /\ s[j] = d[h[j]]
    BY <1>4 DEF Kept
  <2>2. d[h[j]].name # n
    BY <1>4, <2>1, NamesDiffer
  <2>3. d[h[j]].name \in NamesIn(d) /\ MapOf(d)[d[h[j]].name] = d[h[j]].inum
    BY <2>1, MapTakes
  <2>4. QED
    BY <1>5, <2>1, <2>2, <2>3
<1>7. ASSUME NEW m \in NamesIn(d) \ {n}
      PROVE  \E j \in DOMAIN s : s[j].name = m
  <2>1. PICK i \in DOMAIN d : d[i].name = m
    BY DEF NamesIn
  <2>2. i # k
    BY <1>4, <2>1
  <2>3. PICK j \in DOMAIN s : h[j] = i
    BY <1>4, <2>2
  <2>4. QED
    BY <1>4, <2>1, <2>3 DEF Kept
<1>8. f = [m \in NamesIn(d) \ {n} |-> f[m]]
  BY <1>5
<1>9. Takes(s, NamesIn(d) \ {n}, f)
  BY <1>6, <1>7, <1>8 DEF Takes
<1>10. DOMAIN MapOf(d) = NamesIn(d)
  BY MapTakes
<1>11. MapOf(s) = f
  BY <1>2, <1>9, MapIs
<1>12. QED
  BY <1>1, <1>5, <1>10, <1>11

\* Two strings one after the other.
LEMMA Concat ==
  ASSUME NEW a \in Seq(Bytes), NEW b \in Seq(Bytes)
  PROVE  /\ a \o b \in Seq(Bytes) /\ Len(a \o b) = Len(a) + Len(b)
         /\ \A k \in 1 .. Len(a) + Len(b) :
              (a \o b)[k] = IF k <= Len(a) THEN a[k] ELSE b[k - Len(a)]
<1>1. a \o b \in Seq(Bytes) /\ Len(a \o b) = Len(a) + Len(b)
  OBVIOUS
<1>2. \A k \in 1 .. Len(a) + Len(b) :
        (a \o b)[k] = IF k <= Len(a) THEN a[k] ELSE b[k - Len(a)]
  OBVIOUS
<1>3. QED
  BY <1>1, <1>2

\* A string is given by its length and its bytes.
SameBytes(w, n, f) ==
  /\ w \in Seq(Bytes) /\ Len(w) = n
  /\ f = [k \in 1 .. n |-> f[k]]
  /\ \A k \in 1 .. n : w[k] = f[k]
\* So two with the same are equal.
LEMMA StringIs ==
  ASSUME NEW w, NEW n \in Nat, NEW f, SameBytes(w, n, f)
  PROVE  w = f
<1> USE DEF SameBytes
<1>1. w = [k \in 1 .. n |-> w[k]]
  OBVIOUS
<1>2. QED
  BY <1>1

\* write lays the bytes over the file.
LEMMA WrittenIsOverlay ==
  ASSUME NEW s \in Seq(Bytes), NEW off \in Nat, NEW b \in Seq(Bytes)
  PROVE  Written(s, off, b) = Fs!Overlay(s, off, b)
<1>1. PICK ls \in Nat, lb \in Nat : ls = Len(s) /\ lb = Len(b)
  OBVIOUS
<1>2. PICK n \in Nat : n = IF off + lb > ls THEN off + lb ELSE ls
  OBVIOUS
<1>3. PICK f : f = [k \in 1 .. n |-> IF k \in off + 1 .. off + lb THEN b[k - off]
                                     ELSE IF k <= ls THEN s[k] ELSE Zero]
  OBVIOUS
<1>4. Fs!Overlay(s, off, b) = f
  BY <1>1, <1>2, <1>3 DEF Fs!Overlay
<1>5. PICK w : w = Written(s, off, b)
  OBVIOUS
<1>6. CASE off < ls
  <2>1. PICK x : x = SubSeq(s, 1, off)
    OBVIOUS
  <2>2. PICK y : y = SubSeq(s, off + lb + 1, ls)
    OBVIOUS
  <2>3. PICK xb : xb = x \o b
    OBVIOUS
  <2>4. x \in Seq(Bytes) /\ Len(x) = off /\ \A k \in 1 .. off : x[k] = s[k]
    BY <1>1, <1>6, <2>1
  <2>5. /\ y \in Seq(Bytes) /\ Len(y) = n - (off + lb)
        /\ \A k \in 1 .. n - (off + lb) : y[k] = s[off + lb + k]
    BY <1>1, <1>2, <1>6, <2>2, SMTT(30)
  <2>6. /\ xb \in Seq(Bytes) /\ Len(xb) = off + lb
        /\ \A k \in 1 .. off + lb : xb[k] = IF k <= off THEN s[k] ELSE b[k - off]
    <3>1. /\ xb \in Seq(Bytes) /\ Len(xb) = Len(x) + Len(b)
          /\ \A k \in 1 .. Len(x) + Len(b) : xb[k] = IF k <= Len(x) THEN x[k] ELSE b[k - Len(x)]
      BY <2>3, <2>4, Concat
    <3>2. ASSUME NEW k \in 1 .. off + lb
          PROVE  xb[k] = IF k <= off THEN s[k] ELSE b[k - off]
      <4>1. xb[k] = IF k <= off THEN x[k] ELSE b[k - off]
        BY <1>1, <2>4, <3>1
      <4>2. k <= off => x[k] = s[k]
        BY <2>4
      <4>3. QED
        BY <4>1, <4>2
    <3>3. QED
      BY <1>1, <2>4, <3>1, <3>2
  <2>7. w = xb \o y
    BY <1>1, <1>5, <1>6, <2>1, <2>2, <2>3 DEF Written
  <2>8. /\ w \in Seq(Bytes) /\ Len(w) = Len(xb) + Len(y)
        /\ \A k \in 1 .. Len(xb) + Len(y) : w[k] = IF k <= Len(xb) THEN xb[k] ELSE y[k - Len(xb)]
    BY <2>5, <2>6, <2>7, Concat
  <2>9. w \in Seq(Bytes) /\ Len(w) = n
    BY <2>5, <2>6, <2>8
  <2>10. ASSUME NEW k \in 1 .. n
         PROVE  w[k] = f[k]
    <3>1. w[k] = IF k <= off + lb THEN xb[k] ELSE y[k - (off + lb)]
      <4>1. k \in 1 .. Len(xb) + Len(y)
        BY <2>8, <2>9
      <4>2. w[k] = IF k <= Len(xb) THEN xb[k] ELSE y[k - Len(xb)]
        BY <2>8, <4>1
      <4>3. QED
        BY <2>6, <4>2
    <3>2. CASE k <= off
      BY <1>1, <1>2, <1>3, <1>6, <2>6, <3>1, <3>2
    <3>3. CASE k > off /\ k <= off + lb
      BY <1>1, <1>2, <1>3, <1>6, <2>6, <3>1, <3>3
    <3>4. CASE k > off + lb
      <4>1. k - (off + lb) \in 1 .. n - (off + lb) /\ off + lb + (k - (off + lb)) = k /\ k <= ls
        BY <1>2, <3>4
      <4>2. y[k - (off + lb)] = s[k]
        BY <2>5, <4>1
      <4>3. QED
        BY <1>3, <3>1, <3>4, <4>1, <4>2
    <3>5. QED
      BY <3>2, <3>3, <3>4
  <2>11. f = [k \in 1 .. n |-> f[k]]
    BY <1>3
  <2>12. SameBytes(w, n, f)
    BY <2>9, <2>10, <2>11 DEF SameBytes
  <2>13. QED
    BY <1>4, <1>5, <2>12, StringIs
<1>7. CASE off >= ls
  <2>1. PICK z : z = Zeros(off - ls)
    OBVIOUS
  <2>2. PICK sz : sz = s \o z
    OBVIOUS
  <2>3. z \in Seq(Bytes) /\ Len(z) = off - ls /\ \A k \in 1 .. off - ls : z[k] = Zero
    BY <1>7, <2>1, ZerosTyped
  <2>4. /\ sz \in Seq(Bytes) /\ Len(sz) = off
        /\ \A k \in 1 .. off : sz[k] = IF k <= ls THEN s[k] ELSE Zero
    <3>1. /\ sz \in Seq(Bytes) /\ Len(sz) = Len(s) + Len(z)
          /\ \A k \in 1 .. Len(s) + Len(z) : sz[k] = IF k <= Len(s) THEN s[k] ELSE z[k - Len(s)]
      BY <2>2, <2>3, Concat
    <3>2. QED
      BY <1>1, <1>7, <2>3, <3>1, SMTT(30)
  <2>5. w = sz \o b
    <3>1. ~(off < Len(s))
      BY <1>1, <1>7
    <3>2. w = s \o Zeros(off - Len(s)) \o b
      BY <1>5, <3>1 DEF Written
    <3>3. QED
      BY <1>1, <2>1, <2>2, <3>2
  <2>6. /\ w \in Seq(Bytes) /\ Len(w) = Len(sz) + Len(b)
        /\ \A k \in 1 .. Len(sz) + Len(b) : w[k] = IF k <= Len(sz) THEN sz[k] ELSE b[k - Len(sz)]
    BY <2>4, <2>5, Concat
  <2>7. n = off + lb
    BY <1>2, <1>7
  <2>8. w \in Seq(Bytes) /\ Len(w) = n
    BY <1>1, <2>4, <2>6, <2>7
  <2>9. ASSUME NEW k \in 1 .. n
        PROVE  w[k] = f[k]
    <3>1. w[k] = IF k <= off THEN sz[k] ELSE b[k - off]
      BY <1>1, <2>4, <2>6, <2>7
    <3>2. CASE k <= off
      BY <1>3, <2>4, <2>7, <3>1, <3>2
    <3>3. CASE k > off
      BY <1>3, <2>7, <3>1, <3>3
    <3>4. QED
      BY <3>2, <3>3
  <2>10. f = [k \in 1 .. n |-> f[k]]
    BY <1>3
  <2>11. SameBytes(w, n, f)
    BY <2>8, <2>9, <2>10 DEF SameBytes
  <2>12. QED
    BY <1>4, <1>5, <2>11, StringIs
<1>8. QED
  BY <1>1, <1>6, <1>7

\* The nodes that are to get their attributes.
LEMMA NewNodes ==
  \A i : i \in newBar <=> i \in DOMAIN data /\ \E b \in Clients : pc[b] = "init" /\ loc[b].fnum = i
  BY DEF newBar

\* And after a step.
LEMMA NewNodesNext ==
  \A i : i \in newBar' <=>
           i \in DOMAIN data' /\ \E b \in Clients : pc'[b] = "init" /\ loc'[b].fnum = i
  BY DEF newBar

\* A step of c between other places, with the same extents, makes none new.
LEMMA NewStays ==
  ASSUME NEW c \in Clients, OthersStay(c), pc[c] # "init", pc'[c] # "init",
         DOMAIN data' = DOMAIN data
  PROVE  newBar' = newBar
<1>1. ASSUME NEW b \in Clients
      PROVE  /\ pc'[b] = "init" <=> pc[b] = "init"
             /\ pc[b] = "init" => loc'[b].fnum = loc[b].fnum
  BY DEF OthersStay
<1>2. \A i : i \in newBar' <=> i \in newBar
  BY <1>1, NewNodes, NewNodesNext
<1>3. QED
  BY <1>2

\* The nodes, by what their extents hold.
LEMMA Nodes ==
  /\ DOMAIN nodeBar = DOMAIN data /\ nodeBar = [i \in DOMAIN data |-> nodeBar[i]]
  /\ \A i \in DOMAIN data : nodeBar[i] = IF i \in Dirs THEN MapOf(data[i]) ELSE data[i]
  BY DEF nodeBar

\* And after a step.
LEMMA NodesNext ==
  /\ DOMAIN nodeBar' = DOMAIN data' /\ nodeBar' = [i \in DOMAIN data' |-> nodeBar'[i]]
  /\ \A i \in DOMAIN data' : nodeBar'[i] = IF i \in Dirs THEN MapOf(data'[i]) ELSE data'[i]
  BY DEF nodeBar

\* A step of the file system, or none, or one of a setattr with a stale size.
FsStep == Fs!Next \/ StaleResize \/ UNCHANGED Fs!vars

\* A client's request is being handled.
LEMMA Asks ==
  ASSUME NEW c \in Clients, Fs!Serve(rq[c])
  PROVE  FsStep
  BY DEF FsStep, Fs!Next

\* A step of c between other places that changes no extent is none.
LEMMA NothingChanges ==
  ASSUME UNCHANGED extents, newBar' = newBar
  PROVE  FsStep
<1>1. data' = data /\ attr' = attr
  BY DEF extents
<1>2. nodeBar' = nodeBar
  BY <1>1 DEF nodeBar
<1>3. QED
  BY <1>1, <1>2 DEF FsStep, Fs!vars

\* A client that goes on to a place other than init, or returns.
Leaves(c) == OthersStay(c) /\ pc'[c] # "init"
\* A client that goes on.
LEMMA GoesElsewhere ==
  ASSUME IInv, NEW c \in Clients, NEW p, p # "init", NEW l, Goto(c, p, l)
  PROVE  Leaves(c)
  BY Goes DEF IInv, Leaves

\* A client that returns.
LEMMA ReturnsElsewhere ==
  ASSUME IInv, NEW c \in Clients, Return(c)
  PROVE  Leaves(c)
  BY Returns DEF IInv, Leaves

\* A client that goes on with setattr.
LEMMA NextAttrElsewhere ==
  ASSUME IInv, NEW c \in Clients, NEW refused, NextAttr(c, refused)
  PROVE  Leaves(c)
  BY GoesElsewhere DEF NextAttr

\* A client that stays where it is.
LEMMA StaysElsewhere ==
  ASSUME NEW c \in Clients, pc[c] # "init", UNCHANGED <<pc, rq, loc>>
  PROVE  Leaves(c)
  BY DEF Leaves, OthersStay

\* The steps that look are none of the file system.
LEMMA LooksChangeNothing ==
  ASSUME IInv, NEW c \in Clients,
         \/ stat(c) \/ lookup(c) \/ readdir(c) \/ read(c) \/ write(c) \/ resize(c)
         \/ chattr_read(c) \/ setattr_end(c) \/ restat(c) \/ create_lock(c) \/ create_get(c)
         \/ unlink(c)
  PROVE  FsStep
<1>1. CASE stat(c)
  <2>1. pc[c] # "init" /\ UNCHANGED extents
    BY <1>1 DEF stat, At
  <2>2. ASSUME NEW op \in DOMAIN Then
        PROVE  Then[op] # "init"
    BY <2>2 DEF Then
  <2>3. Leaves(c)
    BY <1>1, <2>2, GoesElsewhere, ReturnsElsewhere DEF stat
  <2>4. QED
    BY <2>1, <2>3, NewStays, NothingChanges DEF Leaves, extents
<1>2. CASE lookup(c) \/ readdir(c) \/ setattr_end(c) \/ restat(c) \/ create_lock(c)
  <2>1. pc[c] # "init" /\ UNCHANGED extents
    BY <1>2 DEF lookup, readdir, setattr_end, restat, create_lock, At
  <2>2. Leaves(c)
    BY <1>2, GoesElsewhere, ReturnsElsewhere
       DEF lookup, readdir, setattr_end, restat, create_lock
  <2>3. QED
    BY <2>1, <2>2, NewStays, NothingChanges DEF Leaves, extents
<1>3. CASE read(c) \/ write(c) \/ resize(c)
  <2>1. pc[c] # "init" /\ UNCHANGED extents
    BY <1>3 DEF read, write, resize, Setting, At
  <2>2. Leaves(c)
    <3>1. CASE read(c)
      BY <2>1, <3>1, StaysElsewhere, ReturnsElsewhere DEF read
    <3>2. CASE write(c)
      BY <3>2, GoesElsewhere, ReturnsElsewhere DEF write
    <3>3. CASE resize(c)
      BY <2>1, <3>3, GoesElsewhere, StaysElsewhere, NextAttrElsewhere DEF resize
    <3>4. QED
      BY <1>3, <3>1, <3>2, <3>3
  <2>3. QED
    BY <2>1, <2>2, NewStays, NothingChanges DEF Leaves, extents
<1>4. CASE chattr_read(c) \/ create_get(c) \/ unlink(c)
  <2>1. pc[c] # "init" /\ UNCHANGED extents
    BY <1>4 DEF chattr_read, create_get, unlink, Setting, At
  <2>2. Leaves(c)
    <3>1. CASE chattr_read(c)
      BY <3>1, GoesElsewhere, NextAttrElsewhere DEF chattr_read
    <3>2. CASE create_get(c)
      BY <3>2, GoesElsewhere, ReturnsElsewhere DEF create_get
    <3>3. CASE unlink(c)
      BY <3>3, GoesElsewhere, ReturnsElsewhere DEF unlink
    <3>4. QED
      BY <1>4, <3>1, <3>2, <3>3
  <2>3. QED
    BY <2>1, <2>2, NewStays, NothingChanges DEF Leaves, extents
<1>5. QED
  BY <1>1, <1>2, <1>3, <1>4

\* A request that begins, and a client that is killed, change nothing.
LEMMA BeginsChangeNothing ==
  ASSUME IInv, NEW c \in Clients, (\E r \in Requests : begin(c, r)) \/ die(c)
  PROVE  FsStep
<1>1. CASE \E r \in Requests : begin(c, r)
  <2>1. PICK r \in Requests : begin(c, r)
    BY <1>1
  <2>2. OthersStay(c) /\ UNCHANGED extents /\ pc[c] = "idle"
    BY <2>1, BeginIsGood DEF Good, Guarantee, begin, At
  <2>3. pc'[c] = Start(r.op)
    BY <2>1 DEF begin, IInv, Functions
  <2>4. Start(r.op) # "init"
    BY DEF Start
  <2>5. QED
    BY <2>2, <2>3, <2>4, NewStays, NothingChanges DEF extents
<1>2. CASE die(c)
  <2>1. UNCHANGED extents /\ pc' = pc /\ loc' = loc
    BY <1>2 DEF die
  <2>2. newBar' = newBar
    BY <2>1 DEF newBar, extents
  <2>3. QED
    BY <2>1, <2>2, NothingChanges
<1>3. QED
  BY <1>1, <1>2

\* A put to an extent there is changes its node alone, or nothing.
LEMMA PutChangesNode ==
  ASSUME ExtentsOk, NEW c, NEW i \in DOMAIN data, NEW v, NEW lose, Put(c, i, v, lose)
  PROVE  \/ UNCHANGED extents
         \/ /\ nodeBar' = [nodeBar EXCEPT ![i] = IF i \in Dirs THEN MapOf(v) ELSE v]
            /\ attr' = attr /\ DOMAIN data' = DOMAIN data
<1>1. CASE UNCHANGED extents
  BY <1>1
<1>2. CASE Stored(i, v) /\ attr' = attr
  <2>1. DOMAIN data' = DOMAIN data /\ data'[i] = v /\ \A j \in DOMAIN data \ {i} : data'[j] = data[j]
    BY <1>2 DEF Stored
  <2>2. PICK f : f = [nodeBar EXCEPT ![i] = IF i \in Dirs THEN MapOf(v) ELSE v]
    OBVIOUS
  <2>3. /\ DOMAIN f = DOMAIN data /\ f = [j \in DOMAIN data |-> f[j]]
        /\ \A j \in DOMAIN data : f[j] = nodeBar'[j]
    BY <2>1, <2>2, Nodes, NodesNext
  <2>4. nodeBar' = [j \in DOMAIN data |-> nodeBar'[j]]
    BY <2>1, NodesNext
  <2>5. nodeBar' = f
    BY <2>3, <2>4
  <2>6. QED
    BY <1>2, <2>1, <2>2, <2>5
<1>3. i \in DOMAIN attr
  BY DEF ExtentsOk
<1>4. QED
  BY <1>1, <1>2, <1>3 DEF Put, Stored, With

\* Zeros after the end make a file longer.
LEMMA GrownIsResized ==
  ASSUME NEW s \in Seq(Bytes), NEW n \in Nat, n > Len(s)
  PROVE  Written(s, Len(s), Zeros(n - Len(s))) = Fs!Resized(s, n)
<1>1. PICK k \in Nat : k = n - Len(s)
  OBVIOUS
<1>2. PICK b : b = Zeros(k)
  OBVIOUS
<1>3. b \in Seq(Bytes) /\ Len(b) = k /\ \A j \in 1 .. k : b[j] = Zero
  BY <1>2, ZerosTyped
<1>4. PICK f : f = [j \in 1 .. n |-> IF j \in Len(s) + 1 .. Len(s) + Len(b) THEN b[j - Len(s)]
                                     ELSE IF j <= Len(s) THEN s[j] ELSE Zero]
  OBVIOUS
<1>5. Written(s, Len(s), b) = f
  <2>1. Written(s, Len(s), b) = Fs!Overlay(s, Len(s), b)
    BY <1>3, WrittenIsOverlay
  <2>2. Len(s) + Len(b) = n /\ Len(s) + Len(b) > Len(s)
    BY <1>1, <1>3
  <2>3. QED
    BY <1>4, <2>1, <2>2 DEF Fs!Overlay
<1>6. PICK g : g = [j \in 1 .. n |-> IF j <= Len(s) THEN s[j] ELSE Zero]
  OBVIOUS
<1>7. ASSUME NEW j \in 1 .. n PROVE f[j] = g[j]
  <2>1. CASE j <= Len(s)
    BY <1>4, <1>6, <2>1
  <2>2. CASE ~(j <= Len(s))
    <3>1. j \in Len(s) + 1 .. Len(s) + Len(b) /\ j - Len(s) \in 1 .. k
      BY <1>1, <1>3, <2>2
    <3>2. QED
      BY <1>3, <1>4, <1>6, <2>2, <3>1
  <2>3. QED
    BY <2>1, <2>2
<1>8. f = g
  BY <1>4, <1>6, <1>7
<1>9. QED
  BY <1>1, <1>2, <1>5, <1>6, <1>8 DEF Fs!Resized

\* A file that is cut keeps its first bytes.
LEMMA CutIsResized ==
  ASSUME NEW s \in Seq(Bytes), NEW n \in Nat, n <= Len(s)
  PROVE  Truncated(s, Len(s) - n) = Fs!Resized(s, n)
<1>1. Len(s) - (Len(s) - n) = n
  OBVIOUS
<1>2. PICK w, f : w = SubSeq(s, 1, n) /\ f = [j \in 1 .. n |-> IF j <= Len(s) THEN s[j] ELSE Zero]
  OBVIOUS
<1>3. w \in Seq(Bytes) /\ Len(w) = n /\ \A j \in 1 .. n : w[j] = s[j]
  BY <1>2
<1>4. f = [j \in 1 .. n |-> f[j]] /\ \A j \in 1 .. n : w[j] = f[j]
  BY <1>2, <1>3
<1>5. w = f
  BY <1>3, <1>4, StringIs DEF SameBytes
<1>6. QED
  BY <1>1, <1>2, <1>5 DEF Truncated, Fs!Resized

\* What write saves, and setattr when its size is the file's, is what they
\* were asked for.
LEMMA SavesAsAsked ==
  ASSUME IInv, TypeOK, "get" \notin Lossy, NEW c \in Clients, pc[c] = "save", Sizes(c), ~Stale(c)
  PROVE  /\ rq[c].op = "write" => NewContents(c) = Fs!Overlay(loc[c].buf, rq[c].off, rq[c].data)
         /\ rq[c].op = "setattr" => NewContents(c) = Fs!Resized(loc[c].buf, rq[c].size)
<1>1. /\ loc[c].buf \in Seq(Bytes) /\ loc[c].st \in Nat
      /\ rq[c].op \in {"write", "setattr"}
      /\ rq[c].op = "write" => rq[c].off \in Nat /\ rq[c].data \in Seq(Bytes)
      /\ rq[c].op = "setattr" => rq[c].size \in Nat
  BY SavesBytes
<1>2. CASE rq[c].op = "write"
  BY <1>1, <1>2, WrittenIsOverlay DEF NewContents
<1>3. CASE rq[c].op = "setattr"
  <2>1. loc[c].st = Len(loc[c].buf)
    BY <1>3 DEF Stale
  <2>2. CASE rq[c].size > loc[c].st
    <3>1. NewContents(c) = Written(loc[c].buf, loc[c].st, Zeros(rq[c].size - loc[c].st))
      BY <1>3, <2>2 DEF NewContents
    <3>2. QED
      BY <1>1, <1>3, <2>1, <2>2, <3>1, GrownIsResized
  <2>3. CASE ~(rq[c].size > loc[c].st)
    <3>1. NewContents(c) = Truncated(loc[c].buf, loc[c].st - rq[c].size)
      BY <1>3, <2>3 DEF NewContents
    <3>2. rq[c].size <= Len(loc[c].buf)
      BY <1>1, <1>3, <2>1, <2>3
    <3>3. QED
      BY <1>1, <1>3, <2>1, <3>1, <3>2, CutIsResized
  <2>4. QED
    BY <1>3, <2>2, <2>3
<1>4. QED
  BY <1>1, <1>2, <1>3

\* write and truncate change the bytes of a file.
LEMMA SaveIsChange ==
  ASSUME IInv, TypeOK, "get" \notin Lossy, NEW c \in Clients, Sizes(c), save(c)
  PROVE  FsStep
<1>1. PICK i, v, s : i = rq[c].ino /\ v = NewContents(c) /\ s = loc[c].buf
  OBVIOUS
<1>2. pc[c] = "save"
  BY DEF save, At
<1>3. PICK lose \in MayLose("save") :
        /\ Put(c, i, v, lose)
        /\ IF rq[c].op = "write" THEN Return(c) ELSE NextAttr(c, Refuses(c, i, lose))
  BY <1>1 DEF save
<1>4. i \in Files /\ i \in DOMAIN data /\ data[i] = s /\ i \notin Dirs /\ ExtentsOk
  BY <1>1, <1>2, SavesBytes, Knows, InumsAssumption
<1>5. Leaves(c)
  BY <1>3, ReturnsElsewhere, NextAttrElsewhere
<1>6. CASE UNCHANGED extents
  BY <1>2, <1>5, <1>6, NewStays, NothingChanges DEF Leaves, extents
<1>7. CASE nodeBar' = [nodeBar EXCEPT ![i] = v] /\ attr' = attr /\ DOMAIN data' = DOMAIN data
  <2>1. newBar' = newBar
    BY <1>2, <1>5, <1>7, NewStays DEF Leaves
  <2>2. i \in DOMAIN nodeBar /\ nodeBar[i] = s
    BY <1>4, Nodes
  <2>3. Fs!Change(i, v) /\ nodeBar'[i] = v
    BY <1>7, <2>1, <2>2 DEF Fs!Change
  <2>4. CASE Stale(c)
    BY <1>1, <2>3, <2>4 DEF FsStep, StaleResize
  <2>5. CASE ~Stale(c) /\ rq[c].op = "write"
    <3>1. v = Fs!Overlay(nodeBar[i], rq[c].off, rq[c].data)
      BY <1>1, <1>2, <2>2, <2>5, SavesAsAsked
    <3>2. Fs!Write(rq[c])
      BY <1>1, <2>3, <3>1 DEF Fs!Write
    <3>3. QED
      BY <2>5, <3>2, Asks DEF Fs!Serve
  <2>6. CASE ~Stale(c) /\ rq[c].op = "setattr"
    <3>1. v = Fs!Resized(nodeBar[i], rq[c].size)
      BY <1>1, <1>2, <2>2, <2>6, SavesAsAsked
    <3>2. Fs!Resize(rq[c])
      BY <1>1, <2>3, <3>1 DEF Fs!Resize
    <3>3. "size" \in rq[c].toset
      BY <1>2, <2>6 DEF Sizes
    <3>4. QED
      BY <2>6, <3>2, <3>3, Asks DEF Fs!Serve
  <2>7. QED
    BY <1>2, <2>4, <2>5, <2>6, SavesBytes
<1>8. QED
  BY <1>3, <1>4, <1>6, <1>7, PutChangesNode

\* chmod, chuid and chgid change one attribute.
LEMMA ChattrSetsOne ==
  ASSUME IInv, TypeOK, "get" \notin Lossy, NEW c \in Clients, Sizes(c), chattr(c)
  PROVE  FsStep
<1>1. PICK i, a, w : i = rq[c].ino /\ a = Current(loc[c].todo) /\ w = loc[c].att
  OBVIOUS
<1>2. pc[c] = "chattr"
  BY DEF chattr, At
<1>3. PICK lose \in MayLose("setattr") :
        SetAttr(c, i, [w EXCEPT ![a] = rq[c][a]], lose) /\ NextAttr(c, Refuses(c, i, lose))
  BY <1>1 DEF chattr
<1>4. /\ i \in DOMAIN attr /\ attr[i] = w /\ a \in {"mode", "uid", "gid"} /\ i \in Inums
      /\ rq[c].mode \in Modes /\ rq[c].uid \in Clients /\ rq[c].gid \in Gids
  BY <1>1, <1>2, ChattrWrites DEF TypeOK
<1>5. Leaves(c) /\ data' = data
  BY <1>3, NextAttrElsewhere DEF SetAttr
<1>6. newBar' = newBar /\ nodeBar' = nodeBar
  BY <1>2, <1>5, NewStays DEF Leaves, nodeBar
<1>7. CASE attr' = attr
  BY <1>6, <1>7 DEF FsStep, Fs!vars
<1>8. CASE attr' = [attr EXCEPT ![i] = [w EXCEPT ![a] = rq[c][a]]]
  <2>1. attr' = [attr EXCEPT ![i] = [attr[i] EXCEPT ![a] = rq[c][a]]]
    BY <1>4, <1>8
  <2>2. Fs!SetOne(rq[c], a)
    BY <1>1, <1>4, <1>6, <2>1 DEF Fs!SetOne
  <2>3. a \in rq[c].toset \ {"size"} /\ rq[c].op = "setattr"
    <3>1. /\ rq[c] \in Requests /\ rq[c].op = "setattr" /\ loc[c].todo \subseteq rq[c].toset
          /\ loc[c].todo # {}
      BY <1>2, Knows DEF Control, OpAtPlace
    <3>2. a \in loc[c].todo
      BY <1>1, <3>1, RequestFields, CurrentIsLeft
    <3>3. QED
      BY <1>4, <3>1, <3>2
  <2>4. QED
    BY <2>2, <2>3, Asks DEF Fs!Serve
<1>9. QED
  BY <1>3, <1>7, <1>8 DEF SetAttr

\* create links a name.
LEMMA LinkIsLink ==
  ASSUME IInv, Tree, "get" \notin Lossy, NEW c \in Clients, link(c)
  PROVE  FsStep
<1>1. PICK p, i, n : p = rq[c].parent /\ i = loc[c].fnum /\ n = rq[c].name
  OBVIOUS
<1>2. PICK v : v = Append(loc[c].buf, [name |-> n, inum |-> i])
  OBVIOUS
<1>3. pc[c] = "link"
  BY DEF link, At
<1>4. PICK lose \in MayLose("link") :
        Put(c, p, v, lose) /\ Creating(c, Refuses(c, p, lose), "make")
  BY <1>1, <1>2 DEF link
<1>5. /\ p \in Dirs \cap DOMAIN data /\ data[p] = loc[c].buf /\ Clean(data[p])
      /\ n \in Names /\ i \in Inums /\ ~Occurs(n, data[p]) /\ ExtentsOk
  BY <1>1, <1>3, Knows DEF Own, Copies, Current1, Texts, Control
<1>6. Leaves(c)
  BY <1>4, CreatingOutcomes, ReturnsElsewhere DEF Leaves
<1>7. CASE UNCHANGED extents
  BY <1>3, <1>6, <1>7, NewStays, NothingChanges DEF Leaves, extents
<1>8. CASE nodeBar' = [nodeBar EXCEPT ![p] = MapOf(v)] /\ attr' = attr /\ DOMAIN data' = DOMAIN data
  <2>1. newBar' = newBar
    BY <1>3, <1>6, <1>8, NewStays DEF Leaves
  <2>2. p \in DOMAIN nodeBar /\ nodeBar[p] = MapOf(data[p])
    BY <1>5, Nodes
  <2>3. n \notin DOMAIN nodeBar[p]
    <3>1. n \notin NamesIn(data[p])
      BY <1>5, MapOfAppend
    <3>2. DOMAIN MapOf(data[p]) = NamesIn(data[p])
      BY <1>5, MapTakes
    <3>3. QED
      BY <2>2, <3>1, <3>2
  <2>4. MapOf(v) = [m \in DOMAIN nodeBar[p] \cup {n} |-> IF m = n THEN i ELSE nodeBar[p][m]]
    BY <1>2, <1>5, <2>2, MapOfAppend
  <2>5. Fs!Link(p, n, i)
    BY <1>8, <2>1, <2>2, <2>3, <2>4 DEF Fs!Link
  <2>6. rq[c].op \in {"create", "mkdir"}
    BY <1>3, Knows DEF Control, OpAtPlace, Creates
  <2>7. QED
    BY <1>1, <1>5, <2>5, <2>6, Asks DEF Fs!Serve, Fs!Inums, Inums
<1>9. QED
  BY <1>4, <1>5, <1>7, <1>8, PutChangesNode

\* unlink cuts a name.
LEMMA CutIsCut ==
  ASSUME IInv, "get" \notin Lossy, NEW c \in Clients, cut(c)
  PROVE  FsStep
<1>1. PICK p, n : p = rq[c].parent /\ n = rq[c].name
  OBVIOUS
<1>2. PICK v : v = Erased(loc[c].buf, n)
  OBVIOUS
<1>3. pc[c] = "cut"
  BY DEF cut, At
<1>4. PICK lose \in MayLose("cut") :
        /\ Put(c, p, v, lose)
        /\ Return(c) \/ Goto(c, "remove", loc[c])
  BY <1>1, <1>2 DEF cut
<1>5. /\ p \in Dirs \cap DOMAIN data /\ data[p] = loc[c].buf /\ Clean(data[p])
      /\ n \in Names /\ n \in NamesIn(data[p]) /\ ExtentsOk
  BY <1>1, <1>3, Knows DEF Own, Copies, Current1, Texts
<1>6. Leaves(c)
  BY <1>4, GoesElsewhere, ReturnsElsewhere
<1>7. CASE UNCHANGED extents
  BY <1>3, <1>6, <1>7, NewStays, NothingChanges DEF Leaves, extents
<1>8. CASE nodeBar' = [nodeBar EXCEPT ![p] = MapOf(v)] /\ attr' = attr /\ DOMAIN data' = DOMAIN data
  <2>1. newBar' = newBar
    BY <1>3, <1>6, <1>8, NewStays DEF Leaves
  <2>2. p \in DOMAIN nodeBar /\ nodeBar[p] = MapOf(data[p])
    BY <1>5, Nodes
  <2>3. n \in DOMAIN nodeBar[p]
    BY <1>5, <2>2, MapTakes
  <2>4. MapOf(v) = [m \in DOMAIN nodeBar[p] \ {n} |-> nodeBar[p][m]]
    <3>1. MapOf(Erased(data[p], n)) = [m \in DOMAIN MapOf(data[p]) \ {n} |-> MapOf(data[p])[m]]
      BY <1>5, MapOfErased
    <3>2. QED
      BY <1>2, <1>5, <2>2, <3>1
  <2>5. Fs!Cut(p, n)
    BY <1>8, <2>1, <2>2, <2>3, <2>4 DEF Fs!Cut
  <2>6. rq[c].op = "unlink"
    BY <1>3, Knows DEF Control, OpAtPlace
  <2>7. QED
    BY <1>1, <2>5, <2>6, Asks DEF Fs!Serve
<1>9. QED
  BY <1>4, <1>5, <1>7, <1>8, PutChangesNode

\* create makes an extent.
LEMMA MakeIsMake ==
  ASSUME IInv, Tree, NEW c \in Clients, make(c)
  PROVE  FsStep
<1>1. PICK i : i = loc[c].fnum
  OBVIOUS
<1>2. pc[c] = "make"
  BY DEF make, At
<1>3. PICK lose \in MayLose("make") :
        Put(c, i, <<>>, lose) /\ Creating(c, Refuses(c, i, lose), "init")
  BY <1>1 DEF make
<1>4. i \notin DOMAIN data /\ i \notin DOMAIN attr /\ i \in Inums
  BY <1>1, <1>2, Knows DEF Tree, Fresh, Control, ExtentsOk
<1>5. Granted(c, i, "w") /\ ~Refuses(c, i, lose)
  BY <1>4 DEF Refuses, Granted
<1>6. OthersStay(c) /\ pc'[c] = "init" /\ loc'[c] = loc[c]
  BY <1>3, <1>5, CreatingOutcomes
<1>7. ASSUME NEW b \in Clients \ {c}
      PROVE  pc'[b] = pc[b] /\ loc'[b] = loc[b]
  BY <1>6 DEF OthersStay
<1>8. CASE UNCHANGED extents
  <2>1. DOMAIN data' = DOMAIN data
    BY <1>8 DEF extents
  <2>2. \A j : j \in newBar' <=> j \in newBar
    BY <1>1, <1>2, <1>4, <1>6, <1>7, <2>1, NewNodes, NewNodesNext
  <2>3. newBar' = newBar
    BY <2>2
  <2>4. QED
    BY <1>8, <2>3, NothingChanges
<1>9. CASE Stored(i, <<>>) /\ \E a \in NewAttr : attr' = With(attr, i, a)
  <2>1. \A j : j \in newBar' <=> j \in newBar \cup {i}
    BY <1>1, <1>2, <1>4, <1>6, <1>7, <1>9, NewNodes, NewNodesNext DEF Stored
  <2>2. newBar' = newBar \cup {i}
    BY <2>1
  <2>3. PICK f : f = [j \in DOMAIN nodeBar \cup {i} |-> IF j = i THEN Fs!NewNode(i) ELSE nodeBar[j]]
    OBVIOUS
  <2>4. Fs!NewNode(i) = IF i \in Dirs THEN MapOf(<<>>) ELSE <<>>
    BY MapOfEmpty DEF Fs!NewNode
  <2>5. /\ f = [j \in DOMAIN data' |-> f[j]]
        /\ \A j \in DOMAIN data' : f[j] = nodeBar'[j]
    BY <1>4, <1>9, <2>3, <2>4, Nodes, NodesNext DEF Stored
  <2>6. nodeBar' = f
    BY <2>5, NodesNext
  <2>7. PICK a \in NewAttr : attr' = With(attr, i, a)
    BY <1>9
  <2>8. a \in [mode : Modes, uid : Clients, gid : Gids]
    BY OwnersAssumption DEF NewAttr
  <2>9. attr' = [j \in DOMAIN attr \cup {i} |-> IF j = i THEN a ELSE attr[j]]
    BY <2>7 DEF With
  <2>10. i \notin DOMAIN nodeBar
    BY <1>4, Nodes
  <2>11. Fs!Make(i)
    BY <2>2, <2>3, <2>6, <2>8, <2>9, <2>10 DEF Fs!Make
  <2>12. QED
    BY <1>4, <2>11 DEF FsStep, Fs!Next, Fs!Inums, Inums
<1>10. QED
  <2>1. CASE lose
    BY <1>3, <1>8, <2>1 DEF Put
  <2>2. CASE ~lose
    BY <1>3, <1>4, <1>5, <1>9, <2>2 DEF Put, Stored, With
  <2>3. QED
    BY <2>1, <2>2

\* Attributes are a function.
AttrFunction == attr = [i \in DOMAIN attr |-> attr[i]]

\* create gives it its attributes, or fails to.
LEMMA InitIsOwn ==
  ASSUME IInv, TypeOK, Tree, AttrFunction, NEW c \in Clients, init(c)
  PROVE  FsStep
<1>1. PICK i, a : i = loc[c].fnum /\ a = [mode |-> rq[c].mode, uid |-> c, gid |-> getgid[c]]
  OBVIOUS
<1>2. pc[c] = "init" /\ pc[c] \in After
  BY DEF init, At, After
<1>3. PICK lose \in MayLose("init") :
        SetAttr(c, i, a, lose) /\ Creating(c, Refuses(c, i, lose), "stat")
  BY <1>1 DEF init
<1>4. Leaves(c) /\ data' = data
  BY <1>3, CreatingOutcomes, ReturnsElsewhere DEF Leaves, SetAttr
<1>5. nodeBar' = nodeBar
  BY <1>4 DEF nodeBar
<1>6. ASSUME NEW b \in Clients \ {c}
      PROVE  pc'[b] = pc[b] /\ loc'[b] = loc[b]
  BY <1>4 DEF Leaves, OthersStay
<1>7. \A b \in Clients \ {c} : pc[b] = "init" => loc[b].fnum # i
  BY <1>1, <1>2 DEF Tree, Fresh, After
<1>8. CASE i \notin DOMAIN data
  <2>1. attr' = attr
    BY <1>3, <1>8 DEF SetAttr
  <2>2. \A j : j \in newBar' <=> j \in newBar
    BY <1>1, <1>4, <1>6, <1>8, NewNodes, NewNodesNext DEF Leaves
  <2>3. newBar' = newBar
    BY <2>2
  <2>4. QED
    BY <1>5, <2>1, <2>3 DEF FsStep, Fs!vars
<1>9. CASE i \in DOMAIN data
  <2>1. i \in newBar
    BY <1>1, <1>2, <1>9, NewNodes
  <2>2. \A j : j \in newBar' <=> j \in newBar \ {i}
    BY <1>1, <1>4, <1>6, <1>7, NewNodes, NewNodesNext DEF Leaves
  <2>3. newBar' = newBar \ {i}
    BY <2>2
  <2>4. rq[c] \in Requests /\ rq[c].op \in Creates
    BY <1>2, Knows DEF Control, OpAtPlace
  <2>5. a \in [mode : Modes, uid : Clients, gid : Gids]
    BY <1>1, <2>4, RequestTypes, OwnersAssumption
  <2>6. i \in DOMAIN attr /\ attr[i] \in [mode : Modes, uid : Clients, gid : Gids] /\ i \in Inums
    BY <1>9 DEF TypeOK, Attr
  <2>7. attr = [attr EXCEPT ![i] = attr[i]]
    BY <2>6 DEF AttrFunction
  <2>8. attr' = attr \/ attr' = [attr EXCEPT ![i] = a]
    BY <1>3 DEF SetAttr
  <2>9. \E w \in [mode : Modes, uid : Clients, gid : Gids] : attr' = [attr EXCEPT ![i] = w]
    BY <2>5, <2>6, <2>7, <2>8
  <2>10. Fs!Own(i)
    BY <1>5, <2>1, <2>3, <2>9 DEF Fs!Own
  <2>11. QED
    BY <2>6, <2>10 DEF FsStep, Fs!Next, Fs!Inums, Inums
<1>10. QED
  BY <1>8, <1>9

\* unlink removes an extent, none that is still to get its attributes.
LEMMA RemoveIsDrop ==
  ASSUME IInv, TypeOK, AttrFunction, NEW c \in Clients, remove(c)
  PROVE  FsStep
<1>1. PICK i : i = loc[c].fnum
  OBVIOUS
<1>2. pc[c] = "remove" /\ Free(i) /\ Return(c)
  BY <1>1 DEF remove, At
<1>3. Leaves(c)
  BY <1>2, ReturnsElsewhere
<1>4. CASE UNCHANGED extents
  BY <1>2, <1>3, <1>4, NewStays, NothingChanges DEF Leaves, extents
<1>5. CASE data' = Without(data, i) /\ attr' = Without(attr, i)
  <2>1. /\ DOMAIN data' = DOMAIN data \ {i} /\ \A j \in DOMAIN data' : data'[j] = data[j]
        /\ attr' = [j \in DOMAIN attr \ {i} |-> attr[j]]
    BY <1>5 DEF Without
  <2>2. i \notin newBar
    <3>1. ASSUME NEW b \in Clients, pc[b] = "init", loc[b].fnum = i
          PROVE  b \in lock[i]
      BY <3>1, Knows DEF Own, Locks
    <3>2. QED
      BY <1>2, <3>1, NewNodes DEF Free
  <2>3. ASSUME NEW b \in Clients
        PROVE  /\ pc'[b] = "init" <=> pc[b] = "init"
               /\ pc[b] = "init" => loc'[b].fnum = loc[b].fnum
    BY <1>2, <1>3 DEF Leaves, OthersStay
  <2>4. \A j : j \in newBar' <=> j \in newBar
    BY <2>1, <2>2, <2>3, NewNodes, NewNodesNext
  <2>5. newBar' = newBar
    BY <2>4
  <2>6. PICK f : f = [j \in DOMAIN nodeBar \ {i} |-> nodeBar[j]]
    OBVIOUS
  <2>7. f = [j \in DOMAIN data' |-> f[j]] /\ \A j \in DOMAIN data' : f[j] = nodeBar'[j]
    BY <2>1, <2>6, Nodes, NodesNext
  <2>8. nodeBar' = f
    BY <2>7, NodesNext
  <2>9. CASE i \in DOMAIN data
    <3>1. i \in DOMAIN nodeBar /\ i \in Inums
      BY <2>9, Nodes DEF TypeOK
    <3>2. Fs!Drop(i)
      BY <2>1, <2>2, <2>5, <2>6, <2>8, <3>1 DEF Fs!Drop
    <3>3. QED
      BY <3>1, <3>2 DEF FsStep, Fs!Next, Fs!Inums, Inums
  <2>10. CASE i \notin DOMAIN data
    <3>1. DOMAIN nodeBar \ {i} = DOMAIN nodeBar /\ DOMAIN attr \ {i} = DOMAIN attr
      BY <2>10, Nodes DEF TypeOK
    <3>2. nodeBar' = nodeBar /\ attr' = attr
      BY <2>1, <2>6, <2>8, <3>1, Nodes DEF AttrFunction
    <3>3. QED
      BY <2>5, <3>2 DEF FsStep, Fs!vars
  <2>11. QED
    BY <2>9, <2>10
<1>6. QED
  BY <1>1, <1>4, <1>5 DEF remove

\* They stay one.
LEMMA NextAttrFunction ==
  ASSUME AttrFunction, [Next]_vars
  PROVE  AttrFunction'
<1>1. ASSUME NEW c, NEW i, NEW v, NEW lose, Put(c, i, v, lose)
      PROVE  AttrFunction'
  <2>1. attr' = attr \/ \E a \in NewAttr : attr' = With(attr, i, a)
    BY <1>1 DEF Put, extents
  <2>2. QED
    BY <2>1 DEF With, AttrFunction
<1>2. ASSUME NEW c, NEW i, NEW a, NEW lose, SetAttr(c, i, a, lose)
      PROVE  AttrFunction'
  BY <1>2 DEF SetAttr, AttrFunction
<1>3. ASSUME UNCHANGED attr
      PROVE  AttrFunction'
  BY <1>3 DEF AttrFunction
<1>4. ASSUME NEW c \in Clients, Handle(c)
      PROVE  AttrFunction'
  <2>1. CASE \/ stat(c) \/ lookup(c) \/ readdir(c) \/ read(c) \/ write(c) \/ resize(c)
             \/ chattr_read(c) \/ setattr_end(c) \/ restat(c) \/ create_lock(c) \/ create_get(c)
             \/ unlink(c)
    <3>1. UNCHANGED extents
      BY <2>1 DEF stat, lookup, readdir, read, write, resize, chattr_read, setattr_end, restat,
                  create_lock, create_get, unlink
    <3>2. QED
      BY <1>3, <3>1 DEF extents
  <2>2. CASE save(c) \/ link(c) \/ make(c) \/ cut(c)
    BY <1>1, <2>2 DEF save, link, make, cut
  <2>3. CASE chattr(c) \/ init(c)
    BY <1>2, <2>3 DEF chattr, init
  <2>4. CASE remove(c)
    <3>1. UNCHANGED extents \/ attr' = Without(attr, loc[c].fnum)
      BY <2>4 DEF remove
    <3>2. QED
      BY <1>3, <3>1 DEF Without, AttrFunction, extents
  <2>5. QED
    BY <1>4, <2>1, <2>2, <2>3, <2>4 DEF Handle
<1>5. ASSUME NEW c \in Clients, die(c) \/ \E r \in Requests : begin(c, r)
      PROVE  AttrFunction'
  BY <1>3, <1>5 DEF die, begin, extents
<1>6. CASE UNCHANGED vars
  BY <1>3, <1>6 DEF vars
<1>7. QED
  BY <1>4, <1>5, <1>6 DEF Next

\* Every step of the clients is a step of the file system, or none.
LEMMA FsRefinementStep ==
  ASSUME IInv, TInv, AttrFunction, "get" \notin Lossy, [Next]_vars
  PROVE  [Fs!Next \/ StaleResize]_(Fs!vars)
<1>1. TypeOK /\ Tree /\ \A c \in Clients : Sizes(c)
  BY DEF TInv
<1>2. ASSUME NEW c \in Clients, Handle(c)
      PROVE  FsStep
  BY <1>1, <1>2, LooksChangeNothing, SaveIsChange, ChattrSetsOne, LinkIsLink, MakeIsMake,
     InitIsOwn, CutIsCut, RemoveIsDrop DEF Handle
<1>3. ASSUME UNCHANGED vars
      PROVE  FsStep
  BY <1>3 DEF vars, FsStep, Fs!vars, nodeBar, newBar
<1>4. FsStep
  BY <1>2, <1>3, BeginsChangeNothing DEF Next
<1>5. QED
  BY <1>4 DEF FsStep

\* The extent server starts with an empty root.
LEMMA FsInit == Init => Fs!Init
<1> SUFFICES ASSUME Init
             PROVE  Fs!Init
  OBVIOUS
<1>1. PICK a : a = [mode |-> OpenToAll, uid |-> Owner, gid |-> getgid[Owner]]
  OBVIOUS
<1>2. a \in [mode : Modes, uid : Clients, gid : Gids]
  BY <1>1, OwnersAssumption
<1>3. DOMAIN data = {Root} /\ data[Root] = <<>> /\ Root \in Dirs
  BY InumsAssumption DEF Init
<1>4. nodeBar = [i \in {Root} |-> Fs!NoNames]
  BY <1>3, Nodes, MapOfEmpty
<1>5. newBar = {}
  BY NewNodes DEF Init
<1>6. attr = [i \in {Root} |-> a]
  BY <1>1 DEF Init
<1>7. QED
  BY <1>2, <1>3, <1>4, <1>5, <1>6 DEF Fs!Init

\* If no get is lost, the clients implement the abstract file system: every
\* step of a handler, among those of all the others and whichever puts and
\* removes are lost, is one atomic change of a directory, of a file or of one
\* attribute that its request asks for, applied to its current value, or
\* changes nothing.  The one exception is a setattr that goes by a size the
\* file no longer has: it changes nothing but the bytes of its file.
THEOREM ImplementsFileSystem ==
  ASSUME "get" \notin Lossy
  PROVE  SafeSpec => ImplementsFsSpec
<1>1. SafeSpec => [](IInv /\ TInv)
  BY TreeInvariant
<1>2. SafeSpec => []AttrFunction
  <2>1. Init => AttrFunction
    BY DEF Init, AttrFunction
  <2>2. AttrFunction /\ [Next]_vars => AttrFunction'
    BY NextAttrFunction
  <2>3. QED
    BY <2>1, <2>2, PTL DEF SafeSpec
<1>3. Init => Fs!Init
  BY FsInit
<1>4. IInv /\ TInv /\ AttrFunction /\ [Next]_vars => [Fs!Next \/ StaleResize]_(Fs!vars)
  BY FsRefinementStep
<1>5. QED
  BY <1>1, <1>2, <1>3, <1>4, PTL DEF SafeSpec, ImplementsFsSpec
=============================================================================
