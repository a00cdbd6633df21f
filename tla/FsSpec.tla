------------------------------- MODULE FsSpec -------------------------------
(***************************************************************************)
(* What the file system client promises about the extents it shares with   *)
(* other clients: a directory is a map from names to inode numbers, a file *)
(* a string of bytes, and every change is one change of one of them,       *)
(* applied to its current value, that a request being handled asks for.    *)
(* Nothing is promised about the order of the changes that make up one     *)
(* call, and a call may stop half way.                                     *)
(***************************************************************************)
EXTENDS Naturals, Sequences

CONSTANTS Dirs, Files, Zero, Users, Modes, Gids

VARIABLES node,   \* inode number -> map or string, for those that exist
          attr,   \* inode number -> [mode, uid, gid], likewise
          new,    \* inode numbers whose attributes are still to be given
          asked   \* the requests being handled; the kernels' doing
vars == <<node, attr, new>>

Inums == Dirs \cup Files

NoNames == [n \in {} |-> n]
NewNode(i) == IF i \in Dirs THEN NoNames ELSE <<>>

\* The bytes of s with b laid over them from offset off on; the gap there may
\* be between the two is filled with zeros.
Overlay(s, off, b) ==
  LET end == off + Len(b)
  IN [k \in 1 .. (IF end > Len(s) THEN end ELSE Len(s)) |->
       IF k \in off + 1 .. end THEN b[k - off]
       ELSE IF k <= Len(s) THEN s[k] ELSE Zero]

Init == \E r \in Dirs, a \in [mode : Modes, uid : Users, gid : Gids] :
          /\ node = [i \in {r} |-> NoNames]
          /\ attr = [i \in {r} |-> a]
          /\ new = {}

Link(d, n, i) ==
  /\ d \in DOMAIN node /\ n \notin DOMAIN node[d]
  /\ node' = [node EXCEPT ![d] = [m \in DOMAIN node[d] \cup {n} |->
                                   IF m = n THEN i ELSE node[d][m]]]
  /\ UNCHANGED <<attr, new>>

Cut(d, n) ==
  /\ d \in DOMAIN node /\ n \in DOMAIN node[d]
  /\ node' = [node EXCEPT ![d] = [m \in DOMAIN node[d] \ {n} |-> node[d][m]]]
  /\ UNCHANGED <<attr, new>>

Make(i) ==
  /\ i \notin DOMAIN node
  /\ node' = [j \in DOMAIN node \cup {i} |-> IF j = i THEN NewNode(i) ELSE node[j]]
  /\ \E a \in [mode : Modes, uid : Users, gid : Gids] :
       attr' = [j \in DOMAIN attr \cup {i} |-> IF j = i THEN a ELSE attr[j]]
  /\ new' = new \cup {i}

Drop(i) ==
  /\ i \in DOMAIN node \ new
  /\ node' = [j \in DOMAIN node \ {i} |-> node[j]]
  /\ attr' = [j \in DOMAIN attr \ {i} |-> attr[j]]
  /\ UNCHANGED new

Change(f, s) == /\ f \in DOMAIN node
                /\ node' = [node EXCEPT ![f] = s]
                /\ UNCHANGED <<attr, new>>

Write(r) == Change(r.ino, Overlay(node[r.ino], r.off, r.data))

\* The new size is the one asked for: the bytes beyond it go, and new ones
\* are zeros.
Resized(s, n) == [k \in 1 .. n |-> IF k <= Len(s) THEN s[k] ELSE Zero]
Resize(r) == Change(r.ino, Resized(node[r.ino], r.size))

\* The creator gives a new node its attributes, or fails to.
Own(i) ==
  /\ i \in new
  /\ new' = new \ {i}
  /\ \E a \in [mode : Modes, uid : Users, gid : Gids] : attr' = [attr EXCEPT ![i] = a]
  /\ UNCHANGED node

\* One attribute that is to be set changes and the others stay.
SetOne(r, a) ==
  /\ r.ino \in DOMAIN attr
  /\ attr' = [attr EXCEPT ![r.ino] = [@ EXCEPT ![a] = r[a]]]
  /\ UNCHANGED <<node, new>>

Serve(r) ==
  \/ r.op \in {"create", "mkdir"} /\ \E i \in Inums : Link(r.parent, r.name, i)
  \/ r.op = "unlink" /\ Cut(r.parent, r.name)
  \/ r.op = "write" /\ Write(r)
  \/ r.op = "setattr" /\ "size" \in r.toset /\ Resize(r)
  \/ r.op = "setattr" /\ \E a \in r.toset \ {"size"} : SetOne(r, a)

Next == \/ \E r \in asked : Serve(r)
        \/ \E i \in Inums : Make(i) \/ Own(i) \/ Drop(i)

Spec == Init /\ [][Next]_vars
=============================================================================
