----------------------------- MODULE XidWindow -----------------------------
(***************************************************************************)
(* rpcc::xid_rep_window_ as the list it is.  Rpc keeps only the front of   *)
(* the list and the set of the elements above it; this module shows that   *)
(* update_xid_rep on the list computes that front and that set, whatever   *)
(* the order of the calls.  Each xid is passed to it up to twice, by       *)
(* rpcc::got_pdu and by call1, so the list can hold duplicates.            *)
(***************************************************************************)
EXTENDS Integers, Sequences, SequencesExt

CONSTANTS MaxXid,    \* the xids are 1 .. MaxXid
          MaxCalls   \* bound on the calls of update_xid_rep for one xid

ASSUME XidAssumption == MaxXid \in Nat \ {0} /\ MaxCalls \in Nat \ {0}

VARIABLES xid_rep_window_,
          calls       \* history: calls of update_xid_rep for each xid

vars == <<xid_rep_window_, calls>>

Xids == 1 .. MaxXid

Init == xid_rep_window_ = <<0>> /\ calls = [x \in Xids |-> 0]

\* The first loop: before the first larger element, or at the end.
Insert(w, x) ==
  LET i == SelectInSeq(w, LAMBDA y : y > x)
  IN  IF i = 0 THEN Append(w, x) ELSE InsertAt(w, i, x)

\* Mutant: one number is popped for each element, as with an if.
PopWhile_Once(w, y) == IF Head(w) + 1 = y THEN Tail(w) ELSE w

\* while(front() + 1 == *it) pop_front(), when *it is y.  A list it empties
\* stays empty: its front() is undefined.
PopWhile(w, y) ==
  LET k == SelectInSeq(w, LAMBDA z : z + 1 # y)
  IN  IF k = 0 THEN <<>> ELSE SubSeq(w, k, Len(w))

\* The loop at compress: it visits the elements after the first in turn.
Compress(w) ==
  LET visit[s \in [v : Seq(Nat), i : Nat]] ==
        IF s.i > Len(w) THEN s.v ELSE visit[[v |-> PopWhile(s.v, w[s.i]), i |-> s.i + 1]]
  IN  visit[[v |-> w, i |-> 2]]

update_xid_rep(x) ==
  /\ calls[x] < MaxCalls
  /\ calls' = [calls EXCEPT ![x] = @ + 1]
  /\ xid_rep_window_' = IF x <= Head(xid_rep_window_) THEN xid_rep_window_
                        ELSE Compress(Insert(xid_rep_window_, x))

Next == \E x \in Xids : update_xid_rep(x)

Spec == Init /\ [][Next]_vars

-----------------------------------------------------------------------------
Done == {x \in Xids : calls[x] > 0}

\* The front is the largest number up to which update_xid_rep was called for
\* every xid, so the server may forget exactly the calls up to it; above it
\* the list holds exactly the other numbers seen, in order.  A duplicate left
\* by a second call never hides or loses a number, and the list is never
\* emptied (front() of an empty list is undefined).
WindowIsExact ==
  LET w == xid_rep_window_
      f == Head(w)
  IN  /\ w # <<>>
      /\ 1 .. f \subseteq Done /\ f + 1 \notin Done
      /\ {x \in ToSet(w) : x > f} = {x \in Done : x > f}
      /\ \A i \in 1 .. Len(w) - 1 : w[i] <= w[i + 1]
=============================================================================
