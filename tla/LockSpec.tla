------------------------------ MODULE LockSpec ------------------------------
(***************************************************************************)
(* What the lock service promises its callers (lock_protocol.h): a caller  *)
(* asks for a lock, is granted it only while nobody owns it, and gives it  *)
(* back.  A lock that is free and asked for is eventually granted to one   *)
(* of the callers that ask; nothing is promised to a particular caller.    *)
(***************************************************************************)
CONSTANTS Clients, Lids

VARIABLES want,     \* [Clients -> SUBSET Lids], the requests not answered yet
          owners    \* [Lids -> SUBSET Clients]
vars == <<want, owners>>

Init == /\ want = [c \in Clients |-> {}]
        /\ owners = [l \in Lids |-> {}]

Request(c, l) == /\ want[c] = {}
                 /\ c \notin owners[l]
                 /\ want' = [want EXCEPT ![c] = {l}]
                 /\ UNCHANGED owners

Grant(c, l) == /\ l \in want[c]
               /\ owners[l] = {}
               /\ want' = [want EXCEPT ![c] = {}]
               /\ owners' = [owners EXCEPT ![l] = {c}]

Free(c, l) == /\ owners[l] = {c}
              /\ owners' = [owners EXCEPT ![l] = {}]
              /\ UNCHANGED want

Next == \E c \in Clients, l \in Lids : Request(c, l) \/ Grant(c, l) \/ Free(c, l)

SafeSpec == Init /\ [][Next]_vars

Liveness == \A l \in Lids : WF_vars(\E c \in Clients : Grant(c, l))

Spec == SafeSpec /\ Liveness
=============================================================================
