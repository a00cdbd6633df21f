----------------------------- MODULE MCRpcData -----------------------------
(***************************************************************************)
(* The sequential parts of the RPC library in one run: a behaviour is one  *)
(* of the list of xids (XidWindow), the bytes of a call (Marshall) and the *)
(* clock of a call (Deadline), while the other two keep still.             *)
(***************************************************************************)
EXTENDS XidWindow, Marshall, Deadline

\* One value of each type and of each length that matters to the buffer.
MCValues ==
  {[t |-> "byte", v |-> 3], [t |-> "short", v |-> 14], [t |-> "int", v |-> 255],
   [t |-> "long", v |-> <<2, 200>>], [t |-> "string", v |-> <<>>],
   [t |-> "string", v |-> [i \in 1 .. 60 |-> i % 4]], [t |-> "vector", v |-> <<>>],
   [t |-> "vector", v |-> <<1, 130>>]}

MCHeaders == {[xid |-> 27, proc |-> 114, clt_nonce |-> 228, srv_nonce |-> 3, xid_rep |-> 255]}

\* Two results of handlers, and one of rpc_const's negative codes.
MCRets == {0, 1, 253}

VARIABLE part

allVars == <<part, xid_rep_window_, calls, callVars, clockVars>>

StillMarshall ==
  /\ at = "idle" /\ m = NewMarshall /\ u = None
  /\ args = <<>> /\ sig = <<>> /\ res = <<>> /\ todo = <<>>
  /\ hdr = <<>> /\ hdr_in = <<>> /\ want = <<>> /\ got = <<>>

StillDeadline ==
  /\ where = "idle" /\ now = Zero /\ started = Zero /\ to = 0
  /\ finaldeadline = Zero /\ nextdeadline = Zero /\ curr_to = 0
  /\ transmit = FALSE /\ done = FALSE

PartsInit ==
  /\ Init
  /\ \/ part = "xids" /\ StillMarshall /\ StillDeadline
     \/ part = "bytes" /\ MInit /\ StillDeadline
     \/ part = "clock" /\ StillMarshall /\ DInit

PartsNext ==
  /\ UNCHANGED part
  /\ \/ part = "xids" /\ Next /\ UNCHANGED <<callVars, clockVars>>
     \/ part = "bytes" /\ MNext /\ UNCHANGED <<vars, clockVars>>
     \/ part = "clock" /\ DNext /\ UNCHANGED <<vars, callVars>>

PartsSpec ==
  PartsInit /\ [][PartsNext]_allVars /\ WF_clockVars(call1_step) /\ WF_clockVars(tick)
=============================================================================
