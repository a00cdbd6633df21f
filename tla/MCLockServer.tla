---------------------------- MODULE MCLockServer ----------------------------
(***************************************************************************)
(* Instances of LockServer: few callers that nest two locks on a pool with *)
(* fewer threads, and the callers of one lock on the pool of rpc.cc.       *)
(***************************************************************************)
EXTENDS LockServer
=============================================================================
