----------------------------- MODULE LockServer -----------------------------
(***************************************************************************)
(* The lock server (lock_server.cc), its blocking handlers on the worker   *)
(* threads of the RPC server's pool (rpc.cc, thr_pool.cc), and clients     *)
(* that take and give back locks in any order (lock_client.cc).  The order *)
(* in which yfs_client nests its scopes is module YfsClient's concern.     *)
(*                                                                         *)
(* A client is one calling thread, with at most one call outstanding, so a *)
(* request, its place in the pool's queue and the worker that runs it are  *)
(* all named by the client.  Each handler runs with mutex_ held except     *)
(* while it waits on the lock's condition variable, hence one action per   *)
(* critical section.  At-most-once delivery of the calls is module Rpc's   *)
(* concern and is assumed here.                                            *)
(***************************************************************************)
EXTENDS Naturals, Sequences, FiniteSets

CONSTANTS Clients,    \* the calling threads, of all lock_clients
          Lids,       \* the lock ids: the inums that yfs_client locks
          PoolSize,   \* worker threads of the lock server's rpcs
          MaxAborts   \* bound on the clients that die

ASSUME ClientsAssumption == IsFiniteSet(Clients)
ASSUME PoolAssumption == PoolSize \in Nat \ {0} /\ MaxAborts \in Nat

VARIABLES
  locks_,   \* the server's map: absent, or the entry's flag
  jobq,     \* requests not yet taken by a worker, in arrival order
  pc,       \* where each client's current call stands
  lid,      \* the lock its current (or last) call names
  held,     \* the locks of the scopes the client is in
  alive     \* the clients whose process has not aborted

vars == <<locks_, jobq, pc, lid, held, alive>>

Phases == {"idle", "acq_queued", "acq_wait", "acq_woken", "acq_granted",
           "rel_queued", "rel_done"}

TypeOK ==
  /\ locks_ \in [Lids -> {"absent", "free", "locked"}]
  /\ jobq \in Seq(Clients)
  /\ pc \in [Clients -> Phases]
  /\ lid \in [Clients -> Lids]
  /\ held \in [Clients -> SUBSET Lids]
  /\ alive \in SUBSET Clients

Init ==
  /\ locks_ = [l \in Lids |-> "absent"]
  /\ jobq = <<>>
  /\ pc = [c \in Clients |-> "idle"]
  /\ lid \in {[c \in Clients |-> l] : l \in Lids}
  /\ held = [c \in Clients |-> {}]
  /\ alive = Clients

-----------------------------------------------------------------------------
(* Clients.                                                                *)

\* The constructor of ServerScopedLock: lock_client::acquire.  No caller asks
\* again for a lock it holds.
client_acquire(c, l) ==
  /\ c \in alive /\ pc[c] = "idle"
  /\ l \notin held[c]
  /\ pc' = [pc EXCEPT ![c] = "acq_queued"]
  /\ lid' = [lid EXCEPT ![c] = l]
  /\ jobq' = Append(jobq, c)
  /\ UNCHANGED <<locks_, held, alive>>

\* Its destructor: lock_client::release.
client_release(c, l) ==
  /\ c \in alive /\ pc[c] = "idle"
  /\ l \in held[c]
  /\ pc' = [pc EXCEPT ![c] = "rel_queued"]
  /\ lid' = [lid EXCEPT ![c] = l]
  /\ held' = [held EXCEPT ![c] = @ \ {l}]
  /\ jobq' = Append(jobq, c)
  /\ UNCHANGED <<locks_, alive>>

\* The call returns OK to the client.
client_return(c) ==
  /\ c \in alive /\ pc[c] \in {"acq_granted", "rel_done"}
  /\ held' = IF pc[c] = "acq_granted" THEN [held EXCEPT ![c] = @ \cup {lid[c]}]
                                      ELSE held
  /\ pc' = [pc EXCEPT ![c] = "idle"]
  /\ UNCHANGED <<locks_, jobq, lid, alive>>

\* The call times out, or its reply is lost: VERIFY(ret == OK) aborts the
\* process.  The server is not told, and its handler goes on.
client_abort(c) ==
  /\ c \in alive /\ pc[c] # "idle"
  /\ Cardinality(Clients \ alive) < MaxAborts
  /\ alive' = alive \ {c}
  /\ UNCHANGED <<locks_, jobq, pc, lid, held>>

-----------------------------------------------------------------------------
(* The worker pool.                                                        *)

\* Handlers blocked in pthread_cond_wait, or woken and waiting for mutex_:
\* each occupies a worker.
Blocked == {c \in Clients : pc[c] \in {"acq_wait", "acq_woken"}}

\* Mutant: the pool starts one thread too few.
Workers_OneShort == PoolSize - 1

\* The threads ThrPool creates.
Workers == PoolSize

\* A free worker takes the oldest request.
Take(c) ==
  /\ jobq # <<>> /\ c = Head(jobq)
  /\ Cardinality(Blocked) < Workers
  /\ jobq' = Tail(jobq)

Waiters(l) == {c \in Clients : pc[c] = "acq_wait" /\ lid[c] = l}

-----------------------------------------------------------------------------
(* Handlers.                                                               *)

\* lock_server::acquire up to its first wait or its return.
acquire(c) ==
  /\ Take(c) /\ pc[c] = "acq_queued"
  /\ \/ /\ locks_[lid[c]] \in {"absent", "free"}
        /\ locks_' = [locks_ EXCEPT ![lid[c]] = "locked"]
        /\ pc' = [pc EXCEPT ![c] = "acq_granted"]
     \/ /\ locks_[lid[c]] = "locked"
        /\ pc' = [pc EXCEPT ![c] = "acq_wait"]
        /\ UNCHANGED locks_
  /\ UNCHANGED <<lid, held, alive>>

\* Mutant: "if" for "while", the woken handler does not test the flag again.
acquire_recheck_If(c) ==
  /\ pc[c] = "acq_woken"
  /\ locks_' = [locks_ EXCEPT ![lid[c]] = "locked"]
  /\ pc' = [pc EXCEPT ![c] = "acq_granted"]
  /\ UNCHANGED <<jobq, lid, held, alive>>

\* The woken handler has mutex_ again and tests is_locked() once more.
acquire_recheck(c) ==
  /\ pc[c] = "acq_woken"
  /\ \/ /\ locks_[lid[c]] # "locked"
        /\ locks_' = [locks_ EXCEPT ![lid[c]] = "locked"]
        /\ pc' = [pc EXCEPT ![c] = "acq_granted"]
     \/ /\ locks_[lid[c]] = "locked"
        /\ pc' = [pc EXCEPT ![c] = "acq_wait"]
        /\ UNCHANGED locks_
  /\ UNCHANGED <<jobq, lid, held, alive>>

\* Pthreads allows pthread_cond_wait to return without a signal.
spurious_wakeup(c) ==
  /\ pc[c] = "acq_wait"
  /\ pc' = [pc EXCEPT ![c] = "acq_woken"]
  /\ UNCHANGED <<locks_, jobq, lid, held, alive>>

\* Mutant: release clears the flag and does not signal.
release_NoSignal(c) ==
  /\ Take(c) /\ pc[c] = "rel_queued"
  /\ locks_' = [locks_ EXCEPT ![lid[c]] = "free"]
  /\ pc' = [pc EXCEPT ![c] = "rel_done"]
  /\ UNCHANGED <<lid, held, alive>>

\* lock_server::release: no check of who releases; one waiter is signalled.
release(c) ==
  /\ Take(c) /\ pc[c] = "rel_queued"
  /\ locks_' = [locks_ EXCEPT ![lid[c]] = "free"]
  /\ \/ /\ Waiters(lid[c]) = {}
        /\ pc' = [pc EXCEPT ![c] = "rel_done"]
     \/ \E w \in Waiters(lid[c]) :
          pc' = [pc EXCEPT ![c] = "rel_done", ![w] = "acq_woken"]
  /\ UNCHANGED <<lid, held, alive>>

-----------------------------------------------------------------------------
Next == \E c \in Clients :
  \/ \E l \in Lids : client_acquire(c, l) \/ client_release(c, l)
  \/ client_return(c) \/ client_abort(c)
  \/ acquire(c) \/ acquire_recheck(c) \/ spurious_wakeup(c) \/ release(c)

SafeSpec == Init /\ [][Next]_vars

\* The kernel runs every runnable thread: workers take queued requests and
\* go on when woken, clients get their replies and leave their scopes.  No
\* client is obliged to take a lock, and no waiter is preferred to another.
Fairness ==
  /\ WF_vars(\E c \in Clients : acquire(c) \/ release(c))
  /\ \A c \in Clients :
       /\ WF_vars(acquire_recheck(c))
       /\ WF_vars(client_return(c))
       /\ WF_vars(\E l \in Lids : client_release(c, l))

Spec == SafeSpec /\ Fairness

-----------------------------------------------------------------------------
(* Properties.                                                             *)

\* The server has granted l to c and has not run c's release of it.
Owns(c, l) ==
  \/ l \in held[c]
  \/ pc[c] \in {"acq_granted", "rel_queued"} /\ lid[c] = l

\* No two clients are inside scopes of the same lock: acquire answers only
\* one of the calls that race for it, however wakeups and late arrivals
\* interleave (lock_server.cc, acquire and release).
MutualExclusion == \A c, d \in Clients : c # d => held[c] \cap held[d] = {}

\* The server's flag says exactly whether somebody owns the lock, and a
\* single client does, requests and replies in flight included.
FlagMatchesOwner == \A l \in Lids :
  /\ locks_[l] = "locked" <=> \E c \in Clients : Owns(c, l)
  /\ \A c, d \in Clients : Owns(c, l) /\ Owns(d, l) => c = d

\* A lock that is free while handlers sleep on it has a woken handler on its
\* way: the one signal of release is never lost, even when a late request
\* takes the lock before the woken handler runs.
NoLostWakeup == \A l \in Lids :
  locks_[l] # "locked" /\ Waiters(l) # {}
    => \E c \in Clients : pc[c] = "acq_woken" /\ lid[c] = l

\* A queued release finds a worker that is not itself blocked in acquire, so
\* the lock everyone sleeps on can be given back: what lock_tester.cc counts
\* on with the thread pool of the size it names.
ReleaseCanRun == \A c \in Clients :
  pc[c] = "rel_queued" => Cardinality(Blocked) < Workers

\* Every thread of the pool runs an acquire that waits for a lock which is
\* taken.  Only a release could wake one of them, and no thread is left to
\* run it.
Exhausted ==
  Cardinality({c \in Blocked : locks_[lid[c]] = "locked"}) >= PoolSize

\* A client gets an answer to every release, unless its process dies first or
\* the pool is exhausted: a worker that waits for a lock which has come free
\* is never in the way for long.
ReleasesReturn == \A c \in Clients :
  pc[c] = "rel_queued" ~> pc[c] = "idle" \/ c \notin alive \/ Exhausted

\* Refinement: the server implements the abstract lock service.
wantBar == [c \in Clients |->
  IF pc[c] \in {"acq_queued", "acq_wait", "acq_woken"} THEN {lid[c]} ELSE {}]
ownersBar == [l \in Lids |-> {c \in Clients : Owns(c, l)}]
Abstract == INSTANCE LockSpec WITH want <- wantBar, owners <- ownersBar

\* Every step of the server is a request, a grant of an unowned lock or a
\* release by the owner, and a free lock that is asked for gets granted unless
\* the pool is exhausted by clients that wait for others.
ImplementsLockSpec ==
  Abstract!SafeSpec /\ (<>Exhausted \/ Abstract!Liveness)
=============================================================================
