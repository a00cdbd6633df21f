-------------------------- MODULE LockServerProofs --------------------------
(***************************************************************************)
(* Proofs about LockServer, for every set of clients and locks and every   *)
(* pool size.                                                              *)
(***************************************************************************)
EXTENDS LockServer, FiniteSetTheorems, TLAPS

\* While a client's acquire has been granted and not returned, or its release
\* is on its way, the lock is in none of the client's scopes.
CallOutsideScopes == \A c \in Clients :
  pc[c] # "idle" /\ pc[c] # "rel_done" => lid[c] \notin held[c]

\* The inductive invariant.
IInv == TypeOK /\ CallOutsideScopes /\ FlagMatchesOwner /\ NoLostWakeup

\* The initial state is well typed.
LEMMA TypeInit == Init => TypeOK
  BY ClientsAssumption DEF Init, TypeOK, Phases

\* Every action keeps every variable in its type.
LEMMA TypeStep == TypeOK /\ [Next]_vars => TypeOK'
<1> SUFFICES ASSUME TypeOK, [Next]_vars PROVE TypeOK'
  OBVIOUS
<1> USE DEF TypeOK, Phases
<1>1. ASSUME NEW c \in Clients, NEW l \in Lids, client_acquire(c, l) PROVE TypeOK'
  BY <1>1 DEF client_acquire
<1>2. ASSUME NEW c \in Clients, NEW l \in Lids, client_release(c, l) PROVE TypeOK'
  BY <1>2 DEF client_release
<1>3. ASSUME NEW c \in Clients, client_return(c) PROVE TypeOK'
  BY <1>3 DEF client_return
<1>4. ASSUME NEW c \in Clients, client_abort(c) PROVE TypeOK'
  BY <1>4 DEF client_abort
<1>5. ASSUME NEW c \in Clients, acquire(c) PROVE TypeOK'
  BY <1>5 DEF acquire, Take
<1>6. ASSUME NEW c \in Clients, acquire_recheck(c) PROVE TypeOK'
  BY <1>6 DEF acquire_recheck
<1>7. ASSUME NEW c \in Clients, spurious_wakeup(c) PROVE TypeOK'
  BY <1>7 DEF spurious_wakeup
<1>8. ASSUME NEW c \in Clients, release(c) PROVE TypeOK'
  <2>1. pc' \in [Clients -> Phases]
    <3>1. CASE pc' = [pc EXCEPT ![c] = "rel_done"]
      BY <3>1
    <3>2. ASSUME NEW w \in Clients,
                 pc' = [pc EXCEPT ![c] = "rel_done", ![w] = "acq_woken"]
          PROVE  pc' \in [Clients -> Phases]
      BY <3>2
    <3>3. QED
      BY <1>8, <3>1, <3>2 DEF release, Waiters
  <2>2. locks_' \in [Lids -> {"absent", "free", "locked"}] /\ jobq' \in Seq(Clients)
    BY <1>8 DEF release, Take
  <2>3. QED
    BY <1>8, <2>1, <2>2 DEF release
<1>9. CASE UNCHANGED vars
  BY <1>9 DEF vars
<1>10. QED
  BY <1>1, <1>2, <1>3, <1>4, <1>5, <1>6, <1>7, <1>8, <1>9 DEF Next

\* The type invariant of the lock server.
THEOREM TypeCorrect == SafeSpec => []TypeOK
  BY TypeInit, TypeStep, PTL DEF SafeSpec

-----------------------------------------------------------------------------
(* Who owns what after each action.                                        *)

\* A request on its way changes no ownership.
LEMMA AcquireRequested ==
  ASSUME TypeOK, NEW c \in Clients, NEW l \in Lids, client_acquire(c, l)
  PROVE  \A e \in Clients, k \in Lids : Owns(e, k)' <=> Owns(e, k)
  BY DEF TypeOK, Phases, client_acquire, Owns

\* The owner keeps the lock until its release has run.
LEMMA ReleaseRequested ==
  ASSUME TypeOK, NEW c \in Clients, NEW l \in Lids, client_release(c, l)
  PROVE  \A e \in Clients, k \in Lids : Owns(e, k)' <=> Owns(e, k)
  BY DEF TypeOK, Phases, client_release, Owns

\* A reply changes no ownership.
LEMMA CallReturned ==
  ASSUME TypeOK, NEW c \in Clients, client_return(c)
  PROVE  \A e \in Clients, k \in Lids : Owns(e, k)' <=> Owns(e, k)
<1>1. CASE pc[c] = "acq_granted"
  BY <1>1 DEF TypeOK, Phases, client_return, Owns
<1>2. CASE pc[c] = "rel_done"
  BY <1>2 DEF TypeOK, Phases, client_return, Owns
<1>3. QED
  BY <1>1, <1>2 DEF client_return

\* Ownership after a handler set the flag for c.
LEMMA Granted ==
  ASSUME TypeOK, NEW c \in Clients,
         pc[c] \in {"acq_queued", "acq_woken"},
         pc' = [pc EXCEPT ![c] = "acq_granted"], lid' = lid, held' = held
  PROVE  \A e \in Clients, k \in Lids :
           Owns(e, k)' <=> (Owns(e, k) \/ (e = c /\ k = lid[c]))
  BY DEF TypeOK, Phases, Owns

\* Ownership after c's release ran: nobody's but c's has changed.
LEMMA Released ==
  ASSUME TypeOK, CallOutsideScopes, NEW c \in Clients, release(c)
  PROVE  \A e \in Clients, k \in Lids :
           Owns(e, k)' <=> (Owns(e, k) /\ ~(e = c /\ k = lid[c]))
<1> USE DEF TypeOK, Phases
<1>0. lid[c] \notin held[c] /\ pc[c] = "rel_queued" /\ lid' = lid /\ held' = held
  BY DEF release, CallOutsideScopes
<1>1. CASE pc' = [pc EXCEPT ![c] = "rel_done"]
  BY <1>0, <1>1 DEF Owns
<1>2. ASSUME NEW w \in Waiters(lid[c]),
             pc' = [pc EXCEPT ![c] = "rel_done", ![w] = "acq_woken"]
      PROVE  \A e \in Clients, k \in Lids :
               Owns(e, k)' <=> (Owns(e, k) /\ ~(e = c /\ k = lid[c]))
  <2>1. w \in Clients /\ pc[w] = "acq_wait"
    BY DEF Waiters
  <2>2. \A e \in Clients : pc'[e] = IF e = w THEN "acq_woken"
                                    ELSE IF e = c THEN "rel_done" ELSE pc[e]
    BY <1>2, <2>1
  <2>3. QED
    BY <1>0, <2>1, <2>2 DEF Owns
<1>3. QED
  BY <1>1, <1>2 DEF release

-----------------------------------------------------------------------------
(* The inductive invariant.                                                *)

\* The initial state satisfies it: no entry, no owner, no handler.
LEMMA InvInit == Init => IInv
<1> SUFFICES ASSUME Init PROVE IInv
  OBVIOUS
<1>1. \A c \in Clients : pc[c] = "idle" /\ held[c] = {}
  BY DEF Init
<1>2. \A l \in Lids : locks_[l] = "absent"
  BY DEF Init
<1>3. \A c \in Clients, l \in Lids : ~Owns(c, l)
  BY <1>1 DEF Owns
<1>4. CallOutsideScopes
  BY <1>1 DEF CallOutsideScopes
<1>5. FlagMatchesOwner
  BY <1>2, <1>3 DEF FlagMatchesOwner
<1>6. NoLostWakeup
  BY <1>1 DEF NoLostWakeup, Waiters
<1>7. QED
  BY TypeInit, <1>4, <1>5, <1>6 DEF IInv

\* An action that changes neither the flags nor who owns what keeps
\* FlagMatchesOwner.
LEMMA FlagUnchanged ==
  ASSUME FlagMatchesOwner, locks_' = locks_,
         \A e \in Clients, k \in Lids : Owns(e, k)' <=> Owns(e, k)
  PROVE  FlagMatchesOwner'
  BY DEF FlagMatchesOwner

\* Granting a lock whose flag was not set makes c its only owner.
LEMMA FlagSet ==
  ASSUME TypeOK, FlagMatchesOwner, NEW c \in Clients,
         locks_[lid[c]] # "locked",
         locks_' = [locks_ EXCEPT ![lid[c]] = "locked"],
         \A e \in Clients, k \in Lids :
           Owns(e, k)' <=> (Owns(e, k) \/ (e = c /\ k = lid[c]))
  PROVE  FlagMatchesOwner'
<1>1. lid[c] \in Lids
  BY DEF TypeOK
<1>2. ASSUME NEW k \in Lids
      PROVE  /\ locks_'[k] = "locked" <=> \E e \in Clients : Owns(e, k)'
             /\ \A e, g \in Clients : Owns(e, k)' /\ Owns(g, k)' => e = g
  <2>1. CASE k = lid[c]
    <3>1. \A e \in Clients : ~Owns(e, k)
      BY <2>1 DEF FlagMatchesOwner
    <3>2. locks_'[k] = "locked"
      BY <2>1 DEF TypeOK
    <3>3. QED
      BY <2>1, <3>1, <3>2
  <2>2. CASE k # lid[c]
    <3>1. locks_'[k] = locks_[k]
      BY <2>2 DEF TypeOK
    <3>2. QED
      BY <2>2, <3>1 DEF FlagMatchesOwner
  <2>3. QED
    BY <2>1, <2>2
<1>3. QED
  BY <1>2 DEF FlagMatchesOwner

\* Clearing the flag of the lock that only c owned leaves it without owner.
LEMMA FlagCleared ==
  ASSUME TypeOK, FlagMatchesOwner, NEW c \in Clients, Owns(c, lid[c]),
         locks_' = [locks_ EXCEPT ![lid[c]] = "free"],
         \A e \in Clients, k \in Lids :
           Owns(e, k)' <=> (Owns(e, k) /\ ~(e = c /\ k = lid[c]))
  PROVE  FlagMatchesOwner'
<1>1. lid[c] \in Lids
  BY DEF TypeOK
<1>2. ASSUME NEW k \in Lids
      PROVE  /\ locks_'[k] = "locked" <=> \E e \in Clients : Owns(e, k)'
             /\ \A e, g \in Clients : Owns(e, k)' /\ Owns(g, k)' => e = g
  <2>1. CASE k = lid[c]
    <3>1. \A e \in Clients : Owns(e, k) => e = c
      BY <2>1, <1>1 DEF FlagMatchesOwner
    <3>2. locks_'[k] # "locked"
      BY <2>1 DEF TypeOK
    <3>3. QED
      BY <2>1, <3>1, <3>2
  <2>2. CASE k # lid[c]
    <3>1. locks_'[k] = locks_[k]
      BY <2>2 DEF TypeOK
    <3>2. QED
      BY <2>2, <3>1 DEF FlagMatchesOwner
  <2>3. QED
    BY <2>1, <2>2
<1>3. QED
  BY <1>2 DEF FlagMatchesOwner

\* The flag and the owner agree after every action.
LEMMA FlagStep == IInv /\ [Next]_vars => FlagMatchesOwner'
<1> SUFFICES ASSUME IInv, [Next]_vars PROVE FlagMatchesOwner'
  OBVIOUS
<1> USE DEF IInv
<1>1. ASSUME NEW c \in Clients, NEW l \in Lids, client_acquire(c, l)
      PROVE  FlagMatchesOwner'
  BY <1>1, AcquireRequested, FlagUnchanged DEF client_acquire
<1>2. ASSUME NEW c \in Clients, NEW l \in Lids, client_release(c, l)
      PROVE  FlagMatchesOwner'
  BY <1>2, ReleaseRequested, FlagUnchanged DEF client_release
<1>3. ASSUME NEW c \in Clients, client_return(c) PROVE FlagMatchesOwner'
  BY <1>3, CallReturned, FlagUnchanged DEF client_return
<1>4. ASSUME NEW c \in Clients, client_abort(c) PROVE FlagMatchesOwner'
  BY <1>4 DEF client_abort, FlagMatchesOwner, Owns
<1>5. ASSUME NEW c \in Clients, acquire(c) PROVE FlagMatchesOwner'
  <2>1. CASE locks_[lid[c]] = "locked"
    <3>1. \A e \in Clients, k \in Lids : Owns(e, k)' <=> Owns(e, k)
      BY <1>5, <2>1 DEF acquire, Owns, TypeOK, Phases
    <3>2. QED
      BY <1>5, <2>1, <3>1, FlagUnchanged DEF acquire
  <2>2. CASE locks_[lid[c]] # "locked"
    BY <1>5, <2>2, Granted, FlagSet DEF acquire
  <2>3. QED
    BY <2>1, <2>2
<1>6. ASSUME NEW c \in Clients, acquire_recheck(c) PROVE FlagMatchesOwner'
  <2>1. CASE locks_[lid[c]] = "locked"
    <3>1. \A e \in Clients, k \in Lids : Owns(e, k)' <=> Owns(e, k)
      BY <1>6, <2>1 DEF acquire_recheck, Owns, TypeOK, Phases
    <3>2. QED
      BY <1>6, <2>1, <3>1, FlagUnchanged DEF acquire_recheck
  <2>2. CASE locks_[lid[c]] # "locked"
    BY <1>6, <2>2, Granted, FlagSet DEF acquire_recheck
  <2>3. QED
    BY <2>1, <2>2
<1>7. ASSUME NEW c \in Clients, spurious_wakeup(c) PROVE FlagMatchesOwner'
  <2>1. \A e \in Clients, k \in Lids : Owns(e, k)' <=> Owns(e, k)
    BY <1>7 DEF spurious_wakeup, Owns, TypeOK, Phases
  <2>2. QED
    BY <1>7, <2>1, FlagUnchanged DEF spurious_wakeup
<1>8. ASSUME NEW c \in Clients, release(c) PROVE FlagMatchesOwner'
  <2>1. Owns(c, lid[c])
    BY <1>8 DEF release, Owns
  <2>2. QED
    BY <1>8, <2>1, Released, FlagCleared DEF release
<1>9. CASE UNCHANGED vars
  BY <1>9 DEF vars, FlagMatchesOwner, Owns
<1>10. QED
  BY <1>1, <1>2, <1>3, <1>4, <1>5, <1>6, <1>7, <1>8, <1>9 DEF Next

\* The phase of every client after a release: c is done, at most one waiter
\* of the lock is woken, and one is if there is any.
LEMMA ReleasePhases ==
  ASSUME TypeOK, NEW c \in Clients, release(c)
  PROVE  \/ /\ Waiters(lid[c]) = {}
            /\ \A e \in Clients : pc'[e] = IF e = c THEN "rel_done" ELSE pc[e]
         \/ \E w \in Waiters(lid[c]) : \A e \in Clients :
              pc'[e] = IF e = w THEN "acq_woken"
                       ELSE IF e = c THEN "rel_done" ELSE pc[e]
<1>1. CASE Waiters(lid[c]) = {} /\ pc' = [pc EXCEPT ![c] = "rel_done"]
  BY <1>1 DEF TypeOK
<1>2. ASSUME NEW w \in Waiters(lid[c]),
             pc' = [pc EXCEPT ![c] = "rel_done", ![w] = "acq_woken"]
      PROVE  \A e \in Clients : pc'[e] = IF e = w THEN "acq_woken"
                                ELSE IF e = c THEN "rel_done" ELSE pc[e]
  BY <1>2 DEF TypeOK, Waiters
<1>3. QED
  BY <1>1, <1>2 DEF release

\* A call never names a lock of its client's own scopes.
LEMMA ScopeStep == IInv /\ [Next]_vars => CallOutsideScopes'
<1> SUFFICES ASSUME IInv, [Next]_vars PROVE CallOutsideScopes'
  OBVIOUS
<1> USE DEF IInv, TypeOK, Phases, CallOutsideScopes
<1>1. ASSUME NEW c \in Clients, NEW l \in Lids, client_acquire(c, l)
      PROVE  CallOutsideScopes'
  BY <1>1 DEF client_acquire
<1>2. ASSUME NEW c \in Clients, NEW l \in Lids, client_release(c, l)
      PROVE  CallOutsideScopes'
  BY <1>2 DEF client_release
<1>3. ASSUME NEW c \in Clients, client_return(c) PROVE CallOutsideScopes'
  BY <1>3 DEF client_return
<1>4. ASSUME NEW c \in Clients, client_abort(c) PROVE CallOutsideScopes'
  BY <1>4 DEF client_abort
<1>5. ASSUME NEW c \in Clients, acquire(c) PROVE CallOutsideScopes'
  BY <1>5 DEF acquire
<1>6. ASSUME NEW c \in Clients, acquire_recheck(c) PROVE CallOutsideScopes'
  BY <1>6 DEF acquire_recheck
<1>7. ASSUME NEW c \in Clients, spurious_wakeup(c) PROVE CallOutsideScopes'
  BY <1>7 DEF spurious_wakeup
<1>8. ASSUME NEW c \in Clients, release(c) PROVE CallOutsideScopes'
  BY <1>8, ReleasePhases DEF release, Waiters
<1>9. CASE UNCHANGED vars
  BY <1>9 DEF vars
<1>10. QED
  BY <1>1, <1>2, <1>3, <1>4, <1>5, <1>6, <1>7, <1>8, <1>9 DEF Next

\* A free lock with sleeping handlers always has a woken one.
LEMMA WakeupStep == IInv /\ [Next]_vars => NoLostWakeup'
<1> SUFFICES ASSUME IInv, [Next]_vars PROVE NoLostWakeup'
  OBVIOUS
<1> USE DEF IInv, TypeOK, Phases, NoLostWakeup, Waiters
<1>1. ASSUME NEW c \in Clients, NEW l \in Lids, client_acquire(c, l)
      PROVE  NoLostWakeup'
  BY <1>1 DEF client_acquire
<1>2. ASSUME NEW c \in Clients, NEW l \in Lids, client_release(c, l)
      PROVE  NoLostWakeup'
  BY <1>2 DEF client_release
<1>3. ASSUME NEW c \in Clients, client_return(c) PROVE NoLostWakeup'
  BY <1>3 DEF client_return
<1>4. ASSUME NEW c \in Clients, client_abort(c) PROVE NoLostWakeup'
  BY <1>4 DEF client_abort
<1>5. ASSUME NEW c \in Clients, acquire(c) PROVE NoLostWakeup'
  BY <1>5 DEF acquire
<1>6. ASSUME NEW c \in Clients, acquire_recheck(c) PROVE NoLostWakeup'
  BY <1>6 DEF acquire_recheck
<1>7. ASSUME NEW c \in Clients, spurious_wakeup(c) PROVE NoLostWakeup'
  BY <1>7 DEF spurious_wakeup
<1>8. ASSUME NEW c \in Clients, release(c) PROVE NoLostWakeup'
  <2>1. ASSUME NEW k \in Lids, locks_'[k] # "locked", NEW e \in Clients,
               pc'[e] = "acq_wait", lid'[e] = k
        PROVE  \E g \in Clients : pc'[g] = "acq_woken" /\ lid'[g] = k
    <3>1. CASE k = lid[c]
      BY <1>8, <2>1, <3>1, ReleasePhases DEF release
    <3>2. CASE k # lid[c]
      BY <1>8, <2>1, <3>2, ReleasePhases DEF release
    <3>3. QED
      BY <3>1, <3>2
  <2>2. QED
    BY <2>1
<1>9. CASE UNCHANGED vars
  BY <1>9 DEF vars
<1>10. QED
  BY <1>1, <1>2, <1>3, <1>4, <1>5, <1>6, <1>7, <1>8, <1>9 DEF Next

\* The inductive invariant holds in every reachable state.
THEOREM Invariance == SafeSpec => []IInv
<1>1. IInv /\ [Next]_vars => IInv'
  BY TypeStep, ScopeStep, FlagStep, WakeupStep DEF IInv
<1>2. QED
  BY InvInit, <1>1, PTL DEF SafeSpec

\* The server's flag is set exactly while one client owns the lock.
THEOREM FlagTheorem == SafeSpec => []FlagMatchesOwner
<1>1. IInv => FlagMatchesOwner
  BY DEF IInv
<1>2. QED
  BY Invariance, <1>1, PTL

\* No two clients are in scopes of one lock, for any number of clients,
\* locks and workers, and whichever clients die.
THEOREM MutualExclusionTheorem == SafeSpec => []MutualExclusion
<1>1. IInv => MutualExclusion
  <2> SUFFICES ASSUME IInv, NEW c \in Clients, NEW e \in Clients, c # e,
                      NEW l \in held[c] \cap held[e]
               PROVE  FALSE
    BY DEF MutualExclusion
  <2>1. l \in Lids
    BY DEF IInv, TypeOK
  <2>2. Owns(c, l) /\ Owns(e, l)
    BY DEF Owns
  <2>3. QED
    BY <2>1, <2>2 DEF IInv, FlagMatchesOwner
<1>2. QED
  BY Invariance, <1>1, PTL

\* The signal of release is never lost.
THEOREM NoLostWakeupTheorem == SafeSpec => []NoLostWakeup
<1>1. IInv => NoLostWakeup
  BY DEF IInv
<1>2. QED
  BY Invariance, <1>1, PTL

\* With at least as many workers as calling threads, a queued release always
\* finds a worker.
THEOREM ReleaseTheorem ==
  ASSUME Cardinality(Clients) <= PoolSize
  PROVE  SafeSpec => []ReleaseCanRun
<1>1. ReleaseCanRun
  <2> SUFFICES ASSUME NEW c \in Clients, pc[c] = "rel_queued"
               PROVE  Cardinality(Blocked) < Workers
    BY DEF ReleaseCanRun
  <2>1. IsFiniteSet(Clients \ {c}) /\ Cardinality(Clients \ {c}) = Cardinality(Clients) - 1
    BY ClientsAssumption, FS_RemoveElement
  <2>2. Blocked \subseteq Clients \ {c}
    BY DEF Blocked
  <2>3. Cardinality(Blocked) <= Cardinality(Clients \ {c}) /\ IsFiniteSet(Blocked)
    BY <2>1, <2>2, FS_Subset
  <2>4. Cardinality(Blocked) \in Nat /\ Cardinality(Clients) \in Nat
    BY <2>3, ClientsAssumption, FS_CardinalityType
  <2>5. QED
    BY <2>1, <2>3, <2>4, PoolAssumption DEF Workers
<1>2. QED
  BY <1>1, PTL

-----------------------------------------------------------------------------
(* Exhaustion of the pool.                                                 *)

\* The handlers that wait for a lock which is taken.
Stuck == {c \in Blocked : locks_[lid[c]] = "locked"}

\* With every worker blocked no request is taken from the queue.
LEMMA NoneTaken ==
  ASSUME Exhausted, NEW c \in Clients PROVE ~Take(c)
<1>1. Stuck \subseteq Blocked /\ Blocked \subseteq Clients
  BY DEF Stuck, Blocked
<1>2. IsFiniteSet(Blocked)
  BY <1>1, ClientsAssumption, FS_Subset
<1>3. Cardinality(Stuck) <= Cardinality(Blocked) /\ IsFiniteSet(Stuck)
  BY <1>1, <1>2, FS_Subset
<1>4. Cardinality(Blocked) \in Nat /\ Cardinality(Stuck) \in Nat
  BY <1>2, <1>3, FS_CardinalityType
<1>5. Cardinality(Stuck) >= PoolSize
  BY DEF Exhausted, Stuck
<1>6. QED
  BY <1>3, <1>4, <1>5, PoolAssumption DEF Take, Workers

\* Then every stuck handler stays stuck: the clients' steps do not touch it,
\* and a handler that is woken finds its lock taken and sleeps again.
LEMMA StuckStays == TypeOK /\ Exhausted /\ [Next]_vars => Stuck \subseteq Stuck'
<1> SUFFICES ASSUME TypeOK, Exhausted, [Next]_vars PROVE Stuck \subseteq Stuck'
  OBVIOUS
<1> USE DEF TypeOK, Phases, Stuck, Blocked
<1>1. ASSUME NEW c \in Clients, NEW l \in Lids, client_acquire(c, l)
      PROVE  Stuck \subseteq Stuck'
  BY <1>1 DEF client_acquire
<1>2. ASSUME NEW c \in Clients, NEW l \in Lids, client_release(c, l)
      PROVE  Stuck \subseteq Stuck'
  BY <1>2 DEF client_release
<1>3. ASSUME NEW c \in Clients, client_return(c) PROVE Stuck \subseteq Stuck'
  BY <1>3 DEF client_return
<1>4. ASSUME NEW c \in Clients, client_abort(c) PROVE Stuck \subseteq Stuck'
  BY <1>4 DEF client_abort
<1>5. ASSUME NEW c \in Clients, acquire(c) \/ release(c) PROVE Stuck \subseteq Stuck'
  BY <1>5, NoneTaken DEF acquire, release
<1>6. ASSUME NEW c \in Clients, acquire_recheck(c) PROVE Stuck \subseteq Stuck'
  BY <1>6 DEF acquire_recheck
<1>7. ASSUME NEW c \in Clients, spurious_wakeup(c) PROVE Stuck \subseteq Stuck'
  BY <1>7 DEF spurious_wakeup
<1>8. CASE UNCHANGED vars
  BY <1>8 DEF vars
<1>9. QED
  BY <1>1, <1>2, <1>3, <1>4, <1>5, <1>6, <1>7, <1>8 DEF Next

\* An exhausted pool is never freed again: no spurious wakeup, no death of a
\* client and no request that arrives gives a worker back, so the exception
\* of ReleasesReturn and ImplementsLockSpec is a dead end and not a delay.
THEOREM ExhaustionTheorem == SafeSpec => [][Exhausted => Exhausted']_vars
<1>1. TypeOK /\ TypeOK' /\ [Next]_vars => [Exhausted => Exhausted']_vars
  <2> SUFFICES ASSUME TypeOK, TypeOK', [Next]_vars, Exhausted PROVE Exhausted'
    OBVIOUS
  <2>1. Stuck \subseteq Stuck'
    BY StuckStays
  <2>2. IsFiniteSet(Stuck')
    <3>1. Stuck' \subseteq Clients
      BY DEF Stuck, Blocked
    <3>2. QED
      BY <3>1, ClientsAssumption, FS_Subset
  <2>3. Cardinality(Stuck) <= Cardinality(Stuck') /\ IsFiniteSet(Stuck)
    BY <2>1, <2>2, FS_Subset
  <2>4. Cardinality(Stuck) \in Nat /\ Cardinality(Stuck') \in Nat
    BY <2>2, <2>3, FS_CardinalityType
  <2>5. Cardinality(Stuck) >= PoolSize
    BY DEF Exhausted, Stuck
  <2>6. Cardinality(Stuck') >= PoolSize
    BY <2>3, <2>4, <2>5, PoolAssumption
  <2>7. QED
    BY <2>6 DEF Exhausted, Stuck
<1>2. QED
  BY TypeCorrect, <1>1, PTL DEF SafeSpec

-----------------------------------------------------------------------------
(* The server implements LockSpec.                                         *)

\* The abstract state after an action that changes no call's request and no
\* owner.
LEMMA AbstractStutter ==
  ASSUME TypeOK, TypeOK',
         \A e \in Clients, k \in Lids : Owns(e, k)' <=> Owns(e, k),
         \A e \in Clients : wantBar'[e] = wantBar[e]
  PROVE  UNCHANGED Abstract!vars
<1>1. ownersBar' = ownersBar
  BY DEF ownersBar
<1>2. wantBar' = wantBar
  BY DEF wantBar
<1>3. QED
  BY <1>1, <1>2 DEF Abstract!vars

\* Setting the flag for a request is the abstract Grant.
LEMMA AbstractGrant ==
  ASSUME IInv, NEW c \in Clients, pc[c] \in {"acq_queued", "acq_woken"},
         locks_[lid[c]] # "locked",
         pc' = [pc EXCEPT ![c] = "acq_granted"], lid' = lid, held' = held
  PROVE  Abstract!Grant(c, lid[c])
<1> USE DEF IInv
<1>1. \A e \in Clients, k \in Lids :
        Owns(e, k)' <=> (Owns(e, k) \/ (e = c /\ k = lid[c]))
  BY Granted
<1>2. lid[c] \in Lids /\ lid[c] \in wantBar[c]
  BY DEF TypeOK, wantBar
<1>3. \A e \in Clients : ~Owns(e, lid[c])
  BY <1>2 DEF FlagMatchesOwner
<1>4. ownersBar[lid[c]] = {}
  BY <1>2, <1>3 DEF ownersBar
<1>5. wantBar' = [wantBar EXCEPT ![c] = {}]
  BY DEF wantBar, TypeOK, Phases
<1>6. ownersBar' = [ownersBar EXCEPT ![lid[c]] = {c}]
  <2>1. \A k \in Lids : ownersBar'[k] = IF k = lid[c] THEN {c} ELSE ownersBar[k]
    BY <1>1, <1>2, <1>3 DEF ownersBar
  <2>2. QED
    BY <1>2, <2>1 DEF ownersBar
<1>7. QED
  BY <1>2, <1>4, <1>5, <1>6 DEF Abstract!Grant

\* Every step of the server is a step of the abstract lock service or leaves
\* its state alone.
LEMMA RefinementStep == IInv /\ IInv' /\ [Next]_vars => [Abstract!Next]_(Abstract!vars)
<1> SUFFICES ASSUME IInv, IInv', [Next]_vars
             PROVE  Abstract!Next \/ UNCHANGED Abstract!vars
  OBVIOUS
<1> USE DEF IInv
<1>1. ASSUME NEW c \in Clients, NEW l \in Lids, client_acquire(c, l)
      PROVE  Abstract!Next
  <2>1. ownersBar' = ownersBar
    BY <1>1, AcquireRequested DEF ownersBar
  <2>2. wantBar' = [wantBar EXCEPT ![c] = {l}] /\ wantBar[c] = {}
    BY <1>1 DEF client_acquire, wantBar, TypeOK
  <2>3. c \notin ownersBar[l]
    BY <1>1 DEF client_acquire, ownersBar, Owns
  <2>4. QED
    BY <2>1, <2>2, <2>3 DEF Abstract!Next, Abstract!Request
<1>2. ASSUME NEW c \in Clients, NEW l \in Lids, client_release(c, l)
      PROVE  UNCHANGED Abstract!vars
  <2>1. \A e \in Clients : wantBar'[e] = wantBar[e]
    BY <1>2 DEF client_release, wantBar, TypeOK, Phases
  <2>2. QED
    BY <1>2, <2>1, ReleaseRequested, AbstractStutter
<1>3. ASSUME NEW c \in Clients, client_return(c) PROVE UNCHANGED Abstract!vars
  <2>1. \A e \in Clients : wantBar'[e] = wantBar[e]
    BY <1>3 DEF client_return, wantBar, TypeOK, Phases
  <2>2. QED
    BY <1>3, <2>1, CallReturned, AbstractStutter
<1>4. ASSUME NEW c \in Clients, client_abort(c) PROVE UNCHANGED Abstract!vars
  <2>1. \A e \in Clients : wantBar'[e] = wantBar[e]
    BY <1>4 DEF client_abort, wantBar
  <2>2. \A e \in Clients, k \in Lids : Owns(e, k)' <=> Owns(e, k)
    BY <1>4 DEF client_abort, Owns
  <2>3. QED
    BY <2>1, <2>2, AbstractStutter
<1>5. ASSUME NEW c \in Clients, acquire(c)
      PROVE  Abstract!Next \/ UNCHANGED Abstract!vars
  <2>1. CASE locks_[lid[c]] = "locked"
    <3>1. \A e \in Clients, k \in Lids : Owns(e, k)' <=> Owns(e, k)
      BY <1>5, <2>1 DEF acquire, Owns, TypeOK, Phases
    <3>2. \A e \in Clients : wantBar'[e] = wantBar[e]
      BY <1>5, <2>1 DEF acquire, wantBar, TypeOK, Phases
    <3>3. QED
      BY <3>1, <3>2, AbstractStutter
  <2>2. CASE locks_[lid[c]] # "locked"
    <3>1. Abstract!Grant(c, lid[c]) /\ lid[c] \in Lids
      BY <1>5, <2>2, AbstractGrant DEF acquire, TypeOK
    <3>2. QED
      BY <3>1 DEF Abstract!Next
  <2>3. QED
    BY <2>1, <2>2
<1>6. ASSUME NEW c \in Clients, acquire_recheck(c)
      PROVE  Abstract!Next \/ UNCHANGED Abstract!vars
  <2>1. CASE locks_[lid[c]] = "locked"
    <3>1. \A e \in Clients, k \in Lids : Owns(e, k)' <=> Owns(e, k)
      BY <1>6, <2>1 DEF acquire_recheck, Owns, TypeOK, Phases
    <3>2. \A e \in Clients : wantBar'[e] = wantBar[e]
      BY <1>6, <2>1 DEF acquire_recheck, wantBar, TypeOK, Phases
    <3>3. QED
      BY <3>1, <3>2, AbstractStutter
  <2>2. CASE locks_[lid[c]] # "locked"
    <3>1. Abstract!Grant(c, lid[c]) /\ lid[c] \in Lids
      BY <1>6, <2>2, AbstractGrant DEF acquire_recheck, TypeOK
    <3>2. QED
      BY <3>1 DEF Abstract!Next
  <2>3. QED
    BY <2>1, <2>2
<1>7. ASSUME NEW c \in Clients, spurious_wakeup(c) PROVE UNCHANGED Abstract!vars
  <2>1. \A e \in Clients, k \in Lids : Owns(e, k)' <=> Owns(e, k)
    BY <1>7 DEF spurious_wakeup, Owns, TypeOK, Phases
  <2>2. \A e \in Clients : wantBar'[e] = wantBar[e]
    BY <1>7 DEF spurious_wakeup, wantBar, TypeOK, Phases
  <2>3. QED
    BY <2>1, <2>2, AbstractStutter
<1>8. ASSUME NEW c \in Clients, release(c) PROVE Abstract!Next
  <2>1. lid[c] \in Lids /\ Owns(c, lid[c])
    BY <1>8 DEF release, Owns, TypeOK
  <2>2. \A e \in Clients : Owns(e, lid[c]) <=> e = c
    BY <2>1 DEF FlagMatchesOwner
  <2>3. ownersBar[lid[c]] = {c}
    BY <2>1, <2>2 DEF ownersBar
  <2>4. \A e \in Clients, k \in Lids :
          Owns(e, k)' <=> (Owns(e, k) /\ ~(e = c /\ k = lid[c]))
    BY <1>8, Released
  <2>5. ownersBar' = [ownersBar EXCEPT ![lid[c]] = {}]
    BY <2>1, <2>2, <2>4 DEF ownersBar
  <2>6. wantBar' = wantBar
    BY <1>8, ReleasePhases DEF release, wantBar, Waiters, TypeOK, Phases
  <2>7. QED
    BY <2>1, <2>3, <2>5, <2>6 DEF Abstract!Next, Abstract!Free
<1>9. CASE UNCHANGED vars
  BY <1>9 DEF vars, Abstract!vars, wantBar, ownersBar, Owns
<1>10. QED
  BY <1>1, <1>2, <1>3, <1>4, <1>5, <1>6, <1>7, <1>8, <1>9 DEF Next

\* The lock server implements the safety part of the abstract lock service,
\* for all clients, locks and workers.
THEOREM Refinement == SafeSpec => Abstract!SafeSpec
<1>1. Init => Abstract!Init
  <2> SUFFICES ASSUME Init PROVE Abstract!Init
    OBVIOUS
  <2>1. \A c \in Clients : pc[c] = "idle" /\ held[c] = {}
    BY DEF Init
  <2>2. wantBar = [c \in Clients |-> {}]
    BY <2>1 DEF wantBar
  <2>3. ownersBar = [l \in Lids |-> {}]
    BY <2>1 DEF ownersBar, Owns
  <2>4. QED
    BY <2>2, <2>3 DEF Abstract!Init
<1>2. QED
  BY Invariance, RefinementStep, <1>1, PTL DEF SafeSpec, Abstract!SafeSpec
=============================================================================
