-------------------------- MODULE ConnectionProofs --------------------------
(***************************************************************************)
(* Proofs about module Connection: what a connection writes and delivers   *)
(* is whole pdus in order, and no callback comes late, for any number of   *)
(* senders, any sizes of pdus and socket buffers, and any peer.            *)
(***************************************************************************)
EXTENDS Connection, TLAPS

-----------------------------------------------------------------------------
(* The inductive invariant.                                                *)

Bufs == Senders \X (1 .. MaxSends)
Places == {"top", "copy", "select", "readable", "read_cb", "writable", "write_cb"}
PCs == {"idle", "wait", "woken", "blocked", "signalled", "remove", "removing",
        "changedone", "early", "relock", "done"}

Types ==
  /\ dead_ \in BOOLEAN /\ rfds_ \in BOOLEAN /\ wfds_ \in BOOLEAN /\ callbacks_ \in BOOLEAN
  /\ pending_change_ \in BOOLEAN /\ errno_again \in BOOLEAN /\ shut \in BOOLEAN
  /\ aborted \in BOOLEAN /\ removed \in BOOLEAN
  /\ wpdu_ \in [buf : {<<>>} \cup Bufs, sz : {0, PduSz}, solong : -1 .. PduSz]
  /\ rpdu_ \in [buf : Seq(Nat), sz : {0, PduSz}] /\ Len(rpdu_.buf) <= rpdu_.sz
  /\ poll \in [at : Places, r : BOOLEAN, w : BOOLEAN]
  /\ pc \in [Callers -> PCs]
  /\ nsent \in [Senders -> 0 .. MaxSends] /\ ret \in [Senders -> BOOLEAN]
  /\ peer \in {"up", "closed", "reset"}
  /\ consumed \in Nat /\ arrived \in Nat /\ consumed <= arrived /\ arrived <= MaxIn
  /\ unacked \in 0 .. SockBuf /\ pipefd_ \in Nat /\ refusals \in 0 .. MaxRefusals
  /\ wire \in Seq(Bufs \X (1 .. PduSz)) /\ delivered \in Seq(Seq(Nat))
  /\ \A s \in Senders : pc[s] # "idle" => nsent[s] > 0

\* The poll thread has no callback in hand and will not get one.
Quiet == poll.at \in {"top", "copy"} \/ (poll.at = "select" /\ ~poll.r /\ ~poll.w)
Unwatched == ~rfds_ /\ ~wfds_

\* The poll thread has answered a thread that is still in block_remove_fd.
Answered == \E t \in Callers : pc[t] = "changedone" \/ (pc[t] = "early" /\ ~pending_change_)

\* How far block_remove_fd has got, and what the poll thread may still do.
Removal ==
  /\ \A t \in Callers : pc[t] \in {"remove", "removing", "changedone", "early", "relock"} => dead_
  /\ \A t \in Callers : pc[t] \in {"removing", "changedone", "early"} => Unwatched
  /\ \A t \in Callers : pc[t] = "removing" => pending_change_
  /\ pending_change_ => dead_ /\ Unwatched
  /\ removed \/ Answered => dead_ /\ Unwatched /\ Quiet
  /\ poll.at = "read_cb" \/ (poll.at = "readable" /\ poll.r) => Readable

Owning == {"blocked", "signalled", "remove", "removing", "changedone", "early", "relock"}

\* wpdu_ belongs to one thread inside send.
Ownership ==
  /\ \A s \in Senders : pc[s] \in Owning => wpdu_.buf = <<s, nsent[s]>>
  /\ wpdu_.buf # <<>> => \E s \in Senders : pc[s] \in Owning /\ wpdu_.buf = <<s, nsent[s]>>

\* Where the stream stands while the connection is alive.
LastWhole == wire = <<>> \/ wire[Len(wire)][2] = PduSz

Position ==
  ~dead_ => \/ wpdu_ = NoW /\ LastWhole
            \/ /\ wpdu_.buf # <<>> /\ wpdu_.sz = PduSz /\ wpdu_.solong \in 0 .. PduSz
               /\ wpdu_.solong = 0 => LastWhole
               /\ wpdu_.solong > 0 => wire # <<>> /\ wire[Len(wire)] = <<wpdu_.buf, wpdu_.solong>>

\* What was read is what was delivered and what rpdu_ holds.
Reading ==
  ~dead_ => /\ consumed = Len(delivered) * PduSz + Len(rpdu_.buf)
            /\ \A k \in 1 .. Len(rpdu_.buf) : rpdu_.buf[k] = Len(delivered) * PduSz + k

Output == Ownership /\ Position /\ WholePdusInOrder /\ SentIsWritten
Input == Reading /\ DeliveredInOrder

IInv == Types /\ Removal /\ Output /\ Input

-----------------------------------------------------------------------------
(* The operators of the model.                                             *)

\* What the assumptions on the constants give.
LEMMA Sizes ==
  /\ PduSz \in Nat \ {0} /\ HdrSz \in Nat \ {0} /\ SockBuf \in Nat \ {0} /\ HdrSz < PduSz
  /\ MaxSends \in Nat /\ MaxIn \in Nat /\ MaxRefusals \in Nat
  /\ Closer \notin Senders /\ Senders \subseteq Callers /\ Closer \in Callers
BY SizesAssumption, CloserAssumption DEF Callers

\* The smaller of two numbers.
LEMMA MinOfTwo ==
  ASSUME NEW a \in Int, NEW b \in Int
  PROVE  Min({a, b}) \in {a, b} /\ Min({a, b}) <= a /\ Min({a, b}) <= b
<1>1. CASE a <= b
  <2>1. \E x \in {a, b} : \A y \in {a, b} : x <= y
    BY <1>1
  <2> QED BY <2>1 DEF Min
<1>2. CASE b <= a
  <2>1. \E x \in {a, b} : \A y \in {a, b} : x <= y
    BY <1>2
  <2> QED BY <2>1 DEF Min
<1> QED BY <1>1, <1>2

\* write() takes no more than it is given, and no more than there is room for.
LEMMA TakenBounds ==
  ASSUME NEW n \in Nat, unacked \in 0 .. SockBuf
  PROVE  Taken(n) \in 0 .. n /\ unacked + Taken(n) \in 0 .. SockBuf
<1> DEFINE room == SockBuf - unacked
           m == Min({n, room})
<1>1. room \in Nat /\ unacked \in Nat /\ unacked + room = SockBuf
  BY Sizes
<1>2. Taken(n) = m
  BY DEF Taken
<1> HIDE DEF room
<1>3. m \in {n, room} /\ m <= n /\ m <= room
  BY <1>1, MinOfTwo
<1> HIDE DEF m
<1> QED BY <1>1, <1>2, <1>3, Sizes

\* W is the stream v and then n units of the pdu b.
Grown(W, v, b, from, n) ==
  /\ W \in Seq(Bufs \X (1 .. PduSz)) /\ Len(W) = Len(v) + n
  /\ \A i \in 1 .. Len(v) : W[i] = v[i]
  /\ \A k \in 1 .. n : W[Len(v) + k] = <<b, from + k>>

\* The units of a pdu, put at the end of the stream.
LEMMA WireGrows ==
  ASSUME NEW W, NEW b \in Bufs, NEW from \in Nat, NEW n \in Nat, from + n <= PduSz,
         NEW v \in Seq(Bufs \X (1 .. PduSz)), W = v \o Units(b, from, n)
  PROVE  Grown(W, v, b, from, n)
<1> DEFINE U == Units(b, from, n)
<1>1. U \in Seq(Bufs \X (1 .. PduSz)) /\ Len(U) = n /\ \A k \in 1 .. n : U[k] = <<b, from + k>>
  <2>1. \A k \in 1 .. n : <<b, from + k>> \in Bufs \X (1 .. PduSz)
    BY Sizes
  <2>2. U = [k \in 1 .. n |-> <<b, from + k>>]
    BY DEF Units
  <2> HIDE DEF U
  <2>3. \A k \in 1 .. n : U[k] = <<b, from + k>>
    BY <2>2
  <2>4. U \in [1 .. n -> Bufs \X (1 .. PduSz)]
    BY <2>1, <2>2
  <2>5. U \in Seq(Bufs \X (1 .. PduSz)) /\ Len(U) = n
    BY <2>4
  <2> QED BY <2>3, <2>5
<1>2. W = v \o U
  OBVIOUS
<1> HIDE DEF U
<1> DEFINE S == Bufs \X (1 .. PduSz)
<1>3. U \in Seq(S) /\ v \in Seq(S)
  BY <1>1
<1> HIDE DEF S
<1>4. W \in Seq(S) /\ Len(W) = Len(v) + Len(U)
  BY <1>2, <1>3
<1>5. \A i \in 1 .. Len(v) : W[i] = v[i]
  BY <1>2, <1>3
<1>6. \A k \in 1 .. Len(U) : W[Len(v) + k] = U[k]
  BY <1>2, <1>3
<1> QED BY <1>1, <1>4, <1>5, <1>6 DEF S, Grown

-----------------------------------------------------------------------------
(* Steps keep the types.                                                   *)

\* Types hold at first.
LEMMA TypesInit == Init => Types
<1> SUFFICES ASSUME Init PROVE Types
  OBVIOUS
<1> USE Sizes
<1>1. wpdu_ \in [buf : {<<>>} \cup Bufs, sz : {0, PduSz}, solong : -1 .. PduSz]
  BY DEF Init, NoW
<1>2. rpdu_ \in [buf : Seq(Nat), sz : {0, PduSz}] /\ Len(rpdu_.buf) <= rpdu_.sz
  BY DEF Init, NoR
<1>3. poll \in [at : Places, r : BOOLEAN, w : BOOLEAN]
  BY DEF Init, Places
<1>4. pc \in [Callers -> PCs] /\ \A s \in Senders : pc[s] = "idle"
  BY DEF Init, PCs
<1>5. nsent \in [Senders -> 0 .. MaxSends] /\ ret \in [Senders -> BOOLEAN]
  BY DEF Init
<1>6. wire \in Seq(Bufs \X (1 .. PduSz)) /\ delivered \in Seq(Seq(Nat))
  BY DEF Init
<1>7. /\ consumed \in Nat /\ arrived \in Nat /\ consumed <= arrived /\ arrived <= MaxIn
      /\ unacked \in 0 .. SockBuf /\ pipefd_ \in Nat /\ refusals \in 0 .. MaxRefusals
  BY DEF Init
<1>8. /\ dead_ \in BOOLEAN /\ rfds_ \in BOOLEAN /\ wfds_ \in BOOLEAN /\ callbacks_ \in BOOLEAN
      /\ pending_change_ \in BOOLEAN /\ errno_again \in BOOLEAN /\ shut \in BOOLEAN
      /\ aborted \in BOOLEAN /\ removed \in BOOLEAN /\ peer \in {"up", "closed", "reset"}
  BY DEF Init
<1> QED BY <1>1, <1>2, <1>3, <1>4, <1>5, <1>6, <1>7, <1>8 DEF Types

\* Which pdu send counts.
LEMMA CountedTypes ==
  ASSUME Types, NEW s \in Senders, Enters(s), Counted(s)
  PROVE  /\ nsent' \in [Senders -> 0 .. MaxSends] /\ nsent'[s] \in 1 .. MaxSends
         /\ \A t \in Senders \ {s} : nsent'[t] = nsent[t]
         /\ pc[s] = "idle" => nsent'[s] = nsent[s] + 1
         /\ pc[s] # "idle" => nsent'[s] = nsent[s]
<1> USE Sizes
<1>0. nsent \in [Senders -> 0 .. MaxSends] /\ (pc[s] # "idle" => nsent[s] > 0)
  BY DEF Types
<1>1. CASE pc[s] = "idle"
  <2>1. nsent' = [nsent EXCEPT ![s] = nsent[s] + 1] /\ nsent[s] < MaxSends
    BY <1>1 DEF Counted, Enters
  <2> QED BY <1>0, <1>1, <2>1
<1>2. CASE pc[s] # "idle"
  BY <1>0, <1>2 DEF Counted
<1> QED BY <1>1, <1>2

\* send() waits for its turn, or finds the connection dead.
LEMMA TypesEnter ==
  ASSUME Types, NEW s \in Senders, send_wait(s) \/ send_dead(s)
  PROVE  Types'
<1> USE Sizes
<1>1. Enters(s) /\ Counted(s)
  BY DEF send_wait, send_dead
<1>2. /\ nsent' \in [Senders -> 0 .. MaxSends] /\ nsent'[s] \in 1 .. MaxSends
      /\ \A t \in Senders \ {s} : nsent'[t] = nsent[t]
  BY <1>1, CountedTypes
<1>3. pc' \in [Callers -> PCs] /\ \A t \in Senders \ {s} : pc'[t] = pc[t]
  <2>1. pc' = [pc EXCEPT ![s] = "wait"] \/ pc' = [pc EXCEPT ![s] = "idle"]
    BY DEF send_wait, send_dead
  <2>2. pc \in [Callers -> PCs]
    BY DEF Types
  <2> QED BY <2>1, <2>2 DEF PCs
<1>4. ret' \in [Senders -> BOOLEAN]
  BY DEF send_wait, send_dead, Types
<1>5. \A t \in Senders : pc'[t] # "idle" => nsent'[t] > 0
  BY <1>2, <1>3 DEF Types
<1>6. UNCHANGED <<connVars, mgrVars, poll, errno_again, sockVars, refusals, aborted, histVars>>
  BY DEF send_wait, send_dead
<1> QED BY <1>2, <1>3, <1>4, <1>5, <1>6 DEF Types, connVars, mgrVars, sockVars, histVars

\* send() writes what the socket takes.
LEMMA TypesWrite ==
  ASSUME Types, NEW s \in Senders, send_write(s)
  PROVE  Types'
<1> USE Sizes
<1> DEFINE b == <<s, nsent'[s]>>
           n == Taken(PduSz)
<1>1. Enters(s) /\ Counted(s)
  BY DEF send_write
<1>2. /\ nsent' \in [Senders -> 0 .. MaxSends] /\ nsent'[s] \in 1 .. MaxSends
      /\ \A t \in Senders \ {s} : nsent'[t] = nsent[t]
  BY <1>1, CountedTypes
<1>3. b \in Bufs /\ n \in 0 .. PduSz /\ unacked + n \in 0 .. SockBuf
  BY <1>2, TakenBounds DEF Bufs, Types
<1>4. shut' \in BOOLEAN
  BY DEF send_write, Types
<1>5. UNCHANGED <<rpdu_, poll, errno_again, shut, peer, arrived, consumed, refusals, aborted, delivered, removed>>
  BY DEF send_write
<1> HIDE DEF b, n
<1>6. CASE /\ dead_' = TRUE
           /\ wpdu_' = [buf |-> b, sz |-> 0, solong |-> -1]
           /\ pc' = [pc EXCEPT ![s] = "remove"]
           /\ UNCHANGED <<mgrVars, ret, unacked, wire>>
  <2>1. wpdu_' \in [buf : {<<>>} \cup Bufs, sz : {0, PduSz}, solong : -1 .. PduSz]
    BY <1>3, <1>6
  <2>2. pc' \in [Callers -> PCs] /\ \A t \in Senders \ {s} : pc'[t] = pc[t]
    BY <1>6 DEF Types, PCs
  <2>3. \A t \in Senders : pc'[t] # "idle" => nsent'[t] > 0
    BY <1>2, <2>2 DEF Types
  <2> QED BY <1>2, <1>4, <1>5, <1>6, <2>1, <2>2, <2>3 DEF Types, mgrVars
<1>7. CASE /\ unacked' = unacked + n
           /\ wire' = wire \o Units(b, 0, n)
           /\ dead_' = dead_
           /\ \/ /\ n = PduSz
                 /\ Leave(s, TRUE, pc)
                 /\ UNCHANGED mgrVars
              \/ /\ n < PduSz
                 /\ add_callback_WRONLY
                 /\ wpdu_' = [buf |-> b, sz |-> PduSz, solong |-> n]
                 /\ pc' = [pc EXCEPT ![s] = "blocked"]
                 /\ UNCHANGED ret
  <2>1. wire' \in Seq(Bufs \X (1 .. PduSz))
    <3>1. wire \in Seq(Bufs \X (1 .. PduSz)) /\ n \in Nat /\ 0 + n <= PduSz
      BY <1>3 DEF Types
    <3>2. Grown(wire', wire, b, 0, n)
      BY <1>3, <1>7, <3>1, WireGrows
    <3> QED BY <3>2 DEF Grown
  <2>2. CASE n = PduSz /\ Leave(s, TRUE, pc) /\ UNCHANGED mgrVars
    <3>1. wpdu_' \in [buf : {<<>>} \cup Bufs, sz : {0, PduSz}, solong : -1 .. PduSz]
      BY <2>2 DEF Leave, NoW
    <3>2. ret' \in [Senders -> BOOLEAN]
      BY <2>2 DEF Leave, Types
    <3>3. pc' \in [Callers -> PCs] /\ \A t \in Senders \ {s} : pc'[t] # "idle" => pc[t] # "idle"
      BY <2>2 DEF Leave, Types, PCs
    <3>4. \A t \in Senders : pc'[t] # "idle" => nsent'[t] > 0
      <4>1. \A t \in Senders : pc[t] # "idle" => nsent[t] > 0
        BY DEF Types
      <4> QED BY <1>2, <3>3, <4>1
    <3> QED BY <1>2, <1>3, <1>4, <1>5, <1>7, <2>1, <2>2, <3>1, <3>2, <3>3, <3>4, SMTT(30) DEF Types, mgrVars
  <2>3. CASE /\ n < PduSz
             /\ add_callback_WRONLY
             /\ wpdu_' = [buf |-> b, sz |-> PduSz, solong |-> n]
             /\ pc' = [pc EXCEPT ![s] = "blocked"]
             /\ UNCHANGED ret
    <3>1. wpdu_' \in [buf : {<<>>} \cup Bufs, sz : {0, PduSz}, solong : -1 .. PduSz]
      BY <1>3, <2>3
    <3>2. pc' \in [Callers -> PCs] /\ \A t \in Senders \ {s} : pc'[t] = pc[t]
      BY <2>3 DEF Types, PCs
    <3>3. \A t \in Senders : pc'[t] # "idle" => nsent'[t] > 0
      BY <1>2, <3>2 DEF Types
    <3>4. /\ rfds_' \in BOOLEAN /\ wfds_' \in BOOLEAN /\ callbacks_' \in BOOLEAN
          /\ pending_change_' \in BOOLEAN /\ pipefd_' \in Nat
      BY <2>3 DEF add_callback_WRONLY, Types
    <3> QED BY <1>2, <1>3, <1>4, <1>5, <1>7, <2>1, <2>3, <3>1, <3>2, <3>3, <3>4 DEF Types
  <2> QED BY <1>7, <2>2, <2>3
<1> QED BY <1>6, <1>7 DEF send_write, b, n

\* send() returns.
LEMMA TypesReturn ==
  ASSUME Types, NEW s \in Senders, send_return(s)
  PROVE  Types'
<1> USE Sizes
<1>1. UNCHANGED <<dead_, rpdu_, mgrVars, poll, errno_again, nsent, sockVars, refusals, aborted, histVars>>
  BY DEF send_return
<1>2. CASE pc' = [pc EXCEPT ![s] = "blocked"] /\ UNCHANGED <<wpdu_, ret>>
  <2>1. pc' \in [Callers -> PCs] /\ \A t \in Senders : pc'[t] # "idle" => nsent[t] > 0
    BY <1>2 DEF Types, PCs, send_return
  <2> QED BY <1>1, <1>2, <2>1 DEF Types, mgrVars, sockVars, histVars
<1>3. ASSUME NEW ok \in BOOLEAN, Leave(s, ok, pc) PROVE Types'
  <2>1. wpdu_' \in [buf : {<<>>} \cup Bufs, sz : {0, PduSz}, solong : -1 .. PduSz]
    BY <1>3 DEF Leave, NoW
  <2>2. ret' \in [Senders -> BOOLEAN]
    BY <1>3 DEF Leave, Types
  <2>3. pc' \in [Callers -> PCs] /\ \A t \in Senders : pc'[t] # "idle" => nsent[t] > 0
    BY <1>3 DEF Leave, Types, PCs
  <2> QED BY <1>1, <2>1, <2>2, <2>3 DEF Types, mgrVars, sockVars, histVars
<1> QED BY <1>2, <1>3 DEF send_return

\* The two halves of block_remove_fd.
LEMMA TypesRemove ==
  ASSUME Types, NEW t \in Callers, Remove(t)
  PROVE  Types'
<1> USE Sizes
<1>1. UNCHANGED <<connVars, poll, errno_again, nsent, ret, sockVars, refusals, aborted, wire, delivered>>
  BY DEF Remove, block_remove_fd, block_remove_fd_return, histVars
<1>2. pc' \in [Callers -> PCs] /\ \A s \in Senders : pc'[s] # "idle" => nsent[s] > 0
  <2>1. pc \in [Callers -> PCs] /\ pc[t] # "idle" /\ \A s \in Senders : pc[s] # "idle" => nsent[s] > 0
    BY DEF Types, Remove, block_remove_fd, block_remove_fd_return
  <2>2. \E x \in PCs : pc' = [pc EXCEPT ![t] = x]
    BY DEF Remove, block_remove_fd, block_remove_fd_return, PCs, ChangeWait
  <2> QED BY <2>1, <2>2
<1>3. /\ rfds_' \in BOOLEAN /\ wfds_' \in BOOLEAN /\ callbacks_' \in BOOLEAN
      /\ pending_change_' \in BOOLEAN /\ pipefd_' \in Nat /\ removed' \in BOOLEAN
  <2>1. CASE block_remove_fd(t)
    <3>1. pipefd_' = pipefd_ + 1 /\ pipefd_ \in Nat
      BY <2>1 DEF block_remove_fd, unwatch_RDWR, Types
    <3>2. rfds_' = FALSE /\ wfds_' = FALSE /\ callbacks_' = callbacks_ /\ pending_change_' = TRUE
          /\ removed' = removed
      BY <2>1 DEF block_remove_fd, unwatch_RDWR, histVars
    <3>3. callbacks_ \in BOOLEAN /\ removed \in BOOLEAN
      BY DEF Types
    <3>4. pipefd_' \in Nat
      BY <3>1
    <3> QED BY <3>2, <3>3, <3>4
  <2>2. CASE block_remove_fd_return(t)
    BY <2>2 DEF block_remove_fd_return, Types
  <2> QED BY <2>1, <2>2 DEF Remove
<1> QED BY <1>1, <1>2, <1>3 DEF Types, connVars, sockVars

\* A wakeup that nobody meant.
LEMMA TypesSpurious ==
  ASSUME Types, NEW t \in Callers, spurious_wakeup(t)
  PROVE  Types'
<1>1. pc' = [pc EXCEPT ![t] = "early"] /\ pc[t] = "removing"
  BY DEF spurious_wakeup
<1>2. pc' \in [Callers -> PCs] /\ \A s \in Senders : pc'[s] # "idle" => nsent[s] > 0
  BY <1>1, Sizes DEF Types, PCs
<1> QED BY <1>2 DEF spurious_wakeup, Types, connVars, mgrVars, sockVars, histVars

\* closeconn.
LEMMA TypesClose ==
  ASSUME Types, closeconn
  PROVE  Types'
<1> USE Sizes
<1>1. pc' \in [Callers -> PCs] /\ \A s \in Senders : pc'[s] = pc[s]
  BY DEF closeconn, Types, PCs
<1>2. dead_' \in BOOLEAN /\ shut' \in BOOLEAN
  BY DEF closeconn, Types
<1> QED BY <1>1, <1>2 DEF closeconn, Types, mgrVars, histVars

\* The poll thread between callbacks.
LEMMA TypesPoll ==
  ASSUME Types, wait_loop_top \/ wait_ready_copy \/ wait_ready_select \/ wait_loop_readable \/ wait_loop_writable
  PROVE  Types'
<1> USE Sizes
<1>1. /\ UNCHANGED <<connVars, rfds_, wfds_, callbacks_, errno_again, nsent, ret, sockVars, refusals,
                     aborted, wire, delivered>>
      /\ removed' \in BOOLEAN
  BY DEF wait_loop_top, wait_ready_copy, wait_ready_select, wait_loop_readable, wait_loop_writable,
         pollOnly, callVars, histVars, Types
<1>2. pc' \in [Callers -> PCs] /\ \A s \in Senders : pc'[s] # "idle" => nsent[s] > 0
  <2>1. CASE wait_loop_top
    BY <2>1 DEF wait_loop_top, Types, PCs
  <2>2. CASE pc' = pc
    BY <2>2 DEF Types
  <2> QED BY <2>1, <2>2 DEF wait_ready_copy, wait_ready_select, wait_loop_readable, wait_loop_writable,
             pollOnly, callVars
<1>3. pipefd_' \in Nat /\ pending_change_' \in BOOLEAN
  <2>1. pipefd_ \in Nat /\ pending_change_ \in BOOLEAN
    BY DEF Types
  <2>2. pipefd_' \in Nat
    <3>1. pipefd_' = pipefd_ \/ pipefd_' = (IF pipefd_ > 0 THEN pipefd_ - 1 ELSE 0)
      BY DEF wait_loop_top, wait_ready_copy, wait_ready_select, wait_loop_readable, wait_loop_writable
    <3> QED BY <2>1, <3>1
  <2>3. pending_change_' = pending_change_ \/ pending_change_' = FALSE
    BY DEF wait_loop_top, wait_ready_copy, wait_ready_select, wait_loop_readable, wait_loop_writable, pollOnly
  <2> QED BY <2>1, <2>2, <2>3
<1>4. poll' \in [at : Places, r : BOOLEAN, w : BOOLEAN]
  <2>1. poll \in [at : Places, r : BOOLEAN, w : BOOLEAN] /\ rfds_ \in BOOLEAN /\ wfds_ \in BOOLEAN
    BY DEF Types
  <2>2. CASE wait_loop_top
    BY <2>1, <2>2 DEF wait_loop_top, Places
  <2>3. CASE wait_ready_copy
    BY <2>1, <2>3 DEF wait_ready_copy, Places
  <2>4. CASE wait_ready_select
    <3>1. (poll.r /\ Readable) \in BOOLEAN /\ (poll.w /\ Writable) \in BOOLEAN
      BY <2>1
    <3> QED BY <2>4, <3>1 DEF wait_ready_select, Places
  <2>5. CASE wait_loop_readable
    BY <2>1, <2>5 DEF wait_loop_readable, Places
  <2>6. CASE wait_loop_writable
    BY <2>1, <2>6 DEF wait_loop_writable, Places
  <2> QED BY <2>2, <2>3, <2>4, <2>5, <2>6
<1> QED BY <1>1, <1>2, <1>3, <1>4 DEF Types, connVars, sockVars

\* Waking a thread changes neither who is inside send nor the types.
LEMMA SignalTypes ==
  ASSUME Types, signal_send_complete
  PROVE  /\ pc' \in [Callers -> PCs] /\ \A s \in Senders : pc'[s] # "idle" => nsent[s] > 0
         /\ \A t \in Callers : pc[t] # "blocked" => pc'[t] = pc[t]
         /\ \A t \in Callers : pc[t] = "blocked" => pc'[t] = "signalled"
<1>1. pc \in [Callers -> PCs] /\ \A s \in Senders : pc[s] # "idle" => nsent[s] > 0
  BY DEF Types
<1>2. pc' = [t \in Callers |-> IF pc[t] = "blocked" THEN "signalled" ELSE pc[t]]
  BY DEF signal_send_complete
<1> QED BY <1>1, <1>2, Sizes DEF PCs

\* What a callback that finds the connection dead does.
LEMMA DiesTypes ==
  ASSUME Types, dies
  PROVE  /\ dead_' = TRUE /\ rfds_' = FALSE /\ wfds_' = FALSE /\ callbacks_' = FALSE
         /\ pending_change_' = pending_change_ /\ pipefd_' \in Nat
         /\ pc' \in [Callers -> PCs] /\ \A s \in Senders : pc'[s] # "idle" => nsent[s] > 0
<1>1. signal_send_complete
  BY DEF dies
<1>2. pc' \in [Callers -> PCs] /\ \A s \in Senders : pc'[s] # "idle" => nsent[s] > 0
  BY <1>1, SignalTypes
<1>3. pipefd_' \in Nat
  BY DEF dies, del_callback_RDWR, unwatch_RDWR, Types
<1> QED BY <1>2, <1>3 DEF dies, del_callback_RDWR, unwatch_RDWR

\* What write_cb has to write belongs to a pdu.
LEMMA WritesPdu ==
  ASSUME Types, Position, ~dead_, wpdu_.solong < wpdu_.sz
  PROVE  /\ wpdu_.buf \in Bufs /\ wpdu_.sz = PduSz /\ wpdu_.solong \in 0 .. PduSz - 1
         /\ Taken(wpdu_.sz - wpdu_.solong) \in 0 .. PduSz - wpdu_.solong
         /\ unacked + Taken(wpdu_.sz - wpdu_.solong) \in 0 .. SockBuf
<1> USE Sizes
<1>1. wpdu_ # NoW
  BY DEF NoW
<1>2. wpdu_.buf # <<>> /\ wpdu_.sz = PduSz /\ wpdu_.solong \in 0 .. PduSz
  BY <1>1 DEF Position
<1>3. wpdu_.buf \in Bufs
  BY <1>2 DEF Types
<1>4. wpdu_.sz - wpdu_.solong \in Nat /\ wpdu_.solong \in 0 .. PduSz - 1
  BY <1>2
<1>5. unacked \in 0 .. SockBuf
  BY DEF Types
<1>6. /\ Taken(wpdu_.sz - wpdu_.solong) \in 0 .. wpdu_.sz - wpdu_.solong
      /\ unacked + Taken(wpdu_.sz - wpdu_.solong) \in 0 .. SockBuf
  BY <1>4, <1>5, TakenBounds
<1> QED BY <1>2, <1>3, <1>4, <1>6

\* write_cb.
LEMMA TypesWriteCb ==
  ASSUME Types, Position, write_cb
  PROVE  Types'
<1> USE Sizes
<1>1. poll' \in [at : Places, r : BOOLEAN, w : BOOLEAN]
  BY DEF write_cb, Types, Places
<1>2. UNCHANGED <<nsent, ret, shut, peer, arrived, consumed, refusals, delivered, removed>>
  BY DEF write_cb
<1>3. CASE dead_ /\ aborted' = TRUE /\ UNCHANGED <<connVars, mgrVars, errno_again, pc, unacked, wire>>
  BY <1>1, <1>2, <1>3 DEF Types, connVars, mgrVars
<1>4. CASE del_callback_WRONLY /\ UNCHANGED <<connVars, errno_again, pc, unacked, wire, aborted>>
  <2>1. /\ rfds_' = rfds_ /\ wfds_' = FALSE /\ callbacks_' = (callbacks_ /\ rfds_)
        /\ pending_change_' = pending_change_ /\ pipefd_' = pipefd_
    BY <1>4 DEF del_callback_WRONLY
  <2>2. callbacks_' \in BOOLEAN
    BY <2>1
  <2>3. /\ dead_' = dead_ /\ wpdu_' = wpdu_ /\ rpdu_' = rpdu_ /\ errno_again' = errno_again
        /\ pc' = pc /\ unacked' = unacked /\ wire' = wire /\ aborted' = aborted
    BY <1>4 DEF connVars
  <2>4. /\ dead_' \in BOOLEAN /\ rfds_' \in BOOLEAN /\ wfds_' \in BOOLEAN /\ callbacks_' \in BOOLEAN
        /\ pending_change_' \in BOOLEAN /\ errno_again' \in BOOLEAN /\ shut' \in BOOLEAN
        /\ aborted' \in BOOLEAN /\ removed' \in BOOLEAN
    BY <1>2, <2>1, <2>2, <2>3 DEF Types
  <2>5. /\ wpdu_' \in [buf : {<<>>} \cup Bufs, sz : {0, PduSz}, solong : -1 .. PduSz]
        /\ rpdu_' \in [buf : Seq(Nat), sz : {0, PduSz}] /\ Len(rpdu_'.buf) <= rpdu_'.sz
        /\ pipefd_' \in Nat
    BY <2>1, <2>3 DEF Types
  <2>6. /\ pc' \in [Callers -> PCs] /\ unacked' \in 0 .. SockBuf
        /\ wire' \in Seq(Bufs \X (1 .. PduSz))
        /\ \A s \in Senders : pc'[s] # "idle" => nsent'[s] > 0
    BY <1>2, <2>3 DEF Types
  <2> QED BY <1>1, <1>2, <2>4, <2>5, <2>6 DEF Types
<1>5. CASE signal_send_complete /\ UNCHANGED <<connVars, mgrVars, errno_again, unacked, wire, aborted>>
  <2>1. pc' \in [Callers -> PCs] /\ \A s \in Senders : pc'[s] # "idle" => nsent[s] > 0
    BY <1>5, SignalTypes
  <2> QED BY <1>1, <1>2, <1>5, <2>1 DEF Types, connVars, mgrVars
<1>6. CASE /\ dies /\ wpdu_' = [wpdu_ EXCEPT !.sz = 0, !.solong = -1]
           /\ errno_again' = FALSE
           /\ UNCHANGED <<rpdu_, unacked, wire, aborted>>
  <2>1. /\ dead_' = TRUE /\ rfds_' = FALSE /\ wfds_' = FALSE /\ callbacks_' = FALSE
        /\ pending_change_' = pending_change_ /\ pipefd_' \in Nat
        /\ pc' \in [Callers -> PCs] /\ \A s \in Senders : pc'[s] # "idle" => nsent[s] > 0
    BY <1>6, DiesTypes
  <2>2. wpdu_' \in [buf : {<<>>} \cup Bufs, sz : {0, PduSz}, solong : -1 .. PduSz]
    <3>1. wpdu_ \in [buf : {<<>>} \cup Bufs, sz : {0, PduSz}, solong : -1 .. PduSz]
      BY DEF Types
    <3>2. -1 \in -1 .. PduSz /\ 0 \in {0, PduSz}
      OBVIOUS
    <3> QED BY <1>6, <3>1, <3>2
  <2> QED BY <1>1, <1>2, <1>6, <2>1, <2>2 DEF Types
<1>7. CASE LET n == Taken(wpdu_.sz - wpdu_.solong) IN
           /\ ~dead_ /\ wpdu_.solong < wpdu_.sz
           /\ wpdu_' = [wpdu_ EXCEPT !.solong = @ + n]
           /\ unacked' = unacked + n
           /\ wire' = wire \o Units(wpdu_.buf, wpdu_.solong, n)
           /\ errno_again' = (errno_again \/ n = 0)
           /\ IF wpdu_.solong' < wpdu_.sz THEN UNCHANGED pc ELSE signal_send_complete
           /\ UNCHANGED <<dead_, rpdu_, mgrVars, aborted>>
  <2> DEFINE n == Taken(wpdu_.sz - wpdu_.solong)
  <2>1. /\ wpdu_.buf \in Bufs /\ wpdu_.sz = PduSz /\ wpdu_.solong \in 0 .. PduSz - 1
        /\ n \in 0 .. PduSz - wpdu_.solong /\ unacked + n \in 0 .. SockBuf
    BY <1>7, WritesPdu
  <2>2. /\ wpdu_' = [wpdu_ EXCEPT !.solong = wpdu_.solong + n] /\ unacked' = unacked + n
        /\ wire' = wire \o Units(wpdu_.buf, wpdu_.solong, n) /\ errno_again' = (errno_again \/ n = 0)
    BY <1>7
  <2> HIDE DEF n
  <2>3. wpdu_' \in [buf : {<<>>} \cup Bufs, sz : {0, PduSz}, solong : -1 .. PduSz]
    <3>1. wpdu_.solong + n \in -1 .. PduSz
      BY <2>1
    <3> QED BY <2>2, <3>1 DEF Types
  <2>4. wire' \in Seq(Bufs \X (1 .. PduSz))
    <3>1. wire \in Seq(Bufs \X (1 .. PduSz)) /\ n \in Nat /\ wpdu_.solong \in Nat /\ wpdu_.solong + n <= PduSz
      BY <2>1 DEF Types
    <3>2. Grown(wire', wire, wpdu_.buf, wpdu_.solong, n)
      BY <2>1, <2>2, <3>1, WireGrows
    <3> QED BY <3>2 DEF Grown
  <2>5. pc' \in [Callers -> PCs] /\ \A s \in Senders : pc'[s] # "idle" => nsent[s] > 0
    <3>1. CASE pc' = pc
      BY <3>1 DEF Types
    <3>2. CASE signal_send_complete
      BY <3>2, SignalTypes
    <3> QED BY <1>7, <3>1, <3>2
  <2>6. errno_again' \in BOOLEAN /\ unacked' \in 0 .. SockBuf
    BY <2>1, <2>2
  <2>7. UNCHANGED <<dead_, rpdu_, mgrVars, aborted>>
    BY <1>7
  <2> QED BY <1>1, <1>2, <2>3, <2>4, <2>5, <2>6, <2>7, SMTT(30) DEF Types, mgrVars
<1> QED BY <1>3, <1>4, <1>5, <1>6, <1>7 DEF write_cb

\* What readpdu reads when the length field is there: the units that follow
\* the ones read before, no more than have arrived and no more than the pdu.
LEMMA ReadFacts ==
  ASSUME Types, ~HeaderFails
  PROVE  /\ HdrLeft \in Nat /\ BodyRead \in Nat /\ consumed + HdrLeft + BodyRead <= arrived
         /\ ReadBuf \in [buf : Seq(Nat), sz : {0, PduSz}] /\ ReadBuf.sz = PduSz
         /\ Len(ReadBuf.buf) = Len(rpdu_.buf) + HdrLeft + BodyRead /\ Len(ReadBuf.buf) <= PduSz
         /\ \A k \in 1 .. Len(rpdu_.buf) : ReadBuf.buf[k] = rpdu_.buf[k]
         /\ \A k \in 1 .. HdrLeft + BodyRead : ReadBuf.buf[Len(rpdu_.buf) + k] = consumed + k
<1> USE Sizes
<1> DEFINE l == Len(rpdu_.buf)
           h == HdrLeft
           a == arrived - consumed - h
           c == PduSz - l - h
           m == Min({a, c})
<1>1. rpdu_.buf \in Seq(Nat) /\ l \in Nat /\ consumed \in Nat /\ arrived \in Nat
  BY DEF Types
<1>2. h \in Nat /\ a \in Nat /\ c \in Nat
  <2>1. CASE rpdu_.sz = 0
    BY <1>1, <2>1 DEF HdrLeft, HeaderFails, Types
  <2>2. CASE rpdu_.sz = PduSz
    BY <1>1, <2>2 DEF HdrLeft, HeaderFails, Types
  <2> QED BY <2>1, <2>2 DEF Types
<1>3. BodyRead = m
  BY DEF BodyRead
<1>4. a = arrived - consumed - h /\ c = PduSz - l - h
  OBVIOUS
<1>5. ReadBuf = [sz |-> PduSz, buf |-> rpdu_.buf \o [k \in 1 .. h + m |-> consumed + k]]
  BY <1>3 DEF ReadBuf
<1> HIDE DEF a, c, h
<1>6. m \in {a, c} /\ m <= a /\ m <= c
  <2>1. a \in Int /\ c \in Int
    BY <1>2
  <2> QED BY <2>1, MinOfTwo
<1> HIDE DEF m, l
<1>7. m \in Nat /\ consumed + h + m <= arrived /\ l + h + m <= PduSz /\ h + m \in Nat
  <2>1. m \in Nat
    BY <1>2, <1>6
  <2> QED BY <1>1, <1>2, <1>4, <1>6, <2>1
<1> DEFINE T == [k \in 1 .. h + m |-> consumed + k]
           B == rpdu_.buf \o T
<1>8. T \in [1 .. h + m -> Nat]
  BY <1>1
<1>9. \A k \in 1 .. h + m : T[k] = consumed + k
  OBVIOUS
<1> HIDE DEF T
<1>10. T \in Seq(Nat) /\ Len(T) = h + m
  BY <1>7, <1>8
<1>11. B \in Seq(Nat) /\ Len(B) = l + (h + m) /\ \A k \in 1 .. l : B[k] = rpdu_.buf[k]
  BY <1>1, <1>10 DEF l
<1>12. \A k \in 1 .. h + m : B[l + k] = T[k]
  BY <1>1, <1>10 DEF l
<1>13. ReadBuf = [sz |-> PduSz, buf |-> B]
  BY <1>5 DEF T
<1> HIDE DEF B
<1>14. ReadBuf.sz = PduSz /\ ReadBuf.buf = B /\ ReadBuf \in [buf : Seq(Nat), sz : {0, PduSz}]
  BY <1>11, <1>13
<1>15. \A k \in 1 .. h + m : B[l + k] = consumed + k
  BY <1>9, <1>12
<1>16. Len(B) = l + h + m
  BY <1>1, <1>2, <1>7, <1>11
<1> QED BY <1>2, <1>3, <1>7, <1>11, <1>14, <1>15, <1>16 DEF h, l

\* What offering a buffer to got_pdu does to types.
LEMMA OfferTypes ==
  ASSUME Types, NEW r \in [buf : Seq(Nat), sz : {0, PduSz}], Len(r.buf) <= r.sz, Offer(r)
  PROVE  /\ rpdu_' \in [buf : Seq(Nat), sz : {0, PduSz}] /\ Len(rpdu_'.buf) <= rpdu_'.sz
         /\ delivered' \in Seq(Seq(Nat)) /\ refusals' \in 0 .. MaxRefusals
<1> USE Sizes
<1>1. delivered \in Seq(Seq(Nat)) /\ refusals \in 0 .. MaxRefusals /\ r.buf \in Seq(Nat)
  BY DEF Types
<1>2. rpdu_' = r \/ rpdu_' = NoR
  BY DEF Offer, Refused
<1>3. NoR \in [buf : Seq(Nat), sz : {0, PduSz}] /\ Len(NoR.buf) <= NoR.sz
  BY DEF NoR
<1>4. delivered' = delivered \/ delivered' = Append(delivered, r.buf)
  BY DEF Offer
<1>5. delivered' \in Seq(Seq(Nat))
  BY <1>1, <1>4, SMTT(30)
<1>6. refusals' = refusals \/ (refusals < MaxRefusals /\ refusals' = refusals + 1)
  BY DEF Offer
<1>7. refusals' \in 0 .. MaxRefusals
  BY <1>1, <1>6
<1> QED BY <1>2, <1>3, <1>5, <1>7

\* read_cb.
LEMMA TypesReadCb ==
  ASSUME Types, read_cb
  PROVE  Types'
<1> USE Sizes
<1>1. poll' \in [at : Places, r : BOOLEAN, w : BOOLEAN]
  BY DEF read_cb, Types, Places
<1>2. UNCHANGED <<nsent, ret, shut, peer, arrived, unacked, aborted, wire, removed>>
  BY DEF read_cb
<1>3. CASE UNCHANGED <<connVars, mgrVars, errno_again, pc, consumed, delivered, refusals>>
  BY <1>1, <1>2, <1>3 DEF Types, connVars, mgrVars
<1>4. CASE Offer(rpdu_) /\ UNCHANGED <<dead_, wpdu_, mgrVars, errno_again, pc, consumed>>
  <2>1. rpdu_ \in [buf : Seq(Nat), sz : {0, PduSz}] /\ Len(rpdu_.buf) <= rpdu_.sz
    BY DEF Types
  <2>2. /\ rpdu_' \in [buf : Seq(Nat), sz : {0, PduSz}] /\ Len(rpdu_'.buf) <= rpdu_'.sz
        /\ delivered' \in Seq(Seq(Nat)) /\ refusals' \in 0 .. MaxRefusals
    BY <1>4, <2>1, OfferTypes
  <2> QED BY <1>1, <1>2, <1>4, <2>2 DEF Types, mgrVars
<1>5. CASE readpdu_fails /\ dies /\ UNCHANGED <<wpdu_, delivered, refusals>>
  <2>1. /\ dead_' = TRUE /\ rfds_' = FALSE /\ wfds_' = FALSE /\ callbacks_' = FALSE
        /\ pending_change_' = pending_change_ /\ pipefd_' \in Nat
        /\ pc' \in [Callers -> PCs] /\ \A s \in Senders : pc'[s] # "idle" => nsent[s] > 0
    BY <1>5, DiesTypes
  <2>2. rpdu_' \in [buf : Seq(Nat), sz : {0, PduSz}] /\ Len(rpdu_'.buf) <= rpdu_'.sz
    BY <1>5 DEF readpdu_fails, NoR
  <2>3. errno_again' \in BOOLEAN
    BY <1>5 DEF readpdu_fails, Types
  <2>4. consumed' \in Nat /\ consumed' <= arrived
    <3>1. consumed \in Nat /\ arrived \in Nat /\ consumed <= arrived /\ consumed + HdrSz \in Int
      BY DEF Types
    <3>2. CASE consumed' = Min({arrived, consumed + HdrSz})
      <4> DEFINE e == consumed + HdrSz
      <4>1. e \in Int /\ e >= 0
        BY <3>1
      <4> HIDE DEF e
      <4>2. Min({arrived, e}) \in {arrived, e} /\ Min({arrived, e}) <= arrived
        BY <3>1, <4>1, MinOfTwo
      <4>3. consumed' = Min({arrived, e})
        BY <3>2 DEF e
      <4> QED BY <3>1, <4>1, <4>2, <4>3
    <3>3. CASE ~HeaderFails /\ consumed' = consumed + HdrLeft
      <4>1. HdrLeft \in Nat /\ BodyRead \in Nat /\ consumed + HdrLeft + BodyRead <= arrived
        BY <3>3, ReadFacts
      <4> QED BY <3>1, <3>3, <4>1
    <3> QED BY <1>5, <3>2, <3>3 DEF readpdu_fails
  <2> QED BY <1>1, <1>2, <1>5, <2>1, <2>2, <2>3, <2>4 DEF Types
<1>6. CASE readpdu_ok /\ Offer(ReadBuf) /\ UNCHANGED <<dead_, wpdu_, mgrVars, pc>>
  <2>1. ~HeaderFails
    BY <1>6 DEF readpdu_ok
  <2>2. /\ HdrLeft \in Nat /\ BodyRead \in Nat /\ consumed + HdrLeft + BodyRead <= arrived
        /\ ReadBuf \in [buf : Seq(Nat), sz : {0, PduSz}] /\ ReadBuf.sz = PduSz
        /\ Len(ReadBuf.buf) <= PduSz
    BY <2>1, ReadFacts
  <2>3. /\ rpdu_' \in [buf : Seq(Nat), sz : {0, PduSz}] /\ Len(rpdu_'.buf) <= rpdu_'.sz
        /\ delivered' \in Seq(Seq(Nat)) /\ refusals' \in 0 .. MaxRefusals
    BY <1>6, <2>2, OfferTypes
  <2>4. consumed' \in Nat /\ consumed' <= arrived
    BY <1>6, <2>2 DEF readpdu_ok, Types
  <2>5. errno_again' \in BOOLEAN
    BY <1>6 DEF readpdu_ok, Types
  <2> QED BY <1>1, <1>2, <1>6, <2>3, <2>4, <2>5 DEF Types, mgrVars
<1> QED BY <1>3, <1>4, <1>5, <1>6 DEF read_cb

\* The peer and the network.
LEMMA TypesEnv ==
  ASSUME Types, Env
  PROVE  Types'
<1> USE Sizes
<1>1. envOnly
  BY DEF Env, arrive, drain, peer_closes, peer_resets
<1>2. /\ peer' \in {"up", "closed", "reset"}
      /\ arrived' = arrived \/ (arrived < MaxIn /\ arrived' = arrived + 1)
      /\ unacked' = unacked \/ unacked' = 0
  BY DEF Env, arrive, drain, peer_closes, peer_resets, Types
<1>3. arrived' \in Nat /\ consumed <= arrived' /\ arrived' <= MaxIn /\ unacked' \in 0 .. SockBuf
  BY <1>2 DEF Types
<1> QED BY <1>1, <1>2, <1>3 DEF Types, envOnly, connVars, mgrVars, callVars, histVars

\* Every step keeps the types.
LEMMA TypesStep ==
  ASSUME Types, Position, [Next]_vars
  PROVE  Types'
<1>1. CASE UNCHANGED vars
  BY <1>1 DEF vars, connVars, mgrVars, callVars, sockVars, histVars, Types
<1>2. ASSUME NEW s \in Senders, Send(s) PROVE Types'
  BY <1>2, TypesEnter, TypesWrite, TypesReturn DEF Send
<1>3. ASSUME NEW t \in Callers, Remove(t) PROVE Types'
  BY <1>3, TypesRemove
<1>4. ASSUME NEW t \in Callers, spurious_wakeup(t) PROVE Types'
  BY <1>4, TypesSpurious
<1>5. CASE Poll
  BY <1>5, TypesPoll, TypesReadCb, TypesWriteCb DEF Poll
<1> QED BY <1>1, <1>2, <1>3, <1>4, <1>5, TypesClose, TypesEnv DEF Next

-----------------------------------------------------------------------------
(* The poll thread and block_remove_fd.                                    *)

LeavingStates == {"remove", "removing", "changedone", "early", "relock"}

\* Where a thread has seen input it stays there until read_cb takes it.
SeenInput == poll.at = "read_cb" \/ (poll.at = "readable" /\ poll.r) => Readable

\* The poll thread stays where it is or finishes a callback.
Returns == \/ poll' = poll \/ poll'.at = "top"
           \/ poll.at = "read_cb" /\ poll'.at = "writable"

\* A step that neither starts nor ends a removal, and watches nothing new.
LEMMA RemovalKept ==
  ASSUME Types, Removal, dead_' = dead_, removed' = removed, Returns, SeenInput',
         rfds_' => rfds_, wfds_' => wfds_, pending_change_' = pending_change_,
         \A t \in Callers : pc'[t] \in LeavingStates => pc'[t] = pc[t]
  PROVE  Removal'
<1>1. \A t \in Callers : pc'[t] \in LeavingStates => dead_'
  BY DEF Removal, LeavingStates
<1>2. Unwatched => Unwatched'
  BY DEF Unwatched
<1>3. \A t \in Callers : pc'[t] \in {"removing", "changedone", "early"} => Unwatched'
  BY <1>2 DEF Removal, LeavingStates
<1>4. Quiet => Quiet'
  BY DEF Quiet, Returns
<1>5. removed' \/ Answered' => dead_' /\ Unwatched' /\ Quiet'
  <2>1. Answered' => Answered
    BY DEF Answered, LeavingStates
  <2> QED BY <1>2, <1>4, <2>1 DEF Removal
<1>6. \A t \in Callers : pc'[t] = "removing" => pending_change_'
  BY DEF Removal, LeavingStates
<1>7. pending_change_' => dead_' /\ Unwatched'
  BY <1>2 DEF Removal
<1> QED BY <1>1, <1>3, <1>5, <1>6, <1>7 DEF Removal, LeavingStates, SeenInput

\* While the connection lives nobody removes it.
LEMMA AliveFacts ==
  ASSUME Removal, ~dead_
  PROVE  ~removed /\ ~pending_change_ /\ \A t \in Callers : pc[t] \notin LeavingStates
BY DEF Removal, LeavingStates

\* While the connection lives there is no removal to account for.
LEMMA RemovalAlive ==
  ASSUME Removal, ~dead_, ~dead_', removed' = removed, pending_change_' = pending_change_,
         SeenInput', \A t \in Callers : pc'[t] \notin LeavingStates
  PROVE  Removal'
<1>1. ~removed' /\ ~pending_change_'
  BY AliveFacts
<1> QED BY <1>1 DEF Removal, Answered, LeavingStates, SeenInput

\* A callback that declares the connection dead has unregistered it.
LEMMA RemovalDies ==
  ASSUME Types, Removal, ~dead_, dies, removed' = removed, poll'.at \in {"top", "writable"}
  PROVE  Removal'
<1>1. /\ dead_' = TRUE /\ rfds_' = FALSE /\ wfds_' = FALSE /\ pending_change_' = pending_change_
  BY DiesTypes
<1>2. ~removed' /\ ~pending_change_ /\ \A t \in Callers : pc[t] \notin LeavingStates
  BY AliveFacts
<1>3. \A t \in Callers : pc'[t] \notin LeavingStates
  <2>1. signal_send_complete
    BY DEF dies
  <2>2. /\ \A t \in Callers : pc[t] # "blocked" => pc'[t] = pc[t]
        /\ \A t \in Callers : pc[t] = "blocked" => pc'[t] = "signalled"
    BY <2>1, SignalTypes
  <2> QED BY <1>2, <2>2 DEF LeavingStates
<1> QED BY <1>1, <1>2, <1>3 DEF Removal, Answered, LeavingStates

\* send() waits for its turn, or finds the connection dead.
LEMMA RemovalEnter ==
  ASSUME Types, Removal, NEW s \in Senders, send_wait(s) \/ send_dead(s)
  PROVE  Removal'
<1>1. UNCHANGED <<connVars, mgrVars, poll, sockVars, removed>>
  BY DEF send_wait, send_dead, histVars
<1>2. pc' = [pc EXCEPT ![s] = "wait"] \/ pc' = [pc EXCEPT ![s] = "idle"]
  BY DEF send_wait, send_dead
<1>3. pc \in [Callers -> PCs] /\ s \in Callers /\ pc[s] \in {"idle", "woken"}
  BY Sizes DEF Types, send_wait, send_dead, Enters
<1>4. \A t \in Callers : pc'[t] \in LeavingStates => pc'[t] = pc[t]
  BY <1>2, <1>3 DEF LeavingStates
<1>5. SeenInput'
  BY <1>1 DEF Removal, SeenInput, Readable, Ended, sockVars
<1>6. Returns
  BY <1>1 DEF Returns
<1> QED BY <1>1, <1>4, <1>5, <1>6, RemovalKept DEF connVars, mgrVars

\* send() returns.
LEMMA RemovalReturn ==
  ASSUME Types, Removal, NEW s \in Senders, send_return(s)
  PROVE  Removal'
<1>1. UNCHANGED <<dead_, mgrVars, poll, sockVars, removed>>
  BY DEF send_return, histVars
<1>2. pc \in [Callers -> PCs] /\ s \in Callers /\ pc[s] \in {"signalled", "relock"}
  BY Sizes DEF Types, send_return
<1>3. \A t \in Callers : pc'[t] \in LeavingStates => pc'[t] = pc[t]
  <2>1. CASE pc' = [pc EXCEPT ![s] = "blocked"]
    BY <1>2, <2>1 DEF LeavingStates
  <2>2. CASE pc' = [t \in Callers |-> IF t = s THEN "idle" ELSE IF pc[t] = "wait" THEN "woken" ELSE pc[t]]
    BY <1>2, <2>2 DEF LeavingStates
  <2> QED BY <2>1, <2>2 DEF send_return, Leave
<1>5. SeenInput'
  BY <1>1 DEF Removal, SeenInput, Readable, Ended, sockVars
<1>6. Returns
  BY <1>1 DEF Returns
<1> QED BY <1>1, <1>3, <1>5, <1>6, RemovalKept DEF mgrVars

\* send() may find the socket broken, and then starts a removal.
LEMMA RemovalWrite ==
  ASSUME Types, Removal, NEW s \in Senders, send_write(s)
  PROVE  Removal'
<1>1. ~dead_ /\ UNCHANGED <<poll, removed, pending_change_, shut, peer, arrived, consumed>>
  BY DEF send_write, mgrVars, add_callback_WRONLY
<1>2. pc \in [Callers -> PCs] /\ s \in Callers
  BY Sizes DEF Types
<1>3. ~removed' /\ ~pending_change_' /\ \A t \in Callers : pc[t] \notin LeavingStates
  BY <1>1, AliveFacts
<1>4. SeenInput'
  BY <1>1 DEF Removal, SeenInput, Readable, Ended
<1>5. CASE dead_' = TRUE /\ pc' = [pc EXCEPT ![s] = "remove"]
  BY <1>2, <1>3, <1>4, <1>5 DEF Removal, Answered, LeavingStates, SeenInput
<1>6. CASE dead_' = dead_ /\ Leave(s, TRUE, pc)
  <2>1. \A t \in Callers : pc'[t] \notin LeavingStates
    BY <1>2, <1>3, <1>6 DEF Leave, LeavingStates
  <2> QED BY <1>1, <1>4, <1>6, <2>1, RemovalAlive
<1>7. CASE dead_' = dead_ /\ pc' = [pc EXCEPT ![s] = "blocked"]
  <2>1. \A t \in Callers : pc'[t] \notin LeavingStates
    BY <1>2, <1>3, <1>7 DEF LeavingStates
  <2> QED BY <1>1, <1>4, <1>7, <2>1, RemovalAlive
<1> QED BY <1>5, <1>6, <1>7 DEF send_write

\* closeconn starts a removal.
LEMMA RemovalClose ==
  ASSUME Types, Removal, closeconn
  PROVE  Removal'
<1>1. UNCHANGED <<mgrVars, poll, peer, arrived, consumed, removed>> /\ (shut => shut') /\ dead_' = TRUE
  BY DEF closeconn, histVars
<1>2. pc \in [Callers -> PCs] /\ Closer \in Callers /\ pc[Closer] = "idle"
  BY Sizes DEF Types, closeconn
<1>3. SeenInput'
  BY <1>1 DEF Removal, SeenInput, Readable, Ended
<1>4. CASE dead_
  <2>1. pc' = [pc EXCEPT ![Closer] = "done"]
    BY <1>4 DEF closeconn
  <2>2. \A t \in Callers : pc'[t] \in LeavingStates => pc'[t] = pc[t]
    BY <1>2, <2>1 DEF LeavingStates
  <2>3. Returns /\ dead_' = dead_
    BY <1>1, <1>4 DEF Returns, Types
  <2> QED BY <1>1, <1>3, <2>2, <2>3, RemovalKept DEF mgrVars
<1>5. CASE ~dead_
  <2>1. pc' = [pc EXCEPT ![Closer] = "remove"]
    BY <1>5 DEF closeconn
  <2>2. ~removed' /\ ~pending_change_' /\ \A t \in Callers : pc[t] \notin LeavingStates
    BY <1>1, <1>5, AliveFacts DEF mgrVars
  <2> QED BY <1>1, <1>2, <1>3, <2>1, <2>2 DEF Removal, Answered, LeavingStates, SeenInput
<1> QED BY <1>4, <1>5

\* The two halves of block_remove_fd.
LEMMA RemovalRemove ==
  ASSUME Types, Removal, NEW t \in Callers, Remove(t)
  PROVE  Removal'
<1>1. UNCHANGED <<dead_, poll, sockVars>>
  BY DEF Remove, block_remove_fd, block_remove_fd_return, connVars
<1>2. pc \in [Callers -> PCs]
  BY DEF Types
<1>3. SeenInput'
  BY <1>1 DEF Removal, SeenInput, Readable, Ended, sockVars
<1>4. CASE block_remove_fd(t)
  <2>1. /\ pc[t] = "remove" /\ pc' = [pc EXCEPT ![t] = "removing"]
        /\ Unwatched' /\ removed' = removed /\ pending_change_' = TRUE
    BY <1>4 DEF block_remove_fd, unwatch_RDWR, Unwatched, histVars, ChangeWait
  <2>2. dead_
    BY <2>1 DEF Removal
  <2>3. Quiet' = Quiet
    BY <1>1 DEF Quiet
  <2>4. removed' \/ Answered' => dead_' /\ Unwatched' /\ Quiet'
    BY <1>1, <2>1, <2>2, <2>3 DEF Removal, Answered
  <2> QED BY <1>1, <1>3, <2>1, <2>2, <2>4 DEF Removal, SeenInput
<1>5. CASE block_remove_fd_return(t)
  <2>1. /\ pc[t] \in {"changedone", "early"} /\ UNCHANGED <<rfds_, wfds_, pending_change_>>
        /\ pc' = [pc EXCEPT ![t] = IF t = Closer THEN "done" ELSE "relock"]
        /\ removed' = (removed \/ pc[t] = "changedone" \/ ~pending_change_)
    BY <1>5 DEF block_remove_fd_return
  <2>2. dead_ /\ Unwatched /\ (removed \/ pc[t] = "changedone" \/ ~pending_change_ => Quiet)
    BY <2>1 DEF Removal, Answered
  <2>3. dead_' /\ Unwatched' /\ (removed' \/ Answered' => Quiet')
    <3>1. Answered' => Answered
      BY <1>2, <2>1 DEF Answered
    <3> QED BY <1>1, <2>1, <2>2, <3>1 DEF Unwatched, Quiet, Removal
  <2>4. \A u \in Callers : pc'[u] = "removing" => pending_change_'
    BY <1>2, <2>1 DEF Removal
  <2> QED BY <1>3, <2>3, <2>4 DEF Removal, SeenInput
<1> QED BY <1>4, <1>5 DEF Remove

\* A thread that wakes before it is answered is not answered.
LEMMA RemovalSpurious ==
  ASSUME Types, Removal, NEW t \in Callers, spurious_wakeup(t)
  PROVE  Removal'
<1>1. /\ pc[t] = "removing" /\ pc' = [pc EXCEPT ![t] = "early"]
      /\ UNCHANGED <<dead_, mgrVars, poll, sockVars, removed>>
  BY DEF spurious_wakeup, connVars, histVars
<1>2. pc \in [Callers -> PCs]
  BY DEF Types
<1>3. dead_' /\ Unwatched' /\ pending_change_'
  BY <1>1 DEF Removal, Unwatched, mgrVars
<1>4. Quiet' = Quiet /\ (Answered' => Answered)
  BY <1>1, <1>2, <1>3 DEF Quiet, Answered, mgrVars
<1>5. SeenInput'
  BY <1>1 DEF Removal, SeenInput, Readable, Ended, sockVars
<1> QED BY <1>1, <1>3, <1>4, <1>5 DEF Removal, SeenInput

\* The poll thread starts a round, with the descriptors left to watch.
LEMMA RemovalTop ==
  ASSUME Types, Removal, wait_loop_top
  PROVE  Removal'
<1>1. UNCHANGED <<dead_, rfds_, wfds_>> /\ poll'.at = "copy" /\ pending_change_' = FALSE
  BY DEF wait_loop_top, connVars, Types
<1>2. \A t \in Callers : pc'[t] = IF pending_change_ /\ pc[t] = "removing" THEN "changedone" ELSE pc[t]
  BY DEF wait_loop_top
<1>3. Quiet' /\ Unwatched' = Unwatched
  BY <1>1 DEF Quiet, Unwatched
<1>4. \A t \in Callers : pc'[t] \in LeavingStates => dead_'
  BY <1>1, <1>2 DEF Removal, LeavingStates
<1>5. \A t \in Callers : pc'[t] \in {"removing", "changedone", "early"} => dead_' /\ Unwatched'
  BY <1>2, <1>3, <1>4 DEF Removal, LeavingStates
<1>6. \A t \in Callers : pc'[t] # "removing"
  BY <1>2 DEF Removal
<1>7. removed' => dead_' /\ Unwatched'
  <2>1. removed' => removed \/ pending_change_
    BY DEF wait_loop_top
  <2> QED BY <1>1, <1>3, <2>1 DEF Removal
<1> QED BY <1>1, <1>3, <1>4, <1>5, <1>6, <1>7 DEF Removal, Answered, LeavingStates

\* Select and the two loops: the poll thread gets a callback only for what
\* it copied, and only when an object is registered.
LEMMA RemovalLoop ==
  ASSUME Types, Removal,
         wait_ready_copy \/ wait_ready_select \/ wait_loop_readable \/ wait_loop_writable
  PROVE  Removal'
<1>1. UNCHANGED <<dead_, rfds_, wfds_, pending_change_, pc, sockVars, removed>>
  BY DEF wait_ready_copy, wait_ready_select, wait_loop_readable, wait_loop_writable, pollOnly,
         connVars, callVars, histVars
<1>2. poll \in [at : Places, r : BOOLEAN, w : BOOLEAN]
  BY DEF Types
<1>3. Quiet /\ Unwatched => Quiet'
  <2>1. CASE wait_ready_copy
    BY <1>2, <2>1 DEF wait_ready_copy, Quiet, Unwatched
  <2>2. CASE wait_ready_select
    BY <1>2, <2>2 DEF wait_ready_select, Quiet, Unwatched
  <2>3. CASE wait_loop_readable
    BY <1>2, <2>3 DEF wait_loop_readable, Quiet, Unwatched
  <2>4. CASE wait_loop_writable
    BY <1>2, <2>4 DEF wait_loop_writable, Quiet, Unwatched
  <2> QED BY <2>1, <2>2, <2>3, <2>4
<1>5. SeenInput'
  <2>1. Readable' = Readable
    BY <1>1 DEF Readable, Ended, sockVars
  <2>2. CASE wait_ready_copy
    BY <1>2, <2>2 DEF wait_ready_copy, SeenInput
  <2>3. CASE wait_ready_select
    BY <1>2, <2>1, <2>3 DEF wait_ready_select, SeenInput
  <2>4. CASE wait_loop_readable
    BY <1>2, <2>1, <2>4 DEF wait_loop_readable, SeenInput, Removal
  <2>5. CASE wait_loop_writable
    BY <1>2, <2>5 DEF wait_loop_writable, SeenInput
  <2> QED BY <2>2, <2>3, <2>4, <2>5
<1>6. Unwatched' = Unwatched
  BY <1>1 DEF Unwatched
<1>7. removed' \/ Answered' => dead_' /\ Unwatched' /\ Quiet'
  BY <1>1, <1>3, <1>6 DEF Removal, Answered
<1> QED BY <1>1, <1>5, <1>6, <1>7 DEF Removal, SeenInput

\* write_cb.
LEMMA RemovalWriteCb ==
  ASSUME Types, Removal, write_cb
  PROVE  Removal'
<1>1. poll'.at = "top" /\ removed' = removed
  BY DEF write_cb, Types
<1>2. SeenInput' /\ Returns
  BY <1>1 DEF SeenInput, Returns
<1>3. pc \in [Callers -> PCs]
  BY DEF Types
<1>4. CASE dead_' = dead_ /\ UNCHANGED mgrVars /\ pc' = pc
  BY <1>1, <1>2, <1>3, <1>4, RemovalKept DEF mgrVars
<1>5. CASE dead_' = dead_ /\ del_callback_WRONLY /\ pc' = pc
  BY <1>1, <1>2, <1>3, <1>5, RemovalKept DEF del_callback_WRONLY
<1>6. CASE dead_' = dead_ /\ UNCHANGED mgrVars /\ signal_send_complete
  <2>1. /\ \A t \in Callers : pc[t] # "blocked" => pc'[t] = pc[t]
        /\ \A t \in Callers : pc[t] = "blocked" => pc'[t] = "signalled"
    BY <1>6, SignalTypes
  <2>2. \A t \in Callers : pc'[t] \in LeavingStates => pc'[t] = pc[t]
    BY <2>1 DEF LeavingStates
  <2> QED BY <1>1, <1>2, <1>6, <2>2, RemovalKept DEF mgrVars
<1>7. CASE ~dead_ /\ dies
  BY <1>1, <1>7, RemovalDies
<1> QED BY <1>4, <1>5, <1>6, <1>7 DEF write_cb, connVars

\* read_cb.
LEMMA RemovalReadCb ==
  ASSUME Types, Removal, read_cb
  PROVE  Removal'
<1>1. poll.at = "read_cb" /\ poll'.at = "writable" /\ removed' = removed
  BY DEF read_cb, Types
<1>2. SeenInput' /\ Returns
  BY <1>1 DEF SeenInput, Returns
<1>3. CASE dead_' = dead_ /\ UNCHANGED mgrVars /\ pc' = pc
  BY <1>1, <1>2, <1>3, RemovalKept DEF mgrVars
<1>4. CASE ~dead_ /\ dies
  BY <1>1, <1>4, RemovalDies
<1> QED BY <1>3, <1>4 DEF read_cb, connVars

\* What the peer does takes no input away.
LEMMA RemovalEnv ==
  ASSUME Types, Removal, Env
  PROVE  Removal'
<1>1. envOnly /\ (arrived' = arrived \/ arrived' = arrived + 1) /\ (peer # "up" => peer' # "up")
  BY DEF Env, arrive, drain, peer_closes, peer_resets
<1>2. UNCHANGED <<dead_, mgrVars, poll, pc, shut, consumed, removed>>
  BY <1>1 DEF envOnly, connVars, callVars, histVars
<1>3. SeenInput'
  BY <1>1, <1>2 DEF Removal, SeenInput, Readable, Ended, Types
<1>4. Returns
  BY <1>2 DEF Returns
<1> QED BY <1>2, <1>3, <1>4, RemovalKept DEF mgrVars

\* Every step keeps the account of removals.
LEMMA RemovalStep ==
  ASSUME Types, Removal, [Next]_vars
  PROVE  Removal'
<1>1. CASE UNCHANGED vars
  BY <1>1 DEF vars, connVars, mgrVars, callVars, sockVars, histVars, Removal, Answered, Unwatched,
              Quiet, Readable, Ended
<1>2. ASSUME NEW s \in Senders, Send(s) PROVE Removal'
  BY <1>2, RemovalEnter, RemovalWrite, RemovalReturn DEF Send
<1>3. ASSUME NEW t \in Callers, Remove(t) PROVE Removal'
  BY <1>3, RemovalRemove
<1>4. ASSUME NEW t \in Callers, spurious_wakeup(t) PROVE Removal'
  BY <1>4, RemovalSpurious
<1>5. CASE Poll
  BY <1>5, RemovalTop, RemovalLoop, RemovalReadCb, RemovalWriteCb DEF Poll
<1> QED BY <1>1, <1>2, <1>3, <1>4, <1>5, RemovalClose, RemovalEnv DEF Next

-----------------------------------------------------------------------------
(* What comes in.                                                          *)

\* One pdu more.
LEMMA OneMore ==
  ASSUME NEW n \in Nat, NEW p \in Nat
  PROVE  n * p \in Nat /\ (n + 1) * p = n * p + p /\ (n + 1) - 1 = n
OBVIOUS

\* Offering the buffer r keeps the account of what was read, and what is
\* accepted is the next pdu.
LEMMA OfferInput ==
  ASSUME Types, DeliveredInOrder, NEW c \in Nat,
         NEW r \in [buf : Seq(Nat), sz : {0, PduSz}], Len(r.buf) <= r.sz, Offer(r),
         c = Len(delivered) * PduSz + Len(r.buf),
         \A k \in 1 .. Len(r.buf) : r.buf[k] = Len(delivered) * PduSz + k
  PROVE  /\ c = Len(delivered') * PduSz + Len(rpdu_'.buf)
         /\ \A k \in 1 .. Len(rpdu_'.buf) : rpdu_'.buf[k] = Len(delivered') * PduSz + k
         /\ DeliveredInOrder'
<1> USE Sizes
<1>1. delivered \in Seq(Seq(Nat)) /\ r.buf \in Seq(Nat) /\ Len(delivered) \in Nat
  BY DEF Types
<1>2. CASE rpdu_' = r /\ delivered' = delivered
  BY <1>2 DEF DeliveredInOrder
<1>3. CASE Full(r) /\ rpdu_' = NoR /\ delivered' = Append(delivered, r.buf)
  <2> DEFINE l == Len(delivered)
             pdu == [k \in 1 .. PduSz |-> l * PduSz + k]
  <2>1. Len(r.buf) = PduSz
    BY <1>3 DEF Full
  <2>2. r.buf = pdu
    BY <1>1, <2>1
  <2>3. Len(delivered') = l + 1 /\ delivered'[l + 1] = r.buf /\ DOMAIN delivered' = 1 .. l + 1
        /\ \A i \in 1 .. l : delivered'[i] = delivered[i]
    BY <1>1, <1>3
  <2>4. Len(rpdu_'.buf) = 0
    BY <1>3 DEF NoR
  <2>5. l * PduSz \in Nat /\ (l + 1) * PduSz = l * PduSz + PduSz /\ (l + 1) - 1 = l
    BY <1>1, OneMore
  <2>6. ASSUME NEW i \in 1 .. l + 1
        PROVE  delivered'[i] = [k \in 1 .. PduSz |-> (i - 1) * PduSz + k]
    <3>1. CASE i \in 1 .. l
      <4>1. i \in DOMAIN delivered
        BY <1>1, <3>1
      <4> QED BY <2>3, <3>1, <4>1 DEF DeliveredInOrder
    <3>2. CASE i = l + 1
      <4>1. pdu = [k \in 1 .. PduSz |-> ((l + 1) - 1) * PduSz + k]
        BY <2>5
      <4> QED BY <2>2, <2>3, <3>2, <4>1
    <3> QED BY <1>1, <2>6, <3>1, <3>2
  <2>7. DeliveredInOrder'
    BY <2>3, <2>6 DEF DeliveredInOrder
  <2>8. c = l * PduSz + PduSz
    BY <2>1
  <2>9. c = Len(delivered') * PduSz + Len(rpdu_'.buf)
    <3>1. Len(delivered') * PduSz = l * PduSz + PduSz
      BY <2>3, <2>5
    <3> QED BY <2>4, <2>5, <2>8, <3>1
  <2>10. 1 .. Len(rpdu_'.buf) = {}
    BY <2>4
  <2> QED BY <2>7, <2>9, <2>10
<1> QED BY <1>2, <1>3 DEF Offer, Refused

\* read_cb keeps the account of what was read.
LEMMA InputReadCb ==
  ASSUME Types, Input, read_cb
  PROVE  Input'
<1> USE Sizes
<1>1. CASE UNCHANGED <<connVars, consumed, delivered>>
  BY <1>1 DEF Input, Reading, DeliveredInOrder, connVars
<1>2. CASE dies /\ UNCHANGED delivered
  BY <1>2 DEF dies, Input, Reading, DeliveredInOrder
<1>3. CASE ~dead_ /\ Offer(rpdu_) /\ UNCHANGED <<dead_, consumed>>
  <2>1. rpdu_ \in [buf : Seq(Nat), sz : {0, PduSz}] /\ Len(rpdu_.buf) <= rpdu_.sz /\ consumed \in Nat
    BY DEF Types
  <2>2. /\ consumed = Len(delivered) * PduSz + Len(rpdu_.buf)
        /\ \A k \in 1 .. Len(rpdu_.buf) : rpdu_.buf[k] = Len(delivered) * PduSz + k
    BY <1>3 DEF Input, Reading
  <2>3. /\ consumed = Len(delivered') * PduSz + Len(rpdu_'.buf)
        /\ \A k \in 1 .. Len(rpdu_'.buf) : rpdu_'.buf[k] = Len(delivered') * PduSz + k
        /\ DeliveredInOrder'
    BY <1>3, <2>1, <2>2, OfferInput DEF Input
  <2> QED BY <1>3, <2>3 DEF Input, Reading
<1>4. CASE ~dead_ /\ readpdu_ok /\ Offer(ReadBuf) /\ UNCHANGED dead_
  <2> DEFINE l == Len(rpdu_.buf)
             m == HdrLeft + BodyRead
             base == Len(delivered) * PduSz
  <2>1. ~HeaderFails /\ consumed' = consumed + HdrLeft + BodyRead
    BY <1>4 DEF readpdu_ok
  <2>2. /\ HdrLeft \in Nat /\ BodyRead \in Nat
        /\ ReadBuf \in [buf : Seq(Nat), sz : {0, PduSz}] /\ ReadBuf.sz = PduSz
        /\ Len(ReadBuf.buf) = l + HdrLeft + BodyRead /\ Len(ReadBuf.buf) <= PduSz
        /\ \A k \in 1 .. l : ReadBuf.buf[k] = rpdu_.buf[k]
        /\ \A k \in 1 .. m : ReadBuf.buf[l + k] = consumed + k
    BY <2>1, ReadFacts
  <2>3. /\ consumed = base + l /\ consumed \in Nat /\ l \in Nat /\ base \in Nat
        /\ \A k \in 1 .. l : rpdu_.buf[k] = base + k
    <3>1. Len(delivered) \in Nat /\ l \in Nat /\ consumed \in Nat
      BY DEF Types
    <3>2. base \in Nat
      BY <3>1, OneMore
    <3> QED BY <1>4, <3>1, <3>2 DEF Input, Reading
  <2> HIDE DEF base, l
  <2>4. consumed' = base + Len(ReadBuf.buf) /\ consumed' \in Nat /\ Len(ReadBuf.buf) = l + m /\ m \in Nat
    BY <2>1, <2>2, <2>3
  <2> HIDE DEF m
  <2>5. \A k \in 1 .. Len(ReadBuf.buf) : ReadBuf.buf[k] = base + k
    <3> TAKE k \in 1 .. Len(ReadBuf.buf)
    <3>1. CASE k \in 1 .. l
      BY <2>2, <2>3, <3>1
    <3>2. CASE k > l
      <4>1. k - l \in 1 .. m /\ l + (k - l) = k
        BY <2>3, <2>4, <3>2
      <4>2. ReadBuf.buf[l + (k - l)] = consumed + (k - l)
        BY <2>2, <4>1
      <4>3. consumed + (k - l) = base + k
        BY <2>3, <2>4
      <4> QED BY <4>1, <4>2, <4>3
    <3> QED BY <2>3, <2>4, <3>1, <3>2
  <2>6. Len(ReadBuf.buf) <= ReadBuf.sz
    BY <2>2
  <2>7. /\ consumed' = Len(delivered) * PduSz + Len(ReadBuf.buf)
        /\ \A k \in 1 .. Len(ReadBuf.buf) : ReadBuf.buf[k] = Len(delivered) * PduSz + k
    BY <2>4, <2>5 DEF base
  <2>8. DeliveredInOrder /\ Offer(ReadBuf)
    BY <1>4 DEF Input
  <2>9. /\ consumed' = Len(delivered') * PduSz + Len(rpdu_'.buf)
        /\ \A k \in 1 .. Len(rpdu_'.buf) : rpdu_'.buf[k] = Len(delivered') * PduSz + k
        /\ DeliveredInOrder'
    BY <2>2, <2>4, <2>6, <2>7, <2>8, OfferInput
  <2> QED BY <1>4, <2>9 DEF Input, Reading
<1> QED BY <1>1, <1>2, <1>3, <1>4 DEF read_cb

\* Every step keeps it.
LEMMA InputStep ==
  ASSUME Types, Input, [Next]_vars
  PROVE  Input'
<1>1. CASE UNCHANGED <<rpdu_, consumed, delivered>> /\ (dead_ => dead_')
  BY <1>1 DEF Input, Reading, DeliveredInOrder
<1>2. CASE UNCHANGED vars
  BY <1>1, <1>2 DEF vars, connVars, sockVars, histVars
<1>3. ASSUME NEW s \in Senders, Send(s) PROVE Input'
  BY <1>1, <1>3 DEF Send, send_wait, send_dead, send_write, send_return, connVars, sockVars, histVars
<1>4. ASSUME NEW t \in Callers, Remove(t) \/ spurious_wakeup(t) PROVE Input'
  BY <1>1, <1>4 DEF Remove, block_remove_fd, block_remove_fd_return, spurious_wakeup, connVars,
                    sockVars, histVars
<1>5. CASE closeconn \/ Env
  BY <1>1, <1>5 DEF closeconn, Env, arrive, drain, peer_closes, peer_resets, envOnly, connVars,
                    histVars
<1>6. CASE write_cb
  BY <1>1, <1>6 DEF write_cb, dies, connVars
<1>7. CASE Poll
  BY <1>1, <1>6, <1>7, InputReadCb DEF Poll, wait_loop_top, wait_ready_copy, wait_ready_select,
     wait_loop_readable, wait_loop_writable, pollOnly, connVars, sockVars, histVars
<1> QED BY <1>2, <1>3, <1>4, <1>5, <1>7 DEF Next

-----------------------------------------------------------------------------
(* What goes out.                                                          *)

\* Every unit of W follows the one it has to follow.
InOrder(W) == \A i \in 1 .. Len(W) :
  IF W[i][2] = 1 THEN i = 1 \/ W[i - 1][2] = PduSz
                 ELSE i > 1 /\ W[i - 1] = <<W[i][1], W[i][2] - 1>>

\* v ends where the units of b after the first from of them may follow.
EndsAt(v, b, from) ==
  IF from = 0 THEN Len(v) = 0 \/ v[Len(v)][2] = PduSz
              ELSE Len(v) > 0 /\ v[Len(v)] = <<b, from>>

\* The last unit of a stream that has grown.
LEMMA GrownLast ==
  ASSUME NEW W, NEW b, NEW from, NEW n \in Nat \ {0},
         NEW v \in Seq(Bufs \X (1 .. PduSz)), Grown(W, v, b, from, n)
  PROVE  Len(W) > 0 /\ W[Len(W)] = <<b, from + n>>
<1>1. Len(W) = Len(v) + n /\ n \in 1 .. n /\ Len(v) \in Nat
  BY DEF Grown
<1>2. W[Len(v) + n] = <<b, from + n>>
  BY <1>1 DEF Grown
<1> QED BY <1>1, <1>2

\* Units of a pdu continue the stream if it stands where they begin.
LEMMA PdusGrow ==
  ASSUME NEW W, NEW b \in Bufs, NEW from \in Nat, NEW n \in Nat, from + n <= PduSz,
         NEW v \in Seq(Bufs \X (1 .. PduSz)), Grown(W, v, b, from, n), InOrder(v),
         EndsAt(v, b, from)
  PROVE  InOrder(W)
<1> DEFINE l == Len(v)
<1>1. /\ W \in Seq(Bufs \X (1 .. PduSz)) /\ Len(W) = l + n
      /\ \A i \in 1 .. l : W[i] = v[i]
      /\ \A k \in 1 .. n : W[l + k] = <<b, from + k>>
  BY DEF Grown
<1>2. l \in Nat
  OBVIOUS
<1>0. /\ from = 0 => l = 0 \/ v[l][2] = PduSz
      /\ from > 0 => l > 0 /\ v[l] = <<b, from>>
  BY DEF EndsAt
<1> USE Sizes
<1> DEFINE Follows(i) == IF W[i][2] = 1 THEN i = 1 \/ W[i - 1][2] = PduSz
                                       ELSE i > 1 /\ W[i - 1] = <<W[i][1], W[i][2] - 1>>
<1>3. ASSUME NEW i \in 1 .. l PROVE Follows(i)
  <2>1. W[i] = v[i] /\ (i > 1 => W[i - 1] = v[i - 1])
    <3>1. i > 1 => i - 1 \in 1 .. l
      BY <1>2
    <3> QED BY <1>1, <3>1
  <2>2. IF v[i][2] = 1 THEN i = 1 \/ v[i - 1][2] = PduSz
                       ELSE i > 1 /\ v[i - 1] = <<v[i][1], v[i][2] - 1>>
    BY DEF InOrder
  <2> QED BY <2>1, <2>2
<1>4. ASSUME NEW k \in 1 .. n PROVE Follows(l + k)
  <2>1. W[l + k] = <<b, from + k>>
    BY <1>1
  <2>2. W[l + k][1] = b /\ W[l + k][2] = from + k
    BY <2>1
  <2>3. CASE k > 1
    <3>1. k - 1 \in 1 .. n /\ (l + k) - 1 = l + (k - 1) /\ l + k > 1 /\ from + k # 1
          /\ from + (k - 1) = (from + k) - 1
      BY <1>2, <2>3
    <3>2. W[(l + k) - 1] = <<b, (from + k) - 1>>
      BY <1>1, <3>1
    <3> QED BY <2>2, <3>1, <3>2
  <2>4. CASE k = 1 /\ from = 0
    <3>1. W[l + k][2] = 1 /\ (l + k) - 1 = l
      BY <1>2, <2>2, <2>4
    <3>2. CASE l = 0
      <4>1. l + k = 1
        BY <2>4, <3>2
      <4> QED BY <3>1, <4>1
    <3>3. CASE l > 0
      <4>1. l \in 1 .. l /\ v[l][2] = PduSz
        BY <1>0, <1>2, <2>4, <3>3
      <4>2. W[l] = v[l]
        BY <1>1, <4>1
      <4> QED BY <3>1, <4>1, <4>2
    <3>4. l = 0 \/ l > 0
      BY <1>2
    <3> QED BY <3>2, <3>3, <3>4
  <2>5. CASE k = 1 /\ from > 0
    <3>1. l > 0 /\ v[l] = <<b, from>>
      BY <1>0, <2>5
    <3>2. W[l] = <<b, from>>
      <4>1. l \in 1 .. l
        BY <1>2, <3>1
      <4> QED BY <1>1, <3>1, <4>1
    <3>3. (l + k) - 1 = l /\ l + k > 1 /\ from + k # 1 /\ (from + k) - 1 = from
      BY <1>2, <2>5, <3>1
    <3> QED BY <2>2, <3>2, <3>3
  <2>6. (k > 1) \/ (k = 1 /\ from = 0) \/ (k = 1 /\ from > 0)
    OBVIOUS
  <2> QED BY <2>3, <2>4, <2>5, <2>6
<1> HIDE DEF Follows
<1>5. ASSUME NEW i \in 1 .. Len(W) PROVE Follows(i)
  <2>1. CASE i <= l
    BY <1>2, <1>3, <2>1
  <2>2. CASE i > l
    <3>1. i - l \in 1 .. n /\ l + (i - l) = i
      BY <1>1, <1>2, <2>2
    <3>2. Follows(l + (i - l))
      BY <1>4, <3>1
    <3> QED BY <3>1, <3>2
  <2> QED BY <1>2, <2>1, <2>2
<1> QED BY <1>5 DEF InOrder, Follows

\* The last unit of the stream, by its place.
LEMMA LastIsWhole ==
  ASSUME wire \in Seq(Bufs \X (1 .. PduSz))
  PROVE  LastWhole <=> Len(wire) = 0 \/ wire[Len(wire)][2] = PduSz
BY DEF LastWhole

\* Position says all there is to say of the last unit.
LEMMA OrderIsWhole ==
  ASSUME Types, Position, InOrder(wire)
  PROVE  WholePdusInOrder
<1> USE Sizes
<1>1. wire \in Seq(Bufs \X (1 .. PduSz)) /\ DOMAIN wire = 1 .. Len(wire)
  BY DEF Types
<1>2. ASSUME NEW i \in 1 .. Len(wire), i = Len(wire), wire[i][2] < PduSz
      PROVE  dead_ \/ (wpdu_.buf = wire[i][1] /\ wpdu_.solong = wire[i][2])
  <2>1. SUFFICES ASSUME ~dead_ PROVE wpdu_.buf = wire[i][1] /\ wpdu_.solong = wire[i][2]
    OBVIOUS
  <2>2. ~LastWhole
    BY <1>1, <1>2, LastIsWhole
  <2>3. wpdu_.buf # <<>> /\ wpdu_.solong \in 0 .. PduSz /\ wpdu_.solong # 0
    BY <2>1, <2>2 DEF Position
  <2>4. wire[Len(wire)] = <<wpdu_.buf, wpdu_.solong>>
    BY <2>1, <2>2, <2>3 DEF Position
  <2> QED BY <1>2, <2>4
<1> QED BY <1>1, <1>2 DEF WholePdusInOrder, InOrder

\* And the other way round.
LEMMA WholeIsOrder ==
  ASSUME Types, WholePdusInOrder
  PROVE  InOrder(wire)
<1>1. DOMAIN wire = 1 .. Len(wire)
  BY DEF Types
<1> QED BY <1>1 DEF WholePdusInOrder, InOrder

-----------------------------------------------------------------------------
(* Who owns wpdu_.                                                         *)

\* A step that leaves the buffer, the stream and the threads inside send as
\* they are, or declares the connection dead.
LEMMA OutputKept ==
  ASSUME Types, Types', Output, wpdu_'.buf = wpdu_.buf, wire' = wire, dead_ => dead_',
         wpdu_' = wpdu_ \/ dead_',
         \A s \in Senders : pc'[s] \in Owning <=> pc[s] \in Owning,
         \A s \in Senders : pc[s] \in Owning => nsent'[s] = nsent[s],
         \A s \in Senders : pc'[s] = "idle" /\ ret'[s] => pc[s] = "idle" /\ ret[s] /\ nsent'[s] = nsent[s]
  PROVE  Output'
<1>1. Ownership'
  BY DEF Output, Ownership
<1>2. Position'
  BY DEF Output, Position, LastWhole
<1>3. InOrder(wire)'
  BY WholeIsOrder DEF Output
<1>4. WholePdusInOrder'
  <2>1. Types' /\ Position' /\ InOrder(wire)'
    BY <1>2, <1>3
  <2>2. wire' \in Seq(Bufs \X (1 .. PduSz)) /\ DOMAIN wire' = 1 .. Len(wire')
    BY SMTT(30) DEF Types
  <2>3. CASE dead_'
    BY <1>3, <2>2, <2>3 DEF WholePdusInOrder, InOrder
  <2>4. CASE wpdu_' = wpdu_ /\ (dead_ => dead_')
    BY <2>4 DEF Output, WholePdusInOrder
  <2> QED BY <2>3, <2>4
<1>5. SentIsWritten'
  BY DEF Output, SentIsWritten
<1> QED BY <1>1, <1>2, <1>4, <1>5 DEF Output

\* send() waits for its turn, or finds the connection dead.
LEMMA OutputEnter ==
  ASSUME Types, Types', Output, NEW s \in Senders, send_wait(s) \/ send_dead(s)
  PROVE  Output'
<1>1. UNCHANGED <<dead_, wpdu_, wire>>
  BY DEF send_wait, send_dead, connVars, histVars
<1>2. Enters(s) /\ Counted(s)
  BY DEF send_wait, send_dead
<1>3. \A t \in Senders \ {s} : nsent'[t] = nsent[t]
  BY <1>2, CountedTypes
<1>4. pc \in [Callers -> PCs] /\ Senders \subseteq Callers /\ pc[s] \in {"idle", "woken"}
      /\ ret \in [Senders -> BOOLEAN]
  BY <1>2, Sizes DEF Types, Enters
<1>5. \/ pc' = [pc EXCEPT ![s] = "wait"] /\ ret' = ret
      \/ pc' = [pc EXCEPT ![s] = "idle"] /\ ret' = [ret EXCEPT ![s] = FALSE]
  BY DEF send_wait, send_dead
<1>6. \A t \in Senders : pc'[t] \in Owning <=> pc[t] \in Owning
  BY <1>4, <1>5 DEF Owning
<1>7. \A t \in Senders : pc[t] \in Owning => nsent'[t] = nsent[t]
  BY <1>3, <1>4 DEF Owning
<1>8. \A t \in Senders : pc'[t] = "idle" /\ ret'[t] => pc[t] = "idle" /\ ret[t] /\ nsent'[t] = nsent[t]
  BY <1>3, <1>4, <1>5
<1> QED BY <1>1, <1>6, <1>7, <1>8, OutputKept

\* The steps that are not of send, nor of write_cb.
LEMMA OutputOther ==
  ASSUME Types, Types', Output, UNCHANGED <<wpdu_, wire, nsent, ret>>, dead_ => dead_',
         \A s \in Senders : pc'[s] \in Owning <=> pc[s] \in Owning,
         \A s \in Senders : pc'[s] = "idle" => pc[s] = "idle"
  PROVE  Output'
BY OutputKept

\* The two halves of block_remove_fd.
LEMMA OutputRemove ==
  ASSUME Types, Types', Output, NEW t \in Callers, Remove(t)
  PROVE  Output'
<1>1. UNCHANGED <<dead_, wpdu_, wire, nsent, ret>>
  BY DEF Remove, block_remove_fd, block_remove_fd_return, connVars, histVars
<1>2. pc \in [Callers -> PCs] /\ Senders \subseteq Callers /\ Closer \notin Senders
  BY Sizes DEF Types
<1>3. \/ pc[t] = "remove" /\ pc' = [pc EXCEPT ![t] = "removing"]
      \/ pc[t] \in {"changedone", "early"} /\ pc' = [pc EXCEPT ![t] = IF t = Closer THEN "done" ELSE "relock"]
  BY DEF Remove, block_remove_fd, block_remove_fd_return, ChangeWait
<1>4. /\ \A s \in Senders : pc'[s] \in Owning <=> pc[s] \in Owning
      /\ \A s \in Senders : pc'[s] = "idle" => pc[s] = "idle"
  BY <1>2, <1>3 DEF Owning
<1> QED BY <1>1, <1>4, OutputOther

\* A wakeup that nobody meant.
LEMMA OutputSpurious ==
  ASSUME Types, Types', Output, NEW t \in Callers, spurious_wakeup(t)
  PROVE  Output'
<1>1. pc[t] = "removing" /\ pc' = [pc EXCEPT ![t] = "early"] /\ pc \in [Callers -> PCs]
  BY DEF spurious_wakeup, Types
<1>2. /\ \A s \in Senders : pc'[s] \in Owning <=> pc[s] \in Owning
      /\ \A s \in Senders : pc'[s] = "idle" => pc[s] = "idle"
  BY <1>1, Sizes DEF Owning
<1> QED BY <1>2, OutputOther DEF spurious_wakeup, connVars, histVars

\* closeconn.
LEMMA OutputClose ==
  ASSUME Types, Types', Output, closeconn
  PROVE  Output'
<1>1. \A s \in Senders : pc'[s] = pc[s]
  BY Sizes DEF closeconn, Types
<1> QED BY <1>1, OutputOther DEF closeconn, histVars

\* Waking the sender changes nothing that was written.
LEMMA OutputSignal ==
  ASSUME Types, Types', Output, UNCHANGED <<wpdu_, wire, nsent, ret>>, dead_ => dead_',
         signal_send_complete
  PROVE  Output'
<1>1. /\ \A t \in Callers : pc[t] # "blocked" => pc'[t] = pc[t]
      /\ \A t \in Callers : pc[t] = "blocked" => pc'[t] = "signalled"
  BY SignalTypes
<1>2. /\ \A s \in Senders : pc'[s] \in Owning <=> pc[s] \in Owning
      /\ \A s \in Senders : pc'[s] = "idle" => pc[s] = "idle"
  BY <1>1, Sizes DEF Owning
<1> QED BY <1>2, OutputOther

\* The poll thread between callbacks, and read_cb.
LEMMA OutputPoll ==
  ASSUME Types, Types', Output,
         \/ wait_loop_top \/ wait_ready_copy \/ wait_ready_select
         \/ wait_loop_readable \/ wait_loop_writable \/ read_cb
  PROVE  Output'
<1>1. CASE wait_loop_top
  <2>1. UNCHANGED <<dead_, wpdu_, wire, nsent, ret>>
    BY <1>1 DEF wait_loop_top, connVars, histVars
  <2>2. pc' = [t \in Callers |-> IF pending_change_ /\ pc[t] = "removing" THEN "changedone" ELSE pc[t]]
    BY <1>1 DEF wait_loop_top
  <2>3. \A t \in Callers : pc'[t] = pc[t] \/ (pc[t] = "removing" /\ pc'[t] = "changedone")
    BY <2>2
  <2>4. /\ \A s \in Senders : pc'[s] \in Owning <=> pc[s] \in Owning
        /\ \A s \in Senders : pc'[s] = "idle" => pc[s] = "idle"
    BY <2>3, Sizes DEF Owning
  <2> QED BY <2>1, <2>4, OutputOther
<1>2. CASE pollOnly
  BY <1>2, OutputOther DEF pollOnly, connVars, callVars, histVars
<1>3. CASE read_cb
  <2>1. UNCHANGED <<wpdu_, wire, nsent, ret>>
    BY <1>3 DEF read_cb, connVars
  <2>2. CASE dies
    BY <2>1, <2>2, OutputSignal DEF dies
  <2>3. CASE UNCHANGED <<dead_, pc>>
    BY <2>1, <2>3, OutputOther
  <2> QED BY <1>3, <2>2, <2>3 DEF read_cb, connVars
<1> QED BY <1>1, <1>2, <1>3 DEF wait_ready_copy, wait_ready_select, wait_loop_readable, wait_loop_writable

\* Nobody but the owner of wpdu_ is inside send.
LEMMA OneOwner ==
  ASSUME Ownership, NEW s \in Senders, NEW t \in Senders, pc[s] \in Owning, pc[t] \in Owning
  PROVE  s = t
<1>1. <<s, nsent[s]>> = <<t, nsent[t]>>
  BY DEF Ownership
<1> QED BY <1>1

\* Nobody is inside send() when wpdu_ is free.
LEMMA FreeBuffer ==
  ASSUME Ownership, wpdu_.buf = <<>>
  PROVE  \A s \in Senders : pc[s] \notin Owning
<1>1. \A s \in Senders : <<s, nsent[s]>> # <<>>
  OBVIOUS
<1> QED BY <1>1 DEF Ownership

\* send after it waited: it gives the buffer up, and says whether all of it
\* was written.
LEMMA OutputReturn ==
  ASSUME Types, Types', Output, NEW s \in Senders, send_return(s)
  PROVE  Output'
<1> USE Sizes
<1>1. UNCHANGED <<dead_, nsent, wire>> /\ pc[s] \in {"signalled", "relock"}
  BY DEF send_return, histVars
<1>2. pc \in [Callers -> PCs] /\ Senders \subseteq Callers /\ ret \in [Senders -> BOOLEAN]
  BY DEF Types
<1>3. CASE pc' = [pc EXCEPT ![s] = "blocked"] /\ UNCHANGED <<wpdu_, ret>>
  <2>1. /\ \A t \in Senders : pc'[t] \in Owning <=> pc[t] \in Owning
        /\ \A t \in Senders : pc'[t] = "idle" => pc[t] = "idle"
    BY <1>1, <1>2, <1>3 DEF Owning
  <2> QED BY <1>1, <1>3, <2>1, OutputOther
<1>4. CASE (dead_ \/ wpdu_.solong = wpdu_.sz) /\ Leave(s, ~dead_ /\ wpdu_.solong = wpdu_.sz, pc)
  <2>1. wpdu_' = NoW /\ wpdu_'.buf = <<>>
    BY <1>4 DEF Leave, NoW
  <2>2. /\ pc'[s] = "idle"
        /\ \A t \in Senders \ {s} : pc'[t] = IF pc[t] = "wait" THEN "woken" ELSE pc[t]
        /\ \A t \in Senders \ {s} : ret'[t] = ret[t]
    BY <1>2, <1>4 DEF Leave
  <2>3. wpdu_.buf = <<s, nsent[s]>> /\ \A t \in Senders \ {s} : pc[t] \notin Owning
    BY <1>1, OneOwner DEF Output, Ownership, Owning
  <2>4. \A t \in Senders : pc'[t] \notin Owning
    BY <2>2, <2>3 DEF Owning
  <2>5. Ownership'
    BY <2>1, <2>4 DEF Ownership
  <2>6. ~dead_ => wire # <<>> /\ wire[Len(wire)] = <<<<s, nsent[s]>>, PduSz>>
    <3> SUFFICES ASSUME ~dead_ PROVE wire # <<>> /\ wire[Len(wire)] = <<<<s, nsent[s]>>, PduSz>>
      OBVIOUS
    <3>1. wpdu_ # NoW
      BY <2>3, SMTT(30) DEF NoW
    <3>2. wpdu_.solong = PduSz /\ wpdu_.solong > 0
      BY <1>4, <3>1 DEF Output, Position
    <3> QED BY <2>3, <3>1, <3>2 DEF Output, Position
  <2>7. Position'
    <3>1. ~dead_ => LastWhole'
      BY <1>1, <2>6 DEF LastWhole
    <3> QED BY <1>1, <2>1, <3>1 DEF Position
  <2>8. InOrder(wire)'
    BY <1>1, WholeIsOrder DEF Output
  <2>9. WholePdusInOrder'
    BY <2>7, <2>8, OrderIsWhole, PTL
  <2>10. SentIsWritten'
    <3> SUFFICES ASSUME NEW t \in Senders, pc'[t] = "idle", ret'[t]
                 PROVE  /\ \E i \in DOMAIN wire' : wire'[i] = <<<<t, nsent'[t]>>, PduSz>>
                        /\ wpdu_'.buf # <<t, nsent'[t]>>
      BY DEF SentIsWritten
    <3>1. wpdu_'.buf # <<t, nsent'[t]>>
      BY <2>1
    <3>2. CASE t = s
      <4>1. ret' = [ret EXCEPT ![s] = ~dead_ /\ wpdu_.solong = wpdu_.sz]
        BY <1>4 DEF Leave
      <4>2. ~dead_
        BY <1>2, <3>2, <4>1
      <4>3. wire # <<>> /\ wire \in Seq(Bufs \X (1 .. PduSz))
        BY <2>6, <4>2 DEF Types
      <4>4. Len(wire) \in DOMAIN wire
        BY <4>3
      <4> QED BY <1>1, <2>6, <3>1, <3>2, <4>2, <4>4
    <3>3. CASE t # s
      <4>1. pc[t] = "idle" /\ ret[t]
        BY <2>2, <3>3
      <4> QED BY <1>1, <3>1, <4>1 DEF Output, SentIsWritten
    <3> QED BY <3>2, <3>3
  <2> QED BY <2>5, <2>7, <2>9, <2>10 DEF Output
<1> QED BY <1>3, <1>4 DEF send_return

\* What was written stays written.
LEMMA StillWritten ==
  ASSUME Types, Types', NEW b, NEW from, NEW n \in Nat, Grown(wire', wire, b, from, n),
         NEW u, \E i \in DOMAIN wire : wire[i] = u
  PROVE  \E i \in DOMAIN wire' : wire'[i] = u
<1>1. wire \in Seq(Bufs \X (1 .. PduSz)) /\ wire' \in Seq(Bufs \X (1 .. PduSz))
  BY DEF Types
<1>2. PICK i \in DOMAIN wire : wire[i] = u
  OBVIOUS
<1>3. i \in 1 .. Len(wire) /\ Len(wire) \in Nat
  BY <1>1, <1>2
<1>4. Len(wire') = Len(wire) + n /\ wire'[i] = wire[i]
  BY <1>3 DEF Grown
<1>5. i \in DOMAIN wire'
  BY <1>1, <1>3, <1>4
<1> QED BY <1>2, <1>4, <1>5

\* Writing nothing leaves the last unit as it is.
LEMMA LastAfterGrowth ==
  ASSUME Types, NEW b, NEW from, Grown(wire', wire, b, from, 0), LastWhole
  PROVE  LastWhole'
<1>1. wire \in Seq(Bufs \X (1 .. PduSz)) /\ wire' \in Seq(Bufs \X (1 .. PduSz))
      /\ Len(wire') = Len(wire) + 0 /\ \A i \in 1 .. Len(wire) : wire'[i] = wire[i]
  BY DEF Types, Grown
<1>2. Len(wire) \in Nat /\ Len(wire') = Len(wire)
  BY <1>1
<1>3. CASE Len(wire) = 0
  BY <1>1, <1>2, <1>3 DEF LastWhole
<1>4. CASE Len(wire) > 0
  <2>1. wire'[Len(wire')] = wire[Len(wire)] /\ wire # <<>>
    BY <1>1, <1>2, <1>4
  <2> QED BY <2>1 DEF LastWhole
<1> QED BY <1>2, <1>3, <1>4

\* send() writes what the socket takes.
LEMMA OutputWrite ==
  ASSUME Types, Types', Output, NEW s \in Senders, send_write(s)
  PROVE  Output'
<1> USE Sizes
<1> DEFINE b == <<s, nsent'[s]>>
           n == Taken(PduSz)
<1>1. Enters(s) /\ Counted(s) /\ ~dead_ /\ wpdu_.buf = <<>>
  BY DEF send_write, Busy
<1>2. nsent'[s] \in 1 .. MaxSends /\ \A t \in Senders \ {s} : nsent'[t] = nsent[t]
  BY <1>1, CountedTypes
<1>3. unacked \in 0 .. SockBuf /\ PduSz \in Nat
  BY DEF Types
<1>4. b \in Bufs /\ n \in 0 .. PduSz
  BY <1>2, <1>3, TakenBounds DEF Bufs
<1>5. pc \in [Callers -> PCs] /\ Senders \subseteq Callers /\ ret \in [Senders -> BOOLEAN]
      /\ wire \in Seq(Bufs \X (1 .. PduSz)) /\ Len(wire) \in Nat
  BY SMTT(30) DEF Types
<1>6. \A t \in Senders : pc[t] \notin Owning
  BY <1>1, FreeBuffer DEF Output
<1>7. LastWhole
  BY <1>1 DEF Output, Position
<1>8. InOrder(wire)
  BY WholeIsOrder DEF Output
<1>9. \/ /\ dead_' = TRUE
         /\ wpdu_' = [buf |-> b, sz |-> 0, solong |-> -1]
         /\ pc' = [pc EXCEPT ![s] = "remove"]
         /\ UNCHANGED <<ret, wire>>
      \/ /\ dead_' = dead_ /\ wire' = wire \o Units(b, 0, n) /\ n = PduSz
         /\ Leave(s, TRUE, pc)
      \/ /\ dead_' = dead_ /\ wire' = wire \o Units(b, 0, n) /\ n < PduSz
         /\ wpdu_' = [buf |-> b, sz |-> PduSz, solong |-> n]
         /\ pc' = [pc EXCEPT ![s] = "blocked"]
         /\ UNCHANGED ret
  BY DEF send_write
<1>10. \A t \in Senders \ {s} : b # <<t, nsent'[t]>>
  OBVIOUS
<1>11. b # <<>> /\ b[1] = s /\ b[2] = nsent'[s] /\ b = <<s, nsent'[s]>>
  OBVIOUS
<1> HIDE DEF b, n
<1>12. CASE /\ dead_' = TRUE
            /\ wpdu_' = [buf |-> b, sz |-> 0, solong |-> -1]
            /\ pc' = [pc EXCEPT ![s] = "remove"]
            /\ UNCHANGED <<ret, wire>>
  <2>1. wpdu_'.buf = b /\ pc'[s] = "remove" /\ \A t \in Senders \ {s} : pc'[t] = pc[t]
    BY <1>5, <1>12
  <2>2. Ownership'
    BY <1>6, <1>11, <2>1 DEF Ownership, Owning
  <2>3. Position'
    BY <1>12 DEF Position
  <2>4. WholePdusInOrder'
    BY <1>12 DEF Output, WholePdusInOrder
  <2>5. SentIsWritten'
    BY <1>2, <1>10, <1>12, <2>1 DEF Output, SentIsWritten
  <2> QED BY <2>2, <2>3, <2>4, <2>5 DEF Output
<1>13. ASSUME wire' = wire \o Units(b, 0, n)
       PROVE  /\ Grown(wire', wire, b, 0, n) /\ InOrder(wire')
              /\ n > 0 => Len(wire') > 0 /\ wire'[Len(wire')] = <<b, n>>
              /\ n = 0 => LastWhole'
  <2>1. n \in Nat /\ 0 + n <= PduSz /\ 0 \in Nat /\ 0 + n = n
    BY <1>4
  <2>2. Grown(wire', wire, b, 0, n)
    BY <1>4, <1>5, <1>13, <2>1, WireGrows
  <2>3. Len(wire) = 0 \/ wire[Len(wire)][2] = PduSz
    BY <1>5, <1>7, LastIsWhole
  <2>4. InOrder(wire') /\ (n > 0 => Len(wire') > 0 /\ wire'[Len(wire')] = <<b, 0 + n>>)
    <3>1. EndsAt(wire, b, 0)
      BY <2>3 DEF EndsAt
    <3>2. InOrder(wire')
      BY <1>4, <1>5, <1>8, <2>1, <2>2, <3>1, PdusGrow
    <3>3. ASSUME n > 0 PROVE Len(wire') > 0 /\ wire'[Len(wire')] = <<b, 0 + n>>
      <4>1. n \in Nat \ {0}
        BY <2>1, <3>3
      <4> QED BY <1>5, <2>2, <4>1, GrownLast
    <3> QED BY <3>2, <3>3
  <2>5. n = 0 => LastWhole'
    BY <1>7, <2>2, LastAfterGrowth
  <2> QED BY <2>1, <2>2, <2>4, <2>5
<1>14. CASE /\ dead_' = dead_ /\ wire' = wire \o Units(b, 0, n) /\ n = PduSz
            /\ Leave(s, TRUE, pc)
  <2>1. Grown(wire', wire, b, 0, n) /\ InOrder(wire')
        /\ Len(wire') > 0 /\ wire'[Len(wire')] = <<b, PduSz>>
    BY <1>13, <1>14
  <2>2. wpdu_' = NoW /\ wpdu_'.buf = <<>>
    BY <1>14 DEF Leave, NoW
  <2>3. /\ pc'[s] = "idle"
        /\ \A t \in Senders \ {s} : pc'[t] = IF pc[t] = "wait" THEN "woken" ELSE pc[t]
        /\ \A t \in Senders \ {s} : ret'[t] = ret[t]
    BY <1>5, <1>14 DEF Leave
  <2>4. Ownership'
    BY <1>6, <2>2, <2>3 DEF Ownership, Owning
  <2>5. Position'
    <3>1. LastWhole'
      BY <2>1 DEF LastWhole
    <3> QED BY <2>2, <3>1 DEF Position
  <2>6. WholePdusInOrder'
    <3>1. InOrder(wire)'
      BY <2>1
    <3> QED BY <2>5, <3>1, OrderIsWhole, PTL
  <2>7. SentIsWritten'
    <3> SUFFICES ASSUME NEW t \in Senders, pc'[t] = "idle", ret'[t]
                 PROVE  /\ \E i \in DOMAIN wire' : wire'[i] = <<<<t, nsent'[t]>>, PduSz>>
                        /\ wpdu_'.buf # <<t, nsent'[t]>>
      BY DEF SentIsWritten
    <3>1. wpdu_'.buf # <<t, nsent'[t]>>
      BY <2>2
    <3>2. CASE t = s
      <4>1. wire' \in Seq(Bufs \X (1 .. PduSz))
        BY DEF Types
      <4>2. Len(wire') \in DOMAIN wire'
        BY <2>1, <4>1
      <4> QED BY <1>11, <2>1, <3>1, <3>2, <4>2
    <3>3. CASE t # s
      <4>1. pc[t] = "idle" /\ ret[t] /\ nsent'[t] = nsent[t]
        BY <1>2, <2>3, <3>3
      <4>2. \E i \in DOMAIN wire : wire[i] = <<<<t, nsent[t]>>, PduSz>>
        BY <4>1 DEF Output, SentIsWritten
      <4>3. n \in Nat
        BY <1>4
      <4>4. \E i \in DOMAIN wire' : wire'[i] = <<<<t, nsent[t]>>, PduSz>>
        BY <2>1, <4>2, <4>3, StillWritten
      <4> QED BY <3>1, <4>1, <4>4
    <3> QED BY <3>2, <3>3
  <2> QED BY <2>4, <2>5, <2>6, <2>7 DEF Output
<1>15. CASE /\ dead_' = dead_ /\ wire' = wire \o Units(b, 0, n) /\ n < PduSz
            /\ wpdu_' = [buf |-> b, sz |-> PduSz, solong |-> n]
            /\ pc' = [pc EXCEPT ![s] = "blocked"]
            /\ UNCHANGED ret
  <2>1. /\ Grown(wire', wire, b, 0, n) /\ InOrder(wire')
        /\ n > 0 => Len(wire') > 0 /\ wire'[Len(wire')] = <<b, n>>
        /\ n = 0 => LastWhole'
    BY <1>13, <1>15
  <2>2. wpdu_'.buf = b /\ wpdu_'.sz = PduSz /\ wpdu_'.solong = n
    BY <1>15
  <2>3. pc'[s] = "blocked" /\ \A t \in Senders \ {s} : pc'[t] = pc[t]
    BY <1>5, <1>15
  <2>4. Ownership'
    BY <1>6, <1>11, <2>2, <2>3 DEF Ownership, Owning
  <2>5. Position'
    <3>1. n > 0 => wire' # <<>>
      BY <2>1
    <3> QED BY <1>4, <1>11, <2>1, <2>2, <3>1 DEF Position
  <2>6. WholePdusInOrder'
    <3>1. InOrder(wire)'
      BY <2>1
    <3> QED BY <2>5, <3>1, OrderIsWhole, PTL
  <2>7. SentIsWritten'
    <3> SUFFICES ASSUME NEW t \in Senders, pc'[t] = "idle", ret'[t]
                 PROVE  /\ \E i \in DOMAIN wire' : wire'[i] = <<<<t, nsent'[t]>>, PduSz>>
                        /\ wpdu_'.buf # <<t, nsent'[t]>>
      BY DEF SentIsWritten
    <3>1. t # s /\ pc[t] = "idle" /\ ret[t] /\ nsent'[t] = nsent[t]
      BY <1>2, <1>15, <2>3
    <3>2. wpdu_'.buf # <<t, nsent'[t]>>
      BY <1>10, <2>2, <3>1
    <3>3. \E i \in DOMAIN wire : wire[i] = <<<<t, nsent[t]>>, PduSz>>
      BY <3>1 DEF Output, SentIsWritten
    <3>4. n \in Nat
      BY <1>4
    <3>5. \E i \in DOMAIN wire' : wire'[i] = <<<<t, nsent[t]>>, PduSz>>
      BY <2>1, <3>3, <3>4, StillWritten
    <3> QED BY <3>1, <3>2, <3>5
  <2> QED BY <2>4, <2>5, <2>6, <2>7 DEF Output
<1> QED BY <1>9, <1>12, <1>14, <1>15

\* write_cb goes on with the pdu of the sender that waits.
LEMMA OutputWriteCb ==
  ASSUME Types, Types', Output, write_cb
  PROVE  Output'
<1> USE Sizes
<1>1. UNCHANGED <<nsent, ret>>
  BY DEF write_cb
<1>2. CASE UNCHANGED <<connVars, pc, wire>>
  BY <1>1, <1>2, OutputOther DEF connVars
<1>3. CASE UNCHANGED <<connVars, wire>> /\ signal_send_complete
  BY <1>1, <1>3, OutputSignal DEF connVars
<1>4. CASE dies /\ wpdu_' = [wpdu_ EXCEPT !.sz = 0, !.solong = -1] /\ UNCHANGED wire
  <2>1. wpdu_'.buf = wpdu_.buf /\ dead_' = TRUE
    BY <1>4 DEF Types, dies
  <2>2. signal_send_complete
    BY <1>4 DEF dies
  <2>3. /\ \A t \in Callers : pc[t] # "blocked" => pc'[t] = pc[t]
        /\ \A t \in Callers : pc[t] = "blocked" => pc'[t] = "signalled"
    BY <2>2, SignalTypes
  <2>4. /\ \A s \in Senders : pc'[s] \in Owning <=> pc[s] \in Owning
        /\ \A s \in Senders : pc'[s] = "idle" => pc[s] = "idle"
    BY <2>3 DEF Owning
  <2> QED BY <1>1, <1>4, <2>1, <2>4, OutputKept
<1>5. CASE LET n == Taken(wpdu_.sz - wpdu_.solong) IN
           /\ ~dead_ /\ wpdu_.solong < wpdu_.sz
           /\ wpdu_' = [wpdu_ EXCEPT !.solong = @ + n]
           /\ wire' = wire \o Units(wpdu_.buf, wpdu_.solong, n)
           /\ IF wpdu_.solong' < wpdu_.sz THEN UNCHANGED pc ELSE signal_send_complete
           /\ UNCHANGED dead_
  <2> DEFINE n == Taken(wpdu_.sz - wpdu_.solong)
             f == wpdu_.solong
             b == wpdu_.buf
  <2>1. /\ b \in Bufs /\ wpdu_.sz = PduSz /\ f \in 0 .. PduSz - 1
        /\ n \in 0 .. PduSz - f
    BY <1>5, WritesPdu DEF Output
  <2>2. /\ wpdu_' = [wpdu_ EXCEPT !.solong = f + n] /\ wire' = wire \o Units(b, f, n)
    BY <1>5
  <2>3. wpdu_'.buf = b /\ wpdu_'.sz = PduSz /\ wpdu_'.solong = f + n
    BY <2>1, <2>2 DEF Types
  <2>4. ~dead_ /\ dead_' = dead_
    BY <1>5
  <2>5. wire \in Seq(Bufs \X (1 .. PduSz)) /\ Len(wire) \in Nat /\ InOrder(wire)
    <3>1. WholePdusInOrder
      BY DEF Output
    <3>2. InOrder(wire)
      BY <3>1, WholeIsOrder
    <3>3. wire \in Seq(Bufs \X (1 .. PduSz))
      BY DEF Types
    <3> QED BY <3>2, <3>3
  <2>6. b # <<>> /\ (f = 0 => LastWhole) /\ (f > 0 => wire # <<>> /\ wire[Len(wire)] = <<b, f>>)
    <3>1. wpdu_ # NoW
      BY <1>5 DEF NoW
    <3> QED BY <2>4, <3>1 DEF Output, Position
  <2>7. UNCHANGED pc \/ signal_send_complete
    BY <1>5
  <2>8. n \in Nat /\ f \in Nat /\ f + n <= PduSz /\ f + n \in 0 .. PduSz
    BY <2>1
  <2> HIDE DEF n, f, b
  <2>9. Grown(wire', wire, b, f, n)
    BY <2>1, <2>2, <2>5, <2>8, WireGrows
  <2>10. /\ f = 0 => Len(wire) = 0 \/ wire[Len(wire)][2] = PduSz
         /\ f > 0 => Len(wire) > 0 /\ wire[Len(wire)] = <<b, f>>
    <3>1. f = 0 => Len(wire) = 0 \/ wire[Len(wire)][2] = PduSz
      BY <2>5, <2>6, LastIsWhole
    <3>2. f > 0 => Len(wire) > 0
      BY <2>5, <2>6
    <3> QED BY <2>6, <3>1, <3>2
  <2>11. InOrder(wire') /\ (n > 0 => Len(wire') > 0 /\ wire'[Len(wire')] = <<b, f + n>>)
    <3>1. EndsAt(wire, b, f)
      BY <2>8, <2>10 DEF EndsAt
    <3>2. InOrder(wire')
      BY <2>1, <2>5, <2>8, <2>9, <3>1, PdusGrow
    <3>3. ASSUME n > 0 PROVE Len(wire') > 0 /\ wire'[Len(wire')] = <<b, f + n>>
      <4>1. n \in Nat \ {0}
        BY <2>8, <3>3
      <4> QED BY <2>5, <2>9, <4>1, GrownLast
    <3> QED BY <3>2, <3>3
  <2>12. \A s \in Senders : pc'[s] \in Owning <=> pc[s] \in Owning
    <3>1. CASE pc' = pc
      BY <3>1
    <3>2. CASE signal_send_complete
      <4>1. /\ \A t \in Callers : pc[t] # "blocked" => pc'[t] = pc[t]
            /\ \A t \in Callers : pc[t] = "blocked" => pc'[t] = "signalled"
        BY <3>2, SignalTypes
      <4> QED BY <4>1 DEF Owning
    <3> QED BY <2>7, <3>1, <3>2
  <2>13. \A s \in Senders : pc'[s] = "idle" => pc[s] = "idle"
    <3>1. CASE pc' = pc
      BY <3>1
    <3>2. CASE signal_send_complete
      <4>1. /\ \A t \in Callers : pc[t] # "blocked" => pc'[t] = pc[t]
            /\ \A t \in Callers : pc[t] = "blocked" => pc'[t] = "signalled"
        BY <3>2, SignalTypes
      <4> QED BY <4>1
    <3> QED BY <2>7, <3>1, <3>2
  <2>14. wpdu_'.buf = wpdu_.buf
    BY <2>3 DEF b
  <2>15. Ownership'
    BY <1>1, <2>12, <2>14 DEF Output, Ownership
  <2>16. Position'
    <3>1. CASE n = 0
      <4>1. f + n = f
        BY <2>8, <3>1
      <4>2. f = 0 => LastWhole'
        BY <2>6, <2>9, <3>1, LastAfterGrowth
      <4>3. f > 0 => wire' # <<>> /\ wire'[Len(wire')] = <<b, f>>
        <5> SUFFICES ASSUME f > 0 PROVE wire' # <<>> /\ wire'[Len(wire')] = <<b, f>>
          OBVIOUS
        <5>1. Len(wire) > 0 /\ wire[Len(wire)] = <<b, f>>
          BY <2>10
        <5>2. Len(wire') = Len(wire) + 0 /\ wire' \in Seq(Bufs \X (1 .. PduSz))
              /\ \A i \in 1 .. Len(wire) : wire'[i] = wire[i]
          BY <2>9, <3>1 DEF Grown
        <5>3. Len(wire') = Len(wire) /\ Len(wire) \in 1 .. Len(wire)
          BY <2>5, <5>1, <5>2
        <5> QED BY <5>1, <5>2, <5>3
      <4> QED BY <2>3, <2>6, <2>8, <4>1, <4>2, <4>3 DEF Position
    <3>2. CASE n > 0
      <4>1. wire' # <<>> /\ wire'[Len(wire')] = <<b, f + n>> /\ f + n # 0
        BY <2>8, <2>11, <3>2
      <4> QED BY <2>3, <2>6, <2>8, <4>1 DEF Position
    <3> QED BY <2>8, <3>1, <3>2
  <2>17. WholePdusInOrder'
    <3>1. InOrder(wire)'
      BY <2>11
    <3> QED BY <2>16, <3>1, OrderIsWhole, PTL
  <2>18. SentIsWritten'
    <3> SUFFICES ASSUME NEW t \in Senders, pc'[t] = "idle", ret'[t]
                 PROVE  /\ \E i \in DOMAIN wire' : wire'[i] = <<<<t, nsent'[t]>>, PduSz>>
                        /\ wpdu_'.buf # <<t, nsent'[t]>>
      BY DEF SentIsWritten
    <3>1. pc[t] = "idle" /\ ret[t] /\ nsent'[t] = nsent[t]
      BY <1>1, <2>13
    <3>2. (\E i \in DOMAIN wire : wire[i] = <<<<t, nsent[t]>>, PduSz>>) /\ wpdu_.buf # <<t, nsent[t]>>
      BY <3>1 DEF Output, SentIsWritten
    <3>3. \E i \in DOMAIN wire' : wire'[i] = <<<<t, nsent[t]>>, PduSz>>
      BY <2>8, <2>9, <3>2, StillWritten
    <3> QED BY <2>14, <3>1, <3>2, <3>3
  <2> QED BY <2>15, <2>16, <2>17, <2>18 DEF Output
<1> QED BY <1>2, <1>3, <1>4, <1>5 DEF write_cb

\* Every step keeps the stream in order.
LEMMA OutputStep ==
  ASSUME Types, Types', Output, [Next]_vars
  PROVE  Output'
<1>1. CASE UNCHANGED vars
  BY <1>1, OutputOther DEF vars, connVars, callVars, histVars
<1>2. ASSUME NEW s \in Senders, Send(s) PROVE Output'
  BY <1>2, OutputEnter, OutputWrite, OutputReturn DEF Send
<1>3. ASSUME NEW t \in Callers, Remove(t) PROVE Output'
  BY <1>3, OutputRemove
<1>4. ASSUME NEW t \in Callers, spurious_wakeup(t) PROVE Output'
  BY <1>4, OutputSpurious
<1>5. CASE Poll
  BY <1>5, OutputPoll, OutputWriteCb DEF Poll
<1>6. CASE Env
  <2>1. envOnly
    BY <1>6 DEF Env, arrive, drain, peer_closes, peer_resets
  <2> QED BY <2>1, OutputOther DEF envOnly, connVars, callVars, histVars
<1> QED BY <1>1, <1>2, <1>3, <1>4, <1>5, <1>6, OutputClose DEF Next

-----------------------------------------------------------------------------
(* The theorems.                                                           *)

\* The inductive invariant holds at first.
LEMMA IInvInit == Init => IInv
<1> SUFFICES ASSUME Init PROVE IInv
  OBVIOUS
<1>1. Types
  BY TypesInit
<1>2. Removal
  BY DEF Init, Removal, Answered
<1>3. Output
  <2>1. Ownership
    BY Sizes DEF Init, Ownership, Owning, NoW
  <2>2. Position
    BY DEF Init, Position, LastWhole
  <2>3. WholePdusInOrder
    BY DEF Init, WholePdusInOrder
  <2>4. SentIsWritten
    BY DEF Init, SentIsWritten
  <2> QED BY <2>1, <2>2, <2>3, <2>4 DEF Output
<1>4. Input
  BY Sizes DEF Init, Input, Reading, DeliveredInOrder, NoR
<1> QED BY <1>1, <1>2, <1>3, <1>4 DEF IInv

\* Every step keeps it.
LEMMA IInvStep == IInv /\ [Next]_vars => IInv'
<1> SUFFICES ASSUME IInv, [Next]_vars PROVE IInv'
  OBVIOUS
<1>1. Types /\ Output /\ Input /\ Removal /\ Position
  BY DEF IInv, Output
<1>2. Types'
  BY <1>1, TypesStep
<1>3. Removal'
  BY <1>1, RemovalStep
<1>4. Output'
  BY <1>1, <1>2, OutputStep
<1>5. Input'
  BY <1>1, InputStep
<1> QED BY <1>2, <1>3, <1>4, <1>5 DEF IInv

\* So it holds always.
LEMMA IInvAlways == Spec => []IInv
BY IInvInit, IInvStep, PTL DEF Spec

\* What a connection writes is whole pdus one after the other, and send()
\* returns true only for a pdu that was written completely and is no longer
\* referred to: for any number of threads that call send, any sizes of pdus
\* and of the socket buffer, and whatever the peer and closeconn do.
THEOREM OutputStaysInOrder == Spec => []OutputInOrder
<1>1. IInv => OutputInOrder
  BY DEF IInv, Output, OutputInOrder
<1> QED BY <1>1, IInvAlways, PTL

\* got_pdu gets the pdus of the peer complete, in order and each once,
\* however they arrive and however often they are refused.
THEOREM InputStaysInOrder == Spec => []DeliveredInOrder
<1>1. IInv => DeliveredInOrder
  BY DEF IInv, Input
<1> QED BY <1>1, IInvAlways, PTL

\* Once block_remove_fd has returned and the poll thread has passed the top of
\* its loop, no callback comes, though the wait may have ended by a spurious
\* wakeup; and read_cb finds input.  (That write_cb finds the connection alive,
\* its VERIFY(!dead_), is not among this: the code does not ensure it.)
THEOREM CallbacksStayInOrder == Spec => []CallbacksInOrder
<1>1. IInv => CallbacksInOrder
  <2> SUFFICES ASSUME IInv PROVE CallbacksInOrder
    OBVIOUS
  <2>1. Types /\ Removal
    BY DEF IInv
  <2>2. TypeOK
    BY <2>1 DEF Types, TypeOK, Bufs, Places, PCs
  <2>3. NoLateCallback
    BY <2>1 DEF Removal, NoLateCallback, Quiet
  <2>4. ReadFindsInput
    BY <2>1 DEF Removal, ReadFindsInput
  <2> QED BY <2>1, <2>2, <2>3, <2>4 DEF CallbacksInOrder
<1> QED BY <1>1, IInvAlways, PTL
=============================================================================
