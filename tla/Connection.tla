----------------------------- MODULE Connection -----------------------------
(***************************************************************************)
(* One connection object (connection.cc) and the poll manager that calls   *)
(* it back (pollmgr.cc with SelectAIO): threads that send, the single poll *)
(* thread, a thread that closes the connection, and the peer.              *)
(*                                                                         *)
(* Everything a thread does while it holds connection::m_ is one step: the *)
(* mutexes of PollMgr and SelectAIO are taken inside it for one call and   *)
(* never held while waiting.  The poll thread reads callbacks_ and calls   *)
(* through it without a mutex, so the two are separate steps.              *)
(*                                                                         *)
(* The bytes of a pdu are counted in units.  The units of the stream that  *)
(* comes in are numbered from 1; HdrSz of them are the length field.       *)
(* waiters_ is left out: a broadcast that nobody waits for does nothing.   *)
(* select is not interrupted (the program installs no signal handlers).    *)
(* lossy_, a switch of the tests that shuts the socket down inside send, is *)
(* left out: the write of that send fails as it does when the peer resets. *)
(***************************************************************************)
EXTENDS Integers, Sequences, FiniteSetsExt

CONSTANTS Senders,      \* threads that call connection::send
          Closer,       \* the thread that calls connection::closeconn
          MaxSends,     \* bound on the pdus each thread sends
          PduSz, HdrSz, \* units of a pdu, and of its length field
          SockBuf,      \* units the socket takes before write says EAGAIN
          MaxIn,        \* bound on the units that the peer sends
          MaxRefusals   \* bound on the pdus got_pdu refuses

ASSUME SizesAssumption ==
  /\ {PduSz, HdrSz, SockBuf} \subseteq Nat \ {0} /\ HdrSz < PduSz
  /\ {MaxSends, MaxIn, MaxRefusals} \subseteq Nat
ASSUME CloserAssumption == Closer \notin Senders

VARIABLES
  dead_, wpdu_, rpdu_,            \* the connection
  rfds_, wfds_, pipefd_,          \* SelectAIO: is fd in it; bytes in the pipe
  callbacks_, pending_change_,    \* PollMgr: is callbacks_[fd] set
  poll,                           \* the poll thread: where it is, its fd sets
  errno_again,                    \* errno of the poll thread is EAGAIN
  pc, nsent, ret,                 \* the other threads; pdus sent; result
  shut, peer,                     \* shutdown() was called; the peer's state
  arrived, consumed, unacked,     \* units: come in, read, in the send buffer
  refusals,                       \* pdus refused so far
  aborted,                        \* a VERIFY has failed
  wire, delivered, removed        \* history: units written, pdus accepted by
                                  \* got_pdu, block_remove_fd has returned and
                                  \* the poll thread has answered it

connVars == <<dead_, wpdu_, rpdu_>>
mgrVars == <<rfds_, wfds_, pipefd_, callbacks_, pending_change_>>
sockVars == <<shut, peer, arrived, consumed, unacked>>
callVars == <<pc, nsent, ret>>
histVars == <<wire, delivered, removed>>
vars == <<connVars, mgrVars, poll, errno_again, callVars, sockVars, refusals,
          aborted, histVars>>

Callers == Senders \cup {Closer}

\* A charbuf: the pdu wpdu_ sends (<<>> when buf is NULL); what rpdu_ holds.
NoW == [buf |-> <<>>, sz |-> 0, solong |-> 0]
NoR == [buf |-> <<>>, sz |-> 0]     \* solong is the length of buf

TypeOK ==
  /\ {dead_, rfds_, wfds_, callbacks_, pending_change_, errno_again, shut,
      aborted, removed} \subseteq BOOLEAN
  /\ wpdu_ \in [buf : {<<>>} \cup (Senders \X (1 .. MaxSends)),
                sz : {0, PduSz}, solong : -1 .. PduSz]
  /\ rpdu_.sz \in {0, PduSz} /\ Len(rpdu_.buf) <= rpdu_.sz
  /\ poll.at \in {"top", "copy", "select", "readable", "read_cb", "writable", "write_cb"}
  /\ poll.r \in BOOLEAN /\ poll.w \in BOOLEAN
  /\ pc \in [Callers -> {"idle", "wait", "woken", "blocked", "signalled",
                         "remove", "removing", "changedone", "early", "relock", "done"}]
  /\ nsent \in [Senders -> 0 .. MaxSends] /\ ret \in [Senders -> BOOLEAN]
  /\ peer \in {"up", "closed", "reset"}
  /\ consumed <= arrived /\ arrived <= MaxIn
  /\ unacked \in 0 .. SockBuf /\ pipefd_ \in Nat /\ refusals \in 0 .. MaxRefusals

\* The constructor has registered the fd for reading.
Init ==
  /\ dead_ = FALSE /\ wpdu_ = NoW /\ rpdu_ = NoR
  /\ rfds_ = TRUE /\ wfds_ = FALSE /\ pipefd_ = 1
  /\ callbacks_ = TRUE /\ pending_change_ = FALSE
  /\ poll = [at |-> "top", r |-> FALSE, w |-> FALSE]
  /\ errno_again = FALSE
  /\ pc = [t \in Callers |-> "idle"]
  /\ nsent = [s \in Senders |-> 0] /\ ret = [s \in Senders |-> FALSE]
  /\ shut = FALSE /\ peer = "up"
  /\ arrived = 0 /\ consumed = 0 /\ unacked = 0
  /\ refusals = 0 /\ aborted = FALSE
  /\ wire = <<>> /\ delivered = <<>> /\ removed = FALSE

-----------------------------------------------------------------------------
(* The socket.                                                             *)

WriteFails == shut \/ peer = "reset"
Ended == shut \/ peer # "up"             \* nothing more comes in
Readable == arrived > consumed \/ Ended
Writable == unacked < SockBuf \/ WriteFails

\* What write() takes of n units; 0 is EAGAIN.
Taken(n) == Min({n, SockBuf - unacked})

Units(b, from, n) == [k \in 1 .. n |-> <<b, from + k>>]

-----------------------------------------------------------------------------
(* PollMgr and SelectAIO.                                                  *)

\* Mutant: the poll thread is not woken.
unwatch_RDWR_NoByte == rfds_' = FALSE /\ wfds_' = FALSE /\ UNCHANGED pipefd_

\* unwatch_fd(fd, CB_RDWR): select is made to return.
unwatch_RDWR == rfds_' = FALSE /\ wfds_' = FALSE /\ pipefd_' = pipefd_ + 1

\* add_callback(fd, CB_WRONLY, this)
add_callback_WRONLY ==
  /\ wfds_' = TRUE /\ callbacks_' = TRUE /\ pipefd_' = pipefd_ + 1
  /\ UNCHANGED <<rfds_, pending_change_>>

\* del_callback(fd, CB_WRONLY)
del_callback_WRONLY ==
  /\ wfds_' = FALSE /\ callbacks_' = (callbacks_ /\ rfds_)
  /\ UNCHANGED <<rfds_, pipefd_, pending_change_>>

\* del_callback(fd, CB_RDWR)
del_callback_RDWR ==
  unwatch_RDWR /\ callbacks_' = FALSE /\ UNCHANGED pending_change_

\* Mutant: block_remove_fd does not wait for the poll thread.
ChangeWait_Not == "changedone"

\* Where it is on changedone_c_.
ChangeWait == "removing"

\* block_remove_fd up to its wait.
block_remove_fd(t) ==
  /\ pc[t] = "remove"
  /\ unwatch_RDWR
  /\ pending_change_' = TRUE
  /\ pc' = [pc EXCEPT ![t] = ChangeWait]
  /\ UNCHANGED <<connVars, callbacks_, poll, errno_again, nsent, ret, sockVars,
                 refusals, aborted, histVars>>

\* pthread_cond_wait may return without a signal, and block_remove_fd waits only
\* once.  (send waits in loops that then look again; that is left out.)
spurious_wakeup(t) ==
  /\ pc[t] = "removing"
  /\ pc' = [pc EXCEPT ![t] = "early"]
  /\ UNCHANGED <<connVars, mgrVars, poll, errno_again, nsent, ret, sockVars,
                 refusals, aborted, histVars>>

\* The rest of block_remove_fd.  closeconn ends with it.
block_remove_fd_return(t) ==
  /\ pc[t] \in {"changedone", "early"}
  /\ callbacks_' = FALSE
  /\ removed' = (removed \/ pc[t] = "changedone" \/ ~pending_change_)
  /\ pc' = [pc EXCEPT ![t] = IF t = Closer THEN "done" ELSE "relock"]
  /\ UNCHANGED <<connVars, rfds_, wfds_, pipefd_, pending_change_, poll,
                 errno_again, nsent, ret, sockVars, refusals, aborted, wire,
                 delivered>>

\* A thread is inside block_remove_fd.
Removing == \E t \in Callers : pc[t] \in {"removing", "changedone", "early"}

\* The top of wait_loop: whoever waits on changedone_c_ is woken.
wait_loop_top ==
  /\ poll.at = "top"
  /\ poll' = [poll EXCEPT !.at = "copy"]
  /\ pending_change_' = FALSE
  /\ pc' = [t \in Callers |-> IF pending_change_ /\ pc[t] = "removing"
                              THEN "changedone" ELSE pc[t]]
  /\ removed' = (removed \/ (pending_change_ /\ ~Removing))
  /\ UNCHANGED <<connVars, rfds_, wfds_, pipefd_, callbacks_, errno_again,
                 nsent, ret, sockVars, refusals, aborted, wire, delivered>>

pollOnly == UNCHANGED <<connVars, rfds_, wfds_, callbacks_, pending_change_,
                        errno_again, callVars, sockVars, refusals, aborted, histVars>>

\* wait_ready copies the sets, selects, and reads one byte of the pipe.
wait_ready_copy ==
  /\ poll.at = "copy"
  /\ poll' = [at |-> "select", r |-> rfds_, w |-> wfds_]
  /\ pollOnly /\ UNCHANGED pipefd_

wait_ready_select ==
  LET r == poll.r /\ Readable
      w == poll.w /\ Writable
  IN  /\ poll.at = "select"
      /\ r \/ w \/ pipefd_ > 0
      /\ poll' = [at |-> IF r \/ w THEN "readable" ELSE "top", r |-> r, w |-> w]
      /\ pipefd_' = IF pipefd_ > 0 THEN pipefd_ - 1 ELSE 0
      /\ pollOnly

\* The two loops of wait_loop: is there an object to call back?
wait_loop_readable ==
  /\ poll.at = "readable"
  /\ poll' = [poll EXCEPT !.at = IF poll.r /\ callbacks_ THEN "read_cb" ELSE "writable",
                         !.r = FALSE]
  /\ pollOnly /\ UNCHANGED pipefd_

wait_loop_writable ==
  /\ poll.at = "writable"
  /\ poll' = [poll EXCEPT !.at = IF poll.w /\ callbacks_ THEN "write_cb" ELSE "top",
                         !.w = FALSE]
  /\ pollOnly /\ UNCHANGED pipefd_

-----------------------------------------------------------------------------
(* connection.                                                             *)

\* The end of send: the buffer is given up and send_wait_ broadcast.
Leave(s, ok, p) ==
  /\ wpdu_' = NoW
  /\ ret' = [ret EXCEPT ![s] = ok]
  /\ pc' = [t \in Callers |-> IF t = s THEN "idle"
                              ELSE IF p[t] = "wait" THEN "woken" ELSE p[t]]

\* Mutant: a second pdu may start while one is being written.
Busy_Never == FALSE

\* Another thread's pdu is being written.
Busy == ~dead_ /\ wpdu_.buf # <<>>

\* send on entry, and each time send_wait_ wakes it.
Enters(s) == (pc[s] = "idle" /\ nsent[s] < MaxSends) \/ pc[s] = "woken"

Counted(s) == nsent' = IF pc[s] = "idle" THEN [nsent EXCEPT ![s] = @ + 1] ELSE nsent

send_wait(s) ==
  /\ Enters(s) /\ Busy
  /\ Counted(s)
  /\ pc' = [pc EXCEPT ![s] = "wait"]
  /\ UNCHANGED <<connVars, mgrVars, poll, errno_again, ret, sockVars, refusals,
                 aborted, histVars>>

send_dead(s) ==
  /\ Enters(s) /\ dead_
  /\ Counted(s)
  /\ pc' = [pc EXCEPT ![s] = "idle"]
  /\ ret' = [ret EXCEPT ![s] = FALSE]
  /\ UNCHANGED <<connVars, mgrVars, poll, errno_again, sockVars, refusals,
                 aborted, histVars>>

\* send takes the buffer and writes what the socket takes.
send_write(s) ==
  /\ Enters(s) /\ ~Busy /\ ~dead_
  /\ Counted(s)
  /\ LET b == <<s, nsent'[s]>>
         n == Taken(PduSz)
     IN  \/ /\ WriteFails
            /\ dead_' = TRUE
            /\ wpdu_' = [buf |-> b, sz |-> 0, solong |-> -1]
            /\ pc' = [pc EXCEPT ![s] = "remove"]
            /\ UNCHANGED <<mgrVars, ret, unacked, wire>>
         \/ /\ ~WriteFails
            /\ unacked' = unacked + n
            /\ wire' = wire \o Units(b, 0, n)
            /\ UNCHANGED dead_
            /\ \/ /\ n = PduSz
                  /\ Leave(s, TRUE, pc)
                  /\ UNCHANGED mgrVars
               \/ /\ n < PduSz
                  /\ add_callback_WRONLY
                  /\ wpdu_' = [buf |-> b, sz |-> PduSz, solong |-> n]
                  /\ pc' = [pc EXCEPT ![s] = "blocked"]
                  /\ UNCHANGED ret
  /\ UNCHANGED <<rpdu_, poll, errno_again, shut, peer, arrived, consumed,
                 refusals, aborted, delivered, removed>>

\* send after it waited for send_complete_ or for block_remove_fd.
send_return(s) ==
  /\ pc[s] \in {"signalled", "relock"}
  /\ \/ /\ ~dead_ /\ wpdu_.solong >= 0 /\ wpdu_.solong < wpdu_.sz
        /\ pc[s] = "signalled"
        /\ pc' = [pc EXCEPT ![s] = "blocked"]
        /\ UNCHANGED <<wpdu_, ret>>
     \/ /\ dead_ \/ wpdu_.solong = wpdu_.sz
        /\ Leave(s, ~dead_ /\ wpdu_.solong = wpdu_.sz, pc)
  /\ UNCHANGED <<dead_, rpdu_, mgrVars, poll, errno_again, nsent, sockVars,
                 refusals, aborted, histVars>>

\* closeconn up to block_remove_fd.
closeconn ==
  /\ pc[Closer] = "idle"
  /\ pc' = [pc EXCEPT ![Closer] = IF dead_ THEN "done" ELSE "remove"]
  /\ dead_' = TRUE
  /\ shut' = (shut \/ ~dead_)
  /\ UNCHANGED <<wpdu_, rpdu_, mgrVars, poll, errno_again, nsent, ret, peer,
                 arrived, consumed, unacked, refusals, aborted, histVars>>

\* Mutant: a sender that waits for the connection is not woken.
signal_send_complete_Missing == UNCHANGED pc

\* pthread_cond_signal(&send_complete_); one thread at most waits there.
signal_send_complete ==
  pc' = [t \in Callers |-> IF pc[t] = "blocked" THEN "signalled" ELSE pc[t]]

\* Mutant: the waiting sender is told, but dead_ is not set.
dies_Unmarked == UNCHANGED dead_ /\ del_callback_RDWR /\ signal_send_complete

\* The callback declares the connection dead.
dies == dead_' = TRUE /\ del_callback_RDWR /\ signal_send_complete

\* write_cb, whose VERIFY(!dead_) ends the process.
write_cb ==
  /\ poll.at = "write_cb"
  /\ poll' = [poll EXCEPT !.at = "top"]
  /\ LET n == Taken(wpdu_.sz - wpdu_.solong)
     IN  \/ /\ dead_ /\ aborted' = TRUE
            /\ UNCHANGED <<connVars, mgrVars, errno_again, pc, unacked, wire>>
         \/ /\ ~dead_ /\ wpdu_.sz = 0
            /\ del_callback_WRONLY
            /\ UNCHANGED <<connVars, errno_again, pc, unacked, wire, aborted>>
         \/ /\ ~dead_ /\ wpdu_.sz > 0 /\ wpdu_.solong = wpdu_.sz
            /\ signal_send_complete
            /\ UNCHANGED <<connVars, mgrVars, errno_again, unacked, wire, aborted>>
         \/ /\ ~dead_ /\ wpdu_.solong < wpdu_.sz /\ WriteFails
            /\ dies
            /\ wpdu_' = [wpdu_ EXCEPT !.sz = 0, !.solong = -1]
            /\ errno_again' = FALSE
            /\ UNCHANGED <<rpdu_, unacked, wire, aborted>>
         \/ /\ ~dead_ /\ wpdu_.solong < wpdu_.sz /\ ~WriteFails
            /\ wpdu_' = [wpdu_ EXCEPT !.solong = @ + n]
            /\ unacked' = unacked + n
            /\ wire' = wire \o Units(wpdu_.buf, wpdu_.solong, n)
            /\ errno_again' = (errno_again \/ n = 0)
            /\ IF wpdu_.solong' < wpdu_.sz THEN UNCHANGED pc ELSE signal_send_complete
            /\ UNCHANGED <<dead_, rpdu_, mgrVars, aborted>>
  /\ UNCHANGED <<nsent, ret, shut, peer, arrived, consumed, refusals,
                 delivered, removed>>

\* readpdu: units of the length field still to be read, units read of the rest.
HdrLeft == IF rpdu_.sz = 0 THEN HdrSz ELSE 0
BodyRead == Min({arrived - consumed - HdrLeft, PduSz - Len(rpdu_.buf) - HdrLeft})

\* EOF, an error or only a part of the length field.
HeaderFails == rpdu_.sz = 0 /\ arrived - consumed < HdrSz

\* readpdu fails: no length, or one above MAX_PDU, or no more bytes.  At EOF
\* read returns 0 and leaves errno as it was: for the rest of a pdu that is
\* taken for EAGAIN if errno still says so.
readpdu_fails ==
  /\ \/ rpdu_.sz = 0 /\ consumed' = Min({arrived, consumed + HdrSz})
     \/ /\ ~HeaderFails /\ BodyRead = 0 /\ Ended
        /\ ~errno_again \/ peer = "reset"
        /\ consumed' = consumed + HdrLeft
  /\ rpdu_' = NoR
  /\ errno_again' \in IF peer = "reset" THEN {FALSE, errno_again} ELSE {errno_again}

\* readpdu succeeds, perhaps with nothing read, and leaves ReadBuf in rpdu_.
readpdu_ok ==
  /\ ~HeaderFails
  /\ BodyRead > 0 \/ ~Ended \/ errno_again
  /\ consumed' = consumed + HdrLeft + BodyRead
  /\ errno_again' = (errno_again \/ BodyRead = 0)

ReadBuf == [sz |-> PduSz,
            buf |-> rpdu_.buf \o [k \in 1 .. HdrLeft + BodyRead |-> consumed + k]]

Full(r) == r.sz > 0 /\ Len(r.buf) = r.sz

\* Mutant: a refused pdu is dropped.
Refused_Dropped(r) == rpdu_' = NoR

\* got_pdu refuses the pdu, which stays in rpdu_.
Refused(r) == rpdu_' = r

\* read_cb offers what is in the buffer r to got_pdu if it is complete.
Offer(r) ==
  \/ /\ ~Full(r) /\ rpdu_' = r
     /\ UNCHANGED <<delivered, refusals>>
  \/ /\ Full(r) /\ rpdu_' = NoR
     /\ delivered' = Append(delivered, r.buf)
     /\ UNCHANGED refusals
  \/ /\ Full(r) /\ refusals < MaxRefusals
     /\ Refused(r)
     /\ refusals' = refusals + 1
     /\ UNCHANGED delivered

read_cb ==
  /\ poll.at = "read_cb"
  /\ poll' = [poll EXCEPT !.at = "writable"]
  /\ \/ /\ dead_
        /\ UNCHANGED <<connVars, mgrVars, errno_again, pc, consumed, delivered, refusals>>
     \/ /\ ~dead_ /\ Full(rpdu_)
        /\ Offer(rpdu_)
        /\ UNCHANGED <<dead_, wpdu_, mgrVars, errno_again, pc, consumed>>
     \/ /\ ~dead_ /\ ~Full(rpdu_)
        /\ readpdu_fails
        /\ dies
        /\ UNCHANGED <<wpdu_, delivered, refusals>>
     \/ /\ ~dead_ /\ ~Full(rpdu_)
        /\ readpdu_ok
        /\ Offer(ReadBuf)
        /\ UNCHANGED <<dead_, wpdu_, mgrVars, pc>>
  /\ UNCHANGED <<nsent, ret, shut, peer, arrived, unacked, aborted, wire, removed>>

-----------------------------------------------------------------------------
(* The peer and the network.  Once dead_ is set their steps are left out:   *)
(* the socket is shut down or reset, so it counts as readable and writable *)
(* whatever they do, or it is no longer watched.                           *)

envOnly == UNCHANGED <<connVars, mgrVars, poll, errno_again, callVars, shut,
                       consumed, refusals, aborted, histVars>>

arrive ==
  /\ peer = "up" /\ arrived < MaxIn
  /\ arrived' = arrived + 1
  /\ envOnly /\ UNCHANGED <<peer, unacked>>

\* The peer reads what was written.
drain ==
  /\ peer = "up" /\ unacked > 0
  /\ unacked' = 0
  /\ envOnly /\ UNCHANGED <<peer, arrived>>

\* The peer closes the connection, or it breaks at once.
peer_closes ==
  /\ peer = "up"
  /\ peer' \in {"closed", "reset"}
  /\ envOnly /\ UNCHANGED <<arrived, unacked>>

\* What is written to a closed peer is answered with a reset.
peer_resets ==
  /\ peer = "closed" /\ unacked > 0
  /\ peer' = "reset"
  /\ envOnly /\ UNCHANGED <<arrived, unacked>>

-----------------------------------------------------------------------------
Send(s) == send_wait(s) \/ send_dead(s) \/ send_write(s) \/ send_return(s)
Remove(t) == block_remove_fd(t) \/ block_remove_fd_return(t)
Poll == \/ wait_loop_top \/ wait_ready_copy \/ wait_ready_select
        \/ wait_loop_readable \/ read_cb \/ wait_loop_writable \/ write_cb
Env == ~dead_ /\ (arrive \/ drain \/ peer_closes \/ peer_resets)

Next == /\ ~aborted
        /\ \/ \E s \in Senders : Send(s)
           \/ closeconn \/ \E t \in Callers : Remove(t) \/ spurious_wakeup(t)
           \/ Poll \/ Env

\* Threads that can run do, and a peer that stays up reads what it is sent.
\* Nothing makes the peer send, close or break, nor anybody start a send or
\* a close.
Fairness ==
  /\ \A s \in Senders : WF_vars(~aborted /\ pc[s] # "idle" /\ Send(s))
  /\ \A t \in Callers : WF_vars(~aborted /\ Remove(t))
  /\ WF_vars(~aborted /\ Poll)
  /\ WF_vars(~dead_ /\ drain) /\ WF_vars(~dead_ /\ peer_resets)

Spec == Init /\ [][Next]_vars /\ Fairness

-----------------------------------------------------------------------------
(* Properties.                                                             *)

\* What goes out: the two parts of OutputInOrder.

\* The stream a connection writes is a sequence of whole pdus, whatever the
\* order in which threads call send and the socket fills up: only the last
\* one may be cut short, and then it is the one being sent or the connection
\* is dead.
WholePdusInOrder ==
  \A i \in DOMAIN wire :
    LET k == wire[i][2]
    IN  /\ IF k = 1 THEN i = 1 \/ wire[i - 1][2] = PduSz
                    ELSE i > 1 /\ wire[i - 1] = <<wire[i][1], k - 1>>
        /\ i = Len(wire) /\ k < PduSz => dead_ \/ (wpdu_.buf = wire[i][1] /\ wpdu_.solong = k)

\* send() returns true only for a pdu that was written completely, and its
\* caller may then free the buffer: nothing refers to it any more.
SentIsWritten == \A s \in Senders :
  pc[s] = "idle" /\ ret[s] =>
    /\ \E i \in DOMAIN wire : wire[i] = <<<<s, nsent[s]>>, PduSz>>
    /\ wpdu_.buf # <<s, nsent[s]>>

OutputInOrder == WholePdusInOrder /\ SentIsWritten

\* got_pdu accepts the pdus the peer sent: complete, in order, each once,
\* although a pdu arrives in pieces and may be refused and offered again.
DeliveredInOrder == \A i \in DOMAIN delivered :
  delivered[i] = [k \in 1 .. PduSz |-> (i - 1) * PduSz + k]

\* What comes back from the poll thread: the parts of CallbacksInOrder.

\* After block_remove_fd "callbacks related to fd will never be called again",
\* not even one whose pointer the poll thread had read before: closeconn and
\* send rely on it before the object is deleted.  When the wait ends by a
\* spurious wakeup, this holds only once the poll thread reaches the top of
\* its loop.
NoLateCallback == removed => poll.at \notin {"read_cb", "write_cb"}

\* read_cb reads the length field only when read() has something to return,
\* so VERIFY(errno!=EAGAIN) holds: what select saw is still there.
ReadFindsInput ==
  poll.at = "read_cb" /\ ~dead_ /\ ~Full(rpdu_) /\ rpdu_.sz = 0 => Readable

\* The callbacks come as connection.cc relies on it, in states of the types
\* above.
CallbacksInOrder == TypeOK /\ NoLateCallback /\ ReadFindsInput

\* closeconn found a send waiting for send_complete_: it sets dead_ and, unlike
\* the callbacks, signals nobody.  The sender sleeps on, and so do those that
\* wait for it to give up the buffer.
Stranded(s) == /\ dead_ /\ \E u \in Senders : pc[u] = "blocked"
               /\ pc[s] \in {"wait", "blocked"}

\* "blocks until data is sent or the connection has failed" (rpc.cc): every send
\* returns, whatever the socket, the callbacks and the other senders do, if
\* only closeconn does not find it waiting.
SendReturns == \A s \in Senders :
  pc[s] # "idle" ~> pc[s] = "idle" \/ aborted \/ Stranded(s)

\* closeconn returns: the poll thread is woken and passes the point at which
\* changedone_c_ is signalled.
CloseReturns == pc[Closer] # "idle" ~> pc[Closer] = "done" \/ aborted

\* A connection whose peer is gone is declared dead, except when it ended in
\* the middle of a pdu and errno was left at EAGAIN by an earlier read.
BreakIsNoticed ==
  peer # "up" ~> dead_ \/ aborted
                 \/ (errno_again /\ rpdu_.sz > 0 /\ arrived = consumed)
=============================================================================
