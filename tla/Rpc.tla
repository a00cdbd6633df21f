-------------------------------- MODULE Rpc --------------------------------
(***************************************************************************)
(* At-most-once RPC (rpc.cc): one rpcc whose threads make calls, the rpcs  *)
(* it is bound to, and the connections between them.                       *)
(*                                                                         *)
(* The rpcc retransmits a call only when the connection it used is dead;   *)
(* every request carries xid_rep, the largest xid up to which the client   *)
(* is done with all its calls, and the server drops the replies it         *)
(* remembers up to there.  Connections are numbered by creation time, the  *)
(* order connection::compare uses.  A message that is never delivered is a *)
(* lost one; requests are dispatched in any order, since the threads of    *)
(* the pool race for reply_window_m_.  The two ends of a connection die    *)
(* separately, and what was sent on it before may still be dispatched.     *)
(*                                                                         *)
(* A behaviour ends for a job that is about to send from a buffer another  *)
(* job has freed ("freed"): what the program does from there on is         *)
(* undefined, and the properties speak of what happens before.             *)
(* FreedIsAnswered says whose answers can be affected.                     *)
(***************************************************************************)
EXTENDS Integers, Sequences, FiniteSets, SequencesExt

CONSTANTS Threads,      \* application threads that share the rpcc
          MaxXid,       \* bound on the calls made
          MaxConns,     \* bound on the connections made
          MaxTimeouts,  \* bound on the calls that reach their final deadline
          MaxRestarts,  \* bound on restarts of the server
          Cancels       \* TRUE: rpcc::cancel may be called

ASSUME BoundsAssumption ==
  /\ {MaxXid, MaxConns} \subseteq Nat \ {0}
  /\ {MaxTimeouts, MaxRestarts} \subseteq Nat
ASSUME RegimeAssumption == Cancels \in BOOLEAN

VARIABLES
  xid_, bind_done_, srv_nonce_,   \* rpcc: next xid, binding
  xid_rep, pend,      \* xid_rep_window_: its front, and the elements above it
  ca,                 \* the caller record of each thread's call1
  cancel_,            \* rpcc::cancel: "no", "wait", "woken" or "done"
  timeouts,           \* final deadlines reached so far
  chan_, nconn,       \* rpcc: current connection, 0 if none; connections made
  cdead, sdead,       \* connections dead at the client, at the server
  reqs, reps,         \* messages sent and not yet handled
  nonce_,             \* rpcs: its instance
  window, maxima,     \* rpcs: reply_window_ and maxima_xid_rep_ of the client
  conns_,             \* rpcs: latest connection from the client, 0 if none
  jobs,               \* rpcs: dispatches past checkduplicate_and_update
  execs,              \* history: the handler executions, in order
  astray              \* history: the xids whose reply went to a connection that
                      \* the client had already replaced by one the server knew

cltVars == <<xid_, bind_done_, srv_nonce_, xid_rep, pend, ca, cancel_, timeouts>>
connVars == <<chan_, nconn, cdead, sdead>>
srvVars == <<nonce_, window, maxima, conns_, jobs, execs, astray>>
vars == <<cltVars, connVars, reqs, reps, srvVars>>

Rets == {"none", "OK", "oldsrv", "atmostonce", "cancel"}

Message == [xid : Nat, rep : Nat, srv : Nat, conn : Nat]
Reply == [xid : Nat, ret : Rets, b : Nat, conn : Nat]
Caller == [st : {"idle", "xmit", "wait", "finish"}, xid : Nat, rep : Nat,
           srv : Nat, ch : Nat, last : BOOLEAN, done : BOOLEAN, ret : Rets,
           b : Nat]
Entry == [xid : Nat, b : Nat]   \* reply_t; b = 0 while cb_present is false
Execution == [xid : Nat, srv : Nat]
Job == [m : Message, b : Nat, st : {"run", "reply", "resend"}, freed : BOOLEAN]

NewCaller(st, x, rep, srv) ==
  [st |-> st, xid |-> x, rep |-> rep, srv |-> srv, ch |-> 0, last |-> FALSE,
   done |-> FALSE, ret |-> "none", b |-> 0]
Idle == NewCaller("idle", 0, 0, 0)

CltTypes ==
  /\ xid_ \in Nat /\ bind_done_ \in BOOLEAN /\ srv_nonce_ \in Nat
  /\ xid_rep \in Nat /\ pend \in SUBSET Nat
  /\ ca \in [Threads -> Caller]
  /\ cancel_ \in {"no", "wait", "woken", "done"} /\ timeouts \in Nat
NetTypes ==
  /\ chan_ \in Nat /\ nconn \in Nat
  /\ cdead \in SUBSET Nat /\ sdead \in SUBSET Nat
  /\ reqs \in SUBSET Message /\ reps \in SUBSET Reply
SrvTypes ==
  /\ nonce_ \in Nat /\ maxima \in Int /\ conns_ \in Nat
  /\ jobs \in SUBSET Job /\ execs \in Seq(Execution) /\ astray \in SUBSET Nat
TypeOK == CltTypes /\ NetTypes /\ SrvTypes

Init ==
  /\ xid_ = 1 /\ bind_done_ = FALSE /\ srv_nonce_ = 0
  /\ xid_rep = 0 /\ pend = {}
  /\ ca = [t \in Threads |-> Idle]
  /\ cancel_ = "no" /\ timeouts = 0
  /\ chan_ = 0 /\ nconn = 0 /\ cdead = {} /\ sdead = {}
  /\ reqs = {} /\ reps = {}
  /\ nonce_ = 1 /\ window = <<>> /\ maxima = -1 /\ conns_ = 0
  /\ jobs = {} /\ execs = <<>> /\ astray = {}

-----------------------------------------------------------------------------
(* rpcc.                                                                   *)

Outstanding(t) == ca[t].st # "idle"   \* calls_ holds t's caller

\* destroy_wait_: set when cancel finds calls to wait for, never cleared.
destroy_wait_ == cancel_ # "no"

\* xid_rep_window_.front()
RepToSend == xid_rep

\* call1 up to the transmission loop.  The first call is bind, made by the
\* constructor of the stub; it names no server instance.
call1(t) ==
  /\ ca[t].st = "idle" /\ xid_ <= MaxXid
  /\ bind_done_ \/ xid_ = 1
  /\ ~destroy_wait_
  /\ ca' = [ca EXCEPT ![t] = NewCaller("xmit", xid_, RepToSend, srv_nonce_)]
  /\ xid_' = xid_ + 1
  /\ UNCHANGED <<bind_done_, srv_nonce_, xid_rep, pend, cancel_, timeouts,
                 connVars, reqs, reps, srvVars>>

Dead(c) == c = 0 \/ c \in cdead

\* get_refconn: the connection a transmission uses, made anew when the
\* current one is dead.  0 stands for a connect that failed.
get_refconn(c) ==
  /\ IF ~Dead(chan_) THEN c = chan_
     ELSE (c = nconn + 1 /\ nconn < MaxConns) \/ c = 0
  /\ chan_' = c
  /\ nconn' = IF c > nconn THEN c ELSE nconn
  /\ UNCHANGED <<cdead, sdead>>

Request(t, c) == [xid |-> ca[t].xid, rep |-> ca[t].rep, srv |-> ca[t].srv,
                  conn |-> c]

\* One round of the transmission loop's "if(transmit)".  If no new connection
\* can be made, what is sent goes to the dead one of the round before.
transmit(t) ==
  /\ ca[t].st = "xmit"
  /\ \E c \in 0 .. MaxConns :
       /\ get_refconn(c)
       /\ reqs' = IF c = 0 THEN reqs ELSE reqs \cup {Request(t, c)}
       /\ ca' = [ca EXCEPT ![t].st = IF ca[t].last THEN "finish" ELSE "wait",
                           ![t].ch = IF c = 0 THEN @ ELSE c]
  /\ UNCHANGED <<xid_, bind_done_, srv_nonce_, xid_rep, pend, cancel_, timeouts,
                 reps, srvVars>>

\* A deadline passes with no answer: a dead connection is replaced and the
\* request sent again; the final deadline allows one such transmission more.
deadline(t) ==
  /\ ca[t].st = "wait" /\ ~ca[t].done
  /\ \/ /\ Dead(ca[t].ch)
        /\ ca' = [ca EXCEPT ![t].st = "xmit"]
        /\ UNCHANGED timeouts
     \/ /\ timeouts < MaxTimeouts
        /\ timeouts' = timeouts + 1
        /\ ca' = [ca EXCEPT ![t].st = IF Dead(ca[t].ch) THEN "xmit" ELSE "finish",
                            ![t].last = TRUE]
  /\ UNCHANGED <<xid_, bind_done_, srv_nonce_, xid_rep, pend, cancel_, connVars,
                 reqs, reps, srvVars>>

\* Mutant: the front is simply the highest xid answered.
update_xid_rep_Latest(x) ==
  IF x <= xid_rep THEN UNCHANGED <<xid_rep, pend>>
  ELSE xid_rep' = x /\ pend' = {}

\* update_xid_rep: x joins the window, whose front moves up over every
\* number that follows it without a gap.  (XidWindow has the list itself.)
update_xid_rep(x) ==
  IF x <= xid_rep THEN UNCHANGED <<xid_rep, pend>>
  ELSE \E f \in xid_rep .. MaxXid :
         /\ \A y \in xid_rep + 1 .. f : y \in pend \cup {x}
         /\ f + 1 \notin pend \cup {x}
         /\ xid_rep' = f
         /\ pend' = {y \in pend \cup {x} : y > f}

\* Mutant: nobody is signalled.
signal_destroy_wait_Missing == UNCHANGED cancel_

\* The signal on destroy_wait_c_, for a cancel that sleeps.
signal_destroy_wait == cancel_' = IF cancel_ = "wait" THEN "woken" ELSE cancel_

\* The loop is left, because the call is done or past its final deadline:
\* the rest of call1, and of bind.  An answer that arrived in between counts.
finish(t) ==
  /\ ca[t].st = "finish" \/ (ca[t].st = "wait" /\ ca[t].done)
  /\ update_xid_rep(ca[t].xid)
  /\ \/ /\ ca[t].xid = 1 /\ ca[t].ret = "OK"
        /\ bind_done_' = TRUE /\ srv_nonce_' = execs[ca[t].b].srv
     \/ /\ ~(ca[t].xid = 1 /\ ca[t].ret = "OK")
        /\ UNCHANGED <<bind_done_, srv_nonce_>>
  /\ ca' = [ca EXCEPT ![t] = Idle]
  /\ signal_destroy_wait
  /\ UNCHANGED <<xid_, timeouts, connVars, reqs, reps, srvVars>>

\* Mutant: a reply overwrites the result of a call that is done.
Answers_Always(t, r) == Outstanding(t) /\ ca[t].xid = r.xid

\* The reply sets the result of t's call.
Answers(t, r) == Outstanding(t) /\ ca[t].xid = r.xid /\ ~ca[t].done

\* rpcc::got_pdu.
rpcc_got_pdu(r) ==
  /\ r \in reps /\ r.conn \notin cdead
  /\ reps' = reps \ {r}
  /\ update_xid_rep(r.xid)
  /\ ca' = [t \in Threads |->
              IF Answers(t, r)
              THEN [ca[t] EXCEPT !.done = TRUE, !.ret = r.ret, !.b = r.b]
              ELSE ca[t]]
  /\ UNCHANGED <<xid_, bind_done_, srv_nonce_, cancel_, timeouts, connVars, reqs,
                 srvVars>>

\* rpcc::cancel up to its wait; without outstanding calls it does nothing.
cancel ==
  /\ Cancels /\ cancel_ = "no"
  /\ \E t \in Threads : Outstanding(t)
  /\ ca' = [t \in Threads |->
              IF Outstanding(t)
              THEN [ca[t] EXCEPT !.done = TRUE, !.ret = "cancel"] ELSE ca[t]]
  /\ cancel_' = "wait"
  /\ UNCHANGED <<xid_, bind_done_, srv_nonce_, xid_rep, pend, timeouts, connVars,
                 reqs, reps, srvVars>>

\* Its loop, each time it is woken.
cancel_recheck ==
  /\ cancel_ = "woken"
  /\ cancel_' = IF \A t \in Threads : ~Outstanding(t) THEN "done" ELSE "wait"
  /\ UNCHANGED <<xid_, bind_done_, srv_nonce_, xid_rep, pend, ca, timeouts,
                 connVars, reqs, reps, srvVars>>

-----------------------------------------------------------------------------
(* rpcs.                                                                   *)

\* connection::send, which does nothing on a dead connection; nobody reads
\* what is sent on one that is dead at the client.
Sent(x, ret, b, c) ==
  IF c \in sdead \cup cdead THEN {} ELSE {[xid |-> x, ret |-> ret, b |-> b, conn |-> c]}

\* Mutant: one entry too many is dropped.
Erasable_OffByOne(e, rep) == e.xid <= rep + 1

\* The client is done with this entry's call.
Erasable(e, rep) == e.xid <= rep

\* One round of the loop of checkduplicate_and_update over the client's window,
\* at position i.  erase() returns the following element and the loop's it++
\* then steps over that one; from end(), libstdc++'s circular list steps to the
\* first element.
Advance(s, rep) ==
  LET v == RemoveAt(s.w, s.i)
  IN  IF Erasable(s.w[s.i], rep) THEN [w |-> v, i |-> IF s.i > Len(v) THEN 1 ELSE s.i + 1]
      ELSE [w |-> s.w, i |-> s.i + 1]

\* The loop: where it finds xid (0 if it does not), and the window left.
Scan(xid, rep) ==
  LET scan[s \in [w : Seq(Entry), i : Nat \ {0}]] ==
        IF s.i > Len(s.w) THEN [at |-> 0, w |-> s.w]
        ELSE IF s.w[s.i].xid = xid THEN [at |-> s.i, w |-> s.w]
        ELSE scan[Advance(s, rep)]
  IN  scan[[w |-> window, i |-> 1]]

Bufs(w) == {w[i].b : i \in DOMAIN w} \ {0}

\* Jobs that still hold a pointer to a buffer in F.
Dangle(F) == {IF j.b \in F THEN [j EXCEPT !.freed = TRUE] ELSE j : j \in jobs}

NewJob(m, b, st) == [m |-> m, b |-> b, st |-> st, freed |-> FALSE]

\* checkduplicate_and_update returns FORGOTTEN.
IsForgotten(max, x) == max > x

\* Mutant: the largest xid is kept instead of the largest xid_rep.
NewMaxima_Xid(max, m) == IF max < m.xid THEN m.xid ELSE max

\* The largest xid_rep seen from the client.
NewMaxima(max, m) == IF max < m.rep THEN m.rep ELSE max

\* Mutant: the request is not put into the window.
Remember_Not(w, m) == w

\* The entry made for a new request.
Remember(w, m) == Append(w, [xid |-> m.xid, b |-> 0])

\* rpcs::dispatch of a request sent to an older instance of the server.
dispatch_oldsrv(m) ==
  /\ m \in reqs /\ reqs' = reqs \ {m}
  /\ m.srv # 0 /\ m.srv # nonce_
  /\ reps' = reps \cup Sent(m.xid, "oldsrv", 0, m.conn)
  /\ UNCHANGED <<cltVars, connVars, srvVars>>

\* rpcs::dispatch of any other request, up to checkduplicate_and_update: the
\* connection is remembered if it is the latest.
Accept(m) ==
  /\ m \in reqs /\ reqs' = reqs \ {m}
  /\ m.srv = 0 \/ m.srv = nonce_
  /\ conns_' = IF m.conn > conns_ THEN m.conn ELSE conns_
  /\ UNCHANGED <<cltVars, connVars, nonce_, execs, astray>>

SeenMaxima(m) == IF maxima = -1 THEN m.rep ELSE maxima

dispatch_forgotten(m) ==
  /\ Accept(m)
  /\ IsForgotten(SeenMaxima(m), m.xid)
  /\ maxima' = SeenMaxima(m)
  /\ reps' = reps \cup Sent(m.xid, "atmostonce", 0, m.conn)
  /\ UNCHANGED <<window, jobs>>

\* The other verdicts, after the loop over the window.
Checked(m) ==
  /\ Accept(m)
  /\ ~IsForgotten(SeenMaxima(m), m.xid)
  /\ maxima' = NewMaxima(SeenMaxima(m), m)
  /\ UNCHANGED reps

\* The other jobs, when the loop has left only w of the window.
JobsBesides(w) == Dangle(Bufs(window) \ Bufs(w))

dispatch_new(m) ==
  /\ Checked(m)
  /\ LET s == Scan(m.xid, m.rep)
     IN /\ s.at = 0
        /\ window' = Remember(s.w, m)
        /\ jobs' = JobsBesides(s.w) \cup {NewJob(m, 0, "run")}

dispatch_done(m) ==
  /\ Checked(m)
  /\ LET s == Scan(m.xid, m.rep)
     IN /\ s.at # 0
        /\ window' = s.w
        /\ \E b \in DOMAIN execs :
             /\ s.w[s.at].b = b
             /\ jobs' = JobsBesides(s.w) \cup {NewJob(m, b, "resend")}

dispatch_inprogress(m) ==
  /\ Checked(m)
  /\ LET s == Scan(m.xid, m.rep)
     IN /\ s.at # 0 /\ s.w[s.at].b = 0
        /\ window' = s.w
        /\ jobs' = JobsBesides(s.w)

dispatch(m) ==
  \/ dispatch_oldsrv(m) \/ dispatch_forgotten(m)
  \/ dispatch_new(m) \/ dispatch_done(m) \/ dispatch_inprogress(m)

\* Mutant: the newest entry is taken for the one of this request.
add_reply_Newest(x, b) ==
  window' = IF window = <<>> THEN window ELSE [window EXCEPT ![Len(window)].b = b]

\* add_reply: the first entry for x, if it is still there, keeps the reply.
add_reply(x, b) ==
  LET i == SelectInSeq(window, LAMBDA e : e.xid = x)
  IN  window' = IF i = 0 THEN window ELSE [window EXCEPT ![i].b = b]

\* A NEW request: its handler runs, and the reply is saved.
run(j) ==
  /\ j \in jobs /\ j.st = "run"
  /\ execs' = Append(execs, [xid |-> j.m.xid, srv |-> nonce_])
  /\ add_reply(j.m.xid, Len(execs'))
  /\ jobs' = (jobs \ {j}) \cup {[j EXCEPT !.b = Len(execs'), !.st = "reply"]}
  /\ UNCHANGED <<cltVars, connVars, reqs, reps, nonce_, maxima, conns_, astray>>

\* Mutant: the reply always goes to the connection of its request.
Target_Own(j) == j.m.conn

\* The connection the reply goes to: after NEW, the latest one if the
\* request's own is dead.
Target(j) == IF j.st # "resend" /\ j.m.conn \in sdead THEN conns_ ELSE j.m.conn

\* The client has left connection c, which the server still takes for alive,
\* and has sent on a later one that the server knows.
Left(c) == c \in cdead \ sdead /\ c < conns_

\* The end of dispatch after NEW or DONE.
reply(j) ==
  /\ j \in jobs
  /\ j.st \in {"reply", "resend"}
  /\ j.freed => Target(j) \in sdead
  /\ reps' = reps \cup Sent(j.m.xid, "OK", j.b, Target(j))
  /\ jobs' = jobs \ {j}
  /\ astray' = IF j.st = "reply" /\ Left(Target(j)) THEN astray \cup {j.m.xid} ELSE astray
  /\ UNCHANGED <<cltVars, connVars, reqs, nonce_, window, maxima, conns_, execs>>

-----------------------------------------------------------------------------
(* Failures.                                                               *)

\* The client's end of a connection dies: nobody reads the replies on it.  The
\* server keeps the requests it has read or queued.  The last connection that
\* the bound allows lasts.
break(c) ==
  /\ c \in 1 .. nconn /\ c \notin cdead /\ c < MaxConns
  /\ cdead' = cdead \cup {c}
  /\ reps' = {r \in reps : r.conn # c}
  /\ UNCHANGED <<cltVars, chan_, nconn, sdead, reqs, srvVars>>

\* The server's end dies.
server_break(c) ==
  /\ c \in 1 .. nconn /\ c \notin sdead /\ c < MaxConns
  /\ sdead' = sdead \cup {c}
  /\ UNCHANGED <<cltVars, chan_, nconn, cdead, reqs, reps, srvVars>>

\* The server restarts with a new nonce and nothing remembered.
restart ==
  /\ nonce_ <= MaxRestarts /\ nconn < MaxConns
  /\ nonce_' = nonce_ + 1
  /\ window' = <<>> /\ maxima' = -1 /\ conns_' = 0 /\ jobs' = {}
  /\ cdead' = 1 .. nconn /\ sdead' = 1 .. nconn
  /\ reqs' = {} /\ reps' = {}
  /\ UNCHANGED <<cltVars, chan_, nconn, execs, astray>>

-----------------------------------------------------------------------------
Next ==
  \/ \E t \in Threads : call1(t) \/ transmit(t) \/ deadline(t) \/ finish(t)
  \/ \E r \in reps : rpcc_got_pdu(r)
  \/ cancel \/ cancel_recheck
  \/ \E m \in reqs : dispatch(m)
  \/ \E j \in jobs : run(j) \/ reply(j)
  \/ \E c \in 1 .. nconn : break(c) \/ server_break(c)
  \/ restart

SafeSpec == Init /\ [][Next]_vars

\* Threads run; what is sent on a connection that stays up arrives; a connect
\* tried again and again succeeds; and when one end of a connection has died
\* the other notices.  No connection need break, what was sent on one that
\* broke need not arrive, no call need reach its final deadline.
Fairness ==
  /\ \A t \in Threads :
       /\ WF_vars(transmit(t)) /\ SF_vars(transmit(t) /\ chan_' # 0)
       /\ WF_vars(finish(t)) /\ WF_vars(deadline(t))
  /\ WF_vars(\E r \in reps : rpcc_got_pdu(r))
  /\ WF_vars(\E m \in reqs : m.conn \notin cdead \cup sdead /\ dispatch(m))
  /\ WF_vars(\E j \in jobs : run(j))
  /\ WF_vars(\E j \in jobs : reply(j))
  /\ WF_vars(\E c \in sdead : break(c)) /\ WF_vars(\E c \in cdead : server_break(c))
  /\ WF_vars(cancel_recheck)

Spec == SafeSpec /\ Fairness

-----------------------------------------------------------------------------
(* Properties.                                                             *)

\* The xid_rep a client sends covers no call it still waits for, whatever
\* the order of replies, timeouts and cancellation: update_xid_rep may be
\* called twice for an xid, and for calls that got no reply.
RepIsHonest == \A t \in Threads :
  Outstanding(t) /\ ~ca[t].done => ca[t].xid > xid_rep /\ ca[t].xid \notin pend

\* The server never answers atmostonce_failure (FORGOTTEN) to a call that
\* is still outstanding, however late its copies are dispatched.
NeverForgottenEarly == \A t \in Threads : ca[t].ret # "atmostonce"

\* The reply to an executed call is kept in reply_window_ as long as its
\* caller waits: erasing by other calls' xid_rep never takes it away.
ReplyKept == \A t \in Threads :
  Outstanding(t) /\ ~ca[t].done
    => \A b \in DOMAIN execs :
         execs[b] = [xid |-> ca[t].xid, srv |-> nonce_]
           => \E i \in DOMAIN window : window[i].xid = ca[t].xid /\ window[i].b # 0

\* A call returns success only if its handler ran, on the server instance
\* the client is bound to.
OkMeansExecuted == \A t \in Threads :
  ca[t].ret = "OK" =>
    /\ ca[t].b \in DOMAIN execs
    /\ execs[ca[t].b].xid = ca[t].xid
    /\ ca[t].srv \in {0, execs[ca[t].b].srv}

\* No request is executed twice (bind, which changes nothing, excepted): the
\* "at-most-once delivery" that rpc.cc's first lines give to rpcc and rpcs.
AtMostOnce == \A a, b \in DOMAIN execs :
  a # b /\ execs[a].xid # 1 => execs[a].xid # execs[b].xid

\* In particular none whose caller still waits for its first answer.
OnceWhileWaiting == \A t \in Threads :
  Outstanding(t) /\ ~ca[t].done /\ ca[t].xid # 1
    => Cardinality({b \in DOMAIN execs : execs[b].xid = ca[t].xid}) <= 1

\* This instance of the server has executed x, or is about to.
Seen(x) == \/ \E b \in DOMAIN execs : execs[b] = [xid |-> x, srv |-> nonce_]
           \/ \E j \in jobs : j.st = "run" /\ j.m.xid = x

\* checkduplicate_and_update takes a request for NEW a second time in two cases
\* only: its xid is the very largest xid_rep, so that its entry is erased and it
\* is not FORGOTTEN; or its entry is in the window behind one that the client
\* is done with, and the loop stepped over it.
RepeatsExplained == [][\A m \in reqs :
  dispatch_new(m) /\ Seen(m.xid) =>
    \/ m.xid = maxima
    \/ \E i, k \in DOMAIN window :
         k < i /\ window[i].xid = m.xid /\ Erasable(window[k], m.rep)]_vars

\* checkduplicate_and_update frees the buffer under a dispatch that has still
\* to send it only when the call has its answer: no caller waits for what
\* that dispatch then reads from freed memory.
FreedIsAnswered == \A j \in jobs, t \in Threads :
  j.freed /\ Outstanding(t) /\ ca[t].xid = j.m.xid => ca[t].done

\* Once cancel has begun to wait, no call starts and none that it failed gets
\* another result.
CancelSticks == [][destroy_wait_ =>
  \A t \in Threads : Outstanding(t)' => Outstanding(t) /\ ca'[t].ret = "cancel"]_vars

\* Every call is answered without reaching its final deadline, although
\* connections break and their ends notice it at different times, unless the
\* reply of its handler went astray: it was sent on the request's connection,
\* which the client had left, when the client's retransmission on a later one
\* had already been dropped as INPROGRESS.
CallsAnswered == \A t \in Threads :
  Outstanding(t) ~> ~Outstanding(t) \/ ca[t].xid \in astray

\* rpcc::cancel returns.
CancelReturns == cancel_ = "wait" ~> cancel_ = "done"
=============================================================================
