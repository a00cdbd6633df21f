----------------------------- MODULE RpcProofs -----------------------------
(***************************************************************************)
(* Proofs about Rpc, for any number of threads, calls, connections,        *)
(* timeouts and restarts.  From IInv:                                      *)
(* the xid_rep that the client sends never covers a call it waits for, and *)
(* no such call is answered with atmostonce_failure.  From SInv, which ties*)
(* the server's window, its jobs and its executions to the calls: a reply  *)
(* is kept while its caller waits, success means executed, a buffer freed  *)
(* under a dispatch is one nobody waits for, and cancel sticks.  From RInv *)
(* and what the loop over the window leaves: when a request is executed a  *)
(* second time.                                                            *)
(***************************************************************************)
EXTENDS Rpc, Recursion, TLAPS

\* A successful reply, on its way or received, is that of some execution.
BufsExist ==
  /\ \A t \in Threads : ca[t].ret = "OK" => ca[t].b \in DOMAIN execs
  /\ \A r \in reps : r.ret = "OK" => r.b \in DOMAIN execs
  /\ \A j \in jobs : j.st # "run" => j.b \in DOMAIN execs

\* An xid in use is below the next one, and two calls never share one.
XidsBelow ==
  /\ xid_rep < xid_ /\ \A y \in pend : y < xid_
  /\ \A m \in reqs : m.xid < xid_
  /\ \A j \in jobs : j.m.xid < xid_
  /\ \A r \in reps : r.xid < xid_
  /\ \A t \in Threads : ca[t].xid < xid_
  /\ \A t, u \in Threads :
       Outstanding(t) /\ Outstanding(u) /\ ca[t].xid = ca[u].xid => t = u

\* Every xid_rep on its way, or remembered by the server, is at most the
\* client's; a call that was forgotten is below it.
RepsBelow ==
  /\ maxima <= xid_rep
  /\ \A m \in reqs : m.rep <= xid_rep
  /\ \A t \in Threads : ca[t].rep <= xid_rep
  /\ \A r \in reps : r.ret = "atmostonce" => r.xid <= xid_rep

\* The inductive invariant.
IInv == /\ TypeOK /\ BufsExist /\ XidsBelow /\ RepsBelow
        /\ RepIsHonest /\ NeverForgottenEarly

\* The numbers the invariant compares are numbers.
LEMMA Fields ==
  ASSUME TypeOK
  PROVE  /\ xid_ \in Nat /\ xid_rep \in Nat /\ pend \in SUBSET Nat /\ maxima \in Int
         /\ \A t \in Threads : ca[t].xid \in Nat /\ ca[t].rep \in Nat
         /\ \A m \in reqs : m.xid \in Nat /\ m.rep \in Nat
         /\ \A r \in reps : r.xid \in Nat
         /\ \A j \in jobs : j.m \in Message /\ j.m.xid \in Nat
  BY DEF TypeOK, CltTypes, NetTypes, SrvTypes, Caller, Message, Reply, Job

\* The initial state satisfies it.
LEMMA InvInit == Init => IInv
<1> SUFFICES ASSUME Init PROVE IInv
  OBVIOUS
<1> USE DEF Init
<1>1. TypeOK
  <2>1. Idle \in Caller
    BY DEF Idle, NewCaller, Caller, Rets
  <2>2. CltTypes
    <3>1. bind_done_ \in BOOLEAN /\ ca \in [Threads -> Caller]
      BY <2>1, Zenon
    <3>2. QED
      BY <3>1 DEF CltTypes
  <2>3. NetTypes
    BY DEF NetTypes
  <2>4. SrvTypes
    BY DEF SrvTypes
  <2>5. QED
    BY <2>2, <2>3, <2>4 DEF TypeOK
<1> USE DEF Idle, NewCaller
<1>2. BufsExist /\ XidsBelow /\ RepsBelow
  BY DEF BufsExist, XidsBelow, RepsBelow, Outstanding
<1>3. RepIsHonest /\ NeverForgottenEarly
  BY DEF RepIsHonest, NeverForgottenEarly, Outstanding
<1>4. QED
  BY <1>1, <1>2, <1>3 DEF IInv

\* update_xid_rep(x) moves the front up, stays below the next xid, and makes
\* the window cover nothing but what it covered before and x.
LEMMA UpdateXidRep ==
  ASSUME xid_ \in Nat, xid_rep \in Nat, pend \in SUBSET Nat,
         xid_rep < xid_, \A y \in pend : y < xid_,
         NEW x \in Nat, x < xid_, update_xid_rep(x)
  PROVE  /\ xid_rep' \in Nat /\ pend' \in SUBSET Nat
         /\ xid_rep <= xid_rep' /\ xid_rep' < xid_
         /\ \A y \in pend' : y < xid_
         /\ \A y \in Nat : y <= xid_rep' \/ y \in pend'
                             => y <= xid_rep \/ y \in pend \/ y = x
<1>1. CASE x <= xid_rep
  <2>1. xid_rep' = xid_rep /\ pend' = pend
    BY <1>1 DEF update_xid_rep
  <2>2. QED
    BY <2>1
<1>2. CASE ~(x <= xid_rep)
  <2>1. PICK f \in xid_rep .. MaxXid :
          /\ \A y \in xid_rep + 1 .. f : y \in pend \cup {x}
          /\ xid_rep' = f
          /\ pend' = {y \in pend \cup {x} : y > f}
    BY <1>2 DEF update_xid_rep
  <2>2. f \in Nat /\ xid_rep <= f
    BY BoundsAssumption, <2>1
  <2>3. \A y \in Nat : y <= f => y <= xid_rep \/ y \in pend \/ y = x
    BY <2>1, <2>2
  <2>4. f < xid_
    BY <2>2, <2>3
  <2>5. QED
    BY <2>1, <2>2, <2>3, <2>4
<1>3. QED
  BY <1>1, <1>2

-----------------------------------------------------------------------------
(* The client's actions, one lemma each.                                   *)

\* A new call takes an xid above every other and the front of the window.
LEMMA CallStep == ASSUME IInv, NEW t \in Threads, call1(t) PROVE IInv'
<1> DEFINE new == NewCaller("xmit", xid_, xid_rep, srv_nonce_)
<1>1. ca' = [ca EXCEPT ![t] = new] /\ xid_' = xid_ + 1
  BY DEF call1, RepToSend
<1>2. UNCHANGED <<bind_done_, srv_nonce_, xid_rep, pend, cancel_, timeouts,
                  chan_, nconn, cdead, sdead, reqs, reps, nonce_, maxima, conns_,
                  jobs, execs, astray>>
  BY DEF call1, srvVars, connVars
<1>3. TypeOK'
  <2>1. new \in Caller
    BY DEF IInv, TypeOK, CltTypes, Caller, Rets, NewCaller
  <2>2. QED
    BY <1>1, <1>2, <2>1 DEF IInv, TypeOK, CltTypes, NetTypes, SrvTypes
<1>4. \A u \in Threads : ca'[u] = IF u = t THEN new ELSE ca[u]
  BY <1>1 DEF IInv, TypeOK, CltTypes
<1> HIDE DEF new
<1>5. /\ new.xid = xid_ /\ new.rep = xid_rep /\ new.ret = "none" /\ new.done = FALSE
  BY DEF new, NewCaller
<1>6. BufsExist'
  BY <1>2, <1>4, <1>5 DEF IInv, BufsExist
<1>7. XidsBelow'
  BY <1>1, <1>2, <1>4, <1>5, Fields DEF IInv, XidsBelow, Outstanding
<1>8. RepsBelow'
  BY <1>2, <1>4, <1>5, Fields DEF IInv, RepsBelow
<1>9. RepIsHonest' /\ NeverForgottenEarly'
  BY <1>1, <1>2, <1>4, <1>5, Fields
     DEF IInv, XidsBelow, RepIsHonest, NeverForgottenEarly, Outstanding
<1>10. QED
  BY <1>3, <1>6, <1>7, <1>8, <1>9 DEF IInv

\* A request or deadline of a call leaves xid, xid_rep and result alone.
SameCalls == \A u \in Threads :
  /\ ca'[u].xid = ca[u].xid /\ ca'[u].rep = ca[u].rep /\ ca'[u].srv = ca[u].srv
  /\ ca'[u].done = ca[u].done /\ ca'[u].ret = ca[u].ret /\ ca'[u].b = ca[u].b
  /\ Outstanding(u)' <=> Outstanding(u)

\* A transmission leaves calls, their xids and answers as they are.
LEMMA TransmitSameCalls ==
  ASSUME ca \in [Threads -> Caller], NEW t \in Threads, transmit(t)
  PROVE  ca' \in [Threads -> Caller] /\ SameCalls
<1>1. PICK c \in 0 .. MaxConns :
        ca' = [ca EXCEPT ![t].st = IF ca[t].last THEN "finish" ELSE "wait",
                         ![t].ch = IF c = 0 THEN @ ELSE c]
  BY DEF transmit
<1>2. c \in Nat
  BY <1>1, BoundsAssumption
<1> DEFINE st == IF ca[t].last THEN "finish" ELSE "wait"
           ch == IF c = 0 THEN ca[t].ch ELSE c
           new == [ca[t] EXCEPT !.st = st, !.ch = ch]
<1>3. ca' = [ca EXCEPT ![t] = new]
  BY <1>1 DEF Caller
<1>4. st \in {"finish", "wait"} /\ ch \in Nat
  BY <1>2 DEF Caller
<1> HIDE DEF st, ch
<1>5. /\ new \in Caller /\ new.st = st /\ new.xid = ca[t].xid /\ new.srv = ca[t].srv
      /\ new.rep = ca[t].rep /\ new.done = ca[t].done /\ new.ret = ca[t].ret
      /\ new.b = ca[t].b
  BY <1>4 DEF Caller
<1>6. ca[t].st = "xmit"
  BY DEF transmit
<1> HIDE DEF new
<1>7. QED
  BY <1>3, <1>4, <1>5, <1>6 DEF SameCalls, Outstanding

\* So does a deadline that passes.
LEMMA DeadlineSameCalls ==
  ASSUME ca \in [Threads -> Caller], NEW t \in Threads, deadline(t)
  PROVE  ca' \in [Threads -> Caller] /\ SameCalls
<1>1. ca[t].st = "wait"
  BY DEF deadline
<1>2. PICK st \in {"xmit", "finish"}, last \in {TRUE, ca[t].last} :
        ca' = [ca EXCEPT ![t] = [ca[t] EXCEPT !.st = st, !.last = last]]
  BY <1>1 DEF deadline, Caller
<1> DEFINE new == [ca[t] EXCEPT !.st = st, !.last = last]
<1>3. /\ new \in Caller /\ new.st = st /\ new.xid = ca[t].xid /\ new.srv = ca[t].srv
      /\ new.rep = ca[t].rep /\ new.done = ca[t].done /\ new.ret = ca[t].ret
      /\ new.b = ca[t].b
  BY <1>2 DEF Caller
<1> HIDE DEF new
<1>4. QED
  BY <1>1, <1>2, <1>3 DEF new, SameCalls, Outstanding

\* A transmission puts a copy of the request into the network.
LEMMA TransmitStep == ASSUME IInv, NEW t \in Threads, transmit(t) PROVE IInv'
<1>1. PICK c \in 0 .. MaxConns :
        /\ get_refconn(c)
        /\ reqs' = IF c = 0 THEN reqs ELSE reqs \cup {Request(t, c)}
        /\ ca' = [ca EXCEPT ![t].st = IF ca[t].last THEN "finish" ELSE "wait",
                            ![t].ch = IF c = 0 THEN @ ELSE c]
  BY DEF transmit
<1>2. c \in Nat
  BY <1>1, BoundsAssumption
<1>3. UNCHANGED <<xid_, bind_done_, srv_nonce_, xid_rep, pend, cancel_, timeouts,
                  reps, nonce_, maxima, conns_, jobs, execs, astray>>
  BY DEF transmit, srvVars
<1>4. ca' \in [Threads -> Caller] /\ SameCalls
  BY TransmitSameCalls DEF IInv, TypeOK, CltTypes
<1>5. Request(t, c) \in Message
  BY <1>2 DEF Request, Message, IInv, TypeOK, CltTypes, Caller
<1>6. Request(t, c).xid = ca[t].xid /\ Request(t, c).rep = ca[t].rep
  BY DEF Request
<1>7a. \A m \in reqs' : m \in reqs \/ (m.xid = ca[t].xid /\ m.rep = ca[t].rep)
  BY <1>1, <1>6
<1>7. TypeOK'
  <2>1. CltTypes'
    BY <1>1, <1>3, <1>4, <1>5 DEF IInv, TypeOK, CltTypes
  <2>2. NetTypes'
    BY <1>1, <1>2, <1>3, <1>5 DEF IInv, TypeOK, NetTypes, get_refconn
  <2>3. QED
    BY <1>3, <2>1, <2>2 DEF IInv, TypeOK, SrvTypes
<1>8. BufsExist'
  BY <1>3, <1>4 DEF IInv, BufsExist, SameCalls
<1>9. XidsBelow'
  BY <1>3, <1>4, <1>7a, Fields DEF IInv, XidsBelow, SameCalls
<1>10. RepsBelow'
  BY <1>3, <1>4, <1>7a, Fields DEF IInv, RepsBelow, SameCalls
<1>11. RepIsHonest' /\ NeverForgottenEarly'
  BY <1>3, <1>4 DEF IInv, RepIsHonest, NeverForgottenEarly, SameCalls
<1>12. QED
  BY <1>7, <1>8, <1>9, <1>10, <1>11 DEF IInv

\* A deadline only moves the call along its loop.
LEMMA DeadlineStep == ASSUME IInv, NEW t \in Threads, deadline(t) PROVE IInv'
<1>1. UNCHANGED <<xid_, bind_done_, srv_nonce_, xid_rep, pend, cancel_, chan_, nconn,
                  cdead, sdead, reqs, reps, nonce_, maxima, conns_, jobs, execs,
                  astray>>
  BY DEF deadline, connVars, srvVars
<1>2. ca' \in [Threads -> Caller] /\ SameCalls /\ timeouts' \in Nat
  <2>1. ca' \in [Threads -> Caller] /\ SameCalls
    BY DeadlineSameCalls DEF IInv, TypeOK, CltTypes
  <2>2. timeouts' \in Nat
    BY DEF deadline, IInv, TypeOK, CltTypes
  <2>3. QED
    BY <2>1, <2>2
<1>3. TypeOK'
  BY <1>1, <1>2 DEF IInv, TypeOK, CltTypes, NetTypes, SrvTypes
<1>4. BufsExist'
  BY <1>1, <1>2 DEF IInv, BufsExist, SameCalls
<1>5. XidsBelow' /\ RepsBelow'
  BY <1>1, <1>2, Fields DEF IInv, XidsBelow, RepsBelow, SameCalls
<1>6. RepIsHonest' /\ NeverForgottenEarly'
  BY <1>1, <1>2 DEF IInv, RepIsHonest, NeverForgottenEarly, SameCalls
<1>7. QED
  BY <1>3, <1>4, <1>5, <1>6 DEF IInv

\* The end of a call puts its xid into the window after the call has left
\* calls_, so the window still covers no call that waits.
LEMMA FinishStep == ASSUME IInv, NEW t \in Threads, finish(t) PROVE IInv'
<1>1. UNCHANGED <<xid_, timeouts, chan_, nconn, cdead, sdead, reqs, reps, nonce_,
                  maxima, conns_, jobs, execs, astray>>
  BY DEF finish, connVars, srvVars
<1>2. /\ xid_rep' \in Nat /\ pend' \in SUBSET Nat
      /\ xid_rep <= xid_rep' /\ xid_rep' < xid_
      /\ \A y \in pend' : y < xid_
      /\ \A y \in Nat : y <= xid_rep' \/ y \in pend'
                          => y <= xid_rep \/ y \in pend \/ y = ca[t].xid
  <2>1. ca[t].xid \in Nat /\ ca[t].xid < xid_ /\ update_xid_rep(ca[t].xid)
    BY Fields DEF finish, IInv, XidsBelow
  <2>2. QED
    BY <2>1, UpdateXidRep, Fields DEF IInv, XidsBelow
<1>3. \A u \in Threads : ca'[u] = IF u = t THEN Idle ELSE ca[u]
  BY DEF finish, IInv, TypeOK, CltTypes
<1>4. /\ Idle.st = "idle" /\ Idle.xid = 0 /\ Idle.rep = 0 /\ Idle.ret = "none"
  BY DEF Idle, NewCaller
<1>5. Outstanding(t)
  BY DEF finish, Outstanding
<1>7. TypeOK'
  <2>1. ca' \in [Threads -> Caller]
    <3>1. Idle \in Caller
      BY DEF Idle, NewCaller, Caller, Rets
    <3>2. QED
      BY <3>1 DEF finish, IInv, TypeOK, CltTypes
  <2>3. cancel_' \in {"no", "wait", "woken", "done"}
    BY DEF finish, signal_destroy_wait, IInv, TypeOK, CltTypes
  <2>4. bind_done_' \in BOOLEAN /\ srv_nonce_' \in Nat
    <3>1. CASE ca[t].xid = 1 /\ ca[t].ret = "OK"
      <4>1. ca[t].b \in DOMAIN execs /\ execs \in Seq(Execution)
        BY <3>1 DEF IInv, BufsExist, TypeOK, SrvTypes
      <4>2. execs[ca[t].b] \in Execution
        BY <4>1
      <4>3. execs[ca[t].b].srv \in Nat
        BY <4>2 DEF Execution
      <4>4. bind_done_' = TRUE /\ srv_nonce_' = execs[ca[t].b].srv
        BY <3>1 DEF finish
      <4>5. QED
        BY <4>3, <4>4
    <3>2. CASE ~(ca[t].xid = 1 /\ ca[t].ret = "OK")
      BY <3>2 DEF finish, IInv, TypeOK, CltTypes
    <3>3. QED
      BY <3>1, <3>2
  <2>5. CltTypes'
    BY <1>1, <1>2, <2>1, <2>3, <2>4 DEF IInv, TypeOK, CltTypes
  <2>6. QED
    BY <1>1, <2>5 DEF IInv, TypeOK, NetTypes, SrvTypes
<1>8. BufsExist'
  BY <1>1, <1>3, <1>4 DEF IInv, BufsExist
<1>9. XidsBelow'
  BY <1>1, <1>2, <1>3, <1>4, Fields DEF IInv, XidsBelow, Outstanding
<1>10. RepsBelow'
  BY <1>1, <1>2, <1>3, <1>4, Fields DEF IInv, RepsBelow
<1>11. RepIsHonest' /\ NeverForgottenEarly'
  <2>1. ASSUME NEW u \in Threads, Outstanding(u)', ~ca'[u].done
        PROVE  ca'[u].xid > xid_rep' /\ ca'[u].xid \notin pend'
    <3>1. u # t /\ ca'[u] = ca[u] /\ Outstanding(u) /\ ~ca[u].done
      BY <1>3, <1>4, <2>1 DEF Outstanding
    <3>2. ca[u].xid # ca[t].xid
      BY <1>5, <3>1 DEF IInv, XidsBelow
    <3>3. ~(ca[u].xid <= xid_rep) /\ ca[u].xid \notin pend
      BY <3>1, Fields DEF IInv, RepIsHonest
    <3>4. QED
      BY <1>2, <3>1, <3>2, <3>3, Fields DEF IInv
  <2>2. QED
    BY <2>1, <1>3, <1>4 DEF RepIsHonest, NeverForgottenEarly, IInv
<1>12. QED
  BY <1>7, <1>8, <1>9, <1>10, <1>11 DEF IInv

\* A reply enters the window together with the result of its call.  One that
\* says atmostonce_failure is for a call below xid_rep, which waits no more.
LEMMA ReplyReceivedStep == ASSUME IInv, NEW r \in reps, rpcc_got_pdu(r) PROVE IInv'
<1>1. UNCHANGED <<xid_, bind_done_, srv_nonce_, cancel_, timeouts, chan_, nconn, cdead,
                  sdead, reqs, nonce_, maxima, conns_, jobs, execs, astray>>
  BY DEF rpcc_got_pdu, connVars, srvVars
<1>2. reps' = reps \ {r} /\ r \in Reply
  BY DEF rpcc_got_pdu, IInv, TypeOK, NetTypes
<1>3. /\ xid_rep' \in Nat /\ pend' \in SUBSET Nat
      /\ xid_rep <= xid_rep' /\ xid_rep' < xid_
      /\ \A y \in pend' : y < xid_
      /\ \A y \in Nat : y <= xid_rep' \/ y \in pend'
                          => y <= xid_rep \/ y \in pend \/ y = r.xid
  <2>1. r.xid \in Nat /\ r.xid < xid_ /\ update_xid_rep(r.xid)
    BY Fields DEF rpcc_got_pdu, IInv, XidsBelow
  <2>2. QED
    BY <2>1, UpdateXidRep, Fields DEF IInv, XidsBelow
<1> DEFINE new(t) == [ca[t] EXCEPT !.done = TRUE, !.ret = r.ret, !.b = r.b]
<1>4. ca' = [t \in Threads |-> IF Answers(t, r) THEN new(t) ELSE ca[t]]
  BY DEF rpcc_got_pdu
<1>5. \A t \in Threads :
        /\ new(t) \in Caller /\ new(t).st = ca[t].st /\ new(t).xid = ca[t].xid
        /\ new(t).rep = ca[t].rep /\ new(t).done = TRUE /\ new(t).ret = r.ret
        /\ new(t).b = r.b
  <2>1. \A t \in Threads : ca[t] \in Caller
    BY DEF IInv, TypeOK, CltTypes
  <2>2. ASSUME NEW x \in Caller, NEW y, y = [x EXCEPT !.done = TRUE, !.ret = r.ret, !.b = r.b]
        PROVE  /\ y \in Caller /\ y.st = x.st /\ y.xid = x.xid /\ y.rep = x.rep
               /\ y.done = TRUE /\ y.ret = r.ret /\ y.b = r.b
    BY <1>2, <2>2 DEF Caller, Reply
  <2> TAKE t \in Threads
  <2>3. PICK y : y = new(t)
    OBVIOUS
  <2>4. ca[t] \in Caller
    BY <2>1
  <2>5. y = [ca[t] EXCEPT !.done = TRUE, !.ret = r.ret, !.b = r.b]
    BY <2>3
  <2>6. /\ y \in Caller /\ y.st = ca[t].st /\ y.xid = ca[t].xid /\ y.rep = ca[t].rep
        /\ y.done = TRUE /\ y.ret = r.ret /\ y.b = r.b
    BY <2>2, <2>4, <2>5, Zenon
  <2> HIDE DEF new
  <2>7. QED
    BY <2>3, <2>6, Zenon
<1> HIDE DEF new
<1>6. \A t \in Threads :
        /\ ca'[t].xid = ca[t].xid /\ ca'[t].rep = ca[t].rep
        /\ Outstanding(t)' <=> Outstanding(t)
  BY <1>4, <1>5 DEF Outstanding
<1>7. TypeOK'
  <2>1. ca' \in [Threads -> Caller]
    BY <1>4, <1>5 DEF IInv, TypeOK, CltTypes
  <2>2. CltTypes'
    BY <1>1, <1>3, <2>1 DEF IInv, TypeOK, CltTypes
  <2>3. QED
    BY <1>1, <1>2, <2>2 DEF IInv, TypeOK, NetTypes, SrvTypes
<1>8. BufsExist'
  BY <1>1, <1>2, <1>4, <1>5 DEF IInv, BufsExist
<1>9. XidsBelow'
  BY <1>1, <1>2, <1>3, <1>6, Fields DEF IInv, XidsBelow
<1>10. RepsBelow'
  BY <1>1, <1>2, <1>3, <1>6, Fields DEF IInv, RepsBelow
<1>11. RepIsHonest'
  <2>1. ASSUME NEW u \in Threads, Outstanding(u)', ~ca'[u].done
        PROVE  ca'[u].xid > xid_rep' /\ ca'[u].xid \notin pend'
    <3>1. ~Answers(u, r) /\ ca'[u] = ca[u] /\ Outstanding(u) /\ ~ca[u].done
      BY <1>4, <1>5, <1>6, <2>1
    <3>2. ca[u].xid # r.xid
      BY <3>1 DEF Answers
    <3>3. ~(ca[u].xid <= xid_rep) /\ ca[u].xid \notin pend
      BY <3>1, Fields DEF IInv, RepIsHonest
    <3>4. QED
      BY <1>3, <3>1, <3>2, <3>3, Fields DEF IInv
  <2>2. QED
    BY <2>1 DEF RepIsHonest
<1>12. NeverForgottenEarly'
  <2>1. ASSUME NEW t \in Threads, Answers(t, r) PROVE r.ret # "atmostonce"
    BY <2>1, Fields DEF Answers, IInv, RepIsHonest, RepsBelow
  <2>2. QED
    BY <1>4, <1>5, <2>1 DEF IInv, NeverForgottenEarly
<1>13. QED
  BY <1>7, <1>8, <1>9, <1>10, <1>11, <1>12 DEF IInv

\* cancel makes every outstanding call done.
LEMMA CancelStep == ASSUME IInv, cancel PROVE IInv'
<1>1. UNCHANGED <<xid_, bind_done_, srv_nonce_, xid_rep, pend, timeouts, chan_, nconn,
                  cdead, sdead, reqs, reps, nonce_, maxima, conns_, jobs, execs,
                  astray>>
  BY DEF cancel, connVars, srvVars
<1> DEFINE new(t) == [ca[t] EXCEPT !.done = TRUE, !.ret = "cancel"]
<1>2. ca' = [t \in Threads |-> IF Outstanding(t) THEN new(t) ELSE ca[t]]
  BY DEF cancel
<1>3. \A t \in Threads :
        /\ new(t) \in Caller /\ new(t).st = ca[t].st /\ new(t).xid = ca[t].xid
        /\ new(t).rep = ca[t].rep /\ new(t).done = TRUE /\ new(t).ret = "cancel"
  <2>1. \A t \in Threads : ca[t] \in Caller
    BY DEF IInv, TypeOK, CltTypes
  <2>2. QED
    BY <2>1 DEF Caller, Rets
<1> HIDE DEF new
<1>4. \A t \in Threads :
        /\ ca'[t].xid = ca[t].xid /\ ca'[t].rep = ca[t].rep
        /\ Outstanding(t)' <=> Outstanding(t)
        /\ ca'[t] = ca[t] \/ (ca'[t].done = TRUE /\ ca'[t].ret = "cancel")
  BY <1>2, <1>3 DEF Outstanding
<1>5. TypeOK'
  <2>1. ca' \in [Threads -> Caller] /\ cancel_' = "wait"
    BY <1>2, <1>3 DEF IInv, TypeOK, CltTypes, cancel
  <2>2. QED
    BY <1>1, <2>1 DEF IInv, TypeOK, CltTypes, NetTypes, SrvTypes
<1>6. BufsExist'
  BY <1>1, <1>4 DEF IInv, BufsExist
<1>7. XidsBelow' /\ RepsBelow'
  BY <1>1, <1>4, Fields DEF IInv, XidsBelow, RepsBelow
<1>8. RepIsHonest' /\ NeverForgottenEarly'
  BY <1>1, <1>4 DEF IInv, RepIsHonest, NeverForgottenEarly
<1>9. QED
  BY <1>5, <1>6, <1>7, <1>8 DEF IInv

-----------------------------------------------------------------------------
(* The server's actions and the failures.                                  *)

\* What an action that leaves the client alone has to respect.
LEMMA ServerFrame ==
  ASSUME IInv, UNCHANGED cltVars, NetTypes', SrvTypes',
         reqs' \subseteq reqs,
         \A r \in reps' : \/ r \in reps
                          \/ /\ r.xid < xid_
                             /\ r.ret = "atmostonce" => r.xid <= xid_rep
                             /\ r.ret = "OK" => r.b \in DOMAIN execs',
         \A j \in jobs' : j.m.xid < xid_ /\ (j.st # "run" => j.b \in DOMAIN execs'),
         DOMAIN execs \subseteq DOMAIN execs',
         maxima' <= xid_rep
  PROVE  IInv'
<1>1. UNCHANGED <<xid_, xid_rep, pend, ca>>
  BY DEF cltVars
<1>2. TypeOK'
  BY DEF IInv, TypeOK, CltTypes, cltVars
<1>3. BufsExist'
  BY <1>1 DEF IInv, BufsExist
<1>4. XidsBelow'
  BY <1>1 DEF IInv, XidsBelow, Outstanding
<1>5. RepsBelow'
  BY <1>1 DEF IInv, RepsBelow
<1>6. RepIsHonest' /\ NeverForgottenEarly'
  BY <1>1 DEF IInv, RepIsHonest, NeverForgottenEarly, Outstanding
<1>7. QED
  BY <1>2, <1>3, <1>4, <1>5, <1>6 DEF IInv

\* A reply that is sent is typed, and there is at most the one.
LEMMA SentReply ==
  ASSUME NEW x \in Nat, NEW ret \in Rets, NEW b \in Nat, NEW c \in Nat
  PROVE  /\ Sent(x, ret, b, c) \subseteq Reply
         /\ \A r \in Sent(x, ret, b, c) : r.xid = x /\ r.ret = ret /\ r.b = b
  BY DEF Sent, Reply

\* Freeing buffers changes no job's request, state or buffer number.
LEMMA DangleJobs ==
  ASSUME jobs \in SUBSET Job, NEW F
  PROVE  /\ Dangle(F) \in SUBSET Job
         /\ \A k \in Dangle(F) : \E j \in jobs : k.m = j.m /\ k.st = j.st /\ k.b = j.b
  BY DEF Dangle, Job

\* The largest xid_rep the server knows of never exceeds the client's.
LEMMA MaximaBelow ==
  ASSUME IInv, NEW m \in reqs
  PROVE  /\ SeenMaxima(m) \in Int /\ SeenMaxima(m) <= xid_rep
         /\ NewMaxima(SeenMaxima(m), m) \in Int
         /\ NewMaxima(SeenMaxima(m), m) <= xid_rep
  BY Fields DEF SeenMaxima, NewMaxima, IInv, RepsBelow

\* A request to an older instance is answered and changes nothing else.
LEMMA OldsrvStep == ASSUME IInv, NEW m \in reqs, dispatch_oldsrv(m) PROVE IInv'
<1>1. m.xid \in Nat /\ m.conn \in Nat /\ m.xid < xid_
  BY DEF IInv, TypeOK, NetTypes, Message, XidsBelow
<1>2. /\ Sent(m.xid, "oldsrv", 0, m.conn) \subseteq Reply
      /\ \A r \in Sent(m.xid, "oldsrv", 0, m.conn) : r.xid = m.xid /\ r.ret = "oldsrv"
  BY <1>1, SentReply DEF Rets
<1>3. /\ reps' = reps \cup Sent(m.xid, "oldsrv", 0, m.conn) /\ reqs' \subseteq reqs
      /\ UNCHANGED <<cltVars, connVars, srvVars>>
  BY DEF dispatch_oldsrv
<1>4. UNCHANGED <<chan_, nconn, cdead, sdead, nonce_, maxima, conns_, jobs, execs, astray>>
  BY <1>3 DEF connVars, srvVars
<1>5. NetTypes' /\ SrvTypes'
  BY <1>2, <1>3, <1>4 DEF IInv, TypeOK, NetTypes, SrvTypes
<1>6. QED
  BY <1>1, <1>2, <1>3, <1>4, <1>5, ServerFrame DEF IInv, XidsBelow, RepsBelow, BufsExist

\* What accepting a request changes.
LEMMA AcceptFrame ==
  ASSUME IInv, NEW m \in reqs, Accept(m)
  PROVE  /\ UNCHANGED cltVars /\ reqs' \subseteq reqs /\ conns_' \in Nat
         /\ UNCHANGED <<chan_, nconn, cdead, sdead, nonce_, execs, astray>>
         /\ m \in Message /\ m.xid \in Nat /\ m.conn \in Nat /\ m.xid < xid_
<1>1. m \in Message /\ conns_ \in Nat /\ m.xid < xid_
  BY DEF IInv, TypeOK, NetTypes, SrvTypes, XidsBelow
<1>2. QED
  BY <1>1 DEF Accept, connVars, Message

\* FORGOTTEN is answered only below the client's xid_rep.
LEMMA ForgottenStep == ASSUME IInv, NEW m \in reqs, dispatch_forgotten(m) PROVE IInv'
<1>1. /\ UNCHANGED cltVars /\ reqs' \subseteq reqs /\ conns_' \in Nat
      /\ UNCHANGED <<chan_, nconn, cdead, sdead, nonce_, execs, jobs, astray>>
      /\ m.xid \in Nat /\ m.conn \in Nat /\ m.xid < xid_
  BY AcceptFrame DEF dispatch_forgotten
<1>2. /\ Sent(m.xid, "atmostonce", 0, m.conn) \subseteq Reply
      /\ \A r \in Sent(m.xid, "atmostonce", 0, m.conn) : r.xid = m.xid /\ r.ret = "atmostonce"
  BY <1>1, SentReply DEF Rets
<1>3. maxima' \in Int /\ maxima' <= xid_rep /\ m.xid <= xid_rep
  BY <1>1, MaximaBelow, Fields DEF dispatch_forgotten, IsForgotten, IInv
<1>4. reps' = reps \cup Sent(m.xid, "atmostonce", 0, m.conn)
  BY DEF dispatch_forgotten
<1>5. NetTypes' /\ SrvTypes'
  BY <1>1, <1>2, <1>3, <1>4 DEF IInv, TypeOK, NetTypes, SrvTypes
<1>6. QED
  BY <1>1, <1>2, <1>3, <1>4, <1>5, ServerFrame DEF IInv, XidsBelow, BufsExist

\* The other verdicts add at most one job, for the request at hand.
LEMMA CheckedStep ==
  ASSUME IInv, NEW m \in reqs, Checked(m), NEW F, NEW new \in SUBSET Job,
         \A j \in new : j.m = m /\ (j.st # "run" => j.b \in DOMAIN execs),
         jobs' = Dangle(F) \cup new
  PROVE  IInv'
<1>1. /\ UNCHANGED cltVars /\ reqs' \subseteq reqs /\ conns_' \in Nat
      /\ UNCHANGED <<chan_, nconn, cdead, sdead, nonce_, execs, reps, astray>>
      /\ m.xid \in Nat /\ m.xid < xid_
  BY AcceptFrame DEF Checked
<1>2. maxima' \in Int /\ maxima' <= xid_rep
  BY MaximaBelow DEF Checked
<1>3. /\ Dangle(F) \in SUBSET Job
      /\ \A k \in Dangle(F) : \E j \in jobs : k.m = j.m /\ k.st = j.st /\ k.b = j.b
  BY DangleJobs DEF IInv, TypeOK, SrvTypes
<1>4. NetTypes' /\ SrvTypes'
  BY <1>1, <1>2, <1>3 DEF IInv, TypeOK, NetTypes, SrvTypes
<1>5. \A j \in jobs' : j.m.xid < xid_ /\ (j.st # "run" => j.b \in DOMAIN execs')
  BY <1>1, <1>3 DEF IInv, XidsBelow, BufsExist
<1>6. QED
  BY <1>1, <1>2, <1>4, <1>5, ServerFrame

\* A job made by dispatch is typed.
LEMMA NewJobType ==
  ASSUME NEW m \in Message, NEW b \in Nat, NEW st \in {"run", "reply", "resend"}
  PROVE  /\ NewJob(m, b, st) \in Job /\ NewJob(m, b, st).m = m
         /\ NewJob(m, b, st).b = b /\ NewJob(m, b, st).st = st
  BY DEF NewJob, Job

\* NEW, DONE and INPROGRESS.
LEMMA VerdictStep ==
  ASSUME IInv, NEW m \in reqs,
         dispatch_new(m) \/ dispatch_done(m) \/ dispatch_inprogress(m)
  PROVE  IInv'
<1> DEFINE F == Bufs(window) \ Bufs(Scan(m.xid, m.rep).w)
<1>1. m \in Message /\ execs \in Seq(Execution)
  BY DEF IInv, TypeOK, NetTypes, SrvTypes
<1>2. Checked(m)
  BY DEF dispatch_new, dispatch_done, dispatch_inprogress
<1>3. CASE dispatch_new(m)
  <2>1. jobs' = Dangle(F) \cup {NewJob(m, 0, "run")}
    BY <1>3 DEF dispatch_new, JobsBesides
  <2>2. NewJob(m, 0, "run") \in Job /\ NewJob(m, 0, "run").m = m
        /\ NewJob(m, 0, "run").st = "run"
    BY <1>1, NewJobType
  <2> HIDE DEF F
  <2>3. PICK new : new = {NewJob(m, 0, "run")}
    OBVIOUS
  <2>4. new \in SUBSET Job /\ \A j \in new : j.m = m /\ (j.st # "run" => j.b \in DOMAIN execs)
    BY <2>2, <2>3
  <2>5. jobs' = Dangle(F) \cup new
    BY <2>1, <2>3
  <2>6. QED
    BY <1>2, <2>4, <2>5, CheckedStep
<1>4. CASE dispatch_done(m)
  <2>1. PICK b \in DOMAIN execs : jobs' = Dangle(F) \cup {NewJob(m, b, "resend")}
    BY <1>4 DEF dispatch_done, JobsBesides
  <2>2. b \in Nat
    BY <1>1
  <2>3. NewJob(m, b, "resend") \in Job /\ NewJob(m, b, "resend").m = m
        /\ NewJob(m, b, "resend").b = b
    BY <1>1, <2>2, NewJobType
  <2> DEFINE new == {NewJob(m, b, "resend")}
  <2>4. new \in SUBSET Job /\ \A j \in new : j.m = m /\ (j.st # "run" => j.b \in DOMAIN execs)
    BY <2>3
  <2>5. jobs' = Dangle(F) \cup new
    BY <2>1
  <2> HIDE DEF F, new
  <2>6. QED
    BY <1>2, <2>4, <2>5, CheckedStep
<1>5. CASE dispatch_inprogress(m)
  <2> DEFINE new == {}
  <2>1. jobs' = Dangle(F) \cup new
    BY <1>5 DEF dispatch_inprogress, JobsBesides
  <2>2. new \in SUBSET Job /\ \A j \in new : j.m = m /\ (j.st # "run" => j.b \in DOMAIN execs)
    OBVIOUS
  <2> HIDE DEF F, new
  <2>3. QED
    BY <1>2, <2>1, <2>2, CheckedStep
<1>6. QED
  BY <1>3, <1>4, <1>5

\* A handler's execution adds to the history.
LEMMA RunStep == ASSUME IInv, NEW j \in jobs, run(j) PROVE IInv'
<1> DEFINE e == [xid |-> j.m.xid, srv |-> nonce_]
           new == [j EXCEPT !.b = Len(execs'), !.st = "reply"]
<1>1. j \in Job /\ j.m \in Message /\ nonce_ \in Nat /\ execs \in Seq(Execution)
  BY DEF IInv, TypeOK, SrvTypes, Job
<1>2. execs' = Append(execs, e) /\ e \in Execution
  BY <1>1 DEF run, Execution, Message
<1>3. /\ execs' \in Seq(Execution) /\ Len(execs') \in DOMAIN execs'
      /\ Len(execs') \in Nat /\ DOMAIN execs \subseteq DOMAIN execs'
  BY <1>1, <1>2
<1>4. new \in Job /\ new.m = j.m /\ new.b = Len(execs')
  BY <1>1, <1>3 DEF Job
<1>5. jobs' = (jobs \ {j}) \cup {new}
  BY DEF run
<1>6. UNCHANGED <<cltVars, chan_, nconn, cdead, sdead, reqs, reps, nonce_, maxima,
                  conns_, astray>>
  BY DEF run, connVars
<1> HIDE DEF e, new
<1>7. NetTypes' /\ SrvTypes'
  BY <1>3, <1>4, <1>5, <1>6 DEF IInv, TypeOK, NetTypes, SrvTypes
<1>8. \A k \in jobs' : k.m.xid < xid_ /\ (k.st # "run" => k.b \in DOMAIN execs')
  BY <1>3, <1>4, <1>5 DEF IInv, XidsBelow, BufsExist
<1>9. QED
  BY <1>3, <1>6, <1>7, <1>8, ServerFrame DEF IInv, RepsBelow

\* The reply of an execution is sent.
LEMMA ReplyStep == ASSUME IInv, NEW j \in jobs, reply(j) PROVE IInv'
<1>1. /\ j \in Job /\ j.m.xid \in Nat /\ j.b \in Nat /\ Target(j) \in Nat
      /\ j.m.xid < xid_ /\ j.b \in DOMAIN execs
  <2>1. j \in Job /\ conns_ \in Nat /\ j.m.xid < xid_ /\ j.st # "run"
    BY DEF reply, IInv, TypeOK, SrvTypes, XidsBelow
  <2>2. j.b \in DOMAIN execs
    BY <2>1 DEF IInv, BufsExist
  <2>3. QED
    BY <2>1, <2>2 DEF Job, Message, Target
<1>2. /\ Sent(j.m.xid, "OK", j.b, Target(j)) \subseteq Reply
      /\ \A r \in Sent(j.m.xid, "OK", j.b, Target(j)) :
           r.xid = j.m.xid /\ r.ret = "OK" /\ r.b = j.b
  BY <1>1, SentReply DEF Rets
<1>3. reps' = reps \cup Sent(j.m.xid, "OK", j.b, Target(j)) /\ jobs' \subseteq jobs
  BY DEF reply
<1>4. UNCHANGED <<cltVars, chan_, nconn, cdead, sdead, reqs, nonce_, maxima, conns_, execs>>
  BY DEF reply, connVars
<1>5. NetTypes' /\ SrvTypes'
  <2>1. astray' \in SUBSET Nat
    BY <1>1 DEF reply, IInv, TypeOK, SrvTypes
  <2> QED BY <1>2, <1>3, <1>4, <2>1 DEF IInv, TypeOK, NetTypes, SrvTypes
<1>6. \A k \in jobs' : k.m.xid < xid_ /\ (k.st # "run" => k.b \in DOMAIN execs')
  BY <1>3, <1>4 DEF IInv, XidsBelow, BufsExist
<1>7. \A r \in reps' : \/ r \in reps
                       \/ r.xid < xid_ /\ r.ret = "OK" /\ r.b \in DOMAIN execs'
  BY <1>1, <1>2, <1>3, <1>4
<1>8. QED
  BY <1>3, <1>4, <1>5, <1>6, <1>7, ServerFrame DEF IInv, RepsBelow

\* When a connection breaks, messages disappear and nothing is added.
LEMMA FailureStep ==
  ASSUME IInv, NEW c \in 1 .. nconn, break(c) \/ server_break(c)
  PROVE  IInv'
<1>1. /\ reqs' \subseteq reqs /\ reps' \subseteq reps /\ jobs' \subseteq jobs
      /\ UNCHANGED <<cltVars, chan_, nconn, execs>>
      /\ UNCHANGED <<maxima, conns_, nonce_, astray>>
  BY DEF break, server_break, srvVars
<1>2. nconn \in Nat /\ c \in Nat /\ 1 .. nconn \subseteq Nat
  BY DEF IInv, TypeOK, NetTypes
<1>3. cdead' \subseteq Nat /\ sdead' \subseteq Nat
  BY <1>2 DEF break, server_break, IInv, TypeOK, NetTypes
<1>4. NetTypes' /\ SrvTypes'
  BY <1>1, <1>3 DEF IInv, TypeOK, NetTypes, SrvTypes
<1>5. maxima' <= xid_rep
  BY <1>1 DEF IInv, RepsBelow
<1>6. \A k \in jobs' : k.m.xid < xid_ /\ (k.st # "run" => k.b \in DOMAIN execs')
  BY <1>1 DEF IInv, XidsBelow, BufsExist
<1>7. QED
  BY <1>1, <1>4, <1>5, <1>6, ServerFrame

-----------------------------------------------------------------------------
\* Every step keeps the inductive invariant.
LEMMA InvStep == IInv /\ [Next]_vars => IInv'
<1> SUFFICES ASSUME IInv, [Next]_vars PROVE IInv'
  OBVIOUS
<1>1. ASSUME NEW t \in Threads, call1(t) \/ transmit(t) \/ deadline(t) \/ finish(t)
      PROVE  IInv'
  BY <1>1, CallStep, TransmitStep, DeadlineStep, FinishStep
<1>2. ASSUME NEW r \in reps, rpcc_got_pdu(r) PROVE IInv'
  BY <1>2, ReplyReceivedStep
<1>3. CASE cancel
  BY <1>3, CancelStep
<1>4. CASE cancel_recheck
  <2>1. UNCHANGED <<xid_, bind_done_, srv_nonce_, xid_rep, pend, ca, timeouts, chan_,
                    nconn, cdead, sdead, reqs, reps, nonce_, maxima, conns_, jobs,
                    execs, astray>>
    BY <1>4 DEF cancel_recheck, connVars, srvVars
  <2>2. cancel_' \in {"wait", "done"}
    BY <1>4 DEF cancel_recheck
  <2>3. QED
    BY <2>1, <2>2 DEF IInv, TypeOK, CltTypes, NetTypes, SrvTypes, BufsExist,
       XidsBelow, RepsBelow, RepIsHonest, NeverForgottenEarly, Outstanding
<1>5. ASSUME NEW m \in reqs, dispatch(m) PROVE IInv'
  BY <1>5, OldsrvStep, ForgottenStep, VerdictStep DEF dispatch
<1>6. ASSUME NEW j \in jobs, run(j) \/ reply(j) PROVE IInv'
  BY <1>6, RunStep, ReplyStep
<1>7. ASSUME NEW c \in 1 .. nconn, break(c) \/ server_break(c) PROVE IInv'
  BY <1>7, FailureStep
<1>8. CASE restart
  <2>1. /\ UNCHANGED <<cltVars, chan_, nconn, execs, astray>>
        /\ reqs' = {} /\ reps' = {} /\ jobs' = {} /\ maxima' = -1 /\ conns_' = 0
        /\ cdead' = 1 .. nconn /\ sdead' = 1 .. nconn /\ nonce_' = nonce_ + 1
    BY <1>8 DEF restart
  <2>2. NetTypes' /\ SrvTypes'
    BY <2>1 DEF IInv, TypeOK, NetTypes, SrvTypes
  <2>3. maxima' <= xid_rep
    BY <2>1, Fields DEF IInv
  <2>4. QED
    BY <2>1, <2>2, <2>3, ServerFrame
<1>9. CASE UNCHANGED vars
  <2>1. UNCHANGED <<cltVars, chan_, nconn, cdead, sdead, reqs, reps,
                    nonce_, maxima, conns_, jobs, execs, astray>>
    BY <1>9 DEF vars, connVars, srvVars
  <2>2. NetTypes' /\ SrvTypes'
    BY <2>1 DEF IInv, TypeOK, NetTypes, SrvTypes
  <2>3. QED
    BY <2>1, <2>2, ServerFrame DEF IInv, RepsBelow, XidsBelow, BufsExist
<1>10. QED
  BY <1>1, <1>2, <1>3, <1>4, <1>5, <1>6, <1>7, <1>8, <1>9 DEF Next

\* The inductive invariant holds in every reachable state.
THEOREM Invariance == SafeSpec => []IInv
  BY InvInit, InvStep, PTL DEF SafeSpec

\* The types of the client's variables, of what is on its way, and of the
\* server's jobs and executions.
THEOREM TypeCorrect == SafeSpec => []TypeOK
<1>1. IInv => TypeOK
  BY DEF IInv
<1>2. QED
  BY Invariance, <1>1, PTL

\* The xid_rep the client sends covers no call that still waits for a reply.
THEOREM RepIsHonestTheorem == SafeSpec => []RepIsHonest
<1>1. IInv => RepIsHonest
  BY DEF IInv
<1>2. QED
  BY Invariance, <1>1, PTL

\* No call is ever answered with atmostonce_failure while it is outstanding.
THEOREM NeverForgottenTheorem == SafeSpec => []NeverForgottenEarly
<1>1. IInv => NeverForgottenEarly
  BY DEF IInv
<1>2. QED
  BY Invariance, <1>1, PTL

-----------------------------------------------------------------------------
(* The loop of checkduplicate_and_update.                                  *)

\* Without its element at i a sequence keeps the others.
LEMMA Removed ==
  ASSUME NEW w \in Seq(Entry), NEW i \in 1 .. Len(w)
  PROVE  /\ RemoveAt(w, i) \in Seq(Entry) /\ Len(RemoveAt(w, i)) = Len(w) - 1
         /\ ToSet(RemoveAt(w, i)) \subseteq ToSet(w)
         /\ ToSet(w) \ {w[i]} \subseteq ToSet(RemoveAt(w, i))
<1> DEFINE v == RemoveAt(w, i)
           a == SubSeq(w, 1, i - 1)
           b == SubSeq(w, i + 1, Len(w))
<1>1. v \in Seq(Entry) /\ Len(v) = Len(w) - 1
      /\ \A k \in 1 .. Len(w) - 1 : v[k] = IF k < i THEN w[k] ELSE w[k + 1]
  <2>1. a \in Seq(Entry) /\ Len(a) = i - 1 /\ \A k \in 1 .. i - 1 : a[k] = w[k]
    OBVIOUS
  <2>2. /\ b \in Seq(Entry) /\ Len(b) = Len(w) - i
        /\ \A k \in 1 .. Len(w) - i : b[k] = w[i + k]
    OBVIOUS
  <2>3. v = a \o b
    BY DEF RemoveAt
  <2> HIDE DEF a, b, v
  <2>4. v \in Seq(Entry) /\ Len(v) = Len(w) - 1
        /\ \A k \in 1 .. Len(w) - 1 : v[k] = IF k <= Len(a) THEN a[k] ELSE b[k - Len(a)]
    <3>0. a \in Seq(Entry) /\ b \in Seq(Entry)
      BY <2>1, <2>2
    <3>1. v \in Seq(Entry) /\ Len(v) = Len(a) + Len(b)
      BY <2>3, <3>0
    <3>2. \A k \in 1 .. Len(a) + Len(b) : v[k] = IF k <= Len(a) THEN a[k] ELSE b[k - Len(a)]
      BY <2>1, <2>2, <2>3
    <3>3. Len(a) + Len(b) = Len(w) - 1
      BY <2>1, <2>2
    <3> QED BY <3>1, <3>2, <3>3
  <2>5. ASSUME NEW k \in 1 .. Len(w) - 1 PROVE v[k] = IF k < i THEN w[k] ELSE w[k + 1]
    <3>0. Len(w) \in Nat /\ i \in Nat /\ k \in Nat /\ Len(a) = i - 1
      BY <2>1
    <3>1. CASE k < i
      <4>1. k \in 1 .. i - 1 /\ k <= Len(a)
        BY <3>0, <3>1
      <4>2. v[k] = a[k]
        BY <2>4, <4>1
      <4> QED BY <2>1, <3>1, <4>1, <4>2
    <3>2. CASE ~(k < i)
      <4>1. k - Len(a) \in 1 .. Len(w) - i /\ i + (k - Len(a)) = k + 1 /\ ~(k <= Len(a))
        BY <3>0, <3>2
      <4>2. v[k] = b[k - Len(a)]
        BY <2>4, <4>1
      <4>3. b[k - Len(a)] = w[i + (k - Len(a))]
        BY <2>2, <4>1
      <4> QED BY <3>2, <4>1, <4>2, <4>3
    <3> QED BY <3>1, <3>2
  <2> QED BY <2>4, <2>5
<1> HIDE DEF v
<1>2. DOMAIN v = 1 .. Len(w) - 1 /\ DOMAIN w = 1 .. Len(w)
  BY <1>1
<1>3. ASSUME NEW k \in DOMAIN v PROVE v[k] \in ToSet(w)
  <2>1. k \in 1 .. Len(w) /\ k + 1 \in 1 .. Len(w)
    BY <1>2
  <2> QED BY <1>1, <1>2, <2>1 DEF ToSet
<1>4. ASSUME NEW k \in DOMAIN w, w[k] # w[i] PROVE w[k] \in ToSet(v)
  <2>1. k \in 1 .. Len(w) /\ k # i
    BY <1>2, <1>4
  <2>2. CASE k < i
    <3>1. k \in DOMAIN v /\ v[k] = w[k]
      BY <1>1, <1>2, <2>1, <2>2
    <3> QED BY <3>1 DEF ToSet
  <2>3. CASE ~(k < i)
    <3>1. k - 1 \in DOMAIN v /\ v[k - 1] = w[(k - 1) + 1] /\ (k - 1) + 1 = k
      BY <1>1, <1>2, <2>1, <2>3
    <3> QED BY <3>1 DEF ToSet
  <2> QED BY <2>2, <2>3
<1>5. ToSet(v) \subseteq ToSet(w) /\ ToSet(w) \ {w[i]} \subseteq ToSet(v)
  BY <1>3, <1>4 DEF ToSet
<1> QED BY <1>1, <1>5 DEF v

\* The states of the loop, and its rounds left at most.
ScanState == [w : Seq(Entry), i : Nat \ {0}]
RoundsLeft(s) ==
  IF s.i > Len(s.w) THEN 0 ELSE (Len(s.w) + 1) * (Len(s.w) + 2) - s.i

\* One round keeps what the client is not done with, adds nothing, and comes
\* nearer the end although it may go back to the first entry.
LEMMA Round ==
  ASSUME NEW rep \in Nat, NEW s \in ScanState, s.i <= Len(s.w)
  PROVE  /\ Advance(s, rep) \in ScanState
         /\ RoundsLeft(s) \in Nat /\ RoundsLeft(Advance(s, rep)) \in Nat
         /\ RoundsLeft(Advance(s, rep)) < RoundsLeft(s)
         /\ ToSet(Advance(s, rep).w) \subseteq ToSet(s.w)
         /\ \A e \in ToSet(s.w) : e.xid > rep => e \in ToSet(Advance(s, rep).w)
<1> DEFINE L == Len(s.w)
           v == RemoveAt(s.w, s.i)
           n == Advance(s, rep)
<1>1. s.w \in Seq(Entry) /\ s.i \in 1 .. L /\ L \in Nat /\ s.w[s.i] \in Entry
      /\ s.w[s.i].xid \in Nat /\ s.i \in Nat \ {0}
  <2>1. s.w \in Seq(Entry) /\ s.i \in Nat \ {0}
    BY DEF ScanState
  <2>2. L \in Nat /\ s.i \in 1 .. L
    BY <2>1
  <2>3. s.w[s.i] \in Entry
    BY <2>1, <2>2
  <2> QED BY <2>1, <2>2, <2>3 DEF Entry
<1>2. /\ v \in Seq(Entry) /\ Len(v) = L - 1 /\ ToSet(v) \subseteq ToSet(s.w)
      /\ ToSet(s.w) \ {s.w[s.i]} \subseteq ToSet(v)
  BY <1>1, Removed
<1> HIDE DEF v
<1>3. (L + 1) * (L + 2) = L * (L + 1) + 2 * L + 2 /\ L * (L + 1) \in Nat /\ L * (L + 1) >= L
  BY <1>1
<1>4. RoundsLeft(s) = (L + 1) * (L + 2) - s.i /\ (L + 1) * (L + 2) - s.i \in Nat \ {0}
  BY <1>1, <1>3 DEF RoundsLeft
<1>5. CASE Erasable(s.w[s.i], rep)
  <2> DEFINE i2 == IF s.i > Len(v) THEN 1 ELSE s.i + 1
  <2>1. n = [w |-> v, i |-> i2] /\ i2 \in Nat \ {0}
    BY <1>1, <1>5 DEF Advance, v
  <2> HIDE DEF i2, n
  <2>2. n \in ScanState /\ n.w = v /\ n.i = i2
    BY <1>2, <2>1 DEF ScanState
  <2>3. RoundsLeft(n) \in Nat /\ RoundsLeft(n) < RoundsLeft(s)
    <3>1. CASE i2 > Len(v)
      BY <1>4, <2>2, <3>1 DEF RoundsLeft
    <3>2. CASE ~(i2 > Len(v))
      <4>1. RoundsLeft(n) = L * (L + 1) - i2
        <5>1. RoundsLeft(n) = (Len(v) + 1) * (Len(v) + 2) - i2
          BY <2>2, <3>2 DEF RoundsLeft
        <5>2. Len(v) + 1 = L /\ Len(v) + 2 = L + 1
          BY <1>1, <1>2
        <5> QED BY <5>1, <5>2
      <4>2. i2 <= L
        BY <1>1, <1>2, <2>1, <3>2
      <4>3. ASSUME NEW M \in Nat, M >= L, NEW k \in Nat \ {0}, k <= L, NEW x \in Nat, x <= L
            PROVE  M - k \in Nat /\ M - k < (M + 2 * L + 2) - x
        BY <1>1, <4>3
      <4>4. L * (L + 1) - i2 \in Nat /\ L * (L + 1) - i2 < (L * (L + 1) + 2 * L + 2) - s.i
        BY <1>1, <1>3, <2>1, <4>2, <4>3
      <4> QED BY <1>3, <1>4, <4>1, <4>4
    <3> QED BY <3>1, <3>2
  <2>4. \A e \in ToSet(s.w) : e.xid > rep => e \in ToSet(v)
    BY <1>1, <1>2, <1>5 DEF Erasable
  <2>5. ToSet(n.w) \subseteq ToSet(s.w)
        /\ \A e \in ToSet(s.w) : e.xid > rep => e \in ToSet(n.w)
    BY <1>2, <2>2, <2>4
  <2> QED BY <1>4, <2>2, <2>3, <2>5 DEF n
<1>6. CASE ~Erasable(s.w[s.i], rep)
  <2>1. n = [w |-> s.w, i |-> s.i + 1]
    BY <1>6 DEF Advance
  <2> HIDE DEF n
  <2>2. n \in ScanState /\ n.w = s.w /\ n.i = s.i + 1
    BY <1>1, <2>1 DEF ScanState
  <2>3. RoundsLeft(n) \in Nat /\ RoundsLeft(n) < RoundsLeft(s)
    <3>1. RoundsLeft(n) = IF s.i + 1 > L THEN 0 ELSE (L + 1) * (L + 2) - (s.i + 1)
      BY <2>2 DEF RoundsLeft
    <3> QED BY <1>1, <1>4, <3>1
  <2>4. ToSet(n.w) = ToSet(s.w)
    BY <2>2
  <2> QED BY <1>4, <2>2, <2>3, <2>4 DEF n
<1> QED BY <1>5, <1>6

\* The loop as states, results and rounds.
ScanStops(x) == {s \in ScanState : s.i > Len(s.w) \/ s.w[s.i].xid = x}
ScanVal(x) == [s \in ScanStops(x) |-> IF s.i > Len(s.w) THEN [at |-> 0, w |-> s.w]
                                                      ELSE [at |-> s.i, w |-> s.w]]
ScanNext(x, rep) == [s \in ScanState \ ScanStops(x) |-> Advance(s, rep)]
ScanMeasure == [s \in ScanState |-> RoundsLeft(s)]
ScanResults == [at : Nat, w : Seq(Entry)]

\* The parts of a state.
LEMMA ScanFields ==
  ASSUME NEW s \in ScanState
  PROVE  /\ s.w \in Seq(Entry) /\ s.i \in Nat \ {0} /\ Len(s.w) \in Nat
         /\ DOMAIN s.w = 1 .. Len(s.w)
  BY DEF ScanState

\* A round that is not the last.
LEMMA ScanRound ==
  ASSUME NEW x \in Nat, NEW rep \in Nat, NEW s \in ScanState \ ScanStops(x)
  PROVE  /\ ScanNext(x, rep)[s] = Advance(s, rep)
         /\ Advance(s, rep) \in ScanState /\ RoundsLeft(Advance(s, rep)) < RoundsLeft(s)
         /\ ToSet(Advance(s, rep).w) \subseteq ToSet(s.w)
         /\ \A e \in ToSet(s.w) : e.xid > rep => e \in ToSet(Advance(s, rep).w)
<1>1. s \in ScanState /\ s.i <= Len(s.w)
  BY ScanFields DEF ScanStops
<1>2. ScanNext(x, rep)[s] = Advance(s, rep)
  BY DEF ScanNext
<1> QED BY <1>1, <1>2, Round

\* The result, where the loop ends.
LEMMA ScanValue ==
  ASSUME NEW x \in Nat, NEW s \in ScanStops(x)
  PROVE  /\ ScanVal(x)[s] \in ScanResults /\ ScanVal(x)[s].w = s.w
         /\ ScanVal(x)[s].at = IF s.i > Len(s.w) THEN 0 ELSE s.i
         /\ ScanVal(x)[s].at # 0 => /\ ScanVal(x)[s].at \in DOMAIN s.w
                                    /\ s.w[ScanVal(x)[s].at].xid = x
<1>1. s \in ScanState /\ (s.i > Len(s.w) \/ s.w[s.i].xid = x)
  BY DEF ScanStops
<1>2. s.w \in Seq(Entry) /\ s.i \in Nat \ {0} /\ DOMAIN s.w = 1 .. Len(s.w) /\ Len(s.w) \in Nat
  BY <1>1, ScanFields
<1>3. PICK v : v = ScanVal(x)[s]
  OBVIOUS
<1>4. v = IF s.i > Len(s.w) THEN [at |-> 0, w |-> s.w] ELSE [at |-> s.i, w |-> s.w]
  BY <1>3 DEF ScanVal
<1>5. v \in ScanResults /\ v.w = s.w /\ v.at = IF s.i > Len(s.w) THEN 0 ELSE s.i
  BY <1>2, <1>4 DEF ScanResults
<1>6. v.at # 0 => v.at \in DOMAIN s.w /\ s.w[v.at].xid = x
  BY <1>1, <1>2, <1>5
<1> QED BY <1>3, <1>5, <1>6

\* Scan is the result of that loop, which ends.
LEMMA ScanUnrolls ==
  ASSUME NEW x \in Nat, NEW rep \in Nat
  PROVE  /\ IsLoop(ScanState, ScanStops(x), ScanResults, ScanVal(x), ScanNext(x, rep), ScanMeasure)
         /\ \E f : /\ Scan(x, rep) = f[[w |-> window, i |-> 1]]
                   /\ IsResult(f, ScanState, ScanStops(x), ScanVal(x), ScanNext(x, rep))
<1> DEFINE S == ScanState
           T == ScanStops(x)
           Res == ScanResults
           val == ScanVal(x)
           nxt == ScanNext(x, rep)
           mu == ScanMeasure
           Body(f) == [s \in S |-> IF s.i > Len(s.w) THEN [at |-> 0, w |-> s.w]
                                   ELSE IF s.w[s.i].xid = x THEN [at |-> s.i, w |-> s.w]
                                   ELSE f[Advance(s, rep)]]
           scan == CHOOSE f : f = Body(f)
<1>1. Scan(x, rep) = scan[[w |-> window, i |-> 1]]
  BY DEF Scan, ScanState
<1>2. \A s \in S : RoundsLeft(s) \in Nat
  <2> TAKE s \in S
  <2>1. CASE s.i <= Len(s.w)
    BY <2>1, Round
  <2>2. CASE ~(s.i <= Len(s.w))
    BY ScanFields, <2>2 DEF RoundsLeft
  <2> QED BY <2>1, <2>2
<1>3. IsLoop(S, T, Res, val, nxt, mu)
  <2>1. T \subseteq S /\ mu \in [S -> Nat]
    BY <1>2 DEF ScanStops, ScanMeasure
  <2>2. nxt = [s \in S \ T |-> nxt[s]]
    BY DEF ScanNext
  <2>3. val = [s \in T |-> val[s]]
    BY DEF ScanVal
  <2>4. \A s \in S \ T : nxt[s] \in S /\ mu[nxt[s]] < mu[s]
    <3> TAKE s \in S \ T
    <3>1. nxt[s] = Advance(s, rep) /\ Advance(s, rep) \in S
          /\ RoundsLeft(Advance(s, rep)) < RoundsLeft(s)
      BY ScanRound
    <3>2. mu[nxt[s]] = RoundsLeft(Advance(s, rep)) /\ mu[s] = RoundsLeft(s)
      BY <3>1 DEF ScanMeasure
    <3> QED BY <3>1, <3>2
  <2>5. \A s \in T : val[s] \in Res
    BY ScanValue
  <2> HIDE DEF S, T, Res, val, nxt, mu
  <2>6. val \in [T -> Res] /\ nxt \in [S \ T -> S]
    BY <2>2, <2>3, <2>4, <2>5
  <2> QED BY <2>1, <2>4, <2>6 DEF IsLoop
<1>4. IsResult(scan, S, T, val, nxt)
  <2>1. PICK g \in [S -> Res] : IsResult(g, S, T, val, nxt)
    <3> HIDE DEF S, T, Res, val, nxt, mu
    <3> QED BY <1>3, LoopHasResult
  <2>2. g = Body(g)
    <3>1. ASSUME NEW s \in S PROVE g[s] = Body(g)[s]
      <4>1. g[s] = IF s \in T THEN val[s] ELSE g[nxt[s]]
        BY <2>1 DEF IsResult
      <4> QED BY <4>1 DEF ScanStops, ScanVal, ScanNext
    <3>2. g = [s \in S |-> g[s]]
      OBVIOUS
    <3>3. Body(g) = [s \in S |-> Body(g)[s]]
      OBVIOUS
    <3> HIDE DEF Body
    <3> QED BY <3>1, <3>2, <3>3
  <2>3. scan = Body(scan)
    <3> HIDE DEF Body
    <3> QED BY <2>2
  <2> HIDE DEF scan
  <2>4. ASSUME NEW s \in S PROVE scan[s] = IF s \in T THEN val[s] ELSE scan[nxt[s]]
    <3>1. scan[s] = Body(scan)[s]
      BY <2>3
    <3>2. Body(scan)[s] = IF s \in T THEN val[s] ELSE scan[nxt[s]]
      BY DEF ScanStops, ScanVal, ScanNext
    <3> QED BY <3>1, <3>2
  <2> HIDE DEF S, T, val, nxt
  <2> QED BY <2>4 DEF IsResult
<1> HIDE DEF scan
<1> QED BY <1>1, <1>3, <1>4

\* What the loop leaves of the window w, and where it finds x.
ScanLeaves(r, w, x, rep) ==
  /\ r.w \in Seq(Entry) /\ r.at \in Nat
  /\ ToSet(r.w) \subseteq ToSet(w)
  /\ \A e \in ToSet(w) : e.xid > rep => e \in ToSet(r.w)
  /\ r.at # 0 => r.at \in DOMAIN r.w /\ r.w[r.at].xid = x

\* The loop ends, with an entry for x or none, and drops no entry of a call
\* the client is not done with.
LEMMA ScanResult ==
  ASSUME window \in Seq(Entry), NEW x \in Nat, NEW rep \in Nat
  PROVE  ScanLeaves(Scan(x, rep), window, x, rep)
<1> DEFINE S == ScanState
           T == ScanStops(x)
           Res == ScanResults
           val == ScanVal(x)
           nxt == ScanNext(x, rep)
           start == [w |-> window, i |-> 1]
           E == ToSet(window)
           Ok(w) == ToSet(w) \subseteq E /\ \A e \in E : e.xid > rep => e \in ToSet(w)
           P == {s \in S : Ok(s.w)}
           Q == {r \in Res : Ok(r.w) /\ (r.at # 0 => r.at \in DOMAIN r.w /\ r.w[r.at].xid = x)}
<1>1. PICK scan : Scan(x, rep) = scan[start] /\ IsResult(scan, S, T, val, nxt)
  BY ScanUnrolls
<1>2. start \in P
  <2>1. start \in S /\ start.w = window
    BY DEF ScanState
  <2> QED BY <2>1
<1>3. \A s \in P \ T : nxt[s] \in P
  <2> TAKE s \in P \ T
  <2>1. Ok(Advance(s, rep).w)
    BY ScanRound
  <2> QED BY <2>1, ScanRound
<1>4. \A s \in P \cap T : val[s] \in Q
  <2> TAKE s \in P \cap T
  <2>1. val[s] \in Res /\ val[s].w = s.w
        /\ (val[s].at # 0 => val[s].at \in DOMAIN s.w /\ s.w[val[s].at].xid = x)
    BY ScanValue
  <2>2. Ok(s.w)
    OBVIOUS
  <2> HIDE DEF Ok, T, Res, S, val
  <2> QED BY <2>1, <2>2
<1>5. P \subseteq S
  OBVIOUS
<1>6. scan[start] \in Q
  <2> HIDE DEF S, T, Res, val, nxt, start, P, Q
  <2>1. \A s \in P : scan[s] \in Q
    <3>1. IsInvariantOf(P, Q, S, T, val, nxt)
      BY <1>3, <1>4, <1>5 DEF IsInvariantOf
    <3>2. IsLoop(S, T, Res, val, nxt, ScanMeasure)
      BY ScanUnrolls DEF S, T, Res, val, nxt
    <3> QED BY <1>1, <3>1, <3>2, LoopInvariant
  <2> QED BY <1>2, <2>1
<1> QED BY <1>1, <1>6 DEF ScanLeaves, ScanResults

\* An entry for x is found unless one before it is erased on the way.
LEMMA ScanFinds ==
  ASSUME window \in Seq(Entry), NEW x \in Nat, NEW rep \in Nat,
         NEW i \in DOMAIN window, window[i].xid = x,
         \A k \in DOMAIN window : k < i => ~Erasable(window[k], rep)
  PROVE  Scan(x, rep).at # 0
<1> DEFINE S == ScanState
           T == ScanStops(x)
           Res == ScanResults
           val == ScanVal(x)
           nxt == ScanNext(x, rep)
           start == [w |-> window, i |-> 1]
           P == {s \in S : s.w = window /\ s.i <= i}
           Q == {r \in Res : r.at # 0}
<1>0. i \in Nat /\ 1 <= i /\ i <= Len(window) /\ Len(window) \in Nat
      /\ DOMAIN window = 1 .. Len(window)
  OBVIOUS
<1>1. PICK scan : Scan(x, rep) = scan[start] /\ IsResult(scan, S, T, val, nxt)
  BY ScanUnrolls
<1>2. start \in P
  BY <1>0 DEF ScanState
<1>3. ASSUME NEW s \in P \ T PROVE nxt[s] \in P
  <2>1. s \in S /\ s.w = window /\ s.i <= i /\ s.i \in Nat \ {0}
    BY ScanFields
  <2>2. s.i \in DOMAIN window /\ s.i # i
    <3>1. s.i \in DOMAIN window
      BY <1>0, <2>1
    <3>2. s.w[s.i].xid # x
      BY <2>1 DEF ScanStops
    <3> QED BY <2>1, <3>1, <3>2
  <2>3. ~Erasable(s.w[s.i], rep)
    BY <1>0, <2>1, <2>2
  <2>4. Advance(s, rep) = [w |-> s.w, i |-> s.i + 1]
    BY <2>3 DEF Advance
  <2>5. nxt[s] = Advance(s, rep) /\ Advance(s, rep) \in S
    BY ScanRound
  <2>6. s.i + 1 <= i
    BY <1>0, <2>1, <2>2
  <2> QED BY <2>1, <2>4, <2>5, <2>6
<1>4. ASSUME NEW s \in P \cap T PROVE val[s] \in Q
  <2>1. val[s] \in Res /\ val[s].at = IF s.i > Len(s.w) THEN 0 ELSE s.i
    BY ScanValue
  <2>2. s.i \in Nat \ {0} /\ ~(s.i > Len(s.w))
    BY <1>0, ScanFields
  <2> HIDE DEF val, Res, P, T
  <2> QED BY <2>1, <2>2
<1>5. P \subseteq S
  OBVIOUS
<1>6. scan[start] \in Q
  <2> HIDE DEF S, T, Res, val, nxt, start, P, Q
  <2>1. \A s \in P : scan[s] \in Q
    <3>1. IsInvariantOf(P, Q, S, T, val, nxt)
      BY <1>3, <1>4, <1>5 DEF IsInvariantOf
    <3>2. IsLoop(S, T, Res, val, nxt, ScanMeasure)
      BY ScanUnrolls DEF S, T, Res, val, nxt
    <3> QED BY <1>1, <3>1, <3>2, LoopInvariant
  <2> QED BY <1>2, <2>1
<1> QED BY <1>1, <1>6

\* What add_reply makes of the window: the reply goes to one entry for x, if
\* there is any, and to no other.
HasReply(v, w, x, b) ==
  /\ v \in Seq(Entry) /\ Len(v) = Len(w)
  /\ \A e \in ToSet(v) : e \in ToSet(w) \/ e = [xid |-> x, b |-> b]
  /\ \A e \in ToSet(w) : e.xid # x => e \in ToSet(v)
  /\ (\E e \in ToSet(w) : e.xid = x) => [xid |-> x, b |-> b] \in ToSet(v)

\* add_reply does that.
LEMMA AddReply ==
  ASSUME window \in Seq(Entry), NEW x \in Nat, NEW b \in Nat, add_reply(x, b)
  PROVE  HasReply(window', window, x, b)
<1> DEFINE I == {k \in 1 .. Len(window) : window[k].xid = x}
           i == IF I # {} THEN Min(I) ELSE 0
<1>1. window' = IF i = 0 THEN window ELSE [window EXCEPT ![i].b = b]
  BY DEF add_reply, SelectInSeq
<1>2. \A k \in 1 .. Len(window) : window[k] \in Entry
  OBVIOUS
<1>3. CASE I = {}
  <2>1. window' = window
    BY <1>1, <1>3
  <2>2. \A e \in ToSet(window) : e.xid # x
    BY <1>3 DEF ToSet
  <2> QED BY <2>1, <2>2 DEF HasReply
<1>4. CASE I # {}
  <2>1. \E n \in I : \A k \in I : n <= k
    <3>1. I \subseteq Nat
      OBVIOUS
    <3> HIDE DEF I
    <3> QED BY <1>4, <3>1, LeastElement
  <2>2. i \in I
    BY <1>4, <2>1 DEF Min
  <2> HIDE DEF i
  <2>3. i \in 1 .. Len(window) /\ i # 0 /\ window[i] \in Entry /\ window[i].xid = x
    BY <1>2, <2>2
  <2> DEFINE e == [window[i] EXCEPT !.b = b]
  <2>4. e = [xid |-> x, b |-> b] /\ e \in Entry
    BY <2>3 DEF Entry
  <2>5. window' = [window EXCEPT ![i] = e]
    BY <1>1, <2>3
  <2> HIDE DEF e
  <2>6. window' \in Seq(Entry) /\ DOMAIN window' = DOMAIN window /\ Len(window') = Len(window)
        /\ \A k \in DOMAIN window : window'[k] = IF k = i THEN e ELSE window[k]
    BY <2>3, <2>4, <2>5
  <2>7. i \in DOMAIN window
    BY <2>3
  <2>8. \A f \in ToSet(window') : f \in ToSet(window) \/ f = e
    BY <2>6 DEF ToSet
  <2>9. e \in ToSet(window')
    BY <2>6, <2>7 DEF ToSet
  <2>10. \A f \in ToSet(window) : f.xid # x => f \in ToSet(window')
    BY <2>3, <2>6 DEF ToSet
  <2> QED BY <2>4, <2>6, <2>8, <2>9, <2>10 DEF HasReply
<1> QED BY <1>3, <1>4

-----------------------------------------------------------------------------
(* The second inductive invariant: what the buffers hold, and for how long *)
(* the server keeps them.                                                  *)

\* b is the reply of an execution of x by this instance of the server.
Ran(b, x) == b \in DOMAIN execs /\ execs[b].xid = x /\ execs[b].srv = nonce_

\* An entry of the window holds the reply of its own request.
WindowSound ==
  /\ window \in Seq(Entry)
  /\ \A e \in ToSet(window) : e.b # 0 => Ran(e.b, e.xid)

\* So does a dispatch.  It was accepted by this instance, and its buffer is
\* freed only when the client is done with the call.
JobSound(j) ==
  /\ j.b # 0 => Ran(j.b, j.m.xid)
  /\ j.m.srv \in {0, nonce_}
  /\ j.freed => j.m.xid <= xid_rep
JobsSound == \A j \in jobs : JobSound(j)

\* The copies of an outstanding request name the instance its caller named.
Agrees(x, s) == \A t \in Threads : Outstanding(t) /\ ca[t].xid = x => ca[t].srv = s
CopiesAgree ==
  /\ \A m \in reqs : Agrees(m.xid, m.srv)
  /\ \A j \in jobs : Agrees(j.m.xid, j.m.srv)

\* A reply carries the result of its own request, from an instance that the
\* caller named.
ReplySound(r) == r.ret = "OK" =>
  /\ r.b \in DOMAIN execs /\ execs[r.b].xid = r.xid
  /\ Agrees(r.xid, 0) \/ Agrees(r.xid, execs[r.b].srv)
RepliesSound == \A r \in reps : ReplySound(r)

\* Executions are by this instance or by earlier ones.
PastInstances == \A b \in DOMAIN execs : execs[b].srv <= nonce_

\* What the client is not done with is in the window, answered once it ran.
Remembered(x) == x <= xid_rep \/ \E e \in ToSet(window) : e.xid = x
Answered(x) == x <= xid_rep \/ \E e \in ToSet(window) : e.xid = x /\ e.b # 0
AnswersKept == \A b \in DOMAIN execs : execs[b].srv = nonce_ => Answered(execs[b].xid)
RequestsKept == \A j \in jobs : j.st = "run" => Remembered(j.m.xid)

\* After cancel, every call it found is still failed.
CancelStands == destroy_wait_ =>
  \A t \in Threads : Outstanding(t) => ca[t].done /\ ca[t].ret = "cancel"

SInv ==
  /\ WindowSound /\ JobsSound /\ CopiesAgree /\ RepliesSound /\ PastInstances
  /\ AnswersKept /\ RequestsKept /\ CancelStands /\ OkMeansExecuted

\* The second invariant holds at first.
LEMMA SInvInit == Init => SInv
<1> SUFFICES ASSUME Init PROVE SInv
  OBVIOUS
<1>1. /\ window = <<>> /\ jobs = {} /\ reqs = {} /\ reps = {} /\ execs = <<>>
      /\ nonce_ = 1 /\ xid_rep = 0 /\ cancel_ = "no"
  BY DEF Init
<1>2. \A t \in Threads : ca[t].st = "idle" /\ ca[t].ret = "none"
  BY DEF Init, Idle, NewCaller
<1>3. ToSet(window) = {} /\ window \in Seq(Entry) /\ DOMAIN execs = {}
  BY <1>1 DEF ToSet
<1>4. WindowSound /\ JobsSound /\ RepliesSound /\ PastInstances /\ AnswersKept /\ RequestsKept
  BY <1>1, <1>3 DEF WindowSound, JobsSound, RepliesSound, PastInstances, AnswersKept,
     RequestsKept
<1>5. CopiesAgree /\ CancelStands /\ OkMeansExecuted
  BY <1>1, <1>2 DEF CopiesAgree, Agrees, CancelStands, OkMeansExecuted, Outstanding,
     destroy_wait_
<1> QED BY <1>4, <1>5 DEF SInv

-----------------------------------------------------------------------------
(* The client's actions.                                                   *)

\* The calls that are outstanding afterwards were so before.
Continues == \A t \in Threads :
  Outstanding(t)' => Outstanding(t) /\ ca'[t].xid = ca[t].xid /\ ca'[t].srv = ca[t].srv

\* What was agreed with the client survives a step that continues its calls.
LEMMA AgreesKept ==
  ASSUME Continues, NEW x, NEW s, Agrees(x, s) PROVE Agrees(x, s)'
  BY DEF Continues, Agrees

\* The executions are records of numbers.
LEMMA ExecFields ==
  ASSUME TypeOK
  PROVE  \A b \in DOMAIN execs : execs[b].xid \in Nat /\ execs[b].srv \in Nat
<1> TAKE b \in DOMAIN execs
<1>1. execs \in Seq(Execution)
  BY DEF TypeOK, SrvTypes
<1>2. execs[b] \in Execution
  BY <1>1
<1> QED BY <1>2 DEF Execution

\* What the client does leaves the server alone, and its xid_rep only grows.
LEMMA ClientKeeps ==
  ASSUME TypeOK, SInv, UNCHANGED <<window, execs, nonce_>>, jobs' \subseteq jobs,
         xid_rep' \in Nat, xid_rep <= xid_rep'
  PROVE  /\ WindowSound' /\ JobsSound' /\ PastInstances' /\ AnswersKept' /\ RequestsKept'
<1>1. \A x \in Nat : x <= xid_rep => x <= xid_rep'
  BY Fields
<1>2. WindowSound' /\ PastInstances'
  BY DEF SInv, WindowSound, PastInstances, Ran
<1>3. JobsSound'
  BY <1>1, Fields DEF SInv, JobsSound, JobSound, Ran
<1>4. \A b \in DOMAIN execs : execs[b].xid \in Nat
  BY ExecFields
<1>5. AnswersKept'
  BY <1>1, <1>4 DEF SInv, AnswersKept, Answered
<1>6. RequestsKept'
  BY <1>1, Fields DEF SInv, RequestsKept, Remembered
<1> QED BY <1>2, <1>3, <1>5, <1>6

\* An action of a client whose calls continue.
LEMMA ContinuesKeeps ==
  ASSUME SInv, UNCHANGED <<jobs, execs>>, Continues,
         reps' \subseteq reps,
         \A m \in reqs' : m \in reqs \/ Agrees(m.xid, m.srv)
  PROVE  CopiesAgree' /\ RepliesSound'
<1>1. CopiesAgree'
  <2>1. ASSUME NEW m \in reqs' PROVE Agrees(m.xid, m.srv)'
    <3>1. Agrees(m.xid, m.srv)
      BY DEF SInv, CopiesAgree
    <3> QED BY <3>1, AgreesKept
  <2>2. ASSUME NEW j \in jobs' PROVE Agrees(j.m.xid, j.m.srv)'
    <3>1. Agrees(j.m.xid, j.m.srv)
      BY DEF SInv, CopiesAgree
    <3> QED BY <3>1, AgreesKept
  <2> QED BY <2>1, <2>2 DEF CopiesAgree
<1>2. ASSUME NEW r \in reps' PROVE ReplySound(r)'
  <2>1. ReplySound(r)
    BY DEF SInv, RepliesSound
  <2>2. Agrees(r.xid, 0) => Agrees(r.xid, 0)'
    BY AgreesKept
  <2>3. Agrees(r.xid, execs[r.b].srv) => Agrees(r.xid, execs[r.b].srv)'
    BY AgreesKept
  <2> QED BY <2>1, <2>2, <2>3 DEF ReplySound
<1> QED BY <1>1, <1>2 DEF RepliesSound

\* A call only moves along its loop.
LEMMA SameCallsKeep ==
  ASSUME SInv, SameCalls, UNCHANGED <<execs, cancel_>>
  PROVE  Continues /\ CancelStands' /\ OkMeansExecuted'
<1>1. Continues
  BY DEF SameCalls, Continues
<1>2. CancelStands'
  BY DEF SameCalls, SInv, CancelStands, destroy_wait_
<1>3. OkMeansExecuted'
  BY DEF SameCalls, SInv, OkMeansExecuted
<1> QED BY <1>1, <1>2, <1>3

\* The xid of a new call is that of no message.
LEMMA SCallStep == ASSUME IInv, SInv, NEW t \in Threads, call1(t) PROVE SInv'
<1> DEFINE new == NewCaller("xmit", xid_, xid_rep, srv_nonce_)
<1>1. ca' = [ca EXCEPT ![t] = new] /\ ~destroy_wait_
  BY DEF call1, RepToSend
<1>2. UNCHANGED <<xid_rep, cancel_, reqs, reps, nonce_, jobs, execs, window>>
  BY DEF call1, srvVars
<1>3. \A u \in Threads : ca'[u] = IF u = t THEN new ELSE ca[u]
  BY <1>1 DEF IInv, TypeOK, CltTypes
<1>4. new.xid = xid_ /\ new.ret = "none"
  BY DEF NewCaller
<1> HIDE DEF new
<1>5. ASSUME NEW x \in Nat, x < xid_, NEW s, Agrees(x, s) PROVE Agrees(x, s)'
  <2>1. ASSUME NEW u \in Threads, Outstanding(u)', ca'[u].xid = x PROVE ca'[u].srv = s
    <3>1. u # t
      BY <1>3, <1>4, <1>5, <2>1, Fields DEF IInv
    <3> QED BY <1>3, <1>5, <2>1, <3>1 DEF Agrees, Outstanding
  <2> QED BY <2>1 DEF Agrees
<1>6. CopiesAgree'
  <2>2. ASSUME NEW m \in reqs' PROVE Agrees(m.xid, m.srv)'
    <3>1. Agrees(m.xid, m.srv) /\ m.xid \in Nat /\ m.xid < xid_
      BY <1>2, Fields DEF SInv, CopiesAgree, IInv, XidsBelow
    <3> QED BY <1>5, <3>1
  <2>3. ASSUME NEW j \in jobs' PROVE Agrees(j.m.xid, j.m.srv)'
    <3>1. Agrees(j.m.xid, j.m.srv) /\ j.m.xid \in Nat /\ j.m.xid < xid_
      BY <1>2, Fields DEF SInv, CopiesAgree, IInv, XidsBelow
    <3> QED BY <1>5, <3>1
  <2> QED BY <2>2, <2>3 DEF CopiesAgree
<1>7. ASSUME NEW r \in reps' PROVE ReplySound(r)'
  <2>1. ReplySound(r) /\ r.xid \in Nat /\ r.xid < xid_
    BY <1>2, Fields DEF SInv, RepliesSound, IInv, XidsBelow
  <2>2. Agrees(r.xid, 0) => Agrees(r.xid, 0)'
    BY <1>5, <2>1
  <2>3. Agrees(r.xid, execs[r.b].srv) => Agrees(r.xid, execs[r.b].srv)'
    BY <1>2, <1>5, <2>1
  <2> QED BY <1>2, <2>1, <2>2, <2>3 DEF ReplySound
<1>8. CancelStands' /\ OkMeansExecuted'
  BY <1>1, <1>2, <1>3, <1>4 DEF SInv, CancelStands, destroy_wait_, OkMeansExecuted
<1>9. xid_rep' \in Nat /\ xid_rep <= xid_rep' /\ TypeOK
  BY <1>2, Fields DEF IInv
<1> QED BY <1>2, <1>6, <1>7, <1>8, <1>9, ClientKeeps DEF SInv, RepliesSound

\* The copy a transmission makes carries what its caller says.
LEMMA STransmitStep == ASSUME IInv, SInv, NEW t \in Threads, transmit(t) PROVE SInv'
<1>1. PICK c \in 0 .. MaxConns :
        reqs' = IF c = 0 THEN reqs ELSE reqs \cup {Request(t, c)}
  BY DEF transmit
<1>2. UNCHANGED <<xid_, xid_rep, cancel_, reps, nonce_, jobs, execs, window>>
  BY DEF transmit, srvVars
<1>3. SameCalls
  BY TransmitSameCalls DEF IInv, TypeOK, CltTypes
<1>4. Continues /\ CancelStands' /\ OkMeansExecuted'
  BY <1>2, <1>3, SameCallsKeep
<1>5. Request(t, c).xid = ca[t].xid /\ Request(t, c).srv = ca[t].srv
  BY DEF Request
<1>6. Agrees(ca[t].xid, ca[t].srv)
  <2>1. Outstanding(t)
    BY DEF transmit, Outstanding
  <2> QED BY <2>1 DEF Agrees, IInv, XidsBelow
<1>7. \A m \in reqs' : m \in reqs \/ Agrees(m.xid, m.srv)
  BY <1>1, <1>5, <1>6 DEF SInv, CopiesAgree
<1>9. xid_rep' \in Nat /\ xid_rep <= xid_rep' /\ TypeOK
  BY <1>2, Fields DEF IInv
<1>10. CopiesAgree' /\ RepliesSound'
  BY <1>2, <1>4, <1>7, ContinuesKeeps
<1> QED BY <1>2, <1>4, <1>9, <1>10, ClientKeeps DEF SInv

\* A deadline makes none.
LEMMA SDeadlineStep == ASSUME IInv, SInv, NEW t \in Threads, deadline(t) PROVE SInv'
<1>1. UNCHANGED <<xid_, xid_rep, cancel_, reqs, reps, nonce_, jobs, execs, window>>
  BY DEF deadline, srvVars
<1>2. SameCalls
  BY DeadlineSameCalls DEF IInv, TypeOK, CltTypes
<1>3. Continues /\ CancelStands' /\ OkMeansExecuted'
  BY <1>1, <1>2, SameCallsKeep
<1>5. CopiesAgree' /\ RepliesSound'
  BY <1>1, <1>3, ContinuesKeeps
<1>6. xid_rep' \in Nat /\ xid_rep <= xid_rep' /\ TypeOK
  BY <1>1, Fields DEF IInv
<1> QED BY <1>1, <1>3, <1>5, <1>6, ClientKeeps DEF SInv

\* A call ends and the others continue.
LEMMA SFinishStep == ASSUME IInv, SInv, NEW t \in Threads, finish(t) PROVE SInv'
<1>1. UNCHANGED <<xid_, reqs, reps, nonce_, jobs, execs, window>>
  BY DEF finish, srvVars
<1>2. \A u \in Threads : ca'[u] = IF u = t THEN Idle ELSE ca[u]
  BY DEF finish, IInv, TypeOK, CltTypes
<1>3. Idle.st = "idle" /\ Idle.ret = "none"
  BY DEF Idle, NewCaller
<1>4. Outstanding(t)
  BY DEF finish, Outstanding
<1>5. Continues
  BY <1>2, <1>3 DEF Continues, Outstanding
<1>6. destroy_wait_' = destroy_wait_
  BY DEF finish, signal_destroy_wait, destroy_wait_
<1>7. CancelStands'
  BY <1>2, <1>3, <1>6 DEF SInv, CancelStands, Outstanding
<1>8. OkMeansExecuted'
  BY <1>1, <1>2, <1>3 DEF SInv, OkMeansExecuted
<1>10. CopiesAgree' /\ RepliesSound'
  BY <1>1, <1>5, ContinuesKeeps
<1>11. xid_rep' \in Nat /\ xid_rep <= xid_rep' /\ TypeOK
  <2>1. ca[t].xid \in Nat /\ ca[t].xid < xid_ /\ update_xid_rep(ca[t].xid)
    BY Fields DEF finish, IInv, XidsBelow
  <2>2. QED
    BY <2>1, UpdateXidRep, Fields DEF IInv, XidsBelow
<1> QED BY <1>1, <1>7, <1>8, <1>10, <1>11, ClientKeeps DEF SInv

\* A reply that is taken is that of the call, from the instance it named; after
\* cancel none is taken.
LEMMA SReplyReceivedStep == ASSUME IInv, SInv, NEW r \in reps, rpcc_got_pdu(r) PROVE SInv'
<1>1. UNCHANGED <<xid_, cancel_, reqs, nonce_, jobs, execs, window>>
      /\ reps' \subseteq reps
  BY DEF rpcc_got_pdu, srvVars
<1> DEFINE new(t) == [ca[t] EXCEPT !.done = TRUE, !.ret = r.ret, !.b = r.b]
<1>2. ca' = [t \in Threads |-> IF Answers(t, r) THEN new(t) ELSE ca[t]]
  BY DEF rpcc_got_pdu
<1>3. \A t \in Threads :
        /\ new(t).st = ca[t].st /\ new(t).xid = ca[t].xid /\ new(t).srv = ca[t].srv
        /\ new(t).ret = r.ret /\ new(t).b = r.b
  BY DEF IInv, TypeOK, CltTypes, Caller
<1> HIDE DEF new
<1>4. Continues
  BY <1>2, <1>3 DEF Continues, Outstanding
<1>5. CancelStands'
  <2>1. ASSUME NEW t \in Threads, destroy_wait_', Outstanding(t)'
        PROVE  ca'[t].done /\ ca'[t].ret = "cancel"
    <3>1. destroy_wait_ /\ Outstanding(t)
      BY <1>1, <1>4, <2>1 DEF destroy_wait_, Continues
    <3>2. ca[t].done /\ ca[t].ret = "cancel"
      BY <3>1 DEF SInv, CancelStands
    <3>3. ca'[t] = ca[t]
      BY <1>2, <3>2 DEF Answers
    <3> QED BY <3>2, <3>3
  <2> QED BY <2>1 DEF CancelStands
<1>6. OkMeansExecuted'
  <2>1. ASSUME NEW t \in Threads, ca'[t].ret = "OK"
        PROVE  /\ ca'[t].b \in DOMAIN execs /\ execs[ca'[t].b].xid = ca'[t].xid
               /\ ca'[t].srv \in {0, execs[ca'[t].b].srv}
    <3>1. CASE ~Answers(t, r)
      <4>1. ca'[t] = ca[t]
        BY <1>2, <3>1
      <4> QED BY <2>1, <4>1 DEF SInv, OkMeansExecuted
    <3>2. CASE Answers(t, r)
      <4>1. /\ ca'[t].xid = ca[t].xid /\ ca'[t].srv = ca[t].srv /\ ca'[t].ret = r.ret
            /\ ca'[t].b = r.b /\ Outstanding(t) /\ ca[t].xid = r.xid
        BY <1>2, <1>3, <3>2 DEF Answers
      <4>2. /\ r.b \in DOMAIN execs /\ execs[r.b].xid = r.xid
            /\ Agrees(r.xid, 0) \/ Agrees(r.xid, execs[r.b].srv)
        BY <2>1, <4>1 DEF SInv, RepliesSound, ReplySound
      <4> QED BY <4>1, <4>2 DEF Agrees
    <3> QED BY <3>1, <3>2
  <2> QED BY <1>1, <2>1 DEF OkMeansExecuted
<1>8. CopiesAgree' /\ RepliesSound'
  BY <1>1, <1>4, ContinuesKeeps
<1>9. xid_rep' \in Nat /\ xid_rep <= xid_rep' /\ TypeOK
  <2>1. r.xid \in Nat /\ r.xid < xid_ /\ update_xid_rep(r.xid)
    BY Fields DEF rpcc_got_pdu, IInv, XidsBelow
  <2>2. QED
    BY <2>1, UpdateXidRep, Fields DEF IInv, XidsBelow
<1> QED BY <1>1, <1>5, <1>6, <1>8, <1>9, ClientKeeps DEF SInv

\* What is left to show where only the calls change.
LEMMA CallsOnlyKeep ==
  ASSUME IInv, SInv, Continues, CancelStands', OkMeansExecuted',
         UNCHANGED <<xid_, xid_rep, reqs, reps, nonce_, jobs, execs, window>>
  PROVE  SInv'
<1>2. CopiesAgree' /\ RepliesSound'
  BY ContinuesKeeps
<1>3. xid_rep' \in Nat /\ xid_rep <= xid_rep' /\ TypeOK
  BY Fields DEF IInv
<1> QED BY <1>2, <1>3, ClientKeeps DEF SInv

\* cancel fails every outstanding call, and waits.
LEMMA SCancelStep == ASSUME IInv, SInv, cancel \/ cancel_recheck PROVE SInv'
<1>1. UNCHANGED <<xid_, xid_rep, reqs, reps, nonce_, jobs, execs, window>>
  BY DEF cancel, cancel_recheck, srvVars
<1> DEFINE new(t) == [ca[t] EXCEPT !.done = TRUE, !.ret = "cancel"]
<1>2. CASE cancel
  <2>1. ca' = [t \in Threads |-> IF Outstanding(t) THEN new(t) ELSE ca[t]]
    BY <1>2 DEF cancel
  <2>2. \A t \in Threads :
          /\ new(t).st = ca[t].st /\ new(t).xid = ca[t].xid /\ new(t).srv = ca[t].srv
          /\ new(t).done = TRUE /\ new(t).ret = "cancel"
    BY DEF IInv, TypeOK, CltTypes, Caller
  <2> HIDE DEF new
  <2>3. Continues
    BY <2>1, <2>2 DEF Continues, Outstanding
  <2>4. CancelStands'
    BY <2>1, <2>2, <2>3 DEF CancelStands, Continues
  <2>5. OkMeansExecuted'
    BY <1>1, <2>1, <2>2 DEF OkMeansExecuted, SInv
  <2> QED BY <2>3, <2>4, <2>5, <1>1, CallsOnlyKeep
<1>3. CASE cancel_recheck
  <2>1. ca' = ca /\ cancel_ # "no"
    BY <1>3 DEF cancel_recheck
  <2>2. Continues
    BY <2>1 DEF Continues, Outstanding
  <2>3. CancelStands' /\ OkMeansExecuted'
    BY <1>1, <2>1 DEF CancelStands, Outstanding, OkMeansExecuted, SInv, destroy_wait_
  <2> QED BY <2>2, <2>3, <1>1, CallsOnlyKeep
<1> QED BY <1>2, <1>3

-----------------------------------------------------------------------------
(* The server's actions and the failures.                                  *)

\* The history is only added to.
HistoryGrows == \A b \in DOMAIN execs : b \in DOMAIN execs' /\ execs'[b] = execs[b]

\* What a step of the server alone keeps.
LEMMA SServerFrame ==
  ASSUME IInv, SInv, UNCHANGED cltVars, HistoryGrows, reqs' \subseteq reqs,
         \A j \in jobs' : Agrees(j.m.xid, j.m.srv),
         \A r \in reps' : r \in reps \/ ReplySound(r)'
  PROVE  CopiesAgree' /\ RepliesSound' /\ CancelStands' /\ OkMeansExecuted'
<1>1. UNCHANGED <<xid_, xid_rep, ca, cancel_>>
  BY DEF cltVars
<1>2. Continues
  BY <1>1 DEF Continues, Outstanding
<1>3. CancelStands'
  BY <1>1 DEF SInv, CancelStands, Outstanding, destroy_wait_
<1>4. OkMeansExecuted'
  BY <1>1 DEF SInv, OkMeansExecuted, HistoryGrows
<1>5. CopiesAgree'
  <2>2. ASSUME NEW m \in reqs' PROVE Agrees(m.xid, m.srv)'
    BY <1>2, AgreesKept DEF SInv, CopiesAgree
  <2>3. ASSUME NEW j \in jobs' PROVE Agrees(j.m.xid, j.m.srv)'
    BY <1>2, AgreesKept
  <2> QED BY <2>2, <2>3 DEF CopiesAgree
<1>6. ASSUME NEW r \in reps' PROVE ReplySound(r)'
  <2>1. CASE r \in reps
    <3>1. ReplySound(r)
      BY <2>1 DEF SInv, RepliesSound
    <3>2. Agrees(r.xid, 0) => Agrees(r.xid, 0)'
      BY <1>2, AgreesKept
    <3>3. ASSUME r.b \in DOMAIN execs, Agrees(r.xid, execs[r.b].srv)
          PROVE  Agrees(r.xid, execs[r.b].srv)'
      BY <1>2, <3>3, AgreesKept DEF HistoryGrows
    <3> QED BY <3>1, <3>2, <3>3 DEF ReplySound, HistoryGrows
  <2> QED BY <2>1
<1> QED BY <1>3, <1>4, <1>5, <1>6 DEF RepliesSound

\* Actions that leave the window and the history alone.
LEMMA WindowSame ==
  ASSUME IInv, SInv, UNCHANGED <<cltVars, window, execs, nonce_>>, jobs' \subseteq jobs,
         reqs' \subseteq reqs, \A r \in reps' : r \in reps \/ ReplySound(r)'
  PROVE  SInv'
<1>1. HistoryGrows
  BY DEF HistoryGrows
<1>2. \A j \in jobs' : Agrees(j.m.xid, j.m.srv)
  BY DEF SInv, CopiesAgree
<1>3. xid_rep' \in Nat /\ xid_rep <= xid_rep' /\ TypeOK
  BY Fields DEF IInv, cltVars
<1>4. CopiesAgree' /\ RepliesSound' /\ CancelStands' /\ OkMeansExecuted'
  BY <1>1, <1>2, SServerFrame
<1> QED BY <1>3, <1>4, ClientKeeps DEF SInv

\* A request that is refused has no result.
LEMMA SRefusedStep ==
  ASSUME IInv, SInv, NEW m \in reqs, dispatch_oldsrv(m) \/ dispatch_forgotten(m)
  PROVE  SInv'
<1>1. UNCHANGED <<cltVars, window, execs, nonce_, jobs>> /\ reqs' \subseteq reqs
  BY DEF dispatch_oldsrv, dispatch_forgotten, Accept, srvVars
<1>2. m.xid \in Nat /\ m.conn \in Nat
  BY DEF IInv, TypeOK, NetTypes, Message
<1>3. PICK ret \in {"oldsrv", "atmostonce"} : reps' = reps \cup Sent(m.xid, ret, 0, m.conn)
  BY DEF dispatch_oldsrv, dispatch_forgotten
<1>4. \A r \in Sent(m.xid, ret, 0, m.conn) : r.ret = ret
  BY DEF Sent
<1>5. \A r \in reps' : r \in reps \/ ReplySound(r)'
  BY <1>3, <1>4 DEF ReplySound
<1> QED BY <1>1, <1>5, WindowSame

\* A connection that breaks takes messages away.
LEMMA SFailureStep ==
  ASSUME IInv, SInv, NEW c \in 1 .. nconn, break(c) \/ server_break(c)
  PROVE  SInv'
<1>1. /\ reqs' \subseteq reqs /\ reps' \subseteq reps
      /\ UNCHANGED <<cltVars, window, execs, nonce_, jobs>>
  BY DEF break, server_break, srvVars
<1> QED BY <1>1, WindowSame

\* A reply is sent from the buffer of its own request.
LEMMA SReplyStep == ASSUME IInv, SInv, NEW j \in jobs, reply(j) PROVE SInv'
<1>1. /\ UNCHANGED <<cltVars, window, execs, nonce_, reqs>> /\ jobs' \subseteq jobs
      /\ reps' = reps \cup Sent(j.m.xid, "OK", j.b, Target(j))
  BY DEF reply
<1>2. j.b \in DOMAIN execs /\ j.b # 0
  <2>1. j.b \in DOMAIN execs /\ execs \in Seq(Execution)
    BY DEF reply, IInv, BufsExist, TypeOK, SrvTypes
  <2> QED BY <2>1
<1>3. Ran(j.b, j.m.xid) /\ j.m.srv \in {0, nonce_} /\ Agrees(j.m.xid, j.m.srv)
  BY <1>2 DEF SInv, JobsSound, JobSound, CopiesAgree
<1>4. ASSUME NEW r \in Sent(j.m.xid, "OK", j.b, Target(j)) PROVE ReplySound(r)'
  <2>1. r.xid = j.m.xid /\ r.b = j.b
    BY DEF Sent
  <2>2. Agrees(r.xid, 0) \/ Agrees(r.xid, execs[r.b].srv)
    BY <1>3, <2>1 DEF Ran
  <2>3. ca' = ca
    BY <1>1 DEF cltVars
  <2>4. Agrees(r.xid, 0)' \/ Agrees(r.xid, execs[r.b].srv)'
    BY <1>1, <2>2, <2>3 DEF Agrees, Outstanding
  <2> QED BY <1>1, <1>3, <2>1, <2>4 DEF Ran, ReplySound
<1>5. \A r \in reps' : r \in reps \/ ReplySound(r)'
  BY <1>1, <1>4
<1> QED BY <1>1, <1>5, WindowSame

\* The dispatches after F is freed are those before, some of them marked.
LEMMA DangleFreed ==
  ASSUME jobs \in SUBSET Job, NEW F, NEW k \in Dangle(F)
  PROVE  \E j \in jobs : k.m = j.m /\ k.st = j.st /\ k.b = j.b
                         /\ (k.freed => j.freed \/ j.b \in F)
<1>1. PICK j \in jobs : k = IF j.b \in F THEN [j EXCEPT !.freed = TRUE] ELSE j
  BY DEF Dangle
<1>2. j \in Job
  OBVIOUS
<1>3. k.m = j.m /\ k.st = j.st /\ k.b = j.b /\ (k.freed => j.freed \/ j.b \in F)
  BY <1>1, <1>2 DEF Job
<1> QED BY <1>3

\* v is what the loop left, w, with at most entries that have no reply added.
KeptWindow(v, w) ==
  v \in Seq(Entry) /\ ToSet(w) \subseteq ToSet(v) /\ \A e \in ToSet(v) : e \in ToSet(w) \/ e.b = 0

\* The dispatches that m may begin when it leaves the window v.
FreshJobs(new, m, v) == \A j \in new :
  /\ j.m = m /\ j.freed = FALSE
  /\ j.b # 0 => Ran(j.b, m.xid)
  /\ j.st = "run" => \E e \in ToSet(v) : e.xid = m.xid

\* The loop over the window frees only what the client is done with: a buffer
\* holds the result of its entry's request and of its dispatch's.
LEMMA SCheckedStep ==
  ASSUME IInv, SInv, NEW m \in reqs, Checked(m),
         NEW s, ScanLeaves(s, window, m.xid, m.rep),
         KeptWindow(window', s.w),
         NEW new, jobs' = JobsBesides(s.w) \cup new, FreshJobs(new, m, window')
  PROVE  SInv'
<1> USE DEF KeptWindow, FreshJobs
<1>1. /\ UNCHANGED <<cltVars, execs, nonce_, reps>> /\ reqs' \subseteq reqs
      /\ m.srv \in {0, nonce_}
  BY DEF Checked, Accept
<1>2. xid_rep' = xid_rep /\ xid_rep \in Nat /\ m.rep \in Nat /\ m.rep <= xid_rep
      /\ jobs \in SUBSET Job /\ window \in Seq(Entry)
  BY <1>1, Fields DEF cltVars, IInv, RepsBelow, TypeOK, SrvTypes, SInv, WindowSound
<1>3. /\ ToSet(s.w) \subseteq ToSet(window)
      /\ \A e \in ToSet(window) : e.xid > m.rep => e \in ToSet(s.w)
  BY DEF ScanLeaves
<1>4. \A e \in ToSet(window) : e.xid \in Nat
  <2>1. \A k \in DOMAIN window : window[k] \in Entry
    BY <1>2
  <2> QED BY <2>1 DEF ToSet, Entry
<1>5. \A b, x : Ran(b, x)' <=> Ran(b, x)
  BY <1>1 DEF Ran
<1>6. \A e \in ToSet(window) : e \in ToSet(window') \/ e.xid <= xid_rep
  BY <1>2, <1>3, <1>4
<1>7. WindowSound'
  BY <1>3, <1>5 DEF SInv, WindowSound
<1> DEFINE F == Bufs(window) \ Bufs(s.w)
<1>8. ASSUME NEW j \in jobs, j.b \in F PROVE j.m.xid <= xid_rep
  <2>1. j.b # 0 /\ j.b \in Bufs(window) /\ j.b \notin Bufs(s.w)
    BY <1>8 DEF Bufs
  <2>2. PICK e \in ToSet(window) : e.b = j.b
    BY <2>1 DEF Bufs, ToSet
  <2>3. e \notin ToSet(s.w)
    BY <2>1, <2>2 DEF Bufs, ToSet
  <2>4. e.xid <= xid_rep
    BY <1>2, <1>3, <1>4, <2>3
  <2>5. Ran(e.b, e.xid) /\ Ran(j.b, j.m.xid)
    BY <2>1, <2>2 DEF SInv, WindowSound, JobsSound, JobSound
  <2> QED BY <2>2, <2>4, <2>5 DEF Ran
<1>9. ASSUME NEW k \in jobs'
      PROVE  /\ JobSound(k)' /\ Agrees(k.m.xid, k.m.srv)
             /\ k.st = "run" => Remembered(k.m.xid)'
  <2>1. CASE k \in new
    <3>1. JobSound(k)'
      BY <1>1, <1>5, <2>1 DEF JobSound
    <3>2. Agrees(k.m.xid, k.m.srv)
      BY <2>1 DEF SInv, CopiesAgree
    <3>3. k.st = "run" => Remembered(k.m.xid)'
      BY <2>1 DEF Remembered
    <3> QED BY <3>1, <3>2, <3>3
  <2>2. CASE k \in Dangle(F)
    <3> HIDE DEF F
    <3>1. PICK j \in jobs : k.m = j.m /\ k.st = j.st /\ k.b = j.b
                            /\ (k.freed => j.freed \/ j.b \in F)
      BY <1>2, <2>2, DangleFreed
    <3>2. JobSound(j) /\ Agrees(j.m.xid, j.m.srv) /\ (j.st = "run" => Remembered(j.m.xid))
      BY DEF SInv, JobsSound, CopiesAgree, RequestsKept
    <3>3. JobSound(k)'
      BY <1>1, <1>2, <1>5, <1>8, <3>1, <3>2 DEF JobSound
    <3>4. Remembered(j.m.xid) => Remembered(j.m.xid)'
      BY <1>2, <1>6 DEF Remembered
    <3> QED BY <3>1, <3>2, <3>3, <3>4
  <2> QED BY <2>1, <2>2 DEF JobsBesides
<1>10. AnswersKept'
  <2>1. \A x : Answered(x) => Answered(x)'
    BY <1>2, <1>6 DEF Answered
  <2> QED BY <1>1, <2>1 DEF SInv, AnswersKept
<1>11. PastInstances'
  BY <1>1 DEF SInv, PastInstances
<1>12. HistoryGrows
  BY <1>1 DEF HistoryGrows
<1>13. CopiesAgree' /\ RepliesSound' /\ CancelStands' /\ OkMeansExecuted'
  BY <1>1, <1>9, <1>12, SServerFrame
<1> QED BY <1>7, <1>9, <1>10, <1>11, <1>13 DEF SInv, JobsSound, RequestsKept

\* NEW, DONE and INPROGRESS.
LEMMA SVerdictStep ==
  ASSUME IInv, SInv, NEW m \in reqs,
         dispatch_new(m) \/ dispatch_done(m) \/ dispatch_inprogress(m)
  PROVE  SInv'
<1> DEFINE s == Scan(m.xid, m.rep)
<1>1. m \in Message /\ m.xid \in Nat /\ m.rep \in Nat /\ execs \in Seq(Execution)
      /\ window \in Seq(Entry)
  BY DEF IInv, TypeOK, NetTypes, SrvTypes, Message, SInv, WindowSound
<1>2. Checked(m)
  BY DEF dispatch_new, dispatch_done, dispatch_inprogress
<1>3. ScanLeaves(s, window, m.xid, m.rep)
  BY <1>1, ScanResult
<1>4. s.w \in Seq(Entry)
  BY <1>3 DEF ScanLeaves
<1>5. CASE dispatch_new(m)
  <2> DEFINE e == [xid |-> m.xid, b |-> 0]
             new == {NewJob(m, 0, "run")}
  <2>1. window' = Append(s.w, e) /\ jobs' = JobsBesides(s.w) \cup new
    BY <1>5 DEF dispatch_new, Remember
  <2>2. e \in Entry /\ e.b = 0 /\ e.xid = m.xid
    BY <1>1 DEF Entry
  <2>3. NewJob(m, 0, "run").m = m /\ NewJob(m, 0, "run").b = 0 /\ ~NewJob(m, 0, "run").freed
    BY DEF NewJob
  <2> HIDE DEF e, s
  <2>4. window' \in Seq(Entry) /\ Len(window') = Len(s.w) + 1 /\ Len(s.w) \in Nat
        /\ window'[Len(s.w) + 1] = e /\ \A k \in 1 .. Len(s.w) : window'[k] = s.w[k]
    BY <1>4, <2>1, <2>2
  <2>5. DOMAIN window' = 1 .. Len(s.w) + 1 /\ DOMAIN s.w = 1 .. Len(s.w)
    BY <1>4, <2>4
  <2>6. ToSet(s.w) \subseteq ToSet(window') /\ e \in ToSet(window')
    BY <2>4, <2>5 DEF ToSet
  <2>7. \A f \in ToSet(window') : f \in ToSet(s.w) \/ f = e
    <3>1. \A k \in 1 .. Len(s.w) + 1 : k \in 1 .. Len(s.w) \/ k = Len(s.w) + 1
      BY <2>4
    <3> QED BY <2>4, <2>5, <3>1 DEF ToSet
  <2>8. FreshJobs(new, m, window')
    BY <2>2, <2>3, <2>6 DEF NewJob, FreshJobs
  <2>9. KeptWindow(window', s.w)
    BY <2>2, <2>4, <2>6, <2>7 DEF KeptWindow
  <2> HIDE DEF new
  <2> QED BY <1>2, <1>3, <2>1, <2>8, <2>9, SCheckedStep
<1>6. CASE dispatch_done(m)
  <2>1. PICK b \in DOMAIN execs :
          /\ s.at # 0 /\ s.w[s.at].b = b /\ window' = s.w
          /\ jobs' = JobsBesides(s.w) \cup {NewJob(m, b, "resend")}
    BY <1>6 DEF dispatch_done
  <2> DEFINE new == {NewJob(m, b, "resend")}
  <2> HIDE DEF s
  <2>2. s.at \in DOMAIN s.w /\ s.w[s.at].xid = m.xid /\ s.w[s.at] \in ToSet(window)
    BY <1>3, <2>1 DEF ScanLeaves, ToSet
  <2>3. b # 0
    BY <1>1, <2>1
  <2>4. Ran(b, m.xid)
    BY <2>1, <2>2, <2>3 DEF SInv, WindowSound
  <2>5. FreshJobs(new, m, window')
    BY <2>4 DEF NewJob, FreshJobs
  <2>6. jobs' = JobsBesides(s.w) \cup new
    BY <2>1
  <2> HIDE DEF new
  <2>7. KeptWindow(window', s.w)
    BY <1>4, <2>1 DEF KeptWindow
  <2> QED BY <1>2, <1>3, <2>5, <2>6, <2>7, SCheckedStep
<1>7. CASE dispatch_inprogress(m)
  <2> DEFINE new == {}
  <2>1. window' = s.w /\ jobs' = JobsBesides(s.w) \cup new
    BY <1>7 DEF dispatch_inprogress
  <2> HIDE DEF s
  <2>2. FreshJobs(new, m, window')
    BY DEF FreshJobs
  <2>3. KeptWindow(window', s.w)
    BY <1>4, <2>1 DEF KeptWindow
  <2> HIDE DEF new
  <2> QED BY <1>2, <1>3, <2>1, <2>2, <2>3, SCheckedStep
<1> QED BY <1>5, <1>6, <1>7

\* An execution's reply is put into an entry for its request, unless the
\* client is done with it.
LEMMA SRunStep == ASSUME IInv, SInv, NEW j \in jobs, run(j) PROVE SInv'
<1>0. PICK b : b = Len(execs) + 1
  OBVIOUS
<1>0a. PICK e : e = [xid |-> j.m.xid, srv |-> nonce_]
  OBVIOUS
<1> DEFINE x == j.m.xid
           new == [j EXCEPT !.b = b, !.st = "reply"]
<1>1. /\ j \in Job /\ x \in Nat /\ nonce_ \in Nat /\ execs \in Seq(Execution)
      /\ window \in Seq(Entry) /\ e \in Execution
  BY <1>0a DEF IInv, TypeOK, SrvTypes, Job, Message, SInv, WindowSound, Execution
<1>2. /\ execs' = Append(execs, e) /\ Len(execs') = b /\ b \in Nat /\ b # 0
      /\ jobs' = (jobs \ {j}) \cup {new} /\ add_reply(x, b) /\ j.st = "run"
  <2>1. execs' = Append(execs, e)
    BY <1>0a DEF run
  <2>2. Len(execs') = b /\ b \in Nat /\ b # 0
    BY <1>0, <1>1, <2>1
  <2> QED BY <2>1, <2>2 DEF run, new
<1>3. UNCHANGED <<cltVars, reqs, reps, nonce_>> /\ xid_rep' = xid_rep
  BY DEF run, cltVars
<1>4. new.m = j.m /\ new.b = b /\ new.st = "reply" /\ new.freed = j.freed
  BY <1>1 DEF Job
<1>5. /\ HistoryGrows /\ b \in DOMAIN execs' /\ execs'[b] = e
      /\ \A c \in DOMAIN execs' : c \in DOMAIN execs \/ c = b
  BY <1>0, <1>1, <1>2 DEF HistoryGrows
<1>6. e.xid = x /\ e.srv = nonce_
  BY <1>0a
<1>7. HasReply(window', window, x, b)
  <2> HIDE DEF x
  <2> QED BY <1>1, <1>2, AddReply
<1> HIDE DEF new
<1>8. \A c, y : Ran(c, y) => Ran(c, y)'
  BY <1>3, <1>5 DEF Ran, HistoryGrows
<1>9. Ran(b, x)'
  BY <1>3, <1>5, <1>6 DEF Ran
<1> DEFINE f == [xid |-> x, b |-> b]
<1>10. /\ f.xid = x /\ f.b = b /\ window' \in Seq(Entry)
       /\ \A g \in ToSet(window') : g \in ToSet(window) \/ g = f
       /\ \A g \in ToSet(window) : g.xid # x => g \in ToSet(window')
       /\ (\E g \in ToSet(window) : g.xid = x) => f \in ToSet(window')
  BY <1>7 DEF HasReply
<1> HIDE DEF f
<1>11. WindowSound'
  BY <1>8, <1>9, <1>10 DEF SInv, WindowSound
<1>12. \A y : Remembered(y) => Remembered(y)'
  BY <1>3, <1>10 DEF Remembered
<1>13. \A y : Answered(y) => Answered(y)'
  BY <1>2, <1>3, <1>10 DEF Answered
<1>14. Answered(x)'
  <2>1. Remembered(x)
    BY <1>2 DEF SInv, RequestsKept
  <2> QED BY <1>2, <1>3, <1>10, <2>1 DEF Remembered, Answered
<1>15. ASSUME NEW k \in jobs'
       PROVE  /\ JobSound(k)' /\ Agrees(k.m.xid, k.m.srv)
              /\ k.st = "run" => Remembered(k.m.xid)'
  <2>1. CASE k \in jobs
    <3>1. JobSound(k) /\ Agrees(k.m.xid, k.m.srv) /\ (k.st = "run" => Remembered(k.m.xid))
      BY <2>1 DEF SInv, JobsSound, CopiesAgree, RequestsKept
    <3>2. JobSound(k)'
      BY <1>3, <1>8, <3>1 DEF JobSound
    <3> QED BY <1>12, <3>1, <3>2
  <2>2. CASE k = new
    <3>1. JobSound(j) /\ Agrees(j.m.xid, j.m.srv)
      BY DEF SInv, JobsSound, CopiesAgree
    <3>2. JobSound(k)'
      BY <1>3, <1>4, <1>9, <2>2, <3>1 DEF JobSound
    <3> QED BY <1>4, <2>2, <3>1, <3>2
  <2> QED BY <1>2, <2>1, <2>2
<1>16. AnswersKept'
  BY <1>3, <1>5, <1>6, <1>13, <1>14 DEF SInv, AnswersKept, HistoryGrows
<1>17. PastInstances'
  BY <1>1, <1>3, <1>5, <1>6 DEF SInv, PastInstances, HistoryGrows
<1>18. CopiesAgree' /\ RepliesSound' /\ CancelStands' /\ OkMeansExecuted'
  BY <1>3, <1>5, <1>15, SServerFrame
<1> QED BY <1>11, <1>15, <1>16, <1>17, <1>18 DEF SInv, JobsSound, RequestsKept

\* A new instance has executed nothing.
LEMMA SRestartStep == ASSUME IInv, SInv, restart PROVE SInv'
<1>1. /\ UNCHANGED <<cltVars, execs>> /\ reqs' = {} /\ reps' = {} /\ jobs' = {}
      /\ window' = <<>> /\ nonce_' = nonce_ + 1
  BY DEF restart
<1>2. nonce_ \in Nat /\ \A b \in DOMAIN execs : execs[b].srv \in Nat /\ execs[b].srv <= nonce_
  BY ExecFields DEF IInv, TypeOK, SrvTypes, SInv, PastInstances
<1>3. HistoryGrows
  BY <1>1 DEF HistoryGrows
<1>4. ToSet(window') = {} /\ window' \in Seq(Entry)
  BY <1>1 DEF ToSet
<1>5. WindowSound' /\ JobsSound' /\ RequestsKept'
  BY <1>1, <1>4 DEF WindowSound, JobsSound, RequestsKept
<1>6. PastInstances' /\ AnswersKept'
  BY <1>1, <1>2 DEF PastInstances, AnswersKept
<1>7. CopiesAgree' /\ RepliesSound' /\ CancelStands' /\ OkMeansExecuted'
  BY <1>1, <1>3, SServerFrame
<1> QED BY <1>5, <1>6, <1>7 DEF SInv

\* Every step keeps the second invariant.
LEMMA SInvStep == IInv /\ SInv /\ [Next]_vars => SInv'
<1> SUFFICES ASSUME IInv, SInv, [Next]_vars PROVE SInv'
  OBVIOUS
<1>1. ASSUME NEW t \in Threads, call1(t) \/ transmit(t) \/ deadline(t) \/ finish(t)
      PROVE  SInv'
  BY <1>1, SCallStep, STransmitStep, SDeadlineStep, SFinishStep
<1>2. ASSUME NEW r \in reps, rpcc_got_pdu(r) PROVE SInv'
  BY <1>2, SReplyReceivedStep
<1>3. CASE cancel \/ cancel_recheck
  BY <1>3, SCancelStep
<1>4. ASSUME NEW m \in reqs, dispatch(m) PROVE SInv'
  BY <1>4, SRefusedStep, SVerdictStep DEF dispatch
<1>5. ASSUME NEW j \in jobs, run(j) \/ reply(j) PROVE SInv'
  BY <1>5, SRunStep, SReplyStep
<1>6. ASSUME NEW c \in 1 .. nconn, break(c) \/ server_break(c) PROVE SInv'
  BY <1>6, SFailureStep
<1>7. CASE restart
  BY <1>7, SRestartStep
<1>8. CASE UNCHANGED vars
  BY <1>8, WindowSame DEF vars, srvVars
<1> QED BY <1>1, <1>2, <1>3, <1>4, <1>5, <1>6, <1>7, <1>8 DEF Next

\* The second inductive invariant holds in every reachable state.
THEOREM SInvariance == SafeSpec => []SInv
  BY Invariance, SInvInit, SInvStep, PTL DEF SafeSpec

\* The reply to an executed call stays in reply_window_ as long as its caller
\* waits, although the loop of checkduplicate_and_update skips entries, starts
\* again from the first, and runs with the xid_rep of any other call.
THEOREM ReplyKeptTheorem == SafeSpec => []ReplyKept
<1>1. IInv /\ SInv => ReplyKept
  <2> SUFFICES ASSUME IInv, SInv, NEW t \in Threads, Outstanding(t), ~ca[t].done,
                      NEW b \in DOMAIN execs,
                      execs[b] = [xid |-> ca[t].xid, srv |-> nonce_]
               PROVE  \E i \in DOMAIN window : window[i].xid = ca[t].xid /\ window[i].b # 0
    BY DEF ReplyKept
  <2>1. Answered(ca[t].xid)
    BY DEF SInv, AnswersKept
  <2>2. ca[t].xid \in Nat /\ xid_rep \in Nat /\ ca[t].xid > xid_rep
    BY Fields DEF IInv, RepIsHonest
  <2>3. PICK e \in ToSet(window) : e.xid = ca[t].xid /\ e.b # 0
    BY <2>1, <2>2 DEF Answered
  <2> QED BY <2>3 DEF ToSet
<1>2. QED
  BY Invariance, SInvariance, <1>1, PTL

\* A call that returns success was executed, by the instance of the server its
\* client is bound to, and has the result of its own request.
THEOREM OkMeansExecutedTheorem == SafeSpec => []OkMeansExecuted
<1>1. SInv => OkMeansExecuted
  BY DEF SInv
<1>2. QED
  BY SInvariance, <1>1, PTL

\* The buffer of a dispatch that has still to send it is freed only when the
\* call has its answer.
THEOREM FreedIsAnsweredTheorem == SafeSpec => []FreedIsAnswered
<1>1. IInv /\ SInv => FreedIsAnswered
  <2> SUFFICES ASSUME IInv, SInv, NEW j \in jobs, NEW t \in Threads,
                      j.freed, Outstanding(t), ca[t].xid = j.m.xid
               PROVE  ca[t].done
    BY DEF FreedIsAnswered
  <2>1. j.m.xid <= xid_rep
    BY DEF SInv, JobsSound, JobSound
  <2> QED BY <2>1, Fields DEF IInv, RepIsHonest
<1>2. QED
  BY Invariance, SInvariance, <1>1, PTL

\* cancel is not undone, and no call starts after it.
LEMMA CancelStays ==
  ASSUME IInv, Next, destroy_wait_
  PROVE  destroy_wait_' /\ \A t \in Threads : Outstanding(t)' => Outstanding(t)
<1> DEFINE Goal == destroy_wait_' /\ \A t \in Threads : Outstanding(t)' => Outstanding(t)
<1>0. ca \in [Threads -> Caller]
  BY DEF IInv, TypeOK, CltTypes
<1>1. ASSUME NEW t \in Threads, call1(t) PROVE Goal
  BY <1>1 DEF call1
<1>2. ASSUME NEW t \in Threads, transmit(t) \/ deadline(t) PROVE Goal
  <2>1. SameCalls /\ cancel_' = cancel_
    BY <1>0, <1>2, TransmitSameCalls, DeadlineSameCalls DEF transmit, deadline
  <2> QED BY <2>1 DEF SameCalls, destroy_wait_
<1>3. ASSUME NEW t \in Threads, finish(t) PROVE Goal
  <2>1. ca' = [ca EXCEPT ![t] = Idle] /\ Idle.st = "idle"
    BY <1>3 DEF finish, Idle, NewCaller
  <2>2. destroy_wait_'
    BY <1>3 DEF finish, signal_destroy_wait, destroy_wait_
  <2> QED BY <1>0, <2>1, <2>2 DEF Outstanding
<1>4. ASSUME NEW r \in reps, rpcc_got_pdu(r) PROVE Goal
  <2>1. \A t \in Threads : ca'[t].st = ca[t].st
    BY <1>0, <1>4 DEF rpcc_got_pdu, Caller
  <2> QED BY <1>4, <2>1 DEF rpcc_got_pdu, destroy_wait_, Outstanding
<1>5. CASE cancel
  BY <1>5 DEF cancel, destroy_wait_
<1>6. CASE cancel_recheck
  BY <1>6 DEF cancel_recheck, destroy_wait_, Outstanding
<1>7. CASE UNCHANGED cltVars
  BY <1>7 DEF cltVars, destroy_wait_, Outstanding
<1>8. ASSUME NEW m \in reqs, dispatch(m) PROVE UNCHANGED cltVars
  BY <1>8 DEF dispatch, dispatch_oldsrv, dispatch_forgotten, dispatch_new, dispatch_done,
     dispatch_inprogress, Checked, Accept
<1>9. ASSUME NEW j \in jobs, run(j) \/ reply(j) PROVE UNCHANGED cltVars
  BY <1>9 DEF run, reply
<1>10. ASSUME NEW c \in 1 .. nconn, break(c) \/ server_break(c) PROVE UNCHANGED cltVars
  BY <1>10 DEF break, server_break
<1>11. restart => UNCHANGED cltVars
  BY DEF restart
<1> QED BY <1>1, <1>2, <1>3, <1>4, <1>5, <1>6, <1>7, <1>8, <1>9, <1>10, <1>11 DEF Next

\* Once cancel waits, no call starts and none that it failed gets another
\* result.
THEOREM CancelSticksTheorem == SafeSpec => CancelSticks
<1> DEFINE Sticks == destroy_wait_ =>
             \A t \in Threads : Outstanding(t)' => Outstanding(t) /\ ca'[t].ret = "cancel"
<1>1. ASSUME IInv, SInv', Next PROVE Sticks
  <2> SUFFICES ASSUME destroy_wait_, NEW t \in Threads, Outstanding(t)'
               PROVE  Outstanding(t) /\ ca'[t].ret = "cancel"
    OBVIOUS
  <2>1. destroy_wait_' /\ Outstanding(t)
    BY <1>1, CancelStays
  <2> QED BY <1>1, <2>1 DEF SInv, CancelStands
<1>2. IInv /\ SInv' /\ [Next]_vars => [Sticks]_vars
  BY <1>1
<1>3. QED
  BY Invariance, SInvariance, <1>2, PTL DEF SafeSpec, CancelSticks

-----------------------------------------------------------------------------
(* Requests that are executed again.                                       *)

\* The server can tell that x is no new request, but for the loop's faults.
Known(x) == x <= maxima \/ \E e \in ToSet(window) : e.xid = x

\* It can for every request that this instance has executed or is about to.
RInv == \A x \in Nat : Seen(x) => Known(x)

\* Steps that leave what the server has seen and what it knows.
LEMMA RFrame ==
  ASSUME RInv, \A x \in Nat : Seen(x)' => Seen(x), \A x \in Nat : Known(x) => Known(x)'
  PROVE  RInv'
  BY DEF RInv

\* The largest xid_rep never goes back, and covers what the loop erased.
LEMMA MaximaGrows ==
  ASSUME IInv, NEW m \in reqs
  PROVE  /\ maxima \in Int /\ m.rep \in Nat
         /\ SeenMaxima(m) \in Int /\ maxima <= SeenMaxima(m)
         /\ NewMaxima(SeenMaxima(m), m) \in Int
         /\ SeenMaxima(m) <= NewMaxima(SeenMaxima(m), m)
         /\ m.rep <= NewMaxima(SeenMaxima(m), m)
  BY Fields DEF IInv, SeenMaxima, NewMaxima

\* What is known, in a window that keeps all that m's xid_rep does not cover.
LEMMA RCheckedStep ==
  ASSUME IInv, SInv, RInv, NEW m \in reqs, Checked(m),
         NEW s, ScanLeaves(s, window, m.xid, m.rep), ToSet(s.w) \subseteq ToSet(window'),
         NEW new, jobs' = JobsBesides(s.w) \cup new,
         \A j \in new : j.st = "run" => j.m.xid = m.xid /\ \E e \in ToSet(window') : e.xid = m.xid
  PROVE  RInv'
<1>1. UNCHANGED <<execs, nonce_>> /\ maxima' = NewMaxima(SeenMaxima(m), m)
  BY DEF Checked, Accept
<1>2. \A e \in ToSet(window) : e.xid \in Nat
  <2>1. \A k \in DOMAIN window : window[k] \in Entry
    BY DEF SInv, WindowSound
  <2> QED BY <2>1 DEF ToSet, Entry
<1>3. ASSUME NEW x \in Nat, Known(x) PROVE Known(x)'
  <2>1. CASE x <= maxima
    BY <1>1, <2>1, MaximaGrows DEF Known
  <2>2. CASE \E e \in ToSet(window) : e.xid = x
    <3>1. PICK e \in ToSet(window) : e.xid = x
      BY <2>2
    <3>2. e \in ToSet(window') \/ x <= m.rep
      BY <1>2, <3>1, MaximaGrows DEF ScanLeaves
    <3> QED BY <1>1, <3>1, <3>2, MaximaGrows DEF Known
  <2> QED BY <1>3, <2>1, <2>2 DEF Known
<1>4. ASSUME NEW x \in Nat, Seen(x)' PROVE Seen(x) \/ Known(x)'
  <2>1. CASE \E b \in DOMAIN execs' : execs'[b] = [xid |-> x, srv |-> nonce_']
    BY <1>1, <2>1 DEF Seen
  <2>2. CASE \E k \in jobs' : k.st = "run" /\ k.m.xid = x
    <3>1. PICK k \in jobs' : k.st = "run" /\ k.m.xid = x
      BY <2>2
    <3>2. CASE k \in new
      BY <3>1, <3>2 DEF Known
    <3>3. CASE k \in JobsBesides(s.w)
      <4>1. jobs \in SUBSET Job
        BY DEF IInv, TypeOK, SrvTypes
      <4>2. PICK F : JobsBesides(s.w) = Dangle(F)
        BY DEF JobsBesides
      <4>3. PICK j \in jobs : k.m = j.m /\ k.st = j.st
        BY <3>3, <4>1, <4>2, DangleFreed
      <4> QED BY <3>1, <4>3 DEF Seen
    <3> QED BY <3>2, <3>3
  <2> QED BY <1>4, <2>1, <2>2 DEF Seen
<1> QED BY <1>3, <1>4 DEF RInv

\* NEW puts an entry into the window together with its job.
LEMMA RVerdictStep ==
  ASSUME IInv, SInv, RInv, NEW m \in reqs,
         dispatch_new(m) \/ dispatch_done(m) \/ dispatch_inprogress(m)
  PROVE  RInv'
<1> DEFINE s == Scan(m.xid, m.rep)
<1>1. m.xid \in Nat /\ m.rep \in Nat /\ window \in Seq(Entry)
  BY DEF IInv, TypeOK, NetTypes, Message, SInv, WindowSound
<1>2. Checked(m)
  BY DEF dispatch_new, dispatch_done, dispatch_inprogress
<1>3. ScanLeaves(s, window, m.xid, m.rep)
  BY <1>1, ScanResult
<1>4. s.w \in Seq(Entry)
  BY <1>3 DEF ScanLeaves
<1>5. CASE dispatch_new(m)
  <2> DEFINE e == [xid |-> m.xid, b |-> 0]
             new == {NewJob(m, 0, "run")}
  <2>1. window' = Append(s.w, e) /\ jobs' = JobsBesides(s.w) \cup new
    BY <1>5 DEF dispatch_new, Remember
  <2>2. e \in Entry /\ e.xid = m.xid
    BY <1>1 DEF Entry
  <2> HIDE DEF e, s
  <2>3. ToSet(s.w) \subseteq ToSet(window') /\ e \in ToSet(window')
    <3>1. /\ Len(s.w) \in Nat /\ DOMAIN s.w = 1 .. Len(s.w)
          /\ DOMAIN window' = 1 .. Len(s.w) + 1 /\ window'[Len(s.w) + 1] = e
          /\ \A k \in 1 .. Len(s.w) : window'[k] = s.w[k]
      BY <1>4, <2>1, <2>2
    <3> QED BY <3>1 DEF ToSet
  <2>4. \A j \in new : j.m = m
    BY DEF NewJob
  <2> HIDE DEF new
  <2> QED BY <1>2, <1>3, <2>1, <2>2, <2>3, <2>4, RCheckedStep
<1>6. CASE dispatch_done(m) \/ dispatch_inprogress(m)
  <2>1. CASE dispatch_done(m)
    <3>1. PICK b \in DOMAIN execs :
            window' = s.w /\ jobs' = JobsBesides(s.w) \cup {NewJob(m, b, "resend")}
      BY <2>1 DEF dispatch_done
    <3>2. NewJob(m, b, "resend").st = "resend"
      BY DEF NewJob
    <3> HIDE DEF s
    <3>3. PICK new : new = {NewJob(m, b, "resend")}
      OBVIOUS
    <3>4. jobs' = JobsBesides(s.w) \cup new /\ \A j \in new : j.st # "run"
      BY <3>1, <3>2, <3>3
    <3> QED BY <1>2, <1>3, <3>1, <3>4, RCheckedStep
  <2>2. CASE dispatch_inprogress(m)
    <3>1. PICK new : new = {}
      OBVIOUS
    <3>2. window' = s.w /\ jobs' = JobsBesides(s.w) \cup new
      BY <2>2, <3>1 DEF dispatch_inprogress
    <3> HIDE DEF s
    <3> QED BY <1>2, <1>3, <3>1, <3>2, RCheckedStep
  <2> QED BY <1>6, <2>1, <2>2
<1> QED BY <1>5, <1>6

\* An execution was seen before it ran, and keeps the entries' xids.
LEMMA RRunStep == ASSUME IInv, SInv, RInv, NEW j \in jobs, run(j) PROVE RInv'
<1>0. PICK e : e = [xid |-> j.m.xid, srv |-> nonce_]
  OBVIOUS
<1>1. /\ j.m.xid \in Nat /\ execs \in Seq(Execution) /\ window \in Seq(Entry)
      /\ j \in Job /\ e \in Execution
  BY <1>0 DEF IInv, TypeOK, SrvTypes, Job, Message, SInv, WindowSound, Execution
<1>2. /\ execs' = Append(execs, e) /\ Len(execs') \in Nat /\ j.st = "run"
      /\ add_reply(j.m.xid, Len(execs')) /\ nonce_' = nonce_ /\ maxima' = maxima
      /\ jobs' = (jobs \ {j}) \cup {[j EXCEPT !.b = Len(execs'), !.st = "reply"]}
  <2>1. execs' = Append(execs, e)
    BY <1>0 DEF run
  <2>2. Len(execs') \in Nat
    BY <1>1, <2>1
  <2> QED BY <2>1, <2>2 DEF run
<1>3. HasReply(window', window, j.m.xid, Len(execs'))
  BY <1>1, <1>2, AddReply
<1>4. ASSUME NEW x \in Nat, Known(x) PROVE Known(x)'
  <2> DEFINE f == [xid |-> j.m.xid, b |-> Len(execs')]
  <2>1. /\ \A g \in ToSet(window) : g.xid # j.m.xid => g \in ToSet(window')
        /\ (\E g \in ToSet(window) : g.xid = j.m.xid) => f \in ToSet(window')
        /\ f.xid = j.m.xid
    BY <1>3 DEF HasReply
  <2> HIDE DEF f
  <2> QED BY <1>2, <1>4, <2>1 DEF Known
<1>5. ASSUME NEW x \in Nat, Seen(x)' PROVE Seen(x)
  <2>1. CASE \E b \in DOMAIN execs' : execs'[b] = [xid |-> x, srv |-> nonce_']
    <3>1. PICK b \in DOMAIN execs' : execs'[b] = [xid |-> x, srv |-> nonce_]
      BY <1>2, <2>1
    <3>2. CASE b \in DOMAIN execs
      <4>1. execs'[b] = execs[b]
        BY <1>1, <1>2, <3>2
      <4> QED BY <3>1, <3>2, <4>1 DEF Seen
    <3>3. CASE b \notin DOMAIN execs
      <4>1. execs'[b] = e
        BY <1>1, <1>2, <3>1, <3>3
      <4>2. x = j.m.xid
        BY <1>0, <3>1, <4>1
      <4> QED BY <1>2, <4>2 DEF Seen
    <3> QED BY <3>2, <3>3
  <2>2. CASE \E k \in jobs' : k.st = "run" /\ k.m.xid = x
    <3>1. PICK k \in jobs' : k.st = "run" /\ k.m.xid = x
      BY <2>2
    <3>2. k \in jobs
      BY <1>1, <1>2, <3>1 DEF Job
    <3> QED BY <3>1, <3>2 DEF Seen
  <2> QED BY <1>5, <2>1, <2>2 DEF Seen
<1> QED BY <1>4, <1>5, RFrame

\* A new instance has seen nothing.
LEMMA RRestartStep == ASSUME IInv, SInv, restart PROVE RInv'
<1>1. execs' = execs /\ jobs' = {} /\ nonce_' = nonce_ + 1 /\ nonce_ \in Nat
  BY DEF restart, IInv, TypeOK, SrvTypes
<1>2. \A b \in DOMAIN execs : execs[b].srv \in Nat /\ execs[b].srv <= nonce_
  BY ExecFields DEF IInv, SInv, PastInstances
<1>3. \A x \in Nat : ~Seen(x)'
  BY <1>1, <1>2 DEF Seen
<1> QED BY <1>3 DEF RInv

\* Steps that leave the window alone and begin no job.
LEMMA RSame ==
  ASSUME RInv, UNCHANGED <<window, execs, nonce_>>, jobs' \subseteq jobs,
         \A x \in Nat : x <= maxima => x <= maxima'
  PROVE  RInv'
<1>1. \A x \in Nat : Seen(x)' => Seen(x)
  BY DEF Seen
<1>2. \A x \in Nat : Known(x) => Known(x)'
  BY DEF Known
<1> QED BY <1>1, <1>2, RFrame

\* Every step keeps the third invariant.
LEMMA RInvStep == IInv /\ SInv /\ RInv /\ [Next]_vars => RInv'
<1> SUFFICES ASSUME IInv, SInv, RInv, [Next]_vars PROVE RInv'
  OBVIOUS
<1>1. ASSUME NEW t \in Threads, call1(t) \/ transmit(t) \/ deadline(t) \/ finish(t)
      PROVE  RInv'
  BY <1>1, RSame DEF call1, transmit, deadline, finish, srvVars
<1>2. ASSUME NEW r \in reps, rpcc_got_pdu(r) PROVE RInv'
  BY <1>2, RSame DEF rpcc_got_pdu, srvVars
<1>3. CASE cancel \/ cancel_recheck
  BY <1>3, RSame DEF cancel, cancel_recheck, srvVars
<1>4. ASSUME NEW m \in reqs, dispatch(m) PROVE RInv'
  <2>1. CASE dispatch_oldsrv(m)
    BY <2>1, RSame DEF dispatch_oldsrv, srvVars
  <2>2. CASE dispatch_forgotten(m)
    <3>1. UNCHANGED <<window, jobs, execs, nonce_>> /\ maxima' = SeenMaxima(m)
      BY <2>2 DEF dispatch_forgotten, Accept
    <3>2. \A x \in Nat : x <= maxima => x <= maxima'
      BY <3>1, MaximaGrows
    <3> QED BY <3>1, <3>2, RSame
  <2>3. CASE dispatch_new(m) \/ dispatch_done(m) \/ dispatch_inprogress(m)
    BY <2>3, RVerdictStep
  <2> QED BY <1>4, <2>1, <2>2, <2>3 DEF dispatch
<1>5. ASSUME NEW j \in jobs, run(j) \/ reply(j) PROVE RInv'
  <2>1. CASE run(j)
    BY <2>1, RRunStep
  <2>2. CASE reply(j)
    BY <2>2, RSame DEF reply
  <2> QED BY <1>5, <2>1, <2>2
<1>6. ASSUME NEW c \in 1 .. nconn, break(c) \/ server_break(c) PROVE RInv'
  BY <1>6, RSame DEF break, server_break, srvVars
<1>7. CASE restart
  BY <1>7, RRestartStep
<1>8. CASE UNCHANGED vars
  BY <1>8, RSame DEF vars, srvVars
<1> QED BY <1>1, <1>2, <1>3, <1>4, <1>5, <1>6, <1>7, <1>8 DEF Next

\* checkduplicate_and_update takes a request for NEW a second time only when
\* its xid is the largest xid_rep, or its entry stands in the window behind one
\* that the loop erases.
THEOREM RepeatsTheorem == SafeSpec => RepeatsExplained
<1> DEFINE Explained == \A m \in reqs :
             dispatch_new(m) /\ Seen(m.xid) =>
               \/ m.xid = maxima
               \/ \E i, k \in DOMAIN window :
                    k < i /\ window[i].xid = m.xid /\ Erasable(window[k], m.rep)
<1>1. Init => RInv
  BY DEF Init, RInv, Seen
<1>2. SafeSpec => []RInv
  BY <1>1, Invariance, SInvariance, RInvStep, PTL DEF SafeSpec
<1>3. ASSUME IInv, SInv, RInv PROVE Explained
  <2> SUFFICES ASSUME NEW m \in reqs, dispatch_new(m), Seen(m.xid), m.xid # maxima
               PROVE  \E i, k \in DOMAIN window :
                        k < i /\ window[i].xid = m.xid /\ Erasable(window[k], m.rep)
    OBVIOUS
  <2>1. m.xid \in Nat /\ m.rep \in Nat /\ window \in Seq(Entry) /\ maxima \in Int
    BY <1>3, Fields DEF IInv, SInv, WindowSound
  <2>2. ~(SeenMaxima(m) > m.xid) /\ Scan(m.xid, m.rep).at = 0
    BY DEF dispatch_new, Checked, IsForgotten
  <2>3. ~(m.xid <= maxima)
    BY <2>1, <2>2 DEF SeenMaxima
  <2>4. PICK e \in ToSet(window) : e.xid = m.xid
    BY <1>3, <2>1, <2>3 DEF RInv, Known
  <2>5. PICK i \in DOMAIN window : window[i].xid = m.xid
    BY <2>4 DEF ToSet
  <2>6. ~(\A k \in DOMAIN window : k < i => ~Erasable(window[k], m.rep))
    BY <2>1, <2>2, <2>5, ScanFinds
  <2> QED BY <2>5, <2>6
<1>4. IInv /\ SInv /\ RInv => [Explained]_vars
  BY <1>3
<1>5. QED
  BY <1>2, <1>4, Invariance, SInvariance, PTL DEF SafeSpec, RepeatsExplained

=============================================================================
