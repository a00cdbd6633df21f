------------------------------- MODULE Intake -------------------------------
(***************************************************************************)
(* How requests get into an rpcs: the listener tcpsconn that accepts and   *)
(* collects connections (connection.cc), rpcs::got_pdu, the bounded queue  *)
(* and threads of the dispatch pool (fifo.h, thr_pool.cc), what dispatch   *)
(* does with references to connections (rpc.cc), and the destructors.      *)
(*                                                                         *)
(* Connections are numbered by creation time, the order of                 *)
(* connection::compare.  What happens inside a connection is in module     *)
(* Connection: here send() either succeeds, or finds the connection dead,  *)
(* or never returns because closeconn has found it waiting.                *)
(* Which verdict checkduplicate_and_update gives is in module Rpc: here it *)
(* may be any, as may the instance of the server a request names.          *)
(* Requests name procedures that are registered, and set_reachable, which  *)
(* nothing calls, is left out.                                             *)
(***************************************************************************)
EXTENDS Integers, Sequences, FiniteSets

CONSTANTS Workers,    \* the threads of dispatchpool_
          QMax,       \* max_ of its queue
          Clients,    \* client nonces; 0 is one without at-most-once logic
          MaxConns,   \* bound on the connections made
          MaxPdus     \* bound on the pdus sent on each of them

ASSUME IntakeAssumption ==
  /\ {QMax, MaxConns} \subseteq Nat \ {0} /\ MaxPdus \in [1 .. MaxConns -> Nat]
  /\ Clients \subseteq Nat /\ IsFiniteSet(Clients)
  /\ IsFiniteSet(Workers) /\ Workers # {}

VARIABLES
  nconn, clt,             \* connections made; the client of each
  refno_, dead_, freed,   \* connection: references; dead; deleted
  sent, in, eof, held,    \* sockets: pdus sent so far; not yet read; the client
                          \* is gone; rpdu_ holds a pdu that got_pdu refused
  q_, space_wait,         \* fifo: the jobs; ~rpcs waits on has_space_c_
  worker,                 \* the pool's threads
  listed, accept_,        \* tcpsconn: conns_; its thread
  latest,                 \* rpcs: conns_, the latest connection of a client
  owner,                  \* the thread that deletes the rpcs
  leaked, aborted         \* history: references never given back;
                          \* dispatch has followed a NULL pointer

connVars == <<nconn, clt, refno_, dead_, freed>>
sockVars == <<sent, in, eof, held>>
poolVars == <<q_, space_wait, worker>>
vars == <<connVars, sockVars, poolVars, listed, accept_, latest, owner, leaked, aborted>>

Conns == 1 .. MaxConns
Made == 1 .. nconn

\* A job is the connection its request came from.
Pill == 0
At(st) == [st |-> st, c |-> 0]

\* A dispatch is under way, and holds a reference to its connection.
Busy(w) == worker[w].st \in {"job", "run", "send", "stranded", "end"}

TypeOK ==
  /\ nconn \in 0 .. MaxConns /\ clt \in [Conns -> Clients \cup {0}]
  /\ refno_ \in [Conns -> Nat] /\ {dead_, freed, eof, held, listed} \subseteq SUBSET Conns
  /\ \A c \in Conns : sent[c] \in 0 .. MaxPdus[c] /\ in[c] \in 0 .. sent[c]
  /\ Len(q_) <= QMax /\ q_ \in Seq(Conns \cup {Pill})
  /\ space_wait \in BOOLEAN
  /\ \A w \in Workers :
       /\ worker[w].st \in {"deq", "sleep", "woken", "job", "run", "send", "stranded",
                            "end", "exit"}
       /\ Busy(w) => worker[w].c \in Conns
  /\ latest \in [Clients -> 0 .. MaxConns]
  /\ leaked \in [Conns -> Nat] /\ aborted \in BOOLEAN

Init ==
  /\ nconn = 0 /\ clt = [c \in Conns |-> 0]
  /\ refno_ = [c \in Conns |-> 0] /\ dead_ = {} /\ freed = {}
  /\ sent = [c \in Conns |-> 0] /\ in = [c \in Conns |-> 0]
  /\ eof = {} /\ held = {}
  /\ q_ = <<>> /\ space_wait = FALSE
  /\ worker = [w \in Workers |-> At("deq")]
  /\ listed = {} /\ accept_ = [st |-> "select", ch |-> 0, todo |-> {}, drop |-> {}]
  /\ latest = [i \in Clients |-> 0]
  /\ owner = [st |-> "running", n |-> 0, c |-> 0]
  /\ leaked = [c \in Conns |-> 0] /\ aborted = FALSE

-----------------------------------------------------------------------------
(* connection: references.                                                 *)

\* decref leaves the counts f: is c deleted?
Deletes(f, c) == f[c] = 0 /\ c \in dead_

\* incref of the connections in I and decref of those in D.
Counted(I, D) == [c \in Conns |-> refno_[c] + (IF c \in I THEN 1 ELSE 0)
                                            - (IF c \in D THEN 1 ELSE 0)]

Ref(I, D) == /\ refno_' = Counted(I, D)
             /\ freed' = freed \cup {c \in D : Deletes(Counted(I, D), c)}

-----------------------------------------------------------------------------
(* fifo and ThrPool.                                                       *)

Sleeping == {w \in Workers : worker[w].st = "sleep"}

\* pthread_cond_signal(&non_empty_c_), the threads being W otherwise.
signal_non_empty(W) ==
  IF Sleeping = {} THEN worker' = W
  ELSE \E s \in Sleeping : worker' = [W EXCEPT ![s] = At("woken")]

\* fifo::enq of a job when there is room.
HasSpace == Len(q_) < QMax

enq(j) == q_' = Append(q_, j) /\ signal_non_empty(worker)

\* Mutant: deq does not signal.
signal_has_space_Missing == UNCHANGED space_wait

\* deq's signal on has_space_c_: there is room now.
signal_has_space == space_wait' = (space_wait /\ ~(Len(q_') < QMax))

\* takeJob: fifo::deq, and the end of a thread that takes a pill.
takeJob(w) ==
  /\ worker[w].st \in {"deq", "woken"}
  /\ \/ /\ q_ = <<>>
        /\ worker' = [worker EXCEPT ![w] = At("sleep")]
        /\ UNCHANGED <<q_, space_wait>>
     \/ /\ q_ # <<>>
        /\ q_' = Tail(q_)
        /\ signal_has_space
        /\ worker' = [worker EXCEPT ![w] =
                        IF Head(q_) = Pill THEN At("exit")
                        ELSE [st |-> "job", c |-> Head(q_)]]
  /\ UNCHANGED <<connVars, sockVars, listed, accept_, latest, owner, leaked, aborted>>

-----------------------------------------------------------------------------
(* rpcs::got_pdu, called by the poll thread through read_cb.               *)

\* Mutant: the reference of a refused job is kept.
Refuse_Keeps(c) == Ref({c}, {})

\* got_pdu gives the reference back when the queue is full.
Refuse(c) == Ref({}, {})

\* Mutant: only what has just been read is offered.
Offers_New(c) == in[c] > 0 /\ c \notin held

\* The socket is readable, and rpdu_ can be completed or is complete already.
Offers(c) == in[c] > 0 \/ (c \in held /\ c \in eof)

\* read_cb offers the pdu, which stays in rpdu_ if it is refused.
read_cb_offers(c) ==
  /\ c \in Made \ dead_ /\ Offers(c)
  /\ in' = IF c \in held THEN in ELSE [in EXCEPT ![c] = @ - 1]
  /\ \/ /\ HasSpace
        /\ enq(c)
        /\ Ref({c}, {})
        /\ held' = held \ {c}
     \/ /\ ~HasSpace
        /\ Refuse(c)
        /\ held' = held \cup {c}
        /\ UNCHANGED <<q_, worker>>
  /\ UNCHANGED <<nconn, clt, dead_, sent, eof, space_wait, listed, accept_,
                 latest, owner, leaked, aborted>>

\* read_cb at the end of the stream.
read_cb_dies(c) ==
  /\ c \in Made \ dead_ /\ c \notin held /\ in[c] = 0 /\ c \in eof
  /\ dead_' = dead_ \cup {c}
  /\ UNCHANGED <<nconn, clt, refno_, freed, sockVars, poolVars, listed, accept_,
                 latest, owner, leaked, aborted>>

-----------------------------------------------------------------------------
(* rpcs::dispatch, as far as connections go.                               *)

\* A send on a connection whose client is gone may be the one to notice.
Send(c) == dead_' \in {dead_} \cup IF c \in eof \ dead_ THEN {dead_ \cup {c}} ELSE {}

\* The header is too short, or names another instance of the server: in the
\* second case dispatch returns without decref.
dispatch_returns(w) ==
  /\ worker[w].st = "job"
  /\ \/ /\ Ref({}, {worker[w].c})
        /\ UNCHANGED <<dead_, leaked>>
     \/ /\ Send(worker[w].c)
        /\ leaked' = [leaked EXCEPT ![worker[w].c] = @ + 1]
        /\ UNCHANGED <<refno_, freed>>
  /\ worker' = [worker EXCEPT ![w] = At("deq")]
  /\ UNCHANGED <<nconn, clt, sockVars, q_, space_wait, listed, accept_, latest,
                 owner, aborted>>

\* The connection that the latest one of client i replaces.
Older(i) == {latest[i]} \ {0}

\* The connection is saved if it is the client's latest; then comes
\* checkduplicate_and_update: NEW runs the handler, INPROGRESS does nothing,
\* the others send what there is.
dispatch(w) ==
  LET c == worker[w].c
      i == clt[c]
  IN  /\ worker[w].st = "job"
      /\ \/ /\ i # 0 /\ latest[i] < c
            /\ Ref({c}, Older(i))
            /\ latest' = [latest EXCEPT ![i] = c]
         \/ /\ i = 0 \/ latest[i] >= c
            /\ UNCHANGED <<refno_, freed, latest>>
      /\ \E st \in IF i = 0 THEN {"run"} ELSE {"run", "send", "end"} :
           worker' = [worker EXCEPT ![w].st = st]
      /\ UNCHANGED <<nconn, clt, dead_, sockVars, q_, space_wait, listed,
                     accept_, owner, leaked, aborted>>

\* decref of c, incref of the client's latest connection d.
Switch(c, d) == Ref({d}, {c})

\* After the handler: if the connection is dead meanwhile, the client's
\* latest one is taken.  For client 0 the lookup in conns_ makes a NULL
\* entry, and incref of it ends the process.
dispatch_latest(w) ==
  LET c == worker[w].c
      d == latest[clt[c]]
  IN  /\ worker[w].st = "run"
      /\ \/ /\ c \in dead_ /\ clt[c] = 0
            /\ aborted' = TRUE
            /\ UNCHANGED <<refno_, freed, worker>>
         \/ /\ c \in dead_ /\ clt[c] # 0 /\ d # c
            /\ Switch(c, d)
            /\ worker' = [worker EXCEPT ![w].st = "send", ![w].c = d]
            /\ UNCHANGED aborted
         \/ /\ c \notin dead_ \/ (clt[c] # 0 /\ d = c)
            /\ worker' = [worker EXCEPT ![w].st = "send"]
            /\ UNCHANGED <<refno_, freed, aborted>>
      /\ UNCHANGED <<nconn, clt, dead_, sockVars, q_, space_wait, listed,
                     accept_, latest, owner, leaked>>

dispatch_send(w) ==
  /\ worker[w].st = "send"
  /\ Send(worker[w].c)
  /\ worker' = [worker EXCEPT ![w].st = "end"]
  /\ UNCHANGED <<nconn, clt, refno_, freed, sockVars, q_, space_wait, listed,
                 accept_, latest, owner, leaked, aborted>>

dispatch_end(w) ==
  /\ worker[w].st = "end"
  /\ Ref({}, {worker[w].c})
  /\ worker' = [worker EXCEPT ![w] = At("deq")]
  /\ UNCHANGED <<nconn, clt, dead_, sockVars, q_, space_wait, listed, accept_,
                 latest, owner, leaked, aborted>>

-----------------------------------------------------------------------------
(* tcpsconn.                                                               *)

acceptOnly == UNCHANGED <<dead_, sockVars, poolVars, latest, owner, leaked, aborted>>

\* process_accept: the new object registers with the poll manager at once,
\* and is put into conns_ after the dead ones have been looked for.
process_accept ==
  /\ accept_.st = "select" /\ owner.st = "running" /\ nconn < MaxConns
  /\ nconn' = nconn + 1
  /\ \E i \in Clients : clt' = [clt EXCEPT ![nconn + 1] = i]
  /\ refno_' = [refno_ EXCEPT ![nconn + 1] = 1]
  /\ accept_' = [st |-> "gc", ch |-> nconn + 1, todo |-> listed, drop |-> {}]
  /\ acceptOnly /\ UNCHANGED <<freed, listed>>

Collectable(c) == c \in dead_ /\ refno_[c] = 1

\* The loop over conns_, an element at a time: isdead() and ref() ...
gc_check(c) ==
  /\ accept_.st = "gc" /\ c \in accept_.todo
  /\ accept_' = [accept_ EXCEPT !.todo = @ \ {c},
                                !.drop = IF Collectable(c) THEN {c} ELSE {}]
  /\ accept_.drop = {}
  /\ acceptOnly /\ UNCHANGED <<nconn, clt, refno_, freed, listed>>

\* ... then decref and erase.
gc_drop(c) ==
  /\ c \in accept_.drop
  /\ Ref({}, {c})
  /\ listed' = listed \ {c}
  /\ accept_' = [accept_ EXCEPT !.drop = {}]
  /\ acceptOnly /\ UNCHANGED <<nconn, clt>>

process_accept_end ==
  /\ accept_.st = "gc" /\ accept_.todo = {} /\ accept_.drop = {}
  /\ listed' = listed \cup {accept_.ch}
  /\ accept_' = [accept_ EXCEPT !.st = "select", !.ch = 0]
  /\ acceptOnly /\ UNCHANGED <<nconn, clt, refno_, freed>>

\* accept_conn finds the pipe closed.
accept_exit ==
  /\ accept_.st = "select" /\ owner.st # "running"
  /\ accept_' = [accept_ EXCEPT !.st = "exit"]
  /\ acceptOnly /\ UNCHANGED <<nconn, clt, refno_, freed, listed>>

-----------------------------------------------------------------------------
(* rpcs::~rpcs: delete listener_, then delete dispatchpool_.               *)

ownerOnly == UNCHANGED <<nconn, clt, sockVars, accept_, latest, leaked, aborted>>

\* ~tcpsconn closes the pipe ...
delete_rpcs ==
  /\ owner.st = "running"
  /\ owner' = [owner EXCEPT !.st = "join"]
  /\ ownerOnly /\ UNCHANGED <<refno_, dead_, freed, poolVars, listed>>

Joined == owner.st = "join" /\ accept_.st = "exit"

\* Threads that may be inside send(), for a reply or for the answer to a
\* request that names another instance.
Sending(c) == {w \in Workers : worker[w].st \in {"job", "send"} /\ worker[w].c = c}

\* ... and, when it has joined the accept thread, calls closeconn and decref
\* for each connection.  closeconn does not signal send_complete_: the threads
\* S that wait for the socket to take their pdu are never woken.
close_conn(c) ==
  /\ Joined /\ owner.c = 0 /\ c \in listed
  /\ owner' = [owner EXCEPT !.c = c]
  /\ dead_' = dead_ \cup {c}
  /\ \E S \in SUBSET IF c \in dead_ THEN {} ELSE Sending(c) :
       worker' = [w \in Workers |-> IF w \in S THEN [worker[w] EXCEPT !.st = "stranded"]
                                                ELSE worker[w]]
  /\ ownerOnly /\ UNCHANGED <<refno_, freed, q_, space_wait, listed>>

close_decref ==
  /\ Joined /\ owner.c # 0
  /\ Ref({}, {owner.c})
  /\ listed' = listed \ {owner.c}
  /\ owner' = [owner EXCEPT !.c = 0]
  /\ ownerOnly /\ UNCHANGED <<dead_, poolVars>>

\* Mutant: the pool is deleted before the listener.
PoolDue_First == owner.st \in {"running", "pills"}

\* The listener is gone.
PoolDue == \/ Joined /\ owner.c = 0 /\ listed = {}
           \/ owner.st = "pills"

\* ~ThrPool: a pill for each thread, waiting for space when there is none.
enq_pill ==
  /\ PoolDue /\ ~space_wait /\ owner.n < Cardinality(Workers)
  /\ \/ /\ HasSpace
        /\ enq(Pill)
        /\ owner' = [owner EXCEPT !.st = "pills", !.n = @ + 1]
        /\ UNCHANGED space_wait
     \/ /\ ~HasSpace
        /\ space_wait' = TRUE
        /\ owner' = [owner EXCEPT !.st = "pills"]
        /\ UNCHANGED <<q_, worker>>
  /\ ownerOnly /\ UNCHANGED <<refno_, dead_, freed, listed>>

join_workers ==
  /\ owner.st = "pills" /\ owner.n = Cardinality(Workers)
  /\ \A w \in Workers : worker[w].st = "exit"
  /\ owner' = [owner EXCEPT !.st = "done"]
  /\ ownerOnly /\ UNCHANGED <<refno_, dead_, freed, poolVars, listed>>

-----------------------------------------------------------------------------
(* Clients.                                                                *)

clientOnly == UNCHANGED <<connVars, held, poolVars, listed, accept_, latest,
                          owner, leaked, aborted>>

client_sends(c) ==
  /\ c \in Made \ (dead_ \cup eof) /\ sent[c] < MaxPdus[c]
  /\ sent' = [sent EXCEPT ![c] = @ + 1]
  /\ in' = [in EXCEPT ![c] = @ + 1]
  /\ clientOnly /\ UNCHANGED eof

client_leaves(c) ==
  /\ c \in Made \ (dead_ \cup eof)
  /\ eof' = eof \cup {c}
  /\ clientOnly /\ UNCHANGED <<sent, in>>

-----------------------------------------------------------------------------
Worker(w) == \/ takeJob(w) \/ dispatch_returns(w) \/ dispatch(w)
             \/ dispatch_latest(w) \/ dispatch_send(w) \/ dispatch_end(w)
Read(c) == read_cb_offers(c) \/ read_cb_dies(c)
Accept == \/ \E c \in Conns : gc_check(c) \/ gc_drop(c)
          \/ process_accept_end \/ accept_exit
Delete == \/ close_decref \/ enq_pill \/ join_workers
          \/ \E c \in Conns : close_conn(c)

Next == /\ ~aborted
        /\ \/ \E w \in Workers : Worker(w)
           \/ \E c \in Conns : Read(c) \/ client_sends(c) \/ client_leaves(c)
           \/ process_accept \/ Accept \/ delete_rpcs \/ Delete

\* While some thread can go on one does: the workers, the poll thread, which
\* serves every readable socket in each of its rounds, the listener's thread or
\* the one that deletes the rpcs.  Nothing makes a client connect, send or leave.
Fairness ==
  WF_vars(/\ ~aborted
          /\ \/ \E w \in Workers : Worker(w)
             \/ \E c \in Conns : Read(c)
             \/ Accept \/ Delete)

Spec == Init /\ [][Next]_vars /\ Fairness

-----------------------------------------------------------------------------
(* Properties.                                                             *)

\* Who holds a reference to c: the listener (or its thread, before c is in
\* conns_), rpcs::conns_, queued jobs and dispatches.
Holds(c) ==
  (IF c \in listed \/ accept_.ch = c THEN 1 ELSE 0)
  + Cardinality({i \in Clients : latest[i] = c})
  + Cardinality({k \in DOMAIN q_ : q_[k] = c})
  + Cardinality({w \in Workers : Busy(w) /\ worker[w].c = c})

\* The reference count is the number of holders, plus one for each request
\* to an old server instance, whose dispatch keeps its reference for ever.
\* Hence nobody is left with a deleted connection, and a dead one that
\* nobody holds is deleted.
Counts == \A c \in Made :
  /\ refno_[c] = Holds(c) + leaked[c]
  /\ c \in freed <=> refno_[c] = 0

\* "A connection object is deleted only when the underlying connection is
\* dead and the reference count reaches zero" (rpc.cc), and a connection
\* that is alive never loses its last reference: decref would then leave it
\* undeleted for ever, and got_pdu's decref, made with the connection's
\* mutex held, would lock that mutex a second time.
LiveIsReferenced == \A c \in Made : c \notin dead_ => refno_[c] > 0 /\ c \notin freed

\* The references of got_pdu, dispatch, the listener and conns_ add up.
RefsCounted == Counts /\ LiveIsReferenced

\* fifo loses no wakeup: while a thread sleeps on non_empty_c_, each queued
\* job has a thread of its own that was woken for it.
NoLostWakeup ==
  Sleeping # {} => Len(q_) <= Cardinality({w \in Workers : worker[w].st \in {"woken", "deq"}})

\* "must delete listener before dispatchpool" (~rpcs): no job gets into the
\* queue behind the pills, so nothing is left undispatched.
PillsAreLast ==
  /\ owner.st = "done" => q_ = <<>>
  /\ \A a, b \in DOMAIN q_ : a < b /\ q_[a] = Pill => q_[b] = Pill

\* The queue is in order, in states of the types above.
QueueInOrder == TypeOK /\ NoLostWakeup /\ PillsAreLast

\* Deleting the rpcs comes to an end, even with a full queue, if only closeconn
\* finds no thread of the pool waiting inside send: the join with that thread
\* would never return.
DeleteReturns ==
  owner.st # "running" ~> \/ owner.st = "done" \/ aborted
                          \/ \E w \in Workers : worker[w].st = "stranded"

\* A pdu that got_pdu refused is taken in the end if the socket stays
\* readable.  (It is not offered again while the client is silent.)
RefusedIsRetried == \A c \in Conns :
  ~<>[](c \in held /\ c \notin dead_ /\ (in[c] > 0 \/ c \in eof) /\ ~aborted)
=============================================================================
