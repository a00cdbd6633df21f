------------------------------ MODULE Deadline ------------------------------
(***************************************************************************)
(* The clock arithmetic of rpcc::call1: the deadlines it computes, the     *)
(* doubling of the wait, and the round in which it gives up.  Rpc lets a   *)
(* call time out at any moment; this module shows when it does.            *)
(*                                                                         *)
(* A second has MsPerSec milliseconds (1000 in the program), which are     *)
(* also the steps in which the clock is read: tv_nsec counts them.         *)
(***************************************************************************)
EXTENDS Integers

CONSTANTS MsPerSec,
          Timeouts,    \* the values of TO a caller passes, in milliseconds
          MaxSec       \* bound on the clock, beyond every deadline

ASSUME ClockAssumption ==
  /\ MsPerSec \in Nat \ {0} /\ Timeouts \subseteq Nat /\ MaxSec \in Nat
  /\ \A to \in Timeouts : to \div MsPerSec + 3 <= MaxSec

VARIABLES
  where,             \* where call1 is: start, loop, wait, late, over
  now,               \* CLOCK_REALTIME
  started, to,       \* history: when the call began; its timeout
  finaldeadline, nextdeadline, curr_to,
  transmit,          \* the request is due to be sent
  done               \* ca.done

clockVars == <<where, now, started, to, finaldeadline, nextdeadline, curr_to, transmit, done>>

to_min == MsPerSec   \* rpcc::to_min is 1000

Time(s, n) == [tv_sec |-> s, tv_nsec |-> n]
Zero == Time(0, 0)

\* Mutant: the carry is forgotten.
add_timespec_NoCarry(a, b) == Time(a.tv_sec + b \div MsPerSec, (a.tv_nsec + b) % MsPerSec)

\* Mutant: the whole timeout is added to tv_nsec, and carried once.
add_timespec_Once(a, b) ==
  LET n == a.tv_nsec + b
  IN  IF n > MsPerSec THEN Time(a.tv_sec + 1, n - MsPerSec) ELSE Time(a.tv_sec, n)

\* The loop that carries runs at most once, and leaves a full second alone.
add_timespec(a, b) ==
  LET s == a.tv_sec + b \div MsPerSec
      n == a.tv_nsec + (b % MsPerSec)
  IN  IF n > MsPerSec THEN Time(s + 1, n - MsPerSec) ELSE Time(s, n)

\* cmp_timespec(a, b) > 0
Later(a, b) ==
  a.tv_sec > b.tv_sec \/ (a.tv_sec = b.tv_sec /\ a.tv_nsec > b.tv_nsec)

\* pthread_cond_timedwait returns EINVAL at once, and keeps the mutex.
Invalid(t) == t.tv_nsec >= MsPerSec

DInit ==
  /\ where = "start" /\ now \in {Time(1, n) : n \in 0 .. MsPerSec - 1}
  /\ started = Zero /\ to \in Timeouts
  /\ finaldeadline = Zero /\ nextdeadline = Zero /\ curr_to = 0
  /\ transmit = FALSE /\ done = FALSE

start ==
  /\ where = "start" /\ where' = "loop"
  /\ started' = now /\ finaldeadline' = add_timespec(now, to)
  /\ curr_to' = to_min /\ transmit' = TRUE
  /\ UNCHANGED <<now, to, nextdeadline, done>>

\* finaldeadline.tv_sec = 0
Marked(t) == [t EXCEPT !.tv_sec = 0]

\* The top of the loop, where the request is sent, as far as the wait.
round ==
  LET d == add_timespec(now, curr_to)
      last == Later(d, finaldeadline)
  IN  /\ where = "loop" /\ transmit' = FALSE
      /\ where' = IF finaldeadline.tv_sec = 0 THEN "over" ELSE "wait"
      /\ nextdeadline' = IF finaldeadline.tv_sec = 0 THEN nextdeadline
                         ELSE IF last THEN finaldeadline ELSE d
      /\ finaldeadline' = IF finaldeadline.tv_sec # 0 /\ last THEN Marked(finaldeadline)
                          ELSE finaldeadline
      /\ UNCHANGED <<now, started, to, curr_to, done>>

\* The wait ends with the answer there.
wait_done ==
  /\ where = "wait" /\ done /\ where' = "over"
  /\ UNCHANGED <<now, started, to, finaldeadline, nextdeadline, curr_to, transmit, done>>

\* ETIMEDOUT without an answer.
wait_timeout ==
  /\ where = "wait" /\ ~done /\ ~Invalid(nextdeadline) /\ ~Later(nextdeadline, now)
  /\ where' = "late"
  /\ UNCHANGED <<now, started, to, finaldeadline, nextdeadline, curr_to, transmit, done>>

\* The end of the loop's body; dead: retrans_ and the connection is gone.
again(dead) ==
  /\ where = "late" /\ where' = "loop"
  /\ transmit' = dead /\ curr_to' = 2 * curr_to
  /\ UNCHANGED <<now, started, to, finaldeadline, nextdeadline, done>>

\* rpcc::got_pdu needs ca.m, which a wait with a bad deadline never gives up.
answer ==
  /\ where # "over" /\ ~done /\ ~(where = "wait" /\ Invalid(nextdeadline))
  /\ done' = TRUE
  /\ UNCHANGED <<where, now, started, to, finaldeadline, nextdeadline, curr_to, transmit>>

tick ==
  /\ where \notin {"start", "over"} /\ now.tv_sec < MaxSec
  /\ now' = IF now.tv_nsec + 1 = MsPerSec THEN Time(now.tv_sec + 1, 0)
            ELSE Time(now.tv_sec, now.tv_nsec + 1)
  /\ UNCHANGED <<where, started, to, finaldeadline, nextdeadline, curr_to, transmit, done>>

call1_step ==
  start \/ round \/ wait_done \/ wait_timeout \/ \E dead \in BOOLEAN : again(dead)

DNext == call1_step \/ answer \/ tick

\* The caller's thread runs and time passes; answers need not come.
DSpec == DInit /\ [][DNext]_clockVars /\ WF_clockVars(call1_step) /\ WF_clockVars(tick)

-----------------------------------------------------------------------------
Millis(t) == t.tv_sec * MsPerSec + t.tv_nsec

\* A call gives up only once its whole timeout has passed, although rounds
\* are cut short and the deadline is overwritten to mark the last one; and a
\* deadline the wait would reject needs a timeout of a fraction of a second.
GivesUpOnTime ==
  /\ where = "over" /\ ~done => Millis(now) >= Millis(started) + to
  /\ where = "wait" /\ Invalid(nextdeadline) => to % MsPerSec # 0

\* A call with a timeout of whole seconds ends, answered or not.
CallEnds == (where = "start" /\ to % MsPerSec = 0) ~> (where = "over")
=============================================================================
