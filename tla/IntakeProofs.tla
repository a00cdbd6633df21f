---------------------------- MODULE IntakeProofs ----------------------------
(***************************************************************************)
(* Proofs about module Intake: the references to connections add up, and   *)
(* the queue of the dispatch pool loses neither wakeups nor jobs, for any  *)
(* number of threads, clients, connections and requests.                   *)
(***************************************************************************)
EXTENDS Intake, FiniteSetTheorems, TLAPS

-----------------------------------------------------------------------------
(* Counting: how often a function takes a value.                           *)

Times(f, v) == Cardinality({x \in DOMAIN f : f[x] = v})

Eq(a, b) == IF a = b THEN 1 ELSE 0
In(a, S) == IF a \in S THEN 1 ELSE 0

\* It is a number, and none exactly if the value is not taken.
LEMMA TimesNat ==
  ASSUME NEW f, IsFiniteSet(DOMAIN f), NEW v
  PROVE  Times(f, v) \in Nat /\ (Times(f, v) = 0 <=> \A x \in DOMAIN f : f[x] # v)
<1> DEFINE S == {x \in DOMAIN f : f[x] = v}
<1>1. IsFiniteSet(S)
  BY FS_Subset
<1>2. Cardinality(S) \in Nat /\ (Cardinality(S) = 0 <=> S = {})
  BY <1>1, FS_CardinalityType, FS_EmptySet
<1> QED BY <1>2 DEF Times

\* One value replaced by another.
LEMMA TimesExcept ==
  ASSUME NEW f, NEW g, NEW x \in DOMAIN f, NEW y, NEW v,
         IsFiniteSet(DOMAIN f), DOMAIN g = DOMAIN f, g[x] = y,
         \A z \in DOMAIN f \ {x} : g[z] = f[z]
  PROVE  Times(g, v) = Times(f, v) + Eq(y, v) - Eq(f[x], v)
<1> DEFINE D == DOMAIN f
           F == {z \in D : f[z] = v}
           G == {z \in D : g[z] = v}
<1>1. Times(f, v) = Cardinality(F) /\ Times(g, v) = Cardinality(G)
  BY DEF Times
<1>2. IsFiniteSet(F) /\ IsFiniteSet(G) /\ Cardinality(F) \in Nat /\ Cardinality(G) \in Nat
  <2>1. F \in SUBSET D /\ G \in SUBSET D
    OBVIOUS
  <2>2. IsFiniteSet(F) /\ IsFiniteSet(G)
    BY <2>1, FS_Subset
  <2> QED BY <2>2, FS_CardinalityType
<1>3. CASE y = v /\ f[x] = v
  <2>1. F = G
    BY <1>3
  <2> QED BY <1>1, <1>2, <1>3, <2>1 DEF Eq
<1>4. CASE y # v /\ f[x] # v
  <2>1. F = G
    BY <1>4
  <2> QED BY <1>1, <1>2, <1>4, <2>1 DEF Eq
<1>5. CASE y = v /\ f[x] # v
  <2>1. G = F \cup {x} /\ x \notin F
    BY <1>5
  <2>2. Cardinality(G) = Cardinality(F) + 1
    BY <1>2, <2>1, FS_AddElement
  <2> QED BY <1>1, <1>2, <1>5, <2>2 DEF Eq
<1>6. CASE y # v /\ f[x] = v
  <2>1. G = F \ {x} /\ x \in F
    BY <1>6
  <2>2. Cardinality(G) = Cardinality(F) - 1
    BY <1>2, <2>1, FS_RemoveElement
  <2> QED BY <1>1, <1>2, <1>6, <2>2 DEF Eq
<1> QED BY <1>3, <1>4, <1>5, <1>6

\* A sequence has finitely many places.
LEMMA SeqFinite ==
  ASSUME NEW T, NEW s \in Seq(T)
  PROVE  IsFiniteSet(DOMAIN s)
<1>1. DOMAIN s = 1 .. Len(s) /\ Len(s) \in Nat
  OBVIOUS
<1> QED BY <1>1, FS_Interval

\* One element more.
LEMMA TimesAppend ==
  ASSUME NEW T, NEW s \in Seq(T), NEW y \in T, NEW v
  PROVE  Times(Append(s, y), v) = Times(s, v) + Eq(y, v)
<1> DEFINE g == Append(s, y)
           F == {z \in DOMAIN s : s[z] = v}
           G == {z \in DOMAIN g : g[z] = v}
<1>1. Times(s, v) = Cardinality(F) /\ Times(g, v) = Cardinality(G)
  BY DEF Times
<1>2. IsFiniteSet(F) /\ Cardinality(F) \in Nat
  <2>1. F \in SUBSET DOMAIN s
    OBVIOUS
  <2>2. IsFiniteSet(F)
    BY <2>1, SeqFinite, FS_Subset
  <2> QED BY <2>2, FS_CardinalityType
<1>3. CASE y = v
  <2>1. G = F \cup {Len(s) + 1} /\ Len(s) + 1 \notin F
    BY <1>3
  <2>2. Cardinality(G) = Cardinality(F) + 1
    BY <1>2, <2>1, FS_AddElement
  <2> QED BY <1>1, <1>2, <1>3, <2>2 DEF Eq
<1>4. CASE y # v
  <2>1. G = F
    BY <1>4
  <2>2. Cardinality(G) = Cardinality(F) /\ Eq(y, v) = 0
    BY <1>4, <2>1 DEF Eq
  <2> HIDE DEF F, G, g
  <2> QED BY <1>1, <1>2, <2>2 DEF g
<1> QED BY <1>3, <1>4

\* The first element gone.
LEMMA TimesTail ==
  ASSUME NEW T, NEW s \in Seq(T), s # <<>>, NEW v
  PROVE  Times(Tail(s), v) = Times(s, v) - Eq(Head(s), v)
<1> DEFINE g == Tail(s)
           F == {z \in DOMAIN s : s[z] = v}
           G == {z \in DOMAIN g : g[z] = v}
           f == [z \in F \ {1} |-> z - 1]
<1>1. Times(s, v) = Cardinality(F) /\ Times(g, v) = Cardinality(G)
  BY DEF Times
<1>2. IsFiniteSet(F) /\ Cardinality(F) \in Nat
  <2>1. F \in SUBSET DOMAIN s
    OBVIOUS
  <2>2. IsFiniteSet(F)
    BY <2>1, SeqFinite, FS_Subset
  <2> QED BY <2>2, FS_CardinalityType
<1>3. /\ Len(s) \in Nat \ {0} /\ DOMAIN s = 1 .. Len(s) /\ DOMAIN g = 1 .. Len(s) - 1
      /\ \A z \in 1 .. Len(s) - 1 : g[z] = s[z + 1]
      /\ Head(s) = s[1]
  OBVIOUS
<1>4. ExistsBijection(F \ {1}, G)
  <2>1. f \in [F \ {1} -> G]
    BY <1>3
  <2>2. \A a, b \in F \ {1} : f[a] = f[b] => a = b
    BY <1>3
  <2>3. \A t \in G : \E a \in F \ {1} : f[a] = t
    <3> SUFFICES ASSUME NEW t \in G PROVE \E a \in F \ {1} : f[a] = t
      OBVIOUS
    <3>1. t + 1 \in F \ {1} /\ f[t + 1] = t
      BY <1>3
    <3> QED BY <3>1
  <2>4. DOMAIN f = F \ {1}
    OBVIOUS
  <2> HIDE DEF f, F, G
  <2> QED BY <2>1, <2>2, <2>3, <2>4 DEF ExistsBijection, Bijection, Injection, Surjection, IsInjective
<1>5. IsFiniteSet(F \ {1})
      /\ Cardinality(F \ {1}) = IF 1 \in F THEN Cardinality(F) - 1 ELSE Cardinality(F)
  BY <1>2, FS_RemoveElement
<1>6. Cardinality(G) = Cardinality(F \ {1})
  BY <1>4, <1>5, FS_Bijection
<1>7. 1 \in F <=> Head(s) = v
  BY <1>3
<1>8. Eq(Head(s), v) = IF 1 \in F THEN 1 ELSE 0
  BY <1>7 DEF Eq
<1> HIDE DEF F, G
<1> QED BY <1>1, <1>2, <1>5, <1>6, <1>8

-----------------------------------------------------------------------------
(* The inductive invariant.                                                *)

States == {"deq", "sleep", "woken", "job", "run", "send", "stranded", "end", "exit"}
Thread == [st : States, c : 0 .. MaxConns]

Types ==
  /\ nconn \in 0 .. MaxConns /\ clt \in [Conns -> Clients \cup {0}]
  /\ refno_ \in [Conns -> Int]
  /\ sent \in [Conns -> Nat] /\ in \in [Conns -> Nat]
  /\ \A c \in Conns : in[c] <= sent[c] /\ sent[c] <= MaxPdus[c]
  /\ eof \subseteq Conns /\ held \subseteq Conns
  /\ q_ \in Seq(Conns \cup {Pill}) /\ Len(q_) <= QMax /\ space_wait \in BOOLEAN
  /\ worker \in [Workers -> Thread]
  /\ accept_ \in [st : {"select", "gc", "exit"}, ch : 0 .. MaxConns,
                  todo : SUBSET Conns, drop : SUBSET Conns]
  /\ latest \in [Clients -> 0 .. MaxConns]
  /\ owner \in [st : {"running", "join", "pills", "done"}, n : Nat, c : 0 .. MaxConns]
  /\ leaked \in [Conns -> Nat] /\ aborted \in BOOLEAN

\* Only connections that were made are named anywhere.
Known ==
  /\ dead_ \subseteq Made /\ freed \subseteq Made /\ listed \subseteq Made
  /\ accept_.ch \in Made \cup {0}
  /\ \A i \in Clients : latest[i] \in Made \cup {0}
  /\ \A k \in DOMAIN q_ : q_[k] \in Made \cup {Pill}
  /\ \A w \in Workers : Busy(w) => worker[w].c \in Made
  /\ \A c \in Conns \ Made : refno_[c] = 0 /\ leaked[c] = 0

\* A connection that is alive is in the listener's conns_ or on its way
\* there: the listener drops only dead ones, one at a time.
Listener ==
  /\ accept_.todo \subseteq listed /\ accept_.drop \subseteq listed \cap dead_
  /\ accept_.todo \cap accept_.drop = {}
  /\ \A c, d \in accept_.drop : c = d
  /\ accept_.st = "gc" => accept_.ch # 0
  /\ accept_.st # "gc" => accept_.ch = 0 /\ accept_.todo = {} /\ accept_.drop = {}
  /\ accept_.ch \notin listed
  /\ Made \ dead_ \subseteq listed \cup {accept_.ch}

\* The destructors: which of the two threads still has connections.
Deletion ==
  /\ owner.c # 0 => Joined /\ owner.c \in listed \cap dead_
  /\ owner.st \in {"pills", "done"} => listed = {} /\ accept_.st = "exit"

\* While a handler runs for a client, conns_ has the client's connection or
\* a later one.
Saved == \A w \in Workers :
  worker[w].st = "run" /\ clt[worker[w].c] # 0 => latest[clt[worker[w].c]] >= worker[w].c

Refs == \A c \in Conns :
  /\ refno_[c] = Holds(c) + leaked[c]
  /\ c \in Made => (c \in freed <=> refno_[c] = 0)

Exited == {w \in Workers : worker[w].st = "exit"}
PillsAt == {k \in DOMAIN q_ : q_[k] = Pill}

\* Every pill is in the queue or has ended a thread, with nothing but pills
\* behind it.
Pills ==
  /\ Cardinality(Exited) + Cardinality(PillsAt) = owner.n
  /\ owner.n # 0 => owner.st \in {"pills", "done"}
  /\ owner.st = "done" => owner.n = Cardinality(Workers) /\ Exited = Workers
  /\ Exited # {} => PillsAt = DOMAIN q_
  /\ \A a, b \in DOMAIN q_ : a < b /\ q_[a] = Pill => q_[b] = Pill

Struct == Types /\ Known /\ Listener /\ Deletion /\ Saved

IInv == Struct /\ Refs /\ NoLostWakeup /\ Pills

-----------------------------------------------------------------------------
(* Steps keep the structure.                                               *)

\* What the assumptions on the constants give.
LEMMA ConnsFacts ==
  /\ MaxConns \in Nat \ {0} /\ QMax \in Nat \ {0}
  /\ 0 \notin Conns /\ 0 \notin Made /\ Conns \subseteq Nat
  /\ Types => Made \subseteq Conns
BY IntakeAssumption DEF Conns, Made, Types

\* The bounds on the pdus of the connections.
LEMMA PdusFacts == MaxPdus \in [Conns -> Nat]
BY IntakeAssumption DEF Conns

\* A signal turns at most one sleeping thread into a woken one.
LEMMA SignalWakes ==
  ASSUME Types, signal_non_empty(worker)
  PROVE  /\ worker' \in [Workers -> Thread]
         /\ \A w \in Workers : \/ worker'[w] = worker[w]
                               \/ worker[w].st = "sleep" /\ worker'[w] = At("woken")
<1>1. worker \in [Workers -> Thread]
  BY DEF Types
<1>2. CASE Sleeping = {}
  BY <1>1, <1>2 DEF signal_non_empty
<1>3. CASE Sleeping # {}
  <2>1. PICK s \in Sleeping : worker' = [worker EXCEPT ![s] = At("woken")]
    BY <1>3 DEF signal_non_empty
  <2>2. At("woken") \in Thread
    BY ConnsFacts DEF At, Thread, States
  <2> QED BY <1>1, <2>1, <2>2 DEF Sleeping
<1> QED BY <1>2, <1>3

\* One thread moves on.
LEMMA ThreadMoves ==
  ASSUME Types, NEW w \in Workers, NEW r \in Thread, worker' = [worker EXCEPT ![w] = r]
  PROVE  /\ worker' \in [Workers -> Thread]
         /\ worker'[w] = r /\ \A v \in Workers \ {w} : worker'[v] = worker[v]
BY DEF Types

\* A thread whose state changes.
LEMMA ThreadState ==
  ASSUME NEW r \in Thread, NEW st \in States
  PROVE  [r EXCEPT !.st = st] = [st |-> st, c |-> r.c] /\ [st |-> st, c |-> r.c] \in Thread
BY DEF Thread

\* A thread that goes on to send on connection d.
LEMMA ThreadSends ==
  ASSUME worker \in [Workers -> Thread], NEW w \in Workers, NEW d,
         worker' = [worker EXCEPT ![w].st = "send", ![w].c = d]
  PROVE  worker' = [worker EXCEPT ![w] = [st |-> "send", c |-> d]]
<1>1. worker[w] \in Thread
  OBVIOUS
<1>2. worker' = [worker EXCEPT ![w] = [[worker[w] EXCEPT !.st = "send"] EXCEPT !.c = d]]
  OBVIOUS
<1>3. [worker[w] EXCEPT !.st = "send"] = [st |-> "send", c |-> worker[w].c]
  BY <1>1, ThreadState DEF States
<1>4. [[st |-> "send", c |-> worker[w].c] EXCEPT !.c = d] = [st |-> "send", c |-> d]
  OBVIOUS
<1> QED BY <1>2, <1>3, <1>4

\* closeconn leaves threads where they are, or strands them inside send.
LEMMA CloseStrands ==
  ASSUME Types, NEW c \in Conns, close_conn(c)
  PROVE  /\ worker' \in [Workers -> Thread]
         /\ \A w \in Workers : /\ worker'[w].c = worker[w].c
                               /\ \/ worker'[w].st = worker[w].st
                                  \/ worker[w].st \in {"job", "send"} /\ worker'[w].st = "stranded"
<1>1. worker \in [Workers -> Thread]
  BY DEF Types
<1>2. PICK S \in SUBSET (IF c \in dead_ THEN {} ELSE Sending(c)) :
        worker' = [w \in Workers |-> IF w \in S THEN [worker[w] EXCEPT !.st = "stranded"]
                                                 ELSE worker[w]]
  BY DEF close_conn
<1>3. \A w \in Workers : /\ [worker[w] EXCEPT !.st = "stranded"] = [st |-> "stranded", c |-> worker[w].c]
                         /\ [st |-> "stranded", c |-> worker[w].c] \in Thread
  BY <1>1, ThreadState DEF States
<1>4. \A w \in S : worker[w].st \in {"job", "send"}
  BY <1>2 DEF Sending
<1>5. \A w \in Workers : worker'[w] = IF w \in S THEN [st |-> "stranded", c |-> worker[w].c] ELSE worker[w]
  BY <1>2, <1>3
<1>6. worker' \in [Workers -> Thread]
  <2>1. worker' = [w \in Workers |-> worker'[w]]
    BY <1>2
  <2>2. \A w \in Workers : worker'[w] \in Thread
    BY <1>1, <1>3, <1>5
  <2> QED BY <2>1, <2>2
<1> QED BY <1>4, <1>5, <1>6

\* What taking and giving back references does to types.
LEMMA RefTypes ==
  ASSUME Types, NEW I, NEW D, Ref(I, D)
  PROVE  /\ refno_' \in [Conns -> Int] /\ freed' \subseteq freed \cup D
         /\ \A c \in Conns \ (I \cup D) : refno_'[c] = refno_[c]
BY DEF Types, Ref, Counted

\* The structure holds at first.
LEMMA StructInit == Init => Struct
<1> SUFFICES ASSUME Init PROVE Struct
  OBVIOUS
<1> USE ConnsFacts
<1>1. At("deq") \in Thread
  BY DEF At, Thread, States
<1>2. worker \in [Workers -> Thread] /\ \A w \in Workers : worker[w].st = "deq"
  BY <1>1 DEF Init, At
<1>3. Types
  <2>1. /\ nconn \in 0 .. MaxConns /\ clt \in [Conns -> Clients \cup {0}]
        /\ refno_ \in [Conns -> Int] /\ leaked \in [Conns -> Nat]
        /\ sent \in [Conns -> Nat] /\ in \in [Conns -> Nat]
        /\ \A c \in Conns : in[c] <= sent[c] /\ sent[c] <= MaxPdus[c]
    BY PdusFacts DEF Init
  <2>2. latest \in [Clients -> 0 .. MaxConns]
    BY DEF Init
  <2>3. q_ \in Seq(Conns \cup {Pill}) /\ Len(q_) <= QMax
    BY DEF Init
  <2>4. accept_ \in [st : {"select", "gc", "exit"}, ch : 0 .. MaxConns,
                     todo : SUBSET Conns, drop : SUBSET Conns]
    BY DEF Init
  <2>5. owner \in [st : {"running", "join", "pills", "done"}, n : Nat, c : 0 .. MaxConns]
    BY DEF Init
  <2> QED BY <1>2, <2>1, <2>2, <2>3, <2>4, <2>5 DEF Init, Types
<1>4. Known
  BY <1>2 DEF Init, Known, Made, Busy
<1>5. Listener /\ Deletion /\ Saved
  BY <1>2 DEF Init, Listener, Deletion, Saved, Made
<1> QED BY <1>3, <1>4, <1>5 DEF Struct

\* A worker takes a job, goes to sleep or takes a pill.
LEMMA StructTakeJob ==
  ASSUME Struct, NEW w \in Workers, takeJob(w)
  PROVE  Struct'
<1> USE ConnsFacts
<1>1. CASE q_ = <<>>
  <2> DEFINE r == At("sleep")
  <2>1. r \in Thread
    BY DEF At, Thread, States
  <2>2. worker' = [worker EXCEPT ![w] = r] /\ q_' = q_ /\ space_wait' = space_wait
    BY <1>1 DEF takeJob
  <2>3. worker' \in [Workers -> Thread] /\ worker'[w] = r
        /\ \A v \in Workers \ {w} : worker'[v] = worker[v]
    BY <2>1, <2>2, ThreadMoves DEF Struct
  <2>4. /\ UNCHANGED <<connVars, sockVars>>
        /\ UNCHANGED <<listed, accept_, latest, owner, leaked, aborted>>
    BY DEF takeJob
  <2>5. Types'
    BY <2>2, <2>3, <2>4 DEF Struct, Types, connVars, sockVars
  <2>6. \A v \in Workers : /\ Busy(v)' => Busy(v) /\ worker'[v] = worker[v]
                           /\ worker'[v].st = "run" => worker'[v] = worker[v]
    BY <2>3 DEF Busy, At
  <2>7. Known'
    BY <2>2, <2>4, <2>6 DEF Struct, Known, Made, connVars, sockVars
  <2>8. Listener' /\ Deletion'
    BY <2>4 DEF Struct, Listener, Deletion, Joined, Made, connVars, sockVars
  <2>9. Saved'
    BY <2>4, <2>6 DEF Struct, Saved, connVars
  <2> QED BY <2>5, <2>7, <2>8, <2>9 DEF Struct
<1>2. CASE q_ # <<>>
  <2> DEFINE r == IF Head(q_) = Pill THEN At("exit") ELSE [st |-> "job", c |-> Head(q_)]
  <2>1. q_ \in Seq(Conns \cup {Pill}) /\ Head(q_) \in Conns \cup {Pill} /\ Head(q_) \in Made \cup {Pill}
    BY <1>2 DEF Struct, Types, Known
  <2>2. r \in Thread
    BY <2>1 DEF At, Thread, States, Conns
  <2>3. worker' = [worker EXCEPT ![w] = r] /\ q_' = Tail(q_) /\ space_wait' \in BOOLEAN
    BY <1>2 DEF takeJob, signal_has_space, Struct, Types
  <2>4. worker' \in [Workers -> Thread] /\ worker'[w] = r
        /\ \A v \in Workers \ {w} : worker'[v] = worker[v]
    BY <2>2, <2>3, ThreadMoves DEF Struct
  <2>5. q_' \in Seq(Conns \cup {Pill}) /\ Len(q_') <= QMax
        /\ \A k \in DOMAIN q_' : q_'[k] \in Made \cup {Pill}
    BY <1>2, <2>1, <2>3 DEF Struct, Types, Known
  <2>6. UNCHANGED <<connVars, sockVars, listed, accept_, latest, owner, leaked, aborted>>
    BY DEF takeJob
  <2>7. Types'
    BY <2>3, <2>4, <2>5, <2>6 DEF Struct, Types, connVars, sockVars
  <2>8. Known'
    BY <2>1, <2>4, <2>5, <2>6 DEF Struct, Known, Busy, Made, connVars, sockVars, At
  <2>9. Saved'
    BY <2>4, <2>6 DEF Struct, Saved, connVars, At
  <2> QED BY <2>6, <2>7, <2>8, <2>9 DEF Struct, Listener, Deletion, Joined, Made, connVars
<1> QED BY <1>1, <1>2

\* read_cb offers a pdu to got_pdu.
LEMMA StructReadCb ==
  ASSUME Struct, NEW c \in Conns, read_cb_offers(c)
  PROVE  Struct'
<1> USE ConnsFacts
<1>1. in' \in [Conns -> Nat] /\ \A d \in Conns : in'[d] <= sent[d]
  <2>1. in \in [Conns -> Nat] /\ sent \in [Conns -> Nat] /\ \A d \in Conns : in[d] <= sent[d]
    BY DEF Struct, Types
  <2>2. CASE c \in held
    BY <2>1, <2>2 DEF read_cb_offers
  <2>3. CASE c \notin held
    <3>1. in[c] > 0 /\ in' = [in EXCEPT ![c] = in[c] - 1]
      BY <2>3 DEF read_cb_offers, Offers
    <3> QED BY <2>1, <3>1
  <2> QED BY <2>2, <2>3
<1>2. c \in Made /\ held' \subseteq Conns
  BY DEF read_cb_offers, Struct, Types
<1>3. UNCHANGED <<nconn, clt, dead_, sent, eof, space_wait, listed, accept_, latest, owner, leaked, aborted>>
  BY DEF read_cb_offers
<1>4. /\ q_' \in Seq(Conns \cup {Pill}) /\ Len(q_') <= QMax
      /\ \A k \in DOMAIN q_' : q_'[k] \in Made \cup {Pill}
      /\ worker' \in [Workers -> Thread]
      /\ \A w \in Workers : \/ worker'[w] = worker[w]
                            \/ worker[w].st = "sleep" /\ worker'[w] = At("woken")
  <2>1. CASE HasSpace /\ enq(c)
    <3>1. q_' = Append(q_, c) /\ Len(q_) < QMax /\ q_ \in Seq(Conns \cup {Pill}) /\ Types
      BY <2>1 DEF enq, HasSpace, Struct, Types
    <3>2. \A k \in DOMAIN q_ : q_[k] \in Made \cup {Pill}
      BY DEF Struct, Known
    <3>3. /\ worker' \in [Workers -> Thread]
          /\ \A w \in Workers : \/ worker'[w] = worker[w]
                                \/ worker[w].st = "sleep" /\ worker'[w] = At("woken")
      BY <2>1, <3>1, SignalWakes DEF enq
    <3>4. Len(q_') <= QMax /\ q_' \in Seq(Conns \cup {Pill})
      BY <3>1
    <3>5. \A k \in DOMAIN q_' : q_'[k] \in Made \cup {Pill}
      BY <1>2, <3>1, <3>2
    <3> QED BY <3>3, <3>4, <3>5
  <2>2. CASE UNCHANGED <<q_, worker>>
    BY <2>2 DEF Struct, Types, Known
  <2> QED BY <2>1, <2>2 DEF read_cb_offers
<1>5. /\ refno_' \in [Conns -> Int] /\ freed' \subseteq freed
      /\ \A d \in Conns \ {c} : refno_'[d] = refno_[d]
  <2>1. Types
    BY DEF Struct
  <2>2. Ref({c}, {}) \/ Ref({}, {})
    BY DEF read_cb_offers, Refuse
  <2> QED BY <2>1, <2>2, RefTypes
<1>6. Types'
  BY <1>1, <1>2, <1>3, <1>4, <1>5 DEF Struct, Types
<1>7. Known'
  BY <1>2, <1>3, <1>4, <1>5 DEF Struct, Known, Busy, Made, At
<1>8. Saved'
  BY <1>3, <1>4 DEF Struct, Saved, At
<1> QED BY <1>3, <1>6, <1>7, <1>8 DEF Struct, Listener, Deletion, Joined, Made

\* Send may only add the connection itself to dead_.
LEMMA SendKills ==
  ASSUME NEW c, Send(c)
  PROVE  dead_ \subseteq dead_' /\ dead_' \subseteq dead_ \cup {c}
BY DEF Send

\* read_cb finds the connection dead.
LEMMA StructDies ==
  ASSUME Struct, NEW c \in Conns, read_cb_dies(c)
  PROVE  Struct'
<1>1. UNCHANGED <<nconn, clt, refno_, freed, sockVars, poolVars, listed, accept_,
                  latest, owner, leaked, aborted>>
      /\ dead_' = dead_ \cup {c} /\ c \in Made
  BY DEF read_cb_dies
<1>2. Types'
  BY <1>1 DEF Struct, Types, sockVars, poolVars
<1> QED BY <1>1, <1>2 DEF Struct, Known, Listener, Deletion, Saved, Busy, Joined, Made, sockVars, poolVars

\* A dispatch ends: its thread holds no connection any more.
LEMMA StructDispatchEnds ==
  ASSUME Struct, NEW w \in Workers, dispatch_returns(w) \/ dispatch_end(w)
  PROVE  Struct'
<1> USE ConnsFacts
<1>0. Types
  BY DEF Struct
<1>1. worker[w].c \in Made /\ Made \subseteq Conns
  BY <1>0 DEF dispatch_returns, dispatch_end, Struct, Known, Busy
<1>2. worker' = [worker EXCEPT ![w] = At("deq")] /\ At("deq") \in Thread
  BY DEF dispatch_returns, dispatch_end, At, Thread, States
<1>3. worker' \in [Workers -> Thread] /\ worker'[w] = At("deq")
      /\ \A v \in Workers \ {w} : worker'[v] = worker[v]
  BY <1>0, <1>2, ThreadMoves
<1>4. UNCHANGED <<nconn, clt, sockVars, q_, space_wait, listed, accept_, latest, owner, aborted>>
  BY DEF dispatch_returns, dispatch_end
<1>5. dead_ \subseteq dead_' /\ dead_' \subseteq Made
  <2>1. dead_ \subseteq Made
    BY DEF Struct, Known
  <2>2. Send(worker[w].c) \/ UNCHANGED dead_
    BY DEF dispatch_returns, dispatch_end
  <2> QED BY <1>1, <2>1, <2>2, SendKills
<1>6. /\ refno_' \in [Conns -> Int] /\ freed' \subseteq Made
      /\ \A c \in Conns \ Made : refno_'[c] = refno_[c]
  <2>1. freed \subseteq Made
    BY DEF Struct, Known
  <2>2. CASE Ref({}, {worker[w].c})
    <3>1. /\ refno_' \in [Conns -> Int] /\ freed' \subseteq freed \cup {worker[w].c}
          /\ \A c \in Conns \ ({} \cup {worker[w].c}) : refno_'[c] = refno_[c]
      BY <1>0, <2>2, RefTypes
    <3> QED BY <1>1, <2>1, <3>1
  <2>3. CASE UNCHANGED <<refno_, freed>>
    BY <1>0, <2>1, <2>3 DEF Types
  <2> QED BY <2>2, <2>3 DEF dispatch_returns, dispatch_end
<1>7. leaked' \in [Conns -> Nat] /\ \A c \in Conns \ Made : leaked'[c] = leaked[c]
  <2>1. leaked \in [Conns -> Nat]
    BY <1>0 DEF Types
  <2>2. CASE leaked' = [leaked EXCEPT ![worker[w].c] = @ + 1]
    <3>1. worker[w].c \in Conns
      BY <1>1
    <3>2. leaked[worker[w].c] + 1 \in Nat
      <4> HIDE ConnsFacts
      <4>1. leaked[worker[w].c] \in Nat
        BY <2>1, <3>1
      <4> QED BY <4>1
    <3> QED BY <1>1, <2>1, <2>2, <3>1, <3>2
  <2>3. CASE leaked' = leaked
    BY <2>1, <2>3
  <2> QED BY <2>2, <2>3 DEF dispatch_returns, dispatch_end
<1>8. Types'
  BY <1>0, <1>3, <1>4, <1>6, <1>7 DEF Types, sockVars
<1>9. Known'
  BY <1>3, <1>4, <1>5, <1>6, <1>7 DEF Struct, Known, Busy, Made, At
<1>10. Saved'
  BY <1>3, <1>4 DEF Struct, Saved, At
<1> QED BY <1>4, <1>5, <1>8, <1>9, <1>10 DEF Struct, Listener, Deletion, Joined, Made

\* dispatch begins with a request.
LEMMA StructDispatch ==
  ASSUME Struct, NEW w \in Workers, dispatch(w)
  PROVE  Struct'
<1> USE ConnsFacts
<1> DEFINE c == worker[w].c
           i == clt[c]
<1>0. Types /\ worker \in [Workers -> Thread]
  BY DEF Struct, Types
<1>1. c \in Made /\ Made \subseteq Conns /\ worker[w].st = "job" /\ i \in Clients \cup {0}
  BY <1>0 DEF dispatch, Struct, Known, Busy, Types
<1>2. PICK st \in {"run", "send", "end"} : worker' = [worker EXCEPT ![w].st = st]
  BY DEF dispatch
<1>3. worker' = [worker EXCEPT ![w] = [st |-> st, c |-> c]] /\ [st |-> st, c |-> c] \in Thread
  <2>1. worker[w] \in Thread /\ st \in States
    BY <1>0 DEF States
  <2>2. [worker[w] EXCEPT !.st = st] = [st |-> st, c |-> c] /\ [st |-> st, c |-> c] \in Thread
    BY <2>1, ThreadState
  <2>3. worker' = [worker EXCEPT ![w] = [worker[w] EXCEPT !.st = st]]
    BY <1>2
  <2> QED BY <2>2, <2>3
<1>4. worker' \in [Workers -> Thread] /\ worker'[w] = [st |-> st, c |-> c]
      /\ \A v \in Workers \ {w} : worker'[v] = worker[v]
  BY <1>0, <1>3, ThreadMoves
<1>5. UNCHANGED <<nconn, clt, dead_, sockVars, q_, space_wait, listed, accept_, owner, leaked, aborted>>
  BY DEF dispatch
<1>6. /\ refno_' \in [Conns -> Int] /\ freed' \subseteq Made
      /\ \A d \in Conns \ Made : refno_'[d] = refno_[d]
      /\ latest' \in [Clients -> 0 .. MaxConns]
      /\ \A j \in Clients : latest'[j] \in Made \cup {0} /\ latest'[j] >= latest[j]
      /\ i # 0 => latest'[i] >= c
  <2>1. /\ freed \subseteq Made /\ latest \in [Clients -> 0 .. MaxConns]
        /\ \A j \in Clients : latest[j] \in Made \cup {0}
    BY DEF Struct, Known, Types
  <2>2. CASE /\ i # 0 /\ latest[i] < c /\ Ref({c}, Older(i))
             /\ latest' = [latest EXCEPT ![i] = c]
    <3>1. i \in Clients /\ Older(i) \subseteq Made
      BY <1>1, <2>1, <2>2 DEF Older
    <3>2. /\ refno_' \in [Conns -> Int] /\ freed' \subseteq Made
          /\ \A d \in Conns \ Made : refno_'[d] = refno_[d]
      <4>1. /\ refno_' \in [Conns -> Int] /\ freed' \subseteq freed \cup Older(i)
            /\ \A d \in Conns \ ({c} \cup Older(i)) : refno_'[d] = refno_[d]
        BY <1>0, <2>2, RefTypes
      <4> QED BY <1>1, <2>1, <3>1, <4>1
    <3>3. c \in 0 .. MaxConns /\ c \in Nat /\ \A j \in Clients : latest[j] \in Nat
      <4>1. c \in Conns
        BY <1>1
      <4>2. c \in 0 .. MaxConns /\ c \in Nat
        BY <4>1 DEF Conns
      <4> QED BY <2>1, <4>2
    <3> QED BY <1>1, <2>1, <2>2, <3>1, <3>2, <3>3
  <2>3. CASE (i = 0 \/ latest[i] >= c) /\ UNCHANGED <<refno_, freed, latest>>
    BY <1>0, <1>1, <2>1, <2>3, SMTT(30) DEF Types
  <2> QED BY <2>2, <2>3 DEF dispatch
<1>7. Types'
  BY <1>0, <1>4, <1>5, <1>6 DEF Types, sockVars
<1>8. Known'
  BY <1>1, <1>4, <1>5, <1>6 DEF Struct, Known, Busy, Made
<1>9. Saved'
  <2> SUFFICES ASSUME NEW v \in Workers, worker'[v].st = "run", clt'[worker'[v].c] # 0
               PROVE  latest'[clt'[worker'[v].c]] >= worker'[v].c
    BY DEF Saved
  <2>1. CASE v = w
    BY <1>4, <1>5, <1>6, <2>1
  <2>2. CASE v # w
    <3>1. worker'[v] = worker[v] /\ clt' = clt
      BY <1>4, <1>5, <2>2
    <3>2. worker[v].c \in Made /\ clt[worker[v].c] \in Clients
      BY <1>0, <1>1, <3>1 DEF Struct, Known, Busy, Types
    <3>3. latest[clt[worker[v].c]] >= worker[v].c
      BY <3>1 DEF Struct, Saved
    <3>4. worker[v].c \in Nat /\ latest[clt[worker[v].c]] \in Nat /\ latest'[clt[worker[v].c]] \in Nat
          /\ latest'[clt[worker[v].c]] >= latest[clt[worker[v].c]]
      <4>1. worker[v].c \in Nat
        BY <1>1, <3>2
      <4>2. latest \in [Clients -> 0 .. MaxConns]
        BY <1>0 DEF Types
      <4> QED BY <1>6, <3>2, <4>1, <4>2
    <3> QED BY <3>1, <3>3, <3>4
  <2> QED BY <2>1, <2>2
<1> QED BY <1>5, <1>7, <1>8, <1>9 DEF Struct, Listener, Deletion, Joined, Made

\* The connection that dispatch_latest takes exists, and is a later one.
LEMMA LatestIsMade ==
  ASSUME Struct, NEW w \in Workers, worker[w].st = "run", clt[worker[w].c] # 0
  PROVE  /\ worker[w].c \in Made /\ clt[worker[w].c] \in Clients
         /\ latest[clt[worker[w].c]] \in Made
<1> USE ConnsFacts
<1>1. worker[w].c \in Made /\ Made \subseteq Conns
  BY DEF Struct, Known, Busy
<1>2. clt[worker[w].c] \in Clients
  BY <1>1 DEF Struct, Types
<1>3. latest[clt[worker[w].c]] \in Made \cup {0} /\ latest[clt[worker[w].c]] >= worker[w].c
  BY <1>2 DEF Struct, Known, Saved
<1>4. worker[w].c \in Nat /\ worker[w].c # 0
  BY <1>1
<1> QED BY <1>1, <1>2, <1>3, <1>4

\* After the handler, dispatch may switch to the client's latest connection.
LEMMA StructLatest ==
  ASSUME Struct, NEW w \in Workers, dispatch_latest(w)
  PROVE  Struct'
<1> USE ConnsFacts
<1> DEFINE c == worker[w].c
           d == latest[clt[c]]
<1>0. Types /\ worker \in [Workers -> Thread] /\ worker[w] \in Thread /\ worker[w].st = "run"
  BY DEF Struct, Types, dispatch_latest
<1>1. c \in Made /\ Made \subseteq Conns /\ freed \subseteq Made
  BY <1>0 DEF Struct, Known, Busy
<1>2. UNCHANGED <<nconn, clt, dead_, sockVars, q_, space_wait, listed, accept_, latest, owner, leaked>>
  BY DEF dispatch_latest
<1>3. /\ worker' \in [Workers -> Thread]
      /\ worker'[w] = worker[w] \/ (worker'[w].st = "send" /\ worker'[w].c \in Made)
      /\ \A v \in Workers \ {w} : worker'[v] = worker[v]
      /\ refno_' \in [Conns -> Int] /\ freed' \subseteq Made /\ aborted' \in BOOLEAN
      /\ \A e \in Conns \ Made : refno_'[e] = refno_[e]
  <2>1. CASE aborted' = TRUE /\ UNCHANGED <<refno_, freed, worker>>
    BY <1>0, <1>1, <2>1 DEF Types
  <2>2. CASE /\ c \in dead_ /\ clt[c] # 0 /\ d # c
             /\ Switch(c, d)
             /\ worker' = [worker EXCEPT ![w].st = "send", ![w].c = d]
             /\ UNCHANGED aborted
    <3>1. d \in Made
      BY <1>0, <2>2, LatestIsMade
    <3>2. [st |-> "send", c |-> d] \in Thread
      <4>1. d \in Conns
        BY <1>1, <3>1
      <4>2. d \in 0 .. MaxConns
        BY <4>1 DEF Conns
      <4> QED BY <4>2 DEF Thread, States
    <3>3. worker' = [worker EXCEPT ![w] = [st |-> "send", c |-> d]]
      BY <1>0, <2>2, ThreadSends
    <3>4. worker' \in [Workers -> Thread] /\ worker'[w] = [st |-> "send", c |-> d]
          /\ \A v \in Workers \ {w} : worker'[v] = worker[v]
      BY <1>0, <3>2, <3>3, ThreadMoves
    <3>5. /\ refno_' \in [Conns -> Int] /\ freed' \subseteq freed \cup {c}
          /\ \A e \in Conns \ ({d} \cup {c}) : refno_'[e] = refno_[e]
      BY <1>0, <2>2, RefTypes DEF Switch
    <3>6. freed' \subseteq Made /\ \A e \in Conns \ Made : refno_'[e] = refno_[e]
      BY <1>1, <3>1, <3>5
    <3>7. worker'[w].st = "send" /\ worker'[w].c \in Made
      BY <3>1, <3>4
    <3>8. aborted' \in BOOLEAN
      BY <1>0, <2>2 DEF Types
    <3> QED BY <3>4, <3>5, <3>6, <3>7, <3>8
  <2>3. CASE worker' = [worker EXCEPT ![w].st = "send"] /\ UNCHANGED <<refno_, freed, aborted>>
    <3>1. [worker[w] EXCEPT !.st = "send"] = [st |-> "send", c |-> c] /\ [st |-> "send", c |-> c] \in Thread
      BY <1>0, ThreadState DEF States
    <3>2. worker' = [worker EXCEPT ![w] = [st |-> "send", c |-> c]]
      BY <2>3, <3>1
    <3>3. worker' \in [Workers -> Thread] /\ worker'[w] = [st |-> "send", c |-> c]
          /\ \A v \in Workers \ {w} : worker'[v] = worker[v]
      BY <1>0, <3>1, <3>2, ThreadMoves
    <3> QED BY <1>0, <1>1, <2>3, <3>3, SMTT(30) DEF Types
  <2> QED BY <2>1, <2>2, <2>3 DEF dispatch_latest
<1>4. Types'
  BY <1>0, <1>2, <1>3 DEF Types, sockVars
<1>5. Known'
  BY <1>1, <1>2, <1>3 DEF Struct, Known, Busy, Made
<1>6. Saved'
  BY <1>2, <1>3 DEF Struct, Saved
<1> QED BY <1>2, <1>4, <1>5, <1>6 DEF Struct, Listener, Deletion, Joined, Made

\* dispatch sends its reply.
LEMMA StructSend ==
  ASSUME Struct, NEW w \in Workers, dispatch_send(w)
  PROVE  Struct'
<1> USE ConnsFacts
<1> DEFINE c == worker[w].c
<1>0. Types /\ worker \in [Workers -> Thread] /\ worker[w] \in Thread
  BY DEF Struct, Types
<1>1. c \in Made /\ Made \subseteq Conns /\ dead_ \subseteq Made
  BY <1>0 DEF Struct, Known, Busy, dispatch_send
<1>2. UNCHANGED <<nconn, clt, refno_, freed, sockVars, q_, space_wait, listed, accept_, latest,
                  owner, leaked, aborted>>
  BY DEF dispatch_send
<1>3. [worker[w] EXCEPT !.st = "end"] = [st |-> "end", c |-> c] /\ [st |-> "end", c |-> c] \in Thread
  BY <1>0, ThreadState DEF States
<1>4. worker' = [worker EXCEPT ![w] = [st |-> "end", c |-> c]]
  BY <1>3 DEF dispatch_send
<1>5. worker' \in [Workers -> Thread] /\ worker'[w] = [st |-> "end", c |-> c]
      /\ \A v \in Workers \ {w} : worker'[v] = worker[v]
  BY <1>0, <1>3, <1>4, ThreadMoves
<1>6. dead_ \subseteq dead_' /\ dead_' \subseteq Made
  BY <1>1, SendKills DEF dispatch_send
<1>7. Types'
  BY <1>0, <1>2, <1>5 DEF Types, sockVars
<1>8. Known'
  BY <1>1, <1>2, <1>5, <1>6 DEF Struct, Known, Busy, Made
<1>9. Saved'
  BY <1>2, <1>5 DEF Struct, Saved
<1> QED BY <1>2, <1>6, <1>7, <1>8, <1>9 DEF Struct, Listener, Deletion, Joined, Made

\* process_accept takes a new connection.
LEMMA StructAccept ==
  ASSUME Struct, process_accept
  PROVE  Struct'
<1> USE ConnsFacts
<1> DEFINE n == nconn + 1
<1>0. Types /\ Known /\ Listener /\ Deletion /\ Saved
  BY DEF Struct
<1>1. n \in Conns /\ Made' = Made \cup {n} /\ n \notin Made /\ Made \subseteq Conns /\ nconn' \in 0 .. MaxConns
  <2>1. nconn \in 0 .. MaxConns /\ nconn < MaxConns /\ nconn' = n /\ Made \subseteq Conns
    BY <1>0 DEF process_accept, Types
  <2>2. 1 .. n = (1 .. nconn) \cup {n} /\ n \notin 1 .. nconn /\ n \in 1 .. MaxConns
    BY <2>1
  <2> QED BY <2>1, <2>2 DEF Made, Conns
<1>2. UNCHANGED <<dead_, sockVars, poolVars, latest, owner, leaked, aborted, freed, listed>>
  BY DEF process_accept, acceptOnly
<1>3. PICK i \in Clients : clt' = [clt EXCEPT ![n] = i]
  BY DEF process_accept
<1>4. clt' \in [Conns -> Clients \cup {0}] /\ \A c \in Made : clt'[c] = clt[c]
  BY <1>0, <1>1, <1>3 DEF Types
<1>5. refno_' \in [Conns -> Int] /\ \A c \in Conns \ Made' : refno_'[c] = refno_[c]
  BY <1>0, <1>1 DEF process_accept, Types
<1>6. accept_' = [st |-> "gc", ch |-> n, todo |-> listed, drop |-> {}] /\ accept_.st = "select"
      /\ owner.st = "running" /\ accept_.ch = 0
  BY <1>0 DEF process_accept, Listener
<1>7. listed \subseteq Made
  BY <1>0 DEF Known
<1>8. accept_' \in [st : {"select", "gc", "exit"}, ch : 0 .. MaxConns,
                    todo : SUBSET Conns, drop : SUBSET Conns]
  BY <1>1, <1>6, <1>7 DEF Conns
<1>9. Types'
  BY <1>0, <1>1, <1>2, <1>4, <1>5, <1>8 DEF Types, sockVars, poolVars
<1>10. Known'
  <2>1. worker' = worker /\ q_' = q_ /\ latest' = latest /\ leaked' = leaked
    BY <1>2 DEF poolVars
  <2>2. \A w \in Workers : Busy(w)' => worker'[w].c \in Made'
    BY <1>0, <1>1, <2>1 DEF Known, Busy
  <2> QED BY <1>0, <1>1, <1>2, <1>5, <1>6, <1>7, <2>1, <2>2 DEF Known
<1>11. Listener'
  BY <1>0, <1>1, <1>2, <1>6, <1>7 DEF Listener
<1>12. Deletion'
  BY <1>0, <1>2, <1>6 DEF Deletion, Joined
<1>13. Saved'
  <2>1. worker' = worker /\ latest' = latest
    BY <1>2 DEF poolVars
  <2>2. \A w \in Workers : worker[w].st = "run" => worker[w].c \in Made
    BY <1>0 DEF Known, Busy
  <2> QED BY <1>0, <1>4, <2>1, <2>2 DEF Saved
<1> QED BY <1>9, <1>10, <1>11, <1>12, <1>13 DEF Struct

\* The listener looks at the connections one at a time.
LEMMA StructCollect ==
  ASSUME Struct, NEW c \in Conns, gc_check(c) \/ gc_drop(c)
  PROVE  Struct'
<1> USE ConnsFacts
<1>0. Types /\ Known /\ Listener /\ Deletion /\ Saved /\ Made \subseteq Conns
  BY DEF Struct
<1>1. UNCHANGED <<dead_, sockVars, poolVars, latest, owner, leaked, aborted, nconn, clt>>
  BY DEF gc_check, gc_drop, acceptOnly
<1>2. /\ accept_ \in [st : {"select", "gc", "exit"}, ch : 0 .. MaxConns,
                      todo : SUBSET Conns, drop : SUBSET Conns]
      /\ accept_.st = "gc" /\ c \in listed
  BY <1>0 DEF gc_check, gc_drop, Types, Listener
<1>3. CASE gc_check(c)
  <2>1. /\ accept_' = [accept_ EXCEPT !.todo = accept_.todo \ {c},
                                     !.drop = IF Collectable(c) THEN {c} ELSE {}]
        /\ UNCHANGED <<refno_, freed, listed>>
    BY <1>3 DEF gc_check
  <2>2. Types'
    BY <1>0, <1>1, <1>2, <2>1 DEF Types, sockVars, poolVars
  <2>3. Listener'
    BY <1>0, <1>1, <1>2, <2>1 DEF Listener, Collectable, Made
  <2> QED BY <1>0, <1>1, <1>2, <2>1, <2>2, <2>3 DEF Struct, Known, Deletion, Saved, Busy, Joined, Made, poolVars
<1>4. CASE gc_drop(c)
  <2>1. accept_' = [accept_ EXCEPT !.drop = {}] /\ listed' = listed \ {c}
        /\ c \in accept_.drop /\ Ref({}, {c})
    BY <1>4 DEF gc_drop
  <2>2. /\ refno_' \in [Conns -> Int] /\ freed' \subseteq freed \cup {c}
        /\ \A d \in Conns \ ({} \cup {c}) : refno_'[d] = refno_[d]
    BY <1>0, <2>1, RefTypes
  <2>3. c \in Made /\ c \in dead_
    BY <1>0, <1>2, <2>1 DEF Known, Listener
  <2>4. Types'
    BY <1>0, <1>1, <1>2, <2>1, <2>2 DEF Types, sockVars, poolVars
  <2>5. Listener'
    BY <1>0, <1>1, <1>2, <2>1, <2>3 DEF Listener, Made
  <2>6. Known'
    BY <1>0, <1>1, <1>2, <2>1, <2>2, <2>3 DEF Known, Busy, Made, poolVars
  <2> QED BY <1>0, <1>1, <1>2, <2>1, <2>4, <2>5, <2>6 DEF Struct, Deletion, Saved, Joined, poolVars
<1> QED BY <1>3, <1>4

\* process_accept is over; the listener's thread ends.
LEMMA StructAcceptEnd ==
  ASSUME Struct, process_accept_end \/ accept_exit
  PROVE  Struct'
<1> USE ConnsFacts
<1>0. Types /\ Known /\ Listener /\ Deletion /\ Saved /\ Made \subseteq Conns
  BY DEF Struct
<1>1. UNCHANGED <<dead_, sockVars, poolVars, latest, owner, leaked, aborted, nconn, clt, refno_, freed>>
  BY DEF process_accept_end, accept_exit, acceptOnly
<1>2. accept_ \in [st : {"select", "gc", "exit"}, ch : 0 .. MaxConns,
                   todo : SUBSET Conns, drop : SUBSET Conns]
  BY <1>0 DEF Types
<1>3. CASE process_accept_end
  <2>1. listed' = listed \cup {accept_.ch} /\ accept_' = [accept_ EXCEPT !.st = "select", !.ch = 0]
        /\ accept_.st = "gc" /\ accept_.todo = {} /\ accept_.drop = {}
    BY <1>3 DEF process_accept_end
  <2>2. accept_.ch \in Made
    BY <1>0, <2>1 DEF Known, Listener
  <2>3. Types'
    <3>1. accept_' \in [st : {"select", "gc", "exit"}, ch : 0 .. MaxConns,
                        todo : SUBSET Conns, drop : SUBSET Conns]
      <4>1. 0 \in 0 .. MaxConns
        OBVIOUS
      <4> HIDE ConnsFacts
      <4> QED BY <1>2, <2>1, <4>1
    <3> QED BY <1>0, <1>1, <3>1 DEF Types, sockVars, poolVars
  <2>4. Listener'
    BY <1>0, <1>1, <1>2, <2>1, <2>2 DEF Listener, Known, Made
  <2>5. Known'
    BY <1>0, <1>1, <1>2, <2>1, <2>2 DEF Known, Busy, Made, poolVars
  <2>6. Deletion'
    BY <1>0, <1>1, <1>2, <2>1 DEF Deletion, Joined
  <2> QED BY <1>0, <1>1, <2>3, <2>4, <2>5, <2>6 DEF Struct, Saved, poolVars
<1>4. CASE accept_exit
  <2>1. accept_' = [accept_ EXCEPT !.st = "exit"] /\ listed' = listed /\ accept_.st = "select"
    BY <1>4 DEF accept_exit
  <2>2. Types'
    BY <1>0, <1>1, <1>2, <2>1 DEF Types, sockVars, poolVars
  <2>3. Listener' /\ Deletion'
    BY <1>0, <1>1, <1>2, <2>1 DEF Listener, Deletion, Joined, Made
  <2> QED BY <1>0, <1>1, <1>2, <2>1, <2>2, <2>3 DEF Struct, Known, Busy, Made, Saved, poolVars
<1> QED BY <1>3, <1>4

\* ~tcpsconn.
LEMMA StructClose ==
  ASSUME Struct, \/ delete_rpcs \/ close_decref \/ join_workers
                 \/ \E c \in Conns : close_conn(c)
  PROVE  Struct'
<1> USE ConnsFacts
<1>0. Types /\ Known /\ Listener /\ Deletion /\ Saved /\ Made \subseteq Conns
  BY DEF Struct
<1>1. UNCHANGED <<nconn, clt, sockVars, accept_, latest, leaked, aborted, q_, space_wait>>
  BY DEF delete_rpcs, close_decref, join_workers, close_conn, ownerOnly, poolVars
<1>2. owner \in [st : {"running", "join", "pills", "done"}, n : Nat, c : 0 .. MaxConns]
  BY <1>0 DEF Types
<1>3. CASE delete_rpcs \/ join_workers
  <2>1. PICK st \in {"join", "done"} : owner' = [owner EXCEPT !.st = st]
    BY <1>3 DEF delete_rpcs, join_workers
  <2>2. /\ UNCHANGED <<refno_, dead_, freed, listed, worker>>
        /\ st = "join" => owner.st = "running"
        /\ st = "done" => owner.st = "pills"
    BY <1>2, <1>3, <2>1 DEF delete_rpcs, join_workers, poolVars
  <2>3. Types'
    BY <1>0, <1>1, <1>2, <2>1, <2>2 DEF Types, sockVars
  <2>4. Deletion'
    BY <1>0, <1>1, <1>2, <2>1, <2>2 DEF Deletion, Joined
  <2> QED BY <1>0, <1>1, <2>2, <2>3, <2>4 DEF Struct, Known, Listener, Busy, Made, Saved
<1>4. ASSUME NEW c \in Conns, close_conn(c) PROVE Struct'
  <2>1. owner' = [owner EXCEPT !.c = c] /\ dead_' = dead_ \cup {c} /\ c \in listed /\ Joined
        /\ UNCHANGED <<refno_, freed, listed>>
    BY <1>4 DEF close_conn
  <2>w. /\ worker' \in [Workers -> Thread]
        /\ \A w \in Workers : /\ worker'[w].c = worker[w].c
                              /\ \/ worker'[w].st = worker[w].st
                                 \/ worker[w].st \in {"job", "send"} /\ worker'[w].st = "stranded"
    BY <1>0, <1>4, CloseStrands
  <2>2. Types'
    <3>1. c \in 0 .. MaxConns
      BY DEF Conns
    <3>2. owner' \in [st : {"running", "join", "pills", "done"}, n : Nat, c : 0 .. MaxConns]
      BY <1>2, <2>1, <3>1
    <3> QED BY <1>0, <1>1, <2>1, <2>w, <3>2 DEF Types, sockVars
  <2>3. Deletion'
    BY <1>0, <1>1, <1>2, <2>1 DEF Deletion, Joined
  <2>4. Known'
    BY <1>0, <1>1, <2>1, <2>w DEF Known, Busy, Made
  <2>5. Saved'
    BY <1>0, <1>1, <2>w DEF Saved
  <2> QED BY <1>0, <1>1, <2>1, <2>2, <2>3, <2>4, <2>5 DEF Struct, Listener, Made
<1>5. CASE close_decref
  <2> DEFINE c == owner.c
  <2>1. owner' = [owner EXCEPT !.c = 0] /\ listed' = listed \ {c} /\ Joined /\ c # 0
        /\ UNCHANGED <<dead_, worker>> /\ Ref({}, {c})
    BY <1>5 DEF close_decref, poolVars
  <2>2. c \in listed \cap dead_ /\ c \in Made /\ accept_.st = "exit" /\ owner.st = "join"
    BY <1>0, <2>1 DEF Deletion, Known, Joined
  <2>3. /\ refno_' \in [Conns -> Int] /\ freed' \subseteq freed \cup {c}
        /\ \A d \in Conns \ ({} \cup {c}) : refno_'[d] = refno_[d]
    BY <1>0, <2>1, RefTypes
  <2>4. Types'
    <3>1. owner' \in [st : {"running", "join", "pills", "done"}, n : Nat, c : 0 .. MaxConns]
      BY <1>2, <2>1
    <3> QED BY <1>0, <1>1, <2>1, <2>3, <3>1 DEF Types, sockVars
  <2>5. Listener'
    BY <1>0, <1>1, <2>1, <2>2 DEF Listener, Made
  <2>6. Known'
    BY <1>0, <1>1, <2>1, <2>2, <2>3 DEF Known, Busy, Made
  <2>7. Deletion'
    BY <1>0, <1>1, <1>2, <2>1, <2>2 DEF Deletion, Joined
  <2> QED BY <1>0, <1>1, <2>1, <2>4, <2>5, <2>6, <2>7 DEF Struct, Saved
<1> QED BY <1>3, <1>4, <1>5

\* ~ThrPool.
LEMMA StructPill ==
  ASSUME Struct, enq_pill
  PROVE  Struct'
<1> USE ConnsFacts
<1>0. Types /\ Known /\ Listener /\ Deletion /\ Saved /\ Made \subseteq Conns
  BY DEF Struct
<1>1. UNCHANGED <<nconn, clt, sockVars, accept_, latest, leaked, aborted, refno_, dead_, freed, listed>>
  BY DEF enq_pill, ownerOnly
<1>2. owner \in [st : {"running", "join", "pills", "done"}, n : Nat, c : 0 .. MaxConns]
      /\ q_ \in Seq(Conns \cup {Pill}) /\ Len(q_) <= QMax
      /\ \A k \in DOMAIN q_ : q_[k] \in Made \cup {Pill}
  BY <1>0 DEF Types, Known
<1>3. owner.c = 0 /\ listed = {} /\ accept_.st = "exit"
  BY <1>0 DEF enq_pill, PoolDue, Joined, Deletion
<1>4. /\ owner' \in [st : {"running", "join", "pills", "done"}, n : Nat, c : 0 .. MaxConns]
      /\ owner'.c = 0 /\ owner'.st = "pills" /\ space_wait' \in BOOLEAN
  <2>1. CASE HasSpace
    <3>1. owner' = [owner EXCEPT !.st = "pills", !.n = owner.n + 1] /\ space_wait' = space_wait
      BY <2>1 DEF enq_pill
    <3>2. owner.n + 1 \in Nat /\ space_wait \in BOOLEAN
      BY <1>0, <1>2 DEF Types
    <3> QED BY <1>2, <1>3, <3>1, <3>2
  <2>2. CASE ~HasSpace
    BY <1>2, <1>3, <2>2 DEF enq_pill
  <2> QED BY <2>1, <2>2
<1>5. /\ q_' \in Seq(Conns \cup {Pill}) /\ Len(q_') <= QMax
      /\ \A k \in DOMAIN q_' : q_'[k] \in Made \cup {Pill}
      /\ worker' \in [Workers -> Thread]
      /\ \A w \in Workers : \/ worker'[w] = worker[w]
                            \/ worker[w].st = "sleep" /\ worker'[w] = At("woken")
  <2>1. CASE HasSpace
    <3>1. q_' = Append(q_, Pill) /\ Len(q_) < QMax /\ signal_non_empty(worker)
      BY <2>1 DEF enq_pill, enq, HasSpace
    <3>2. /\ worker' \in [Workers -> Thread]
          /\ \A w \in Workers : \/ worker'[w] = worker[w]
                                \/ worker[w].st = "sleep" /\ worker'[w] = At("woken")
      BY <1>0, <3>1, SignalWakes
    <3>3. Len(q_') <= QMax /\ q_' \in Seq(Conns \cup {Pill})
      BY <1>2, <3>1
    <3>4. \A k \in DOMAIN q_' : q_'[k] \in Made \cup {Pill}
      BY <1>2, <3>1
    <3> QED BY <3>2, <3>3, <3>4
  <2>2. CASE ~HasSpace
    BY <1>0, <1>2, <2>2 DEF enq_pill, Types
  <2> QED BY <2>1, <2>2
<1>6. Types'
  BY <1>0, <1>1, <1>4, <1>5 DEF Types, sockVars
<1>7. Known'
  BY <1>0, <1>1, <1>5 DEF Known, Busy, Made, At
<1>8. Saved'
  BY <1>0, <1>1, <1>5 DEF Saved, At
<1> QED BY <1>0, <1>1, <1>3, <1>4, <1>6, <1>7, <1>8 DEF Struct, Listener, Deletion, Joined, Made

\* A client sends or leaves.
LEMMA StructClient ==
  ASSUME Struct, NEW c \in Conns, client_sends(c) \/ client_leaves(c)
  PROVE  Struct'
<1> USE ConnsFacts
<1>0. Types
  BY DEF Struct
<1>1. UNCHANGED <<connVars, held, poolVars, listed, accept_, latest, owner, leaked, aborted>>
  BY DEF client_sends, client_leaves, clientOnly
<1>2. /\ sent' \in [Conns -> Nat] /\ in' \in [Conns -> Nat] /\ eof' \subseteq Conns
      /\ \A d \in Conns : in'[d] <= sent'[d] /\ sent'[d] <= MaxPdus[d]
  <2>1. /\ sent \in [Conns -> Nat] /\ in \in [Conns -> Nat] /\ eof \subseteq Conns
        /\ \A d \in Conns : in[d] <= sent[d] /\ sent[d] <= MaxPdus[d]
    BY <1>0 DEF Types
  <2>2. CASE client_sends(c)
    <3>1. /\ sent' = [sent EXCEPT ![c] = sent[c] + 1] /\ sent[c] < MaxPdus[c]
          /\ in' = [in EXCEPT ![c] = in[c] + 1] /\ eof' = eof
      BY <2>2 DEF client_sends
    <3>2. MaxPdus[c] \in Nat /\ sent[c] \in Nat /\ in[c] \in Nat /\ in[c] <= sent[c]
      BY <2>1, PdusFacts
    <3>3. sent[c] + 1 \in Nat /\ in[c] + 1 \in Nat
          /\ in[c] + 1 <= sent[c] + 1 /\ sent[c] + 1 <= MaxPdus[c]
      BY <3>1, <3>2
    <3>4. sent' \in [Conns -> Nat] /\ in' \in [Conns -> Nat]
      BY <2>1, <3>1, <3>3
    <3>5. ASSUME NEW d \in Conns PROVE in'[d] <= sent'[d] /\ sent'[d] <= MaxPdus[d]
      <4>1. CASE d = c
        BY <2>1, <3>1, <3>3, <4>1
      <4>2. CASE d # c
        BY <2>1, <3>1, <4>2
      <4> QED BY <4>1, <4>2
    <3> QED BY <2>1, <3>1, <3>4, <3>5
  <2>3. CASE client_leaves(c)
    BY <2>1, <2>3 DEF client_leaves
  <2> QED BY <2>2, <2>3
<1>3. Types'
  BY <1>0, <1>1, <1>2 DEF Types, connVars, poolVars
<1> QED BY <1>1, <1>3 DEF Struct, Known, Listener, Deletion, Saved, Busy, Joined, Made, connVars, poolVars

\* Nothing happens.
LEMMA StructStutter ==
  ASSUME Struct, UNCHANGED vars
  PROVE  Struct'
<1>1. Types'
  BY DEF Struct, Types, vars, connVars, sockVars, poolVars
<1> QED BY <1>1 DEF Struct, Known, Listener, Deletion, Saved, Busy, Joined, Made, vars, connVars, sockVars, poolVars

\* Every step keeps the structure.
LEMMA StructStep == Struct /\ [Next]_vars => Struct'
<1> SUFFICES ASSUME Struct, [Next]_vars PROVE Struct'
  OBVIOUS
<1>1. ASSUME NEW w \in Workers, Worker(w) PROVE Struct'
  BY <1>1, StructTakeJob, StructDispatchEnds, StructDispatch, StructLatest, StructSend DEF Worker
<1>2. ASSUME NEW c \in Conns, Read(c) \/ client_sends(c) \/ client_leaves(c) PROVE Struct'
  BY <1>2, StructReadCb, StructDies, StructClient DEF Read
<1>3. CASE process_accept \/ Accept
  BY <1>3, StructAccept, StructCollect, StructAcceptEnd DEF Accept
<1>4. CASE delete_rpcs \/ Delete
  BY <1>4, StructClose, StructPill DEF Delete
<1>5. CASE UNCHANGED vars
  BY <1>5, StructStutter
<1> QED BY <1>1, <1>2, <1>3, <1>4, <1>5 DEF Next

-----------------------------------------------------------------------------
(* Steps keep the reference counts.                                        *)

\* The connection that a thread in state r holds a reference to; 0: none.
Refers(r) == IF r.st \in {"job", "run", "send", "stranded", "end"} THEN r.c ELSE 0
WRef == [w \in Workers |-> Refers(worker[w])]

Kept(c) == IF c \in listed \/ accept_.ch = c THEN 1 ELSE 0

\* The references to a connection, by who holds them.
LEMMA HoldsIs ==
  ASSUME Types, Types', NEW c \in Conns
  PROVE  /\ Holds(c) = Kept(c) + Times(latest, c) + Times(q_, c) + Times(WRef, c)
         /\ Holds(c)' = Kept(c)' + Times(latest, c)' + Times(q_, c)' + Times(WRef, c)'
<1>0. c # 0
  BY ConnsFacts
<1>1. {w \in Workers : Busy(w) /\ worker[w].c = c} = {w \in DOMAIN WRef : WRef[w] = c}
  BY <1>0 DEF WRef, Refers, Busy
<1>2. {w \in Workers : Busy(w)' /\ worker'[w].c = c} = {w \in DOMAIN WRef' : WRef'[w] = c}
  BY <1>0 DEF WRef, Refers, Busy
<1>3. DOMAIN latest = Clients /\ DOMAIN latest' = Clients
  BY DEF Types
<1> QED BY <1>1, <1>2, <1>3 DEF Holds, Times, Kept

\* The summands are natural numbers.
LEMMA HoldsNat ==
  ASSUME Types, NEW c
  PROVE  Kept(c) \in Nat /\ Times(latest, c) \in Nat /\ Times(q_, c) \in Nat /\ Times(WRef, c) \in Nat
<1>1. IsFiniteSet(DOMAIN latest) /\ IsFiniteSet(DOMAIN WRef)
  BY IntakeAssumption DEF Types, WRef
<1>2. IsFiniteSet(DOMAIN q_)
  BY SeqFinite DEF Types
<1> QED BY <1>1, <1>2, TimesNat DEF Kept

\* They are numbers, after a step too.
LEMMA HoldsNatNext ==
  ASSUME Types', NEW c
  PROVE  /\ Kept(c)' \in Nat /\ Times(latest, c)' \in Nat /\ Times(q_, c)' \in Nat
         /\ Times(WRef, c)' \in Nat
<1>1. IsFiniteSet(DOMAIN latest') /\ IsFiniteSet(DOMAIN WRef')
  BY IntakeAssumption DEF Types, WRef
<1>2. q_' \in Seq(Conns \cup {Pill})
  BY DEF Types
<1>3. IsFiniteSet(DOMAIN q_')
  BY <1>2, SeqFinite
<1>4. Times(latest', c) \in Nat /\ Times(q_', c) \in Nat /\ Times(WRef', c) \in Nat
  BY <1>1, <1>3, TimesNat
<1> QED BY <1>4 DEF Kept, Times

\* incref and decref that follow the holders keep the counts, and decref
\* deletes exactly when the last holder is gone.
LEMMA RefsFollow ==
  ASSUME Struct, Struct', Refs, Made' = Made, dead_' = dead_,
         NEW I \in SUBSET Made, NEW D \in SUBSET Made, Ref(I, D),
         \A c \in I : refno_[c] > 0 /\ c \notin D,
         \A c \in Conns : Holds(c)' + leaked'[c] = Holds(c) + leaked[c] + In(c, I) - In(c, D)
  PROVE  Refs'
<1> USE ConnsFacts
<1>0. Types /\ Types' /\ Listener' /\ Made \subseteq Conns
  BY DEF Struct
<1> SUFFICES ASSUME NEW c \in Conns
             PROVE  /\ refno_'[c] = Holds(c)' + leaked'[c]
                    /\ c \in Made' => (c \in freed' <=> refno_'[c] = 0)
  BY DEF Refs
<1>1. /\ refno_[c] = Holds(c) + leaked[c] /\ refno_[c] \in Int
      /\ c \in Made => (c \in freed <=> refno_[c] = 0)
  BY <1>0 DEF Refs, Types
<1>2. refno_'[c] = refno_[c] + In(c, I) - In(c, D)
  BY DEF Ref, Counted, In
<1>3. refno_'[c] = Holds(c)' + leaked'[c]
  BY <1>1, <1>2
<1>4. c \in freed' <=> c \in freed \/ (c \in D /\ refno_'[c] = 0 /\ c \in dead_)
  BY DEF Ref, Deletes
<1>5. leaked'[c] \in Nat /\ leaked[c] \in Nat /\ Holds(c)' \in Nat /\ Holds(c) \in Nat
  <2>1. leaked'[c] \in Nat /\ leaked[c] \in Nat
    BY <1>0 DEF Types
  <2>2. Kept(c)' \in Nat /\ Times(latest, c)' \in Nat /\ Times(q_, c)' \in Nat /\ Times(WRef, c)' \in Nat
    BY <1>0, HoldsNatNext
  <2>3. Kept(c) \in Nat /\ Times(latest, c) \in Nat /\ Times(q_, c) \in Nat /\ Times(WRef, c) \in Nat
    BY <1>0, HoldsNat
  <2> QED BY <1>0, <2>1, <2>2, <2>3, HoldsIs
<1>6. c \in Made /\ c \notin dead_ => refno_'[c] > 0
  <2> SUFFICES ASSUME c \in Made, c \notin dead_ PROVE refno_'[c] > 0
    OBVIOUS
  <2>1. Kept(c)' = 1
    BY <1>0 DEF Listener, Kept
  <2>2. Times(latest, c)' \in Nat /\ Times(q_, c)' \in Nat /\ Times(WRef, c)' \in Nat
    BY <1>0, HoldsNatNext
  <2>3. Holds(c)' > 0
    BY <1>0, <2>1, <2>2, HoldsIs
  <2> QED BY <1>3, <1>5, <2>3
<1>7. c \in Made => (c \in freed' <=> refno_'[c] = 0)
  <2> SUFFICES ASSUME c \in Made PROVE c \in freed' <=> refno_'[c] = 0
    OBVIOUS
  <2>1. CASE c \in D
    <3>1. In(c, I) = 0 /\ In(c, D) = 1
      BY <2>1 DEF In
    <3>2. c \notin freed
      BY <1>1, <1>2, <1>3, <1>5, <3>1
    <3> QED BY <1>4, <1>6, <2>1, <3>2
  <2>2. CASE c \in I
    <3>1. In(c, I) = 1 /\ In(c, D) = 0
      BY <2>2 DEF In
    <3>2. refno_'[c] > 0 /\ c \notin freed
      BY <1>1, <1>2, <2>2, <3>1
    <3> QED BY <1>1, <1>4, <2>2, <3>2
  <2>3. CASE c \notin I /\ c \notin D
    <3>1. In(c, I) = 0 /\ In(c, D) = 0
      BY <2>3 DEF In
    <3> QED BY <1>1, <1>2, <1>4, <2>3, <3>1
  <2> QED BY <2>1, <2>2, <2>3
<1> QED BY <1>3, <1>7

\* A step that neither counts nor changes the number of holders.
LEMMA RefsKeep ==
  ASSUME Types, Types', Refs, Made' = Made, refno_' = refno_, freed' = freed,
         \A c \in Conns : Holds(c)' + leaked'[c] = Holds(c) + leaked[c]
  PROVE  Refs'
BY DEF Refs

\* The holders of c are the same when the four parts are.
LEMMA SameHolders ==
  ASSUME Types, Types', listed' = listed, accept_'.ch = accept_.ch, latest' = latest, q_' = q_,
         WRef' = WRef, NEW c \in Conns
  PROVE  Holds(c)' = Holds(c)
<1>1. /\ Kept(c)' = Kept(c) /\ Times(latest, c)' = Times(latest, c) /\ Times(q_, c)' = Times(q_, c)
      /\ Times(WRef, c)' = Times(WRef, c)
  BY DEF Kept, Times
<1> QED BY <1>1, HoldsIs

\* One thread moves on: what it refers to changes.
LEMMA WRefMoves ==
  ASSUME Types, NEW w \in Workers, NEW r \in Thread, worker' = [worker EXCEPT ![w] = r]
  PROVE  /\ WRef' = [WRef EXCEPT ![w] = Refers(r)]
         /\ \A c : Times(WRef, c)' = Times(WRef, c) + Eq(Refers(r), c) - Eq(Refers(worker[w]), c)
<1>1. worker \in [Workers -> Thread]
  BY DEF Types
<1>2. WRef' = [WRef EXCEPT ![w] = Refers(r)]
  BY <1>1 DEF WRef
<1>3. WRef \in [Workers -> 0 .. MaxConns] /\ WRef[w] = Refers(worker[w])
  BY <1>1, ConnsFacts DEF WRef, Refers, Thread
<1>4. ASSUME NEW c
      PROVE  Times(WRef, c)' = Times(WRef, c) + Eq(Refers(r), c) - Eq(Refers(worker[w]), c)
  <2> DEFINE f == WRef
             g == WRef'
  <2>1. DOMAIN f = Workers /\ DOMAIN g = Workers /\ IsFiniteSet(Workers)
    BY IntakeAssumption DEF WRef
  <2>2. g[w] = Refers(r) /\ f[w] = Refers(worker[w]) /\ \A z \in Workers \ {w} : g[z] = f[z]
    BY <1>2, <1>3
  <2>3. Times(WRef, c)' = Times(g, c)
    BY DEF Times
  <2> HIDE DEF f, g
  <2>4. Times(g, c) = Times(f, c) + Eq(Refers(r), c) - Eq(f[w], c)
    BY <2>1, <2>2, TimesExcept
  <2> QED BY <2>2, <2>3, <2>4 DEF f
<1> QED BY <1>2, <1>4

\* A wakeup takes no reference.
LEMMA WRefSignal ==
  ASSUME Types, signal_non_empty(worker)
  PROVE  WRef' = WRef
<1>1. /\ worker' \in [Workers -> Thread]
      /\ \A w \in Workers : \/ worker'[w] = worker[w]
                            \/ worker[w].st = "sleep" /\ worker'[w] = At("woken")
  BY SignalWakes
<1>2. \A w \in Workers : Refers(worker'[w]) = Refers(worker[w])
  BY <1>1 DEF Refers, At
<1> QED BY <1>2 DEF WRef

\* With its job a worker takes over the reference that is in the queue.
LEMMA RefsTakeJob ==
  ASSUME Struct, Struct', Refs, NEW w \in Workers, takeJob(w)
  PROVE  Refs'
<1> USE ConnsFacts
<1>0. Types /\ Types' /\ worker \in [Workers -> Thread] /\ q_ \in Seq(Conns \cup {Pill})
  BY DEF Struct, Types
<1>1. UNCHANGED <<nconn, refno_, freed, listed, accept_, latest, leaked>> /\ Refers(worker[w]) = 0
  BY DEF takeJob, connVars, Refers
<1>2. ASSUME NEW c \in Conns PROVE Holds(c)' = Holds(c)
  <2>0. Kept(c)' = Kept(c) /\ Times(latest, c)' = Times(latest, c) /\ Eq(0, c) = 0
    BY <1>1 DEF Kept, Times, Eq
  <2>1. Times(q_, c)' + Times(WRef, c)' = Times(q_, c) + Times(WRef, c)
    <3>0. Times(q_, c) \in Nat /\ Times(WRef, c) \in Nat
      BY <1>0, HoldsNat
    <3>1. CASE q_ = <<>>
      <4> DEFINE r == At("sleep")
      <4>1. r \in Thread /\ Refers(r) = 0 /\ worker' = [worker EXCEPT ![w] = r] /\ q_' = q_
        BY <3>1 DEF takeJob, At, Thread, States, Refers
      <4>2. Times(WRef, c)' = Times(WRef, c) + Eq(Refers(r), c) - Eq(Refers(worker[w]), c)
        BY <1>0, <4>1, WRefMoves
      <4>3. Times(q_, c)' = Times(q_, c)
        BY <4>1 DEF Times
      <4> QED BY <1>1, <2>0, <3>0, <4>1, <4>2, <4>3
    <3>2. CASE q_ # <<>>
      <4> DEFINE r == IF Head(q_) = Pill THEN At("exit") ELSE [st |-> "job", c |-> Head(q_)]
      <4>1. Head(q_) \in Conns \cup {Pill} /\ Head(q_) \in 0 .. MaxConns
        BY <1>0, <3>2 DEF Conns, Pill
      <4>2. r \in Thread /\ Refers(r) = Head(q_)
        BY <4>1 DEF At, Thread, States, Refers, Pill
      <4>3. worker' = [worker EXCEPT ![w] = r] /\ q_' = Tail(q_)
        BY <3>2 DEF takeJob
      <4> HIDE DEF r
      <4>4. Times(WRef, c)' = Times(WRef, c) + Eq(Refers(r), c) - Eq(Refers(worker[w]), c)
        BY <1>0, <4>2, <4>3, WRefMoves
      <4>5. Times(q_', c) = Times(q_, c) - Eq(Head(q_), c)
        BY <1>0, <3>2, <4>3, TimesTail
      <4>6. Times(q_, c)' = Times(q_', c) /\ Eq(Head(q_), c) \in Nat
        BY DEF Times, Eq
      <4> QED BY <1>1, <2>0, <3>0, <4>2, <4>4, <4>5, <4>6
    <3> QED BY <3>1, <3>2
  <2>2. Kept(c) \in Nat /\ Times(latest, c) \in Nat /\ Times(q_, c) \in Nat /\ Times(WRef, c) \in Nat
        /\ Times(q_, c)' \in Nat /\ Times(WRef, c)' \in Nat
    BY <1>0, HoldsNat, HoldsNatNext
  <2>3. /\ Holds(c) = Kept(c) + Times(latest, c) + Times(q_, c) + Times(WRef, c)
        /\ Holds(c)' = Kept(c)' + Times(latest, c)' + Times(q_, c)' + Times(WRef, c)'
    BY <1>0, HoldsIs
  <2> QED BY <2>0, <2>1, <2>2, <2>3, SMTT(30)
<1>3. Made' = Made
  BY <1>1 DEF Made
<1> QED BY <1>0, <1>1, <1>2, <1>3, RefsKeep

\* A step of the reader: the queued job is a new holder.
LEMMA RefsReadCb ==
  ASSUME Struct, Struct', Refs, NEW c \in Conns, read_cb_offers(c)
  PROVE  Refs'
<1> USE ConnsFacts
<1>0. Types /\ Types' /\ q_ \in Seq(Conns \cup {Pill}) /\ Known /\ Listener
  BY DEF Struct, Types
<1>1. UNCHANGED <<nconn, dead_, listed, accept_, latest, leaked>> /\ Made' = Made
  BY DEF read_cb_offers, Made
<1>2. c \in Made /\ c \notin dead_ /\ Made \subseteq Conns
  BY <1>0 DEF read_cb_offers
<1>3. leaked \in [Conns -> Nat] /\ refno_ \in [Conns -> Int]
  BY <1>0 DEF Types
<1>4. CASE HasSpace
  <2>1. q_' = Append(q_, c) /\ signal_non_empty(worker) /\ Ref({c}, {})
    BY <1>4 DEF read_cb_offers, enq
  <2>2. WRef' = WRef
    BY <1>0, <2>1, WRefSignal
  <2>3. ASSUME NEW d \in Conns
        PROVE  Holds(d)' + leaked'[d] = Holds(d) + leaked[d] + In(d, {c}) - In(d, {})
    <3>1. Kept(d)' = Kept(d) /\ Times(latest, d)' = Times(latest, d) /\ Times(WRef, d)' = Times(WRef, d)
      BY <1>1, <2>2 DEF Kept, Times
    <3>2. Times(q_', d) = Times(q_, d) + Eq(c, d)
      BY <1>0, <2>1, TimesAppend
    <3>3. Times(q_, d)' = Times(q_', d) /\ Eq(c, d) = In(d, {c}) /\ In(d, {}) = 0 /\ Eq(c, d) \in Nat
      BY DEF Times, Eq, In
    <3>4. Kept(d) \in Nat /\ Times(latest, d) \in Nat /\ Times(q_, d) \in Nat /\ Times(WRef, d) \in Nat
          /\ leaked[d] \in Nat
      BY <1>0, <1>3, HoldsNat
    <3> QED BY <1>0, <1>1, <3>1, <3>2, <3>3, <3>4, HoldsIs
  <2>4. refno_[c] > 0
    <3>1. Kept(c) = 1
      BY <1>0, <1>2 DEF Listener, Kept
    <3>2. Times(latest, c) \in Nat /\ Times(q_, c) \in Nat /\ Times(WRef, c) \in Nat /\ leaked[c] \in Nat
      BY <1>0, <1>3, HoldsNat
    <3>3. refno_[c] = Holds(c) + leaked[c]
      BY DEF Refs
    <3> QED BY <1>0, <3>1, <3>2, <3>3, HoldsIs
  <2> DEFINE I == {c}
             D == {}
  <2>5. /\ I \in SUBSET Made /\ D \in SUBSET Made /\ Ref(I, D)
        /\ \A d \in I : refno_[d] > 0 /\ d \notin D
        /\ \A d \in Conns : Holds(d)' + leaked'[d] = Holds(d) + leaked[d] + In(d, I) - In(d, D)
    BY <1>2, <2>1, <2>3, <2>4
  <2> HIDE DEF I, D
  <2> QED BY <1>1, <2>5, RefsFollow
<1>5. CASE ~HasSpace
  <2>1. Ref({}, {}) /\ q_' = q_ /\ worker' = worker
    BY <1>5 DEF read_cb_offers, Refuse
  <2>2. refno_' = refno_ /\ freed' = freed
    BY <1>3, <2>1 DEF Ref, Counted
  <2>3. WRef' = WRef
    BY <2>1 DEF WRef
  <2>4. \A d \in Conns : Holds(d)' + leaked'[d] = Holds(d) + leaked[d]
    BY <1>0, <1>1, <2>1, <2>3, SameHolders
  <2> QED BY <1>0, <1>1, <2>2, <2>4, RefsKeep
<1> QED BY <1>4, <1>5

\* A dispatch ends: its reference is given back, or leaked.
LEMMA RefsDispatchEnds ==
  ASSUME Struct, Struct', Refs, NEW w \in Workers, dispatch_returns(w) \/ dispatch_end(w)
  PROVE  Refs'
<1> USE ConnsFacts
<1> DEFINE c == worker[w].c
<1>0. Types /\ Types' /\ Known
  BY DEF Struct
<1>1. UNCHANGED <<nconn, q_, listed, accept_, latest>> /\ Made' = Made
  BY DEF dispatch_returns, dispatch_end, Made
<1>2. c \in Made /\ Made \subseteq Conns /\ c \in Conns
  BY <1>0 DEF dispatch_returns, dispatch_end, Known, Busy
<1>3. leaked \in [Conns -> Nat] /\ refno_ \in [Conns -> Int]
  BY <1>0 DEF Types
<1>4. /\ At("deq") \in Thread /\ Refers(At("deq")) = 0 /\ Refers(worker[w]) = c
      /\ worker' = [worker EXCEPT ![w] = At("deq")]
  BY DEF dispatch_returns, dispatch_end, At, Thread, States, Refers
<1> HIDE DEF c
<1>5. ASSUME NEW d \in Conns PROVE Holds(d)' = Holds(d) - In(d, {c}) /\ Holds(d) \in Nat
  <2>1. Kept(d)' = Kept(d) /\ Times(latest, d)' = Times(latest, d) /\ Times(q_, d)' = Times(q_, d)
    BY <1>1 DEF Kept, Times
  <2>2. Times(WRef, d)' = Times(WRef, d) + Eq(0, d) - Eq(c, d)
    BY <1>0, <1>4, WRefMoves
  <2>3. Eq(0, d) = 0 /\ Eq(c, d) = In(d, {c}) /\ Eq(c, d) \in Nat
    BY DEF Eq, In
  <2>4. Kept(d) \in Nat /\ Times(latest, d) \in Nat /\ Times(q_, d) \in Nat /\ Times(WRef, d) \in Nat
    BY <1>0, HoldsNat
  <2>5. /\ Holds(d) = Kept(d) + Times(latest, d) + Times(q_, d) + Times(WRef, d)
        /\ Holds(d)' = Kept(d)' + Times(latest, d)' + Times(q_, d)' + Times(WRef, d)'
    BY <1>0, HoldsIs
  <2> QED BY <2>1, <2>2, <2>3, <2>4, <2>5
<1>6. CASE Ref({}, {c}) /\ UNCHANGED <<dead_, leaked>>
  <2> DEFINE I == {}
             D == {c}
  <2>1. \A d \in Conns : Holds(d)' + leaked'[d] = Holds(d) + leaked[d] + In(d, I) - In(d, D)
    <3> SUFFICES ASSUME NEW d \in Conns
                 PROVE  Holds(d)' + leaked'[d] = Holds(d) + leaked[d] + In(d, I) - In(d, D)
      OBVIOUS
    <3>1. In(d, I) = 0 /\ In(d, D) \in Nat /\ leaked[d] \in Nat /\ leaked' = leaked
      BY <1>3, <1>6 DEF In
    <3>2. Holds(d)' = Holds(d) - In(d, D) /\ Holds(d) \in Nat
      BY <1>5
    <3> HIDE DEF I, D
    <3> QED BY <3>1, <3>2
  <2>2. I \in SUBSET Made /\ D \in SUBSET Made /\ Ref(I, D) /\ \A d \in I : refno_[d] > 0 /\ d \notin D
    BY <1>2, <1>6
  <2> HIDE DEF I, D
  <2> QED BY <1>1, <1>6, <2>1, <2>2, RefsFollow
<1>7. CASE leaked' = [leaked EXCEPT ![c] = @ + 1] /\ UNCHANGED <<refno_, freed>>
  <2>1. ASSUME NEW d \in Conns PROVE Holds(d)' + leaked'[d] = Holds(d) + leaked[d]
    <3>1. leaked[d] \in Nat /\ leaked'[d] = leaked[d] + In(d, {c})
      <4>1. CASE d = c
        BY <1>2, <1>3, <1>7, <4>1 DEF In
      <4>2. CASE d # c
        BY <1>2, <1>3, <1>7, <4>2 DEF In
      <4> QED BY <4>1, <4>2
    <3>2. In(d, {c}) \in Nat
      BY DEF In
    <3> QED BY <1>5, <3>1, <3>2
  <2> QED BY <1>0, <1>1, <1>7, <2>1, RefsKeep
<1> QED BY <1>6, <1>7 DEF c, dispatch_returns, dispatch_end

\* Whoever is held has a positive count.
LEMMA HeldIsCounted ==
  ASSUME Types, Refs, NEW c \in Conns,
         \/ \E w \in Workers : Refers(worker[w]) = c
         \/ \E i \in Clients : latest[i] = c
  PROVE  refno_[c] > 0
<1>0. IsFiniteSet(Workers) /\ IsFiniteSet(Clients) /\ leaked[c] \in Nat
      /\ DOMAIN WRef = Workers /\ DOMAIN latest = Clients
  BY IntakeAssumption DEF Types, WRef
<1>1. Kept(c) \in Nat /\ Times(latest, c) \in Nat /\ Times(q_, c) \in Nat /\ Times(WRef, c) \in Nat
  BY HoldsNat
<1>2. Times(WRef, c) # 0 \/ Times(latest, c) # 0
  <2>1. ASSUME NEW w \in Workers, Refers(worker[w]) = c PROVE Times(WRef, c) # 0
    <3>1. WRef[w] = c
      BY <2>1 DEF WRef
    <3> QED BY <1>0, <3>1, TimesNat
  <2>2. ASSUME NEW i \in Clients, latest[i] = c PROVE Times(latest, c) # 0
    BY <1>0, <2>2, TimesNat
  <2> QED BY <2>1, <2>2
<1>3. Holds(c) = Kept(c) + Times(latest, c) + Times(q_, c) + Times(WRef, c)
  <2>1. {w \in Workers : Busy(w) /\ worker[w].c = c} = {w \in DOMAIN WRef : WRef[w] = c}
    BY ConnsFacts DEF WRef, Refers, Busy
  <2> QED BY <1>0, <2>1 DEF Holds, Times, Kept
<1>4. refno_[c] = Holds(c) + leaked[c]
  BY DEF Refs
<1>5. leaked[c] \in Nat
  BY <1>0
<1>6. Times(latest, c) + Times(WRef, c) > 0
  BY <1>1, <1>2
<1>7. Holds(c) >= Times(latest, c) + Times(WRef, c)
  BY <1>1, <1>3
<1>8. Holds(c) \in Nat
  BY <1>1, <1>3
<1> QED BY <1>1, <1>4, <1>5, <1>6, <1>7, <1>8

\* dispatch takes a reference for conns_, and gives back the one it replaces.
LEMMA RefsDispatch ==
  ASSUME Struct, Struct', Refs, NEW w \in Workers, dispatch(w)
  PROVE  Refs'
<1> USE ConnsFacts
<1> DEFINE c == worker[w].c
           i == clt[c]
<1>0. Types /\ Types' /\ Known /\ worker[w] \in Thread
  BY DEF Struct, Types
<1>1. UNCHANGED <<nconn, dead_, q_, listed, accept_, leaked>> /\ Made' = Made
  BY DEF dispatch, Made
<1>2. c \in Made /\ Made \subseteq Conns /\ c \in Conns /\ worker[w].st = "job" /\ i \in Clients \cup {0}
  BY <1>0 DEF dispatch, Known, Busy, Types
<1>3. leaked \in [Conns -> Nat] /\ latest \in [Clients -> 0 .. MaxConns]
  BY <1>0 DEF Types
<1>4. PICK st \in {"run", "send", "end"} : worker' = [worker EXCEPT ![w].st = st]
  BY DEF dispatch
<1>5. /\ worker' = [worker EXCEPT ![w] = [st |-> st, c |-> c]] /\ [st |-> st, c |-> c] \in Thread
      /\ Refers([st |-> st, c |-> c]) = c /\ Refers(worker[w]) = c
  <2>1. [worker[w] EXCEPT !.st = st] = [st |-> st, c |-> c] /\ [st |-> st, c |-> c] \in Thread
    BY <1>0, ThreadState DEF States
  <2> QED BY <1>2, <1>4, <2>1 DEF Refers
<1>6. ASSUME NEW d \in Conns
      PROVE  /\ Kept(d)' = Kept(d) /\ Times(q_, d)' = Times(q_, d) /\ Times(WRef, d)' = Times(WRef, d)
             /\ Kept(d) \in Nat /\ Times(latest, d) \in Nat /\ Times(q_, d) \in Nat
             /\ Times(WRef, d) \in Nat /\ leaked[d] \in Nat
             /\ Holds(d) = Kept(d) + Times(latest, d) + Times(q_, d) + Times(WRef, d)
             /\ Holds(d)' = Kept(d)' + Times(latest, d)' + Times(q_, d)' + Times(WRef, d)'
  <2>1. Kept(d)' = Kept(d) /\ Times(q_, d)' = Times(q_, d)
    BY <1>1 DEF Kept, Times
  <2>2. Kept(d) \in Nat /\ Times(latest, d) \in Nat /\ Times(q_, d) \in Nat /\ Times(WRef, d) \in Nat
    BY <1>0, HoldsNat
  <2>3. Times(WRef, d)' = Times(WRef, d) + Eq(c, d) - Eq(c, d) /\ Eq(c, d) \in Nat
    <3>1. Times(WRef, d)' = Times(WRef, d) + Eq(Refers([st |-> st, c |-> c]), d) - Eq(Refers(worker[w]), d)
      BY <1>0, <1>5, WRefMoves
    <3> QED BY <1>5, <3>1 DEF Eq
  <2>4. /\ Holds(d) = Kept(d) + Times(latest, d) + Times(q_, d) + Times(WRef, d)
        /\ Holds(d)' = Kept(d)' + Times(latest, d)' + Times(q_, d)' + Times(WRef, d)'
    BY <1>0, HoldsIs
  <2> QED BY <1>3, <2>1, <2>2, <2>3, <2>4
<1>7. refno_[c] > 0
  BY <1>0, <1>2, <1>5, HeldIsCounted
<1> HIDE DEF c, i
<1>8. CASE /\ i # 0 /\ latest[i] < c /\ Ref({c}, Older(i))
           /\ latest' = [latest EXCEPT ![i] = c]
  <2> DEFINE I == {c}
             D == Older(i)
  <2>1. i \in Clients /\ latest[i] \in Made \cup {0} /\ D \in SUBSET Made /\ I \in SUBSET Made
    BY <1>0, <1>2, <1>8 DEF Known, Older
  <2>2. c \notin D
    BY <1>2, <1>3, <1>8, <2>1 DEF Older
  <2>3. ASSUME NEW d \in Conns
        PROVE  Holds(d)' + leaked'[d] = Holds(d) + leaked[d] + In(d, I) - In(d, D)
    <3>1. Times(latest', d) = Times(latest, d) + Eq(c, d) - Eq(latest[i], d)
      <4> DEFINE f == latest
                 g == latest'
      <4>1. /\ i \in DOMAIN f /\ IsFiniteSet(DOMAIN f) /\ DOMAIN g = DOMAIN f /\ g[i] = c
            /\ \A z \in DOMAIN f \ {i} : g[z] = f[z]
        BY <1>3, <1>8, <2>1, IntakeAssumption
      <4> HIDE DEF f, g
      <4>2. Times(g, d) = Times(f, d) + Eq(c, d) - Eq(f[i], d)
        BY <4>1, TimesExcept
      <4> QED BY <4>2 DEF f, g
    <3>2. Times(latest, d)' = Times(latest', d)
      BY DEF Times
    <3>3. Eq(c, d) = In(d, I) /\ Eq(latest[i], d) = In(d, D) /\ In(d, I) \in Nat /\ In(d, D) \in Nat
      BY DEF Eq, In, Older
    <3> HIDE DEF I, D
    <3> QED BY <1>1, <1>6, <3>1, <3>2, <3>3
  <2>4. Ref(I, D) /\ \A d \in I : refno_[d] > 0 /\ d \notin D
    BY <1>7, <1>8, <2>2
  <2> HIDE DEF I, D
  <2> QED BY <1>1, <2>1, <2>3, <2>4, RefsFollow
<1>9. CASE UNCHANGED <<refno_, freed, latest>>
  <2>1. ASSUME NEW d \in Conns PROVE Holds(d)' + leaked'[d] = Holds(d) + leaked[d]
    <3>1. Times(latest, d)' = Times(latest, d)
      BY <1>9 DEF Times
    <3> QED BY <1>1, <1>6, <3>1
  <2> QED BY <1>0, <1>1, <1>9, <2>1, RefsKeep
<1> QED BY <1>8, <1>9 DEF dispatch, c, i

\* A switch gives one reference back and takes another.
LEMMA RefsLatest ==
  ASSUME Struct, Struct', Refs, NEW w \in Workers, dispatch_latest(w)
  PROVE  Refs'
<1> USE ConnsFacts
<1> DEFINE c == worker[w].c
           d == latest[clt[c]]
<1>0. Types /\ Types' /\ Known /\ worker[w] \in Thread /\ worker[w].st = "run" /\ worker \in [Workers -> Thread]
  BY DEF Struct, Types, dispatch_latest
<1>1. UNCHANGED <<nconn, dead_, q_, listed, accept_, leaked, latest>> /\ Made' = Made
  BY DEF dispatch_latest, Made
<1>2. c \in Made /\ Made \subseteq Conns /\ c \in Conns /\ Refers(worker[w]) = c
  BY <1>0 DEF Known, Busy, Refers
<1>3. leaked \in [Conns -> Nat]
  BY <1>0 DEF Types
<1>4. ASSUME NEW e \in Conns, NEW r \in Thread, worker' = [worker EXCEPT ![w] = r]
      PROVE  Holds(e)' + leaked'[e] = Holds(e) + leaked[e] + Eq(Refers(r), e) - Eq(c, e)
  <2>1. Kept(e)' = Kept(e) /\ Times(latest, e)' = Times(latest, e) /\ Times(q_, e)' = Times(q_, e)
    BY <1>1 DEF Kept, Times
  <2>2. Times(WRef, e)' = Times(WRef, e) + Eq(Refers(r), e) - Eq(c, e)
    <3>1. Times(WRef, e)' = Times(WRef, e) + Eq(Refers(r), e) - Eq(Refers(worker[w]), e)
      BY <1>0, <1>4, WRefMoves
    <3> QED BY <1>2, <3>1
  <2>3. Kept(e) \in Nat /\ Times(latest, e) \in Nat /\ Times(q_, e) \in Nat /\ Times(WRef, e) \in Nat
        /\ leaked[e] \in Nat /\ leaked' = leaked
    BY <1>0, <1>1, <1>3, HoldsNat
  <2>4. Eq(Refers(r), e) \in Nat /\ Eq(c, e) \in Nat
    BY DEF Eq
  <2>5. /\ Holds(e) = Kept(e) + Times(latest, e) + Times(q_, e) + Times(WRef, e)
        /\ Holds(e)' = Kept(e)' + Times(latest, e)' + Times(q_, e)' + Times(WRef, e)'
    BY <1>0, HoldsIs
  <2> HIDE DEF c
  <2> QED BY <2>1, <2>2, <2>3, <2>4, <2>5
<1>5. CASE UNCHANGED <<refno_, freed, worker>>
  <2>1. WRef' = WRef
    BY <1>5 DEF WRef
  <2>2. \A e \in Conns : Holds(e)' + leaked'[e] = Holds(e) + leaked[e]
    BY <1>0, <1>1, <2>1, SameHolders
  <2> QED BY <1>0, <1>1, <1>5, <2>2, RefsKeep
<1>6. CASE /\ c \in dead_ /\ clt[c] # 0 /\ d # c
           /\ Switch(c, d)
           /\ worker' = [worker EXCEPT ![w].st = "send", ![w].c = d]
  <2> DEFINE r == [st |-> "send", c |-> d]
             I == {d}
             D == {c}
  <2>1. d \in Made /\ clt[c] \in Clients /\ d \in Conns /\ d \in 0 .. MaxConns
    <3>1. d \in Made /\ clt[c] \in Clients
      BY <1>0, <1>6, LatestIsMade
    <3>2. d \in Conns
      BY <1>2, <3>1
    <3>3. d \in 0 .. MaxConns
      BY <3>2 DEF Conns
    <3> QED BY <3>1, <3>2, <3>3
  <2>2. r \in Thread /\ Refers(r) = d
    BY <2>1 DEF Thread, States, Refers
  <2>3. worker' = [worker EXCEPT ![w] = r]
    BY <1>0, <1>6, ThreadSends
  <2>4. refno_[d] > 0
    BY <1>0, <2>1, HeldIsCounted
  <2>5. ASSUME NEW e \in Conns
        PROVE  Holds(e)' + leaked'[e] = Holds(e) + leaked[e] + In(e, I) - In(e, D)
    <3>1. Holds(e)' + leaked'[e] = Holds(e) + leaked[e] + Eq(Refers(r), e) - Eq(c, e)
      BY <1>4, <2>2, <2>3
    <3>2. Eq(Refers(r), e) = In(e, I) /\ Eq(c, e) = In(e, D)
      BY <2>2 DEF Eq, In
    <3> QED BY <3>1, <3>2
  <2>6. I \in SUBSET Made /\ D \in SUBSET Made /\ Ref(I, D) /\ \A e \in I : refno_[e] > 0 /\ e \notin D
    BY <1>2, <1>6, <2>1, <2>4 DEF Switch
  <2> HIDE DEF I, D
  <2> QED BY <1>1, <2>5, <2>6, RefsFollow
<1>7. CASE worker' = [worker EXCEPT ![w].st = "send"] /\ UNCHANGED <<refno_, freed>>
  <2> DEFINE r == [st |-> "send", c |-> c]
  <2>1. [worker[w] EXCEPT !.st = "send"] = r /\ r \in Thread
    BY <1>0, ThreadState DEF States
  <2>2. worker' = [worker EXCEPT ![w] = r] /\ Refers(r) = c
    BY <1>7, <2>1 DEF Refers
  <2>3. ASSUME NEW e \in Conns PROVE Holds(e)' + leaked'[e] = Holds(e) + leaked[e]
    <3>1. Holds(e)' + leaked'[e] = Holds(e) + leaked[e] + Eq(c, e) - Eq(c, e)
      BY <1>4, <2>1, <2>2
    <3>2. Eq(c, e) \in Nat /\ leaked[e] \in Nat
      BY <1>3 DEF Eq
    <3>3. Holds(e) \in Nat
      <4>1. Kept(e) \in Nat /\ Times(latest, e) \in Nat /\ Times(q_, e) \in Nat /\ Times(WRef, e) \in Nat
        BY <1>0, HoldsNat
      <4> QED BY <1>0, <4>1, HoldsIs
    <3> HIDE DEF c
    <3> QED BY <3>1, <3>2, <3>3
  <2> QED BY <1>0, <1>1, <1>7, <2>3, RefsKeep
<1> QED BY <1>5, <1>6, <1>7 DEF dispatch_latest

\* Sending takes no reference.
LEMMA RefsSend ==
  ASSUME Struct, Struct', Refs, NEW w \in Workers, dispatch_send(w)
  PROVE  Refs'
<1>0. Types /\ Types' /\ worker[w] \in Thread
  BY DEF Struct, Types
<1>1. UNCHANGED <<nconn, q_, listed, accept_, leaked, latest, refno_, freed>> /\ Made' = Made
  BY DEF dispatch_send, Made
<1>2. WRef' = WRef
  <2>1. \A v \in Workers : Refers(worker'[v]) = Refers(worker[v])
    BY <1>0 DEF dispatch_send, Refers, Types, Thread
  <2> QED BY <2>1 DEF WRef
<1>3. \A e \in Conns : Holds(e)' + leaked'[e] = Holds(e) + leaked[e]
  BY <1>0, <1>1, <1>2, SameHolders
<1> QED BY <1>0, <1>1, <1>3, RefsKeep

\* The listener's own reference is the first one.
LEMMA RefsAccept ==
  ASSUME Struct, Struct', Refs, process_accept
  PROVE  Refs'
<1> USE ConnsFacts
<1> DEFINE n == nconn + 1
<1>0. Types /\ Types' /\ Known /\ Listener
  BY DEF Struct
<1>1. n \in Conns /\ Made' = Made \cup {n} /\ n \notin Made /\ Made \subseteq Conns
  <2>1. nconn \in 0 .. MaxConns /\ nconn < MaxConns /\ nconn' = n /\ Made \subseteq Conns
    BY <1>0 DEF process_accept, Types
  <2>2. 1 .. n = (1 .. nconn) \cup {n} /\ n \notin 1 .. nconn /\ n \in 1 .. MaxConns
    BY <2>1
  <2> QED BY <2>1, <2>2 DEF Made, Conns
<1>2. UNCHANGED <<q_, worker, latest, leaked, freed, listed>> /\ accept_'.ch = n /\ accept_.ch = 0
      /\ refno_' = [refno_ EXCEPT ![n] = 1]
  BY <1>0 DEF process_accept, acceptOnly, poolVars, Listener
<1>3. refno_ \in [Conns -> Int] /\ refno_[n] = 0 /\ n \notin listed /\ n \notin freed
  BY <1>0, <1>1 DEF Types, Known
<1> HIDE DEF n
<1> SUFFICES ASSUME NEW c \in Conns
             PROVE  /\ refno_'[c] = Holds(c)' + leaked'[c]
                    /\ c \in Made' => (c \in freed' <=> refno_'[c] = 0)
  BY DEF Refs
<1>4. refno_[c] = Holds(c) + leaked[c] /\ (c \in Made => (c \in freed <=> refno_[c] = 0))
  BY DEF Refs
<1>5. WRef' = WRef
  BY <1>2 DEF WRef
<1>6. Times(latest, c)' = Times(latest, c) /\ Times(q_, c)' = Times(q_, c) /\ Times(WRef, c)' = Times(WRef, c)
  BY <1>2, <1>5 DEF Times
<1>7. Kept(c) \in Nat /\ Times(latest, c) \in Nat /\ Times(q_, c) \in Nat /\ Times(WRef, c) \in Nat
      /\ leaked[c] \in Nat /\ leaked' = leaked
  BY <1>0, <1>2, HoldsNat DEF Types
<1>8. /\ Holds(c) = Kept(c) + Times(latest, c) + Times(q_, c) + Times(WRef, c)
      /\ Holds(c)' = Kept(c)' + Times(latest, c)' + Times(q_, c)' + Times(WRef, c)'
  BY <1>0, HoldsIs
<1>9. CASE c = n
  <2>1. Kept(c) = 0 /\ Kept(c)' = 1
    BY <1>1, <1>2, <1>3, <1>9 DEF Kept
  <2>2. refno_'[c] = 1 /\ refno_[c] = 0
    BY <1>2, <1>3, <1>9
  <2>3. Holds(c)' = Holds(c) + 1 /\ Holds(c) \in Nat
    BY <1>6, <1>7, <1>8, <2>1
  <2>4. refno_'[c] = Holds(c)' + leaked'[c]
    BY <1>4, <1>7, <2>2, <2>3
  <2> QED BY <1>2, <1>3, <1>9, <2>2, <2>4
<1>10. CASE c # n
  <2>1. Kept(c)' = Kept(c) /\ refno_'[c] = refno_[c]
    BY <1>2, <1>3, <1>10 DEF Kept
  <2> QED BY <1>1, <1>2, <1>4, <1>6, <1>7, <1>8, <1>10, <2>1
<1> QED BY <1>9, <1>10

\* The listener drops a connection from conns_.
LEMMA RefsDrop ==
  ASSUME Struct, Struct', Refs, NEW c \in Conns, Ref({}, {c}), c \in listed, listed' = listed \ {c},
         UNCHANGED <<nconn, dead_, q_, worker, latest, leaked>>, accept_'.ch = accept_.ch
  PROVE  Refs'
<1> USE ConnsFacts
<1>0. Types /\ Types' /\ Known /\ Listener
  BY DEF Struct
<1> DEFINE I == {}
           D == {c}
<1>1. WRef' = WRef /\ Made' = Made
  BY DEF WRef, Made
<1>2. ASSUME NEW d \in Conns
      PROVE  Holds(d)' + leaked'[d] = Holds(d) + leaked[d] + In(d, I) - In(d, D)
  <2>1. Times(latest, d)' = Times(latest, d) /\ Times(q_, d)' = Times(q_, d) /\ Times(WRef, d)' = Times(WRef, d)
    BY <1>1 DEF Times
  <2>2. Kept(d)' = Kept(d) - In(d, D) /\ In(d, I) = 0 /\ In(d, D) \in Nat
    BY <1>0 DEF Kept, In, Listener
  <2>3. Kept(d) \in Nat /\ Times(latest, d) \in Nat /\ Times(q_, d) \in Nat /\ Times(WRef, d) \in Nat
        /\ leaked[d] \in Nat /\ leaked' = leaked
    BY <1>0, HoldsNat DEF Types
  <2>4. /\ Holds(d) = Kept(d) + Times(latest, d) + Times(q_, d) + Times(WRef, d)
        /\ Holds(d)' = Kept(d)' + Times(latest, d)' + Times(q_, d)' + Times(WRef, d)'
    BY <1>0, HoldsIs
  <2> HIDE DEF I, D
  <2> QED BY <2>1, <2>2, <2>3, <2>4
<1>3. I \in SUBSET Made /\ D \in SUBSET Made /\ Ref(I, D) /\ \A d \in I : refno_[d] > 0 /\ d \notin D
  BY <1>0 DEF Known
<1> HIDE DEF I, D
<1> QED BY <1>1, <1>2, <1>3, RefsFollow

\* Everything else leaves references alone.
LEMMA RefsOther ==
  ASSUME Struct, Struct', Refs,
         \/ \E c \in Conns : read_cb_dies(c) \/ client_sends(c) \/ client_leaves(c) \/ gc_check(c)
         \/ accept_exit \/ delete_rpcs \/ join_workers \/ \E c \in Conns : close_conn(c)
         \/ UNCHANGED vars
  PROVE  Refs'
<1>0. Types /\ Types'
  BY DEF Struct
<1>1. UNCHANGED <<nconn, refno_, freed, q_, latest, leaked, listed>> /\ Made' = Made
  BY DEF read_cb_dies, client_sends, client_leaves, gc_check, accept_exit, delete_rpcs, join_workers,
         close_conn, clientOnly, acceptOnly, ownerOnly, vars, connVars, poolVars, Made
<1>2. accept_'.ch = accept_.ch
  <2>1. accept_ \in [st : {"select", "gc", "exit"}, ch : 0 .. MaxConns,
                     todo : SUBSET Conns, drop : SUBSET Conns]
    BY <1>0 DEF Types
  <2>2. ASSUME NEW c \in Conns, gc_check(c) PROVE accept_'.ch = accept_.ch
    BY <2>1, <2>2 DEF gc_check
  <2>3. CASE accept_exit
    BY <2>1, <2>3 DEF accept_exit
  <2>4. CASE UNCHANGED accept_
    BY <2>4
  <2> QED BY <2>2, <2>3, <2>4 DEF read_cb_dies, client_sends, client_leaves, delete_rpcs, join_workers,
             close_conn, clientOnly, ownerOnly, vars
<1>3. WRef' = WRef
  <2>1. ASSUME NEW c \in Conns, close_conn(c) PROVE WRef' = WRef
    <3>1. \A w \in Workers : /\ worker'[w].c = worker[w].c
                             /\ \/ worker'[w].st = worker[w].st
                                \/ worker[w].st \in {"job", "send"} /\ worker'[w].st = "stranded"
      BY <1>0, <2>1, CloseStrands
    <3>2. \A w \in Workers : Refers(worker'[w]) = Refers(worker[w])
      BY <3>1 DEF Refers
    <3> QED BY <3>2 DEF WRef
  <2>2. CASE worker' = worker
    BY <2>2 DEF WRef
  <2> QED BY <2>1, <2>2 DEF read_cb_dies, client_sends, client_leaves, gc_check, accept_exit, delete_rpcs,
             join_workers, clientOnly, acceptOnly, vars, poolVars
<1>4. \A e \in Conns : Holds(e)' + leaked'[e] = Holds(e) + leaked[e]
  BY <1>0, <1>1, <1>2, <1>3, SameHolders
<1> QED BY <1>0, <1>1, <1>4, RefsKeep

\* The new connection moves into conns_ with its reference.
LEMMA RefsAcceptEnd ==
  ASSUME Struct, Struct', Refs, process_accept_end
  PROVE  Refs'
<1> USE ConnsFacts
<1>0. Types /\ Types'
  BY DEF Struct
<1>1. /\ UNCHANGED <<nconn, refno_, freed, q_, worker, latest, leaked>> /\ Made' = Made
      /\ listed' = listed \cup {accept_.ch} /\ accept_'.ch = 0
  BY <1>0 DEF process_accept_end, acceptOnly, poolVars, Made, Types
<1>2. WRef' = WRef
  BY <1>1 DEF WRef
<1>3. ASSUME NEW d \in Conns PROVE Holds(d)' + leaked'[d] = Holds(d) + leaked[d]
  <2>1. Times(latest, d)' = Times(latest, d) /\ Times(q_, d)' = Times(q_, d) /\ Times(WRef, d)' = Times(WRef, d)
    BY <1>1, <1>2 DEF Times
  <2>2. Kept(d)' = Kept(d)
    BY <1>1 DEF Kept
  <2>3. /\ Holds(d) = Kept(d) + Times(latest, d) + Times(q_, d) + Times(WRef, d)
        /\ Holds(d)' = Kept(d)' + Times(latest, d)' + Times(q_, d)' + Times(WRef, d)'
    BY <1>0, HoldsIs
  <2> QED BY <1>1, <2>1, <2>2, <2>3
<1> QED BY <1>0, <1>1, <1>3, RefsKeep

\* A pill is no connection.
LEMMA RefsPill ==
  ASSUME Struct, Struct', Refs, enq_pill
  PROVE  Refs'
<1> USE ConnsFacts
<1>0. Types /\ Types' /\ q_ \in Seq(Conns \cup {Pill})
  BY DEF Struct, Types
<1>1. UNCHANGED <<nconn, refno_, freed, listed, accept_, latest, leaked>> /\ Made' = Made
  BY DEF enq_pill, ownerOnly, Made
<1>2. CASE HasSpace
  <2>1. q_' = Append(q_, Pill) /\ signal_non_empty(worker)
    BY <1>2 DEF enq_pill, enq
  <2>2. WRef' = WRef
    BY <1>0, <2>1, WRefSignal
  <2>3. ASSUME NEW d \in Conns PROVE Holds(d)' + leaked'[d] = Holds(d) + leaked[d]
    <3>1. Kept(d)' = Kept(d) /\ Times(latest, d)' = Times(latest, d) /\ Times(WRef, d)' = Times(WRef, d)
      BY <1>1, <2>2 DEF Kept, Times
    <3>2. Times(q_', d) = Times(q_, d) + Eq(Pill, d)
      BY <1>0, <2>1, TimesAppend
    <3>3. Times(q_, d)' = Times(q_', d) /\ Eq(Pill, d) = 0
      BY DEF Times, Eq, Pill
    <3>4. Kept(d) \in Nat /\ Times(latest, d) \in Nat /\ Times(q_, d) \in Nat /\ Times(WRef, d) \in Nat
      BY <1>0, HoldsNat
    <3>5. /\ Holds(d) = Kept(d) + Times(latest, d) + Times(q_, d) + Times(WRef, d)
          /\ Holds(d)' = Kept(d)' + Times(latest, d)' + Times(q_, d)' + Times(WRef, d)'
      BY <1>0, HoldsIs
    <3> QED BY <1>1, <3>1, <3>2, <3>3, <3>4, <3>5
  <2> QED BY <1>0, <1>1, <2>3, RefsKeep
<1>3. CASE ~HasSpace
  <2>1. q_' = q_ /\ WRef' = WRef
    BY <1>3 DEF enq_pill, WRef
  <2>2. \A e \in Conns : Holds(e)' + leaked'[e] = Holds(e) + leaked[e]
    BY <1>0, <1>1, <2>1, SameHolders
  <2> QED BY <1>0, <1>1, <2>2, RefsKeep
<1> QED BY <1>2, <1>3

\* Every step keeps the counts.
LEMMA RefsStep ==
  ASSUME Struct, Struct', Refs, [Next]_vars
  PROVE  Refs'
<1>0. Types /\ Listener /\ Deletion /\ listed \subseteq Conns
  BY ConnsFacts DEF Struct, Known
<1>1. ASSUME NEW w \in Workers, Worker(w) PROVE Refs'
  BY <1>1, RefsTakeJob, RefsDispatchEnds, RefsDispatch, RefsLatest, RefsSend DEF Worker
<1>2. ASSUME NEW c \in Conns, Read(c) \/ client_sends(c) \/ client_leaves(c) PROVE Refs'
  BY <1>2, RefsReadCb, RefsOther DEF Read
<1>3. ASSUME NEW c \in Conns, gc_drop(c) PROVE Refs'
  <2>1. Ref({}, {c}) /\ c \in listed /\ listed' = listed \ {c}
        /\ UNCHANGED <<nconn, dead_, q_, worker, latest, leaked>>
    BY <1>0, <1>3 DEF gc_drop, acceptOnly, poolVars, Listener
  <2>2. accept_'.ch = accept_.ch
    BY <1>0, <1>3 DEF gc_drop, Types
  <2> QED BY <2>1, <2>2, RefsDrop
<1>4. CASE close_decref
  <2> DEFINE c == owner.c
  <2>1. c \in Conns /\ Ref({}, {c}) /\ c \in listed /\ listed' = listed \ {c}
        /\ UNCHANGED <<nconn, dead_, q_, worker, latest, leaked>> /\ accept_'.ch = accept_.ch
    BY <1>0, <1>4 DEF close_decref, ownerOnly, poolVars, Deletion
  <2> HIDE DEF c
  <2> QED BY <2>1, RefsDrop
<1>5. CASE process_accept \/ Accept
  BY <1>3, <1>5, RefsAccept, RefsOther, RefsAcceptEnd DEF Accept
<1>6. CASE delete_rpcs \/ Delete
  BY <1>4, <1>6, RefsOther, RefsPill DEF Delete
<1>7. CASE UNCHANGED vars
  BY <1>7, RefsOther
<1> QED BY <1>1, <1>2, <1>5, <1>6, <1>7 DEF Next

-----------------------------------------------------------------------------
(* Steps keep the queue in order.                                          *)

\* The number of threads in one of the states S.
Threads(S) == Cardinality({w \in Workers : worker[w].st \in S})

Ready == {"woken", "deq"}
Ended == {"exit"}

\* The number of threads in some states.
LEMMA ThreadsNat ==
  ASSUME NEW S
  PROVE  /\ Threads(S) \in Nat /\ Threads(S)' \in Nat
         /\ Threads(S) = 0 <=> \A w \in Workers : worker[w].st \notin S
<1> DEFINE A == {w \in Workers : worker[w].st \in S}
           B == {w \in Workers : worker'[w].st \in S}
<1>1. IsFiniteSet(Workers) /\ A \in SUBSET Workers /\ B \in SUBSET Workers
  BY IntakeAssumption
<1>2. IsFiniteSet(A) /\ IsFiniteSet(B)
  BY <1>1, FS_Subset
<1>3. Cardinality(A) \in Nat /\ Cardinality(B) \in Nat /\ (Cardinality(A) = 0 <=> A = {})
  BY <1>2, FS_CardinalityType, FS_EmptySet
<1> QED BY <1>3 DEF Threads

\* One thread goes to another state.
LEMMA ThreadsMove ==
  ASSUME Types, NEW w \in Workers, NEW r \in Thread, worker' = [worker EXCEPT ![w] = r], NEW S
  PROVE  Threads(S)' = Threads(S) + In(r.st, S) - In(worker[w].st, S)
<1>0. worker \in [Workers -> Thread] /\ IsFiniteSet(Workers)
  BY IntakeAssumption DEF Types
<1> DEFINE f == [v \in Workers |-> In(worker[v].st, S)]
           g == [v \in Workers |-> In(worker'[v].st, S)]
<1>1. Threads(S) = Times(f, 1) /\ Threads(S)' = Times(g, 1)
  <2>1. {v \in Workers : worker[v].st \in S} = {v \in DOMAIN f : f[v] = 1}
    BY DEF In
  <2>2. {v \in Workers : worker'[v].st \in S} = {v \in DOMAIN g : g[v] = 1}
    BY DEF In
  <2> QED BY <2>1, <2>2 DEF Threads, Times
<1>2. /\ DOMAIN f = Workers /\ DOMAIN g = Workers /\ g[w] = In(r.st, S)
      /\ \A z \in Workers \ {w} : g[z] = f[z]
  BY <1>0
<1>3. f[w] = In(worker[w].st, S)
  OBVIOUS
<1> HIDE DEF f, g
<1>4. Times(g, 1) = Times(f, 1) + Eq(In(r.st, S), 1) - Eq(f[w], 1)
  BY <1>0, <1>2, TimesExcept
<1>5. Eq(In(r.st, S), 1) = In(r.st, S) /\ Eq(f[w], 1) = In(worker[w].st, S)
  BY <1>3 DEF Eq, In
<1> QED BY <1>1, <1>4, <1>5

\* A signal makes a sleeping thread ready, if there is one.
LEMMA ThreadsSignal ==
  ASSUME Types, signal_non_empty(worker)
  PROVE  /\ Sleeping # {} => Threads(Ready)' = Threads(Ready) + 1
         /\ Threads(Ended)' = Threads(Ended) /\ Exited' = Exited
         /\ Sleeping' # {} => Sleeping # {}
<1>0. worker \in [Workers -> Thread]
  BY DEF Types
<1>1. CASE Sleeping = {}
  <2>1. worker' = worker
    BY <1>1 DEF signal_non_empty
  <2> QED BY <1>1, <2>1 DEF Threads, Exited, Sleeping
<1>2. CASE Sleeping # {}
  <2>1. PICK s \in Sleeping : worker' = [worker EXCEPT ![s] = At("woken")]
    BY <1>2 DEF signal_non_empty
  <2> DEFINE r == At("woken")
  <2>2. r \in Thread /\ r.st = "woken" /\ s \in Workers /\ worker[s].st = "sleep"
    BY ConnsFacts DEF At, Thread, States, Sleeping
  <2>3. In(r.st, Ready) = 1 /\ In("sleep", Ready) = 0 /\ In(r.st, Ended) = 0 /\ In("sleep", Ended) = 0
    BY <2>2 DEF In, Ready, Ended
  <2>4. \A S : Threads(S)' = Threads(S) + In(r.st, S) - In(worker[s].st, S)
    BY <2>1, <2>2, ThreadsMove
  <2>5. Threads(Ready) \in Nat /\ Threads(Ended) \in Nat
    BY ThreadsNat
  <2>6. Exited' = Exited
    BY <1>0, <2>1, <2>2 DEF Exited
  <2> QED BY <1>2, <2>2, <2>3, <2>4, <2>5, <2>6
<1> QED BY <1>1, <1>2

\* The invariants in terms of these counts.
LEMMA QueueCounts ==
  /\ NoLostWakeup <=> (Sleeping # {} => Len(q_) <= Threads(Ready))
  /\ NoLostWakeup' <=> (Sleeping' # {} => Len(q_') <= Threads(Ready)')
  /\ Cardinality(Exited) = Threads(Ended) /\ Cardinality(Exited)' = Threads(Ended)'
  /\ Cardinality(PillsAt) = Times(q_, Pill) /\ Cardinality(PillsAt)' = Times(q_', Pill)
<1>1. Exited = {w \in Workers : worker[w].st \in Ended}
      /\ Exited' = {w \in Workers : worker'[w].st \in Ended}
  BY DEF Exited, Ended
<1> QED BY <1>1 DEF NoLostWakeup, Threads, Ready, PillsAt, Times

\* Threads and queue stay as they are.
LEMMA QueueSame ==
  ASSUME NoLostWakeup, Pills, q_' = q_, worker' = worker, owner'.n = owner.n,
         owner.n # 0 => owner'.st \in {"pills", "done"},
         owner'.st = "done" => owner.n = Cardinality(Workers) /\ Exited = Workers
  PROVE  NoLostWakeup' /\ Pills'
<1>1. Sleeping' = Sleeping /\ Exited' = Exited /\ PillsAt' = PillsAt
  BY DEF Sleeping, Exited, PillsAt
<1>2. NoLostWakeup'
  BY <1>1 DEF NoLostWakeup
<1>3. Pills'
  BY <1>1 DEF Pills
<1> QED BY <1>2, <1>3

\* closeconn strands no thread that waits for a job.
LEMMA QueueClose ==
  ASSUME Types, NoLostWakeup, Pills, NEW c \in Conns, close_conn(c)
  PROVE  NoLostWakeup' /\ Pills'
<1>1. \A w \in Workers : \/ worker'[w].st = worker[w].st
                         \/ worker[w].st \in {"job", "send"} /\ worker'[w].st = "stranded"
  BY CloseStrands
<1>2. q_' = q_ /\ owner'.n = owner.n /\ owner'.st = owner.st
  BY DEF close_conn, Types
<1>3. Sleeping' = Sleeping /\ Exited' = Exited /\ PillsAt' = PillsAt
  BY <1>1, <1>2 DEF Sleeping, Exited, PillsAt
<1>4. {w \in Workers : worker'[w].st \in {"woken", "deq"}} = {w \in Workers : worker[w].st \in {"woken", "deq"}}
  BY <1>1
<1>5. NoLostWakeup'
  BY <1>2, <1>3, <1>4 DEF NoLostWakeup
<1>6. Pills'
  BY <1>2, <1>3 DEF Pills
<1> QED BY <1>5, <1>6

\* A dispatch goes on or ends.
LEMMA QueueDispatch ==
  ASSUME Types, NoLostWakeup, Pills, NEW w \in Workers, NEW r \in Thread,
         worker' = [worker EXCEPT ![w] = r], worker[w].st \in {"job", "run", "send", "end"},
         r.st \in {"run", "send", "end", "deq"}, q_' = q_, owner' = owner
  PROVE  NoLostWakeup' /\ Pills'
<1>0. worker \in [Workers -> Thread] /\ Len(q_) \in Nat
  BY DEF Types
<1>1. Sleeping' = Sleeping /\ Exited' = Exited /\ PillsAt' = PillsAt
  BY <1>0 DEF Sleeping, Exited, PillsAt
<1>2. Threads(Ready)' >= Threads(Ready) /\ Threads(Ready)' \in Nat /\ Threads(Ready) \in Nat
  <2>1. Threads(Ready)' = Threads(Ready) + In(r.st, Ready) - In(worker[w].st, Ready)
    BY ThreadsMove
  <2>2. In(worker[w].st, Ready) = 0 /\ In(r.st, Ready) \in Nat
    BY DEF In, Ready
  <2>3. Threads(Ready) \in Nat
    BY ThreadsNat
  <2> QED BY <2>1, <2>2, <2>3
<1>3. NoLostWakeup'
  BY <1>0, <1>1, <1>2, QueueCounts
<1>4. Pills'
  BY <1>1 DEF Pills
<1> QED BY <1>3, <1>4

\* A worker takes a job, goes to sleep or takes a pill.
LEMMA QueueTakeJob ==
  ASSUME Types, NoLostWakeup, Pills, NEW w \in Workers, takeJob(w)
  PROVE  NoLostWakeup' /\ Pills'
<1>0. worker \in [Workers -> Thread] /\ q_ \in Seq(Conns \cup {Pill}) /\ Len(q_) \in Nat
      /\ worker[w].st \in Ready /\ owner' = owner
  BY DEF Types, takeJob, Ready
<1>n. Threads(Ready) \in Nat /\ Threads(Ended) \in Nat /\ Threads(Ready)' \in Nat
  BY ThreadsNat
<1>1. CASE q_ = <<>>
  <2>1. q_' = q_ /\ worker' = [worker EXCEPT ![w] = At("sleep")]
    BY <1>1 DEF takeJob
  <2>2. Exited' = Exited /\ PillsAt' = PillsAt
    BY <1>0, <2>1 DEF Exited, PillsAt, At, Ready
  <2>3. Len(q_') = 0
    BY <1>1, <2>1
  <2>4. NoLostWakeup'
    BY <1>n, <2>3, QueueCounts
  <2>5. Pills'
    BY <1>0, <2>1, <2>2 DEF Pills
  <2> QED BY <2>4, <2>5
<1>2. CASE q_ # <<>>
  <2> DEFINE r == IF Head(q_) = Pill THEN At("exit") ELSE [st |-> "job", c |-> Head(q_)]
  <2>1. Head(q_) \in Conns \cup {Pill} /\ Head(q_) \in 0 .. MaxConns
    BY <1>0, <1>2, ConnsFacts DEF Conns, Pill
  <2>2. r \in Thread /\ r.st = IF Head(q_) = Pill THEN "exit" ELSE "job"
    BY <2>1 DEF At, Thread, States, Pill
  <2>3. worker' = [worker EXCEPT ![w] = r] /\ q_' = Tail(q_)
    BY <1>2 DEF takeJob
  <2> HIDE DEF r
  <2>4. /\ Len(q_') = Len(q_) - 1 /\ Len(q_) > 0 /\ DOMAIN q_' = 1 .. Len(q_) - 1
        /\ DOMAIN q_ = 1 .. Len(q_) /\ q_[1] = Head(q_)
        /\ \A k \in DOMAIN q_' : q_'[k] = q_[k + 1]
    BY <1>0, <1>2, <2>3
  <2>5. \A S : Threads(S)' = Threads(S) + In(r.st, S) - In(worker[w].st, S)
    BY <2>2, <2>3, ThreadsMove
  <2>6. Sleeping' = Sleeping
    BY <1>0, <2>2, <2>3 DEF Sleeping, Ready
  <2>7. Threads(Ready)' = Threads(Ready) - 1
    <3>1. In(r.st, Ready) = 0 /\ In(worker[w].st, Ready) = 1
      BY <1>0, <2>2 DEF In, Ready
    <3> QED BY <1>n, <2>5, <3>1
  <2>8. NoLostWakeup'
    BY <1>0, <1>n, <2>4, <2>6, <2>7, QueueCounts
  <2>9. owner.st # "done"
    BY <1>0 DEF Pills, Exited, Ready
  <2>10. \A a, b \in DOMAIN q_' : a < b /\ q_'[a] = Pill => q_'[b] = Pill
    <3> SUFFICES ASSUME NEW a \in DOMAIN q_', NEW b \in DOMAIN q_', a < b, q_'[a] = Pill
                 PROVE  q_'[b] = Pill
      OBVIOUS
    <3>1. a + 1 \in DOMAIN q_ /\ b + 1 \in DOMAIN q_ /\ a + 1 < b + 1 /\ q_[a + 1] = Pill
      BY <1>0, <2>4
    <3> QED BY <2>4, <3>1 DEF Pills
  <2>11. Times(q_', Pill) = Times(q_, Pill) - Eq(Head(q_), Pill) /\ Times(q_, Pill) \in Nat
    BY <1>0, <1>2, <2>3, TimesTail, HoldsNat
  <2>12. Threads(Ended) + Times(q_, Pill) = owner.n
    BY QueueCounts DEF Pills
  <2>13. CASE Head(q_) = Pill
    <3>1. PillsAt' = DOMAIN q_'
      <4>1. \A k \in DOMAIN q_' : k + 1 \in DOMAIN q_ /\ 1 \in DOMAIN q_ /\ 1 < k + 1
        BY <1>0, <2>4
      <4>2. \A k \in DOMAIN q_' : q_'[k] = Pill
        BY <2>4, <2>13, <4>1 DEF Pills
      <4> QED BY <4>2 DEF PillsAt
    <3>2. Threads(Ended)' = Threads(Ended) + 1
      <4>1. In(r.st, Ended) = 1 /\ In(worker[w].st, Ended) = 0
        BY <1>0, <2>2, <2>13 DEF In, Ready, Ended
      <4> QED BY <1>n, <2>5, <4>1
    <3>3. Eq(Head(q_), Pill) = 1
      BY <2>13 DEF Eq
    <3>4. Threads(Ended)' + Times(q_', Pill) = owner'.n
      BY <1>0, <1>n, <2>11, <2>12, <3>2, <3>3
    <3>5. Cardinality(Exited)' + Cardinality(PillsAt)' = owner'.n
      BY <3>4, QueueCounts
    <3>6. Pills'
      BY <1>0, <2>9, <2>10, <3>1, <3>5 DEF Pills
    <3> QED BY <2>8, <3>6
  <2>14. CASE Head(q_) # Pill
    <3>1. Exited' = Exited
      BY <1>0, <2>2, <2>3, <2>14 DEF Exited, Ready
    <3>2. Exited = {}
      <4>1. 1 \in DOMAIN q_
        BY <1>0, <2>4
      <4> QED BY <2>4, <2>14, <4>1 DEF Pills, PillsAt
    <3>3. Eq(Head(q_), Pill) = 0
      BY <2>14 DEF Eq
    <3>4. Threads(Ended)' = Threads(Ended)
      BY <3>1, QueueCounts
    <3>5. Threads(Ended)' + Times(q_', Pill) = owner'.n
      BY <1>0, <2>11, <2>12, <3>3, <3>4
    <3>6. Cardinality(Exited)' + Cardinality(PillsAt)' = owner'.n
      BY <3>5, QueueCounts
    <3>7. Pills'
      BY <1>0, <2>9, <2>10, <3>1, <3>2, <3>6 DEF Pills
    <3> QED BY <2>8, <3>7
  <2> QED BY <2>13, <2>14
<1> QED BY <1>1, <1>2

\* fifo::enq wakes a thread for the new job.
LEMMA QueueEnq ==
  ASSUME Types, NoLostWakeup, NEW j \in Conns \cup {Pill}, enq(j)
  PROVE  /\ NoLostWakeup' /\ Exited' = Exited
         /\ Cardinality(Exited)' = Cardinality(Exited)
         /\ Cardinality(PillsAt)' = Cardinality(PillsAt) + Eq(j, Pill)
         /\ DOMAIN q_' = DOMAIN q_ \cup {Len(q_) + 1} /\ q_'[Len(q_) + 1] = j
         /\ \A k \in DOMAIN q_ : k \in 1 .. Len(q_) /\ q_'[k] = q_[k]
<1>0. q_' = Append(q_, j) /\ signal_non_empty(worker) /\ q_ \in Seq(Conns \cup {Pill}) /\ Len(q_) \in Nat
  BY DEF enq, Types
<1>1. /\ Sleeping # {} => Threads(Ready)' = Threads(Ready) + 1
      /\ Threads(Ended)' = Threads(Ended) /\ Exited' = Exited
      /\ Sleeping' # {} => Sleeping # {}
  BY <1>0, ThreadsSignal
<1>2. Threads(Ready) \in Nat
  BY ThreadsNat
<1>3. Len(q_') = Len(q_) + 1
  BY <1>0
<1>4. NoLostWakeup'
  BY <1>0, <1>1, <1>2, <1>3, QueueCounts
<1>5. Times(q_', Pill) = Times(q_, Pill) + Eq(j, Pill)
  BY <1>0, TimesAppend
<1>6. /\ DOMAIN q_' = DOMAIN q_ \cup {Len(q_) + 1} /\ q_'[Len(q_) + 1] = j
      /\ \A k \in DOMAIN q_ : k \in 1 .. Len(q_) /\ q_'[k] = q_[k]
  BY <1>0
<1> QED BY <1>1, <1>4, <1>5, <1>6, QueueCounts

\* got_pdu comes before the pills: while a connection is alive there are none.
LEMMA QueueReadCb ==
  ASSUME Struct, NoLostWakeup, Pills, NEW c \in Conns, read_cb_offers(c)
  PROVE  NoLostWakeup' /\ Pills'
<1>0. Types /\ Known /\ Listener /\ Deletion /\ Len(q_) \in Nat /\ owner.n \in Nat /\ owner' = owner
  BY DEF Struct, Types, read_cb_offers
<1>1. owner.st \notin {"pills", "done"}
  <2>1. c \in Made /\ c \notin dead_ /\ c # 0
    BY ConnsFacts DEF read_cb_offers
  <2> QED BY <1>0, <2>1 DEF Listener, Deletion
<1>2. owner.n = 0 /\ Exited = {} /\ PillsAt = {}
  <2>1. owner.n = 0 /\ Cardinality(Exited) + Cardinality(PillsAt) = 0
    BY <1>1 DEF Pills
  <2>2. Threads(Ended) \in Nat /\ (Threads(Ended) = 0 <=> \A w \in Workers : worker[w].st \notin Ended)
    BY ThreadsNat
  <2>3. Times(q_, Pill) \in Nat /\ (Times(q_, Pill) = 0 <=> \A k \in DOMAIN q_ : q_[k] # Pill)
    <3>1. IsFiniteSet(DOMAIN q_)
      BY <1>0, SeqFinite DEF Types
    <3> QED BY <3>1, TimesNat
  <2>4. Threads(Ended) = 0 /\ Times(q_, Pill) = 0
    BY <2>1, <2>2, <2>3, QueueCounts
  <2> QED BY <2>1, <2>2, <2>3, <2>4 DEF Exited, PillsAt, Ended
<1>3. CASE HasSpace
  <2>1. enq(c)
    BY <1>3 DEF read_cb_offers
  <2>2. /\ NoLostWakeup' /\ Exited' = Exited
        /\ Cardinality(Exited)' = Cardinality(Exited)
        /\ Cardinality(PillsAt)' = Cardinality(PillsAt) + Eq(c, Pill)
        /\ DOMAIN q_' = DOMAIN q_ \cup {Len(q_) + 1} /\ q_'[Len(q_) + 1] = c
        /\ \A k \in DOMAIN q_ : k \in 1 .. Len(q_) /\ q_'[k] = q_[k]
    BY <1>0, <2>1, QueueEnq
  <2>3. Eq(c, Pill) = 0 /\ c # Pill
    BY ConnsFacts DEF Eq, Pill
  <2>4. \A k \in DOMAIN q_' : q_'[k] # Pill
    BY <1>2, <2>2, <2>3 DEF PillsAt
  <2>5. Cardinality(Exited) = 0 /\ Cardinality(PillsAt) = 0
    BY <1>2, FS_EmptySet
  <2>6. Cardinality(Exited)' + Cardinality(PillsAt)' = owner'.n
    BY <1>0, <1>2, <2>2, <2>3, <2>5
  <2>7. Pills'
    BY <1>0, <1>1, <1>2, <2>2, <2>4, <2>6 DEF Pills
  <2> QED BY <2>2, <2>7
<1>4. CASE ~HasSpace
  <2>1. q_' = q_ /\ worker' = worker
    BY <1>4 DEF read_cb_offers
  <2> QED BY <1>0, <1>1, <1>2, <2>1, QueueSame
<1> QED BY <1>3, <1>4

\* ~ThrPool queues a pill, behind everything else.
LEMMA QueuePill ==
  ASSUME Struct, NoLostWakeup, Pills, enq_pill
  PROVE  NoLostWakeup' /\ Pills'
<1>0. Types /\ Len(q_) \in Nat /\ owner.n \in Nat
      /\ owner \in [st : {"running", "join", "pills", "done"}, n : Nat, c : 0 .. MaxConns]
  BY DEF Struct, Types
<1>1. owner'.st = "pills"
  BY <1>0 DEF enq_pill
<1>2. CASE HasSpace
  <2>1. enq(Pill) /\ owner'.n = owner.n + 1
    BY <1>0, <1>2 DEF enq_pill
  <2>2. /\ NoLostWakeup' /\ Exited' = Exited
        /\ Cardinality(Exited)' = Cardinality(Exited)
        /\ Cardinality(PillsAt)' = Cardinality(PillsAt) + Eq(Pill, Pill)
        /\ DOMAIN q_' = DOMAIN q_ \cup {Len(q_) + 1} /\ q_'[Len(q_) + 1] = Pill
        /\ \A k \in DOMAIN q_ : k \in 1 .. Len(q_) /\ q_'[k] = q_[k]
    BY <1>0, <2>1, QueueEnq
  <2>3. Eq(Pill, Pill) = 1
    BY DEF Eq
  <2>4. Cardinality(Exited) \in Nat /\ Cardinality(PillsAt) \in Nat
    <3>1. Threads(Ended) \in Nat
      BY ThreadsNat
    <3>2. Times(q_, Pill) \in Nat
      BY <1>0, HoldsNat
    <3> QED BY <3>1, <3>2, QueueCounts
  <2>5. Cardinality(Exited)' + Cardinality(PillsAt)' = owner'.n
    BY <1>0, <2>1, <2>2, <2>3, <2>4 DEF Pills
  <2>6. Exited' # {} => PillsAt' = DOMAIN q_'
    BY <2>2 DEF Pills, PillsAt
  <2>7. \A a, b \in DOMAIN q_' : a < b /\ q_'[a] = Pill => q_'[b] = Pill
    <3> SUFFICES ASSUME NEW a \in DOMAIN q_', NEW b \in DOMAIN q_', a < b, q_'[a] = Pill, b # Len(q_) + 1
                 PROVE  q_'[b] = Pill
      BY <2>2
    <3>1. b \in DOMAIN q_ /\ a # Len(q_) + 1
      BY <1>0, <2>2
    <3> QED BY <2>2, <3>1 DEF Pills
  <2>8. Pills'
    BY <1>1, <2>5, <2>6, <2>7 DEF Pills
  <2> QED BY <2>2, <2>8
<1>3. CASE ~HasSpace
  <2>1. q_' = q_ /\ worker' = worker /\ owner'.n = owner.n
    BY <1>0, <1>3 DEF enq_pill
  <2> QED BY <1>1, <2>1, QueueSame
<1> QED BY <1>2, <1>3

\* Every step keeps the queue in order, and loses no wakeup.
LEMMA QueueStep ==
  ASSUME Struct, NoLostWakeup, Pills, [Next]_vars
  PROVE  NoLostWakeup' /\ Pills'
<1>0. Types /\ worker \in [Workers -> Thread]
      /\ owner \in [st : {"running", "join", "pills", "done"}, n : Nat, c : 0 .. MaxConns]
  BY DEF Struct, Types
<1>s. /\ owner.n # 0 => owner.st \in {"pills", "done"}
      /\ owner.st = "done" => owner.n = Cardinality(Workers) /\ Exited = Workers
  BY DEF Pills
<1>1. ASSUME NEW w \in Workers, Worker(w) PROVE NoLostWakeup' /\ Pills'
  <2>1. CASE takeJob(w)
    BY <1>0, <2>1, QueueTakeJob
  <2>2. CASE dispatch_returns(w) \/ dispatch_end(w)
    <3>1. /\ At("deq") \in Thread /\ At("deq").st = "deq" /\ worker' = [worker EXCEPT ![w] = At("deq")]
          /\ worker[w].st \in {"job", "run", "send", "end"} /\ q_' = q_ /\ owner' = owner
      BY <2>2, ConnsFacts DEF dispatch_returns, dispatch_end, At, Thread, States
    <3> QED BY <1>0, <3>1, QueueDispatch
  <2>3. CASE dispatch(w) \/ dispatch_latest(w) \/ dispatch_send(w)
    <3>1. q_' = q_ /\ owner' = owner /\ worker[w].st \in {"job", "run", "send", "end"}
      BY <2>3 DEF dispatch, dispatch_latest, dispatch_send
    <3>2. ASSUME NEW st \in {"run", "send", "end"}, worker' = [worker EXCEPT ![w].st = st]
          PROVE  NoLostWakeup' /\ Pills'
      <4>1. [worker[w] EXCEPT !.st = st] = [st |-> st, c |-> worker[w].c]
            /\ [st |-> st, c |-> worker[w].c] \in Thread
        BY <1>0, ThreadState DEF States
      <4>2. worker' = [worker EXCEPT ![w] = [st |-> st, c |-> worker[w].c]]
        BY <3>2, <4>1
      <4> DEFINE r == [st |-> st, c |-> worker[w].c]
      <4>3. r \in Thread /\ r.st \in {"run", "send", "end", "deq"} /\ worker' = [worker EXCEPT ![w] = r]
        BY <4>1, <4>2
      <4> HIDE DEF r
      <4> QED BY <1>0, <3>1, <4>3, QueueDispatch
    <3>3. CASE dispatch_latest(w)
      <4> DEFINE d == latest[clt[worker[w].c]]
      <4>1. CASE worker' = worker
        BY <1>s, <3>1, <4>1, QueueSame
      <4>2. CASE worker' = [worker EXCEPT ![w].st = "send"]
        BY <3>2, <4>2
      <4>3. CASE /\ worker[w].c \in dead_ /\ clt[worker[w].c] # 0
                 /\ worker' = [worker EXCEPT ![w].st = "send", ![w].c = d]
        <5> DEFINE r == [st |-> "send", c |-> d]
        <5>1. d \in Made /\ Made \subseteq Conns
          BY <1>0, <3>3, <4>3, LatestIsMade, ConnsFacts DEF dispatch_latest
        <5>2. d \in 0 .. MaxConns
          <6>1. d \in Conns
            BY <5>1
          <6> QED BY <6>1 DEF Conns
        <5>3. r \in Thread /\ r.st = "send"
          BY <5>2 DEF Thread, States
        <5>4. worker' = [worker EXCEPT ![w] = r]
          BY <1>0, <4>3, ThreadSends
        <5> HIDE DEF r
        <5> QED BY <1>0, <3>1, <5>3, <5>4, QueueDispatch
      <4> QED BY <3>3, <4>1, <4>2, <4>3 DEF dispatch_latest
    <3>4. CASE dispatch(w)
      BY <3>2, <3>4 DEF dispatch
    <3>5. CASE dispatch_send(w)
      BY <3>2, <3>5 DEF dispatch_send
    <3> QED BY <2>3, <3>3, <3>4, <3>5
  <2> QED BY <1>1, <2>1, <2>2, <2>3 DEF Worker
<1>2. ASSUME NEW c \in Conns, read_cb_offers(c) PROVE NoLostWakeup' /\ Pills'
  BY <1>2, QueueReadCb
<1>3. CASE enq_pill
  BY <1>3, QueuePill
<1>4. CASE delete_rpcs \/ close_decref \/ join_workers
  <2>1. q_' = q_ /\ worker' = worker
    BY <1>4 DEF delete_rpcs, close_decref, join_workers, poolVars
  <2>2. owner'.n = owner.n
    BY <1>0, <1>4 DEF delete_rpcs, close_decref, join_workers
  <2>3. owner.n # 0 => owner'.st \in {"pills", "done"}
    BY <1>0, <1>4, <1>s DEF delete_rpcs, close_decref, join_workers
  <2>4. owner'.st = "done" => owner.n = Cardinality(Workers) /\ Exited = Workers
    <3>1. CASE join_workers
      BY <3>1 DEF join_workers, Exited
    <3>2. CASE ~join_workers
      <4>1. owner'.st = owner.st \/ owner'.st = "join"
        BY <1>0, <1>4, <3>2 DEF delete_rpcs, close_decref
      <4> QED BY <1>s, <4>1
    <3> QED BY <3>1, <3>2
  <2> QED BY <2>1, <2>2, <2>3, <2>4, QueueSame
<1>5. CASE UNCHANGED <<q_, worker, owner>>
  BY <1>5, <1>s, QueueSame
<1>6. ASSUME NEW c \in Conns, read_cb_dies(c) \/ client_sends(c) \/ client_leaves(c)
      PROVE  NoLostWakeup' /\ Pills'
  BY <1>5, <1>6 DEF read_cb_dies, client_sends, client_leaves, clientOnly, poolVars
<1>7. CASE process_accept \/ Accept
  BY <1>5, <1>7 DEF process_accept, Accept, gc_check, gc_drop, process_accept_end, accept_exit, acceptOnly, poolVars
<1>8. CASE UNCHANGED vars
  BY <1>5, <1>8 DEF vars, poolVars
<1>9. ASSUME NEW c \in Conns, close_conn(c) PROVE NoLostWakeup' /\ Pills'
  BY <1>0, <1>9, QueueClose
<1> QED BY <1>1, <1>2, <1>3, <1>4, <1>6, <1>7, <1>8, <1>9 DEF Next, Read, Delete

-----------------------------------------------------------------------------
(* The theorems.                                                           *)

\* The inductive invariant holds at first.
LEMMA IInvInit == Init => IInv
<1> SUFFICES ASSUME Init PROVE IInv
  OBVIOUS
<1>1. Struct
  BY StructInit
<1>2. q_ = <<>> /\ \A w \in Workers : worker[w].st = "deq"
  BY DEF Init, At
<1>3. Cardinality({}) = 0
  BY FS_EmptySet
<1>4. Exited = {} /\ PillsAt = {} /\ Sleeping = {}
  BY <1>2 DEF Exited, PillsAt, Sleeping
<1>5. NoLostWakeup /\ Pills
  BY <1>2, <1>3, <1>4 DEF NoLostWakeup, Pills, Init
<1>6. Refs
  <2> SUFFICES ASSUME NEW c \in Conns
               PROVE  /\ refno_[c] = Holds(c) + leaked[c]
                      /\ c \in Made => (c \in freed <=> refno_[c] = 0)
    BY DEF Refs
  <2>1. c # 0 /\ c \notin Made
    BY ConnsFacts DEF Init, Made
  <2>2. /\ {i \in Clients : latest[i] = c} = {} /\ {k \in DOMAIN q_ : q_[k] = c} = {}
        /\ {w \in Workers : Busy(w) /\ worker[w].c = c} = {}
    BY <1>2, <2>1 DEF Init, Busy
  <2>3. ~(c \in listed \/ accept_.ch = c)
    BY <2>1 DEF Init
  <2>4. Holds(c) = 0
    <3>1. /\ Cardinality({i \in Clients : latest[i] = c}) = 0
          /\ Cardinality({k \in DOMAIN q_ : q_[k] = c}) = 0
          /\ Cardinality({w \in Workers : Busy(w) /\ worker[w].c = c}) = 0
      BY <1>3, <2>2
    <3>2. (IF c \in listed \/ accept_.ch = c THEN 1 ELSE 0) = 0
      BY <2>3
    <3> QED BY <3>1, <3>2 DEF Holds
  <2> QED BY <2>1, <2>4 DEF Init
<1> QED BY <1>1, <1>5, <1>6 DEF IInv

\* Every step keeps it.
LEMMA IInvStep == IInv /\ [Next]_vars => IInv'
<1> SUFFICES ASSUME IInv, [Next]_vars PROVE IInv'
  OBVIOUS
<1>1. Struct /\ Refs /\ NoLostWakeup /\ Pills
  BY DEF IInv
<1>2. Struct'
  BY <1>1, StructStep
<1>3. Refs'
  BY <1>1, <1>2, RefsStep
<1>4. NoLostWakeup' /\ Pills'
  BY <1>1, QueueStep
<1> QED BY <1>2, <1>3, <1>4 DEF IInv

\* It implies that references add up.
LEMMA IInvRefs == IInv => RefsCounted
<1> SUFFICES ASSUME IInv PROVE RefsCounted
  OBVIOUS
<1>0. Types /\ Listener /\ Refs /\ Made \subseteq Conns
  BY ConnsFacts DEF IInv, Struct
<1>1. Counts
  BY <1>0 DEF Counts, Refs
<1>2. LiveIsReferenced
  <2> SUFFICES ASSUME NEW c \in Made, c \notin dead_ PROVE refno_[c] > 0 /\ c \notin freed
    BY DEF LiveIsReferenced
  <2>1. c \in Conns /\ leaked[c] \in Nat /\ Kept(c) = 1
    BY <1>0 DEF Listener, Kept, Types
  <2>2. Times(latest, c) \in Nat /\ Times(q_, c) \in Nat /\ Times(WRef, c) \in Nat
    BY <1>0, HoldsNat
  <2>3. Holds(c) = Kept(c) + Times(latest, c) + Times(q_, c) + Times(WRef, c)
    <3>1. {w \in Workers : Busy(w) /\ worker[w].c = c} = {w \in DOMAIN WRef : WRef[w] = c}
      BY <2>1, ConnsFacts DEF WRef, Refers, Busy
    <3>2. DOMAIN latest = Clients
      BY <1>0 DEF Types
    <3> QED BY <3>1, <3>2 DEF Holds, Times, Kept
  <2>4. refno_[c] = Holds(c) + leaked[c] /\ (c \in freed <=> refno_[c] = 0)
    BY <1>0, <2>1 DEF Refs
  <2> QED BY <2>1, <2>2, <2>3, <2>4
<1> QED BY <1>1, <1>2 DEF RefsCounted

\* And that the queue is in order.
LEMMA IInvQueue == IInv => QueueInOrder
<1> SUFFICES ASSUME IInv PROVE QueueInOrder
  OBVIOUS
<1>0. Types /\ Known /\ Refs /\ Pills /\ NoLostWakeup /\ Made \subseteq Conns
  BY ConnsFacts DEF IInv, Struct
<1>1. TypeOK
  <2>1. refno_ \in [Conns -> Nat]
    <3> SUFFICES ASSUME NEW c \in Conns PROVE refno_[c] \in Nat
      BY <1>0 DEF Types
    <3>1. Kept(c) \in Nat /\ Times(latest, c) \in Nat /\ Times(q_, c) \in Nat /\ Times(WRef, c) \in Nat
          /\ leaked[c] \in Nat
      BY <1>0, HoldsNat DEF Types
    <3>2. Holds(c) = Kept(c) + Times(latest, c) + Times(q_, c) + Times(WRef, c)
      <4>1. {w \in Workers : Busy(w) /\ worker[w].c = c} = {w \in DOMAIN WRef : WRef[w] = c}
        BY ConnsFacts DEF WRef, Refers, Busy
      <4>2. DOMAIN latest = Clients
        BY <1>0 DEF Types
      <4> QED BY <4>1, <4>2 DEF Holds, Times, Kept
    <3>3. refno_[c] = Holds(c) + leaked[c]
      BY <1>0 DEF Refs
    <3> QED BY <3>1, <3>2, <3>3
  <2>2. \A w \in Workers :
          /\ worker[w].st \in {"deq", "sleep", "woken", "job", "run", "send", "stranded",
                               "end", "exit"}
          /\ Busy(w) => worker[w].c \in Conns
    BY <1>0 DEF Types, Known, Busy, Thread, States
  <2>3. {dead_, freed, eof, held, listed} \subseteq SUBSET Conns
    BY <1>0 DEF Types, Known
  <2> QED BY <1>0, <2>1, <2>2, <2>3 DEF Types, TypeOK
<1>2. PillsAreLast
  <2>1. ASSUME owner.st = "done" PROVE q_ = <<>>
    <3>1. Exited = Workers /\ Workers # {} /\ PillsAt = DOMAIN q_
      BY <1>0, <2>1, IntakeAssumption DEF Pills
    <3>2. Cardinality(PillsAt) = 0
      <4>1. Cardinality(Workers) + Cardinality(PillsAt) = Cardinality(Workers)
        BY <1>0, <2>1, <3>1 DEF Pills
      <4>2. Cardinality(Workers) \in Nat
        BY IntakeAssumption, FS_CardinalityType
      <4>3. Cardinality(PillsAt) \in Nat
        BY <1>0, HoldsNat, QueueCounts
      <4> QED BY <4>1, <4>2, <4>3
    <3>3. IsFiniteSet(DOMAIN q_)
      BY <1>0, SeqFinite DEF Types
    <3>4. DOMAIN q_ = {}
      BY <3>1, <3>2, <3>3, FS_EmptySet
    <3>5. q_ \in Seq(Conns \cup {Pill})
      BY <1>0 DEF Types
    <3> QED BY <3>4, <3>5
  <2> QED BY <1>0, <2>1 DEF PillsAreLast, Pills
<1> QED BY <1>0, <1>1, <1>2 DEF QueueInOrder

\* The references of got_pdu, dispatch, the listener and conns_ add up: a
\* connection's count is the number of its holders and of the references
\* dispatch leaks, it is deleted exactly when that is zero, and never while
\* it is alive; for any number of threads, clients and connections.
THEOREM ReferencesAddUp == Spec => []RefsCounted
<1>1. Init => IInv
  BY IInvInit
<1>2. IInv /\ [Next]_vars => IInv'
  BY IInvStep
<1>3. IInv => RefsCounted
  BY IInvRefs
<1> QED BY <1>1, <1>2, <1>3, PTL DEF Spec

\* The fifo of the pool loses no wakeup, and ~rpcs puts its pills behind
\* every job: when the pool is deleted nothing is left in the queue.
THEOREM QueueStaysInOrder == Spec => []QueueInOrder
<1>1. Init => IInv
  BY IInvInit
<1>2. IInv /\ [Next]_vars => IInv'
  BY IInvStep
<1>3. IInv => QueueInOrder
  BY IInvQueue
<1> QED BY <1>1, <1>2, <1>3, PTL DEF Spec
=============================================================================
