------------------------- MODULE ExtentServerProofs -------------------------
(***************************************************************************)
(* ExtentServer's type invariant, the agreement of attrs with contents and *)
(* the stability of keys, for any number of threads, users and extents.    *)
(***************************************************************************)
EXTENDS ExtentServer, TLAPS

\* What the fields of each kind of request range over.
LEMMA RequestFields ==
  ASSUME NEW r \in Calls
  PROVE  /\ r.op = "put" => r.id \in Ids /\ r.buf \in Bufs
         /\ r.op = "setattr" => /\ r.id \in Ids /\ r.mode \in SUBSET AllBits
                                /\ r.uid \in Users /\ r.gid \in Gids
         /\ r.op \in {"groupadd", "groupdel", "useradd", "userdel"} => r.gid \in Gids
         /\ r.op \in {"useradd", "userdel"} => r.uid \in Users
         /\ r.who.user \in Users /\ r.who.key \in Keys
<1>1. r \in Request
  BY CallsAssumption
<1>2. QED
  BY <1>1, ModesAssumption DEF Request, Cred

\* The maps stay maps when an element is set, created or erased.
LEMMA MapOps ==
  ASSUME NEW f, NEW A, NEW B, IsMap(f, A, B), NEW k
  PROVE  /\ \A v \in B : k \in A => IsMap(With(f, k, v), A, B)
         /\ \A v \in B : k \in A => IsMap(Indexed(f, k, v), A, B)
         /\ IsMap(Without(f, k), A, B)
  BY DEF IsMap, With, Indexed, Without

\* A request at hand has an operation, so it is one of Calls.
LEMMA AtCalls ==
  ASSUME ThreadTypes, NEW t \in Threads, NEW p, NEW ops, At(t, p, ops),
         "none" \notin ops
  PROVE  rq[t] \in Calls
  BY DEF ThreadTypes, At, NoCall

-----------------------------------------------------------------------------
(* Types.                                                                  *)

\* The types hold at the start.
LEMMA InitTypes == Init => TypeOK
<1> SUFFICES ASSUME Init PROVE TypeOK
  OBVIOUS
<1>1. ExtentTypes
  BY RootAssumption, DataAssumption DEF Init, ExtentTypes, IsMap, Attr
<1>2. AccountTypes
  BY DEF Init, AccountTypes, IsMap
<1>3. ThreadTypes
  BY CallsAssumption DEF Init, ThreadTypes, Phases
<1>4. QED
  BY <1>1, <1>2, <1>3 DEF TypeOK

\* A step that only moves a thread, locks or unlocks keeps the threads typed.
LEMMA ThreadStep ==
  ASSUME ThreadTypes, NEW t \in Threads, handled' = handled,
         Return(t) \/ \E p \in Phases : Goto(t, p),
         mutex' \in {mutex, mutex \ {t}} \/ (mutex = {} /\ mutex' = mutex \cup {t})
  PROVE  ThreadTypes'
<1>1. mutex' \in {{}} \cup {{s} : s \in Threads}
  BY DEF ThreadTypes
<1>2. pc' \in [Threads -> Phases] /\ rq' \in [Threads -> Calls \cup {NoCall}]
  BY DEF ThreadTypes, Return, Goto, Phases
<1>3. QED
  BY <1>1, <1>2 DEF ThreadTypes

\* A request that begins keeps the types.
LEMMA BeginTypes ==
  ASSUME TypeOK, NEW t \in Threads, NEW r \in Calls, begin(t, r)
  PROVE  TypeOK'
<1>1. ExtentTypes' /\ AccountTypes'
  BY DEF TypeOK, begin, extents, accounts, ExtentTypes, AccountTypes
<1>2. ThreadTypes'
  BY CallsAssumption DEF TypeOK, begin, ThreadTypes, Phases
<1>3. QED
  BY <1>1, <1>2 DEF TypeOK

\* authenticate leaves a map from users to keys.
LEMMA AuthenticateTypes ==
  ASSUME AccountTypes, NEW w, w.user \in Users, authenticate(w)
  PROVE  IsMap(userkeys', Users, Keys \cup {NoKey})
  BY MapOps DEF AccountTypes, authenticate

\* A handler's check of the key keeps the types.
LEMMA EnterTypes == ASSUME TypeOK, NEW t \in Threads, enter(t) PROVE TypeOK'
<1>1. rq[t] \in Calls
  BY AtCalls DEF TypeOK, enter, Locked
<1>2. IsMap(userkeys', Users, Keys \cup {NoKey})
  BY <1>1, RequestFields, AuthenticateTypes DEF TypeOK, enter
<1>3. ExtentTypes' /\ AccountTypes'
  BY <1>2 DEF TypeOK, enter, extents, ExtentTypes, AccountTypes
<1>4. ThreadTypes'
  BY ThreadStep DEF TypeOK, enter, Phases
<1>5. QED
  BY <1>3, <1>4 DEF TypeOK

\* The check of a permission, and the return, keep all types but the
\* extents'.
LEMMA LeaveTypes ==
  ASSUME TypeOK, NEW t \in Threads, NEW x, Leave(t, x)
  PROVE  AccountTypes' /\ ThreadTypes'
<1> DEFINE i == rq[t].id
<1>1. IsMap(groupusers', Gids, SUBSET Users)
  <2>1. CASE GrantedToUser(i, rq[t].who.user, x)
    BY <2>1 DEF TypeOK, Leave, CheckGroup, AccountTypes
  <2>2. CASE ~GrantedToUser(i, rq[t].who.user, x)
    <3>1. attrs[i].gid \in Gids
      BY <2>2 DEF GrantedToUser, TypeOK, ExtentTypes, IsMap, Attr
    <3>2. IsMap(Indexed(groupusers, attrs[i].gid, {}), Gids, SUBSET Users)
      BY <3>1, MapOps DEF TypeOK, AccountTypes
    <3>3. QED
      BY <2>2, <3>2 DEF Leave, CheckGroup
  <2>3. QED
    BY <2>1, <2>2
<1>2. AccountTypes'
  BY <1>1 DEF TypeOK, Leave, AccountTypes
<1>3. ThreadTypes'
  BY ThreadStep DEF TypeOK, Leave
<1>4. QED
  BY <1>2, <1>3

-----------------------------------------------------------------------------
(* Extents: types, and the agreement of the two maps.                      *)

IInv == TypeOK /\ AttrsContentsAgree

\* Setting the same key of both maps, with the right size, keeps them in
\* agreement.
LEMMA WithAgrees ==
  ASSUME AttrsContentsAgree, NEW i, NEW a, NEW b, a.size = Len(b),
         attrs' = With(attrs, i, a), contents' = With(contents, i, b)
  PROVE  AttrsContentsAgree'
  BY DEF AttrsContentsAgree, With

\* put keeps the two maps in step.
LEMMA PutStep == ASSUME IInv, NEW t \in Threads, put(t) PROVE IInv'
<1> DEFINE i == rq[t].id
           b == rq[t].buf
<1>1. AccountTypes' /\ ThreadTypes'
  BY LeaveTypes DEF IInv, put
<1>2. i \in Ids /\ b \in Bufs /\ Len(b) \in Nat
  BY AtCalls, RequestFields, DataAssumption DEF IInv, TypeOK, put, At
<1>3. CASE ~Permitted(t, "w")
  BY <1>1, <1>3 DEF IInv, TypeOK, put, extents, ExtentTypes, AttrsContentsAgree
<1>4. CASE Permitted(t, "w")
  <2>1. PICK u \in Users, g \in Gids :
          attrs' = With(attrs, i,
                     IF i \in DOMAIN attrs THEN [attrs[i] EXCEPT !.size = Len(b)]
                     ELSE [size |-> Len(b), mode |-> AllBits, uid |-> u, gid |-> g])
    BY <1>4 DEF put
  <2> DEFINE a == IF i \in DOMAIN attrs THEN [attrs[i] EXCEPT !.size = Len(b)]
                  ELSE [size |-> Len(b), mode |-> AllBits, uid |-> u, gid |-> g]
  <2>2. a \in Attr /\ a.size = Len(b)
    BY <1>2 DEF IInv, TypeOK, ExtentTypes, IsMap, Attr
  <2>3. attrs' = With(attrs, i, a) /\ contents' = With(contents, i, b)
    BY <1>4, <2>1 DEF put
  <2> HIDE DEF a, i, b
  <2>4. ExtentTypes'
    BY <1>2, <2>2, <2>3, MapOps DEF IInv, TypeOK, ExtentTypes
  <2>5. AttrsContentsAgree'
    BY <2>2, <2>3, WithAgrees DEF IInv
  <2>6. QED
    BY <1>1, <2>4, <2>5 DEF IInv, TypeOK
<1>5. QED
  BY <1>3, <1>4

\* setattr keeps the two maps in step.
LEMMA SetattrStep == ASSUME IInv, NEW t \in Threads, setattr(t) PROVE IInv'
<1> DEFINE i == rq[t].id
<1>1. AccountTypes' /\ ThreadTypes'
  BY LeaveTypes DEF IInv, setattr
<1>2. /\ i \in Ids /\ rq[t].mode \in SUBSET AllBits
      /\ rq[t].uid \in Users /\ rq[t].gid \in Gids
  <2>1. rq[t] \in Calls
    BY AtCalls DEF IInv, TypeOK, setattr
  <2>2. rq[t].op = "setattr"
    BY DEF setattr, At
  <2>3. QED
    BY <2>1, <2>2, RequestFields
<1>3. contents' = contents
  BY DEF setattr
<1>4. CASE attrs' = attrs
  BY <1>1, <1>3, <1>4 DEF IInv, TypeOK, ExtentTypes, AttrsContentsAgree
<1>5. CASE attrs' # attrs
  <2>1. attrs' = [attrs EXCEPT ![i].mode = rq[t].mode, ![i].uid = rq[t].uid,
                               ![i].gid = rq[t].gid]
    BY <1>5 DEF setattr
  <2>2. DOMAIN attrs' = DOMAIN attrs
    BY <2>1
  <2>3. \A j \in DOMAIN attrs : attrs'[j] \in Attr /\ attrs'[j].size = attrs[j].size
    BY <1>2, <2>1 DEF IInv, TypeOK, ExtentTypes, IsMap, Attr
  <2>4. ExtentTypes'
    BY <1>3, <2>1, <2>2, <2>3 DEF IInv, TypeOK, ExtentTypes, IsMap
  <2>5. AttrsContentsAgree'
    BY <1>3, <2>2, <2>3 DEF IInv, AttrsContentsAgree
  <2>6. QED
    BY <1>1, <2>4, <2>5 DEF IInv, TypeOK
<1>6. QED
  BY <1>4, <1>5

\* remove takes the extent out of both maps.
LEMMA RemoveStep == ASSUME IInv, NEW t \in Threads, remove(t) PROVE IInv'
<1> DEFINE i == rq[t].id
<1>1. AccountTypes' /\ ThreadTypes'
  BY LeaveTypes DEF IInv, remove
<1>2. CASE UNCHANGED extents
  BY <1>1, <1>2 DEF IInv, TypeOK, extents, ExtentTypes, AttrsContentsAgree
<1>3. CASE ~UNCHANGED extents
  <2>1. attrs' = Without(attrs, i) /\ contents' = Without(contents, i)
    BY <1>3 DEF remove
  <2>2. ExtentTypes'
    BY <2>1, MapOps DEF IInv, TypeOK, ExtentTypes
  <2>3. AttrsContentsAgree'
    BY <2>1 DEF IInv, AttrsContentsAgree, Without
  <2>4. QED
    BY <1>1, <2>2, <2>3 DEF IInv, TypeOK
<1>4. QED
  BY <1>2, <1>3

-----------------------------------------------------------------------------
(* Users and groups: types.                                                *)

\* The steps of reg, groupadd, groupdel, useradd and userdel, and the check
\* of the administrator.
AccountStep(t) ==
  \/ reg(t) \/ reg_assign(t) \/ admin(t) \/ groupadd(t) \/ groupdel(t)
  \/ groupdel_erase(t) \/ useradd(t) \/ userdel(t) \/ userdel_copy(t)
  \/ userdel_write(t)

\* The handlers of keys and groups leave the extents alone.
LEMMA AccountFrame ==
  ASSUME IInv, NEW t \in Threads, AccountStep(t)
  PROVE  /\ rq[t] \in Calls /\ UNCHANGED extents /\ ThreadTypes'
         /\ ExtentTypes' /\ AttrsContentsAgree'
<1> USE DEF AccountStep, reg, reg_assign, admin, groupadd, groupdel, groupdel_erase,
            useradd, userdel, userdel_copy, userdel_write
<1>1. rq[t] \in Calls
  BY DEF IInv, TypeOK, ThreadTypes, At, NoCall
<1>2. UNCHANGED extents /\ mutex' = mutex /\ handled' = handled
  OBVIOUS
<1>3. Return(t) \/ \E p \in Phases : Goto(t, p)
  BY DEF Phases
<1>4. ThreadTypes'
  BY <1>2, <1>3, ThreadStep DEF IInv, TypeOK
<1>5. ExtentTypes' /\ AttrsContentsAgree'
  BY <1>2 DEF IInv, TypeOK, extents, ExtentTypes, AttrsContentsAgree
<1>6. QED
  BY <1>1, <1>2, <1>4, <1>5

\* The handlers of keys and groups keep the types.
LEMMA AccountStepTypes ==
  ASSUME IInv, NEW t \in Threads, AccountStep(t)
  PROVE  AccountTypes'
<1> DEFINE u == rq[t].who.user
           k == rq[t].who.key
           g == rq[t].gid
<1>1. rq[t] \in Calls
  BY AccountFrame
<1>2. u \in Users /\ k \in Keys
  BY <1>1, RequestFields
<1>3. AccountTypes
  BY DEF IInv, TypeOK
<1>5. CASE reg(t)
  BY <1>3, <1>5 DEF reg, accounts, AccountTypes
<1>6. CASE reg_assign(t)
  <2>1. IsMap(userkeys', Users, Keys \cup {NoKey})
    BY <1>2, <1>3, <1>6, MapOps DEF reg_assign, AccountTypes
  <2>2. QED
    BY <1>3, <1>6, <2>1 DEF reg_assign, AccountTypes
<1>7. CASE admin(t)
  <2>1. IsMap(userkeys', Users, Keys \cup {NoKey})
    BY <1>2, <1>3, <1>7, AuthenticateTypes DEF admin
  <2>2. QED
    BY <1>3, <1>7, <2>1 DEF admin, AccountTypes
<1>8. CASE groupadd(t) \/ groupdel_erase(t) \/ useradd(t)
  <2>1. g \in Gids /\ (useradd(t) => rq[t].uid \in Users)
    BY <1>1, <1>8, RequestFields DEF groupadd, groupdel_erase, useradd, At
  <2>2. /\ IsMap(Indexed(groupusers, g, {}), Gids, SUBSET Users)
        /\ IsMap(Without(groupusers, g), Gids, SUBSET Users)
    BY <1>3, <2>1, MapOps DEF AccountTypes
  <2>3. IsMap(groupusers', Gids, SUBSET Users)
    BY <1>8, <2>1, <2>2 DEF groupadd, groupdel_erase, useradd, IsMap
  <2>4. QED
    BY <1>3, <1>8, <2>3 DEF groupadd, groupdel_erase, useradd, AccountTypes
<1>9. CASE groupdel(t) \/ userdel(t)
  BY <1>3, <1>9 DEF groupdel, userdel, accounts, AccountTypes
<1>10. CASE userdel_copy(t)
  <2>1. g \in Gids /\ rq[t].uid \in Users
    BY <1>1, <1>10, RequestFields DEF userdel_copy, At
  <2>2. IsMap(groupusers', Gids, SUBSET Users)
    BY <1>3, <1>10, <2>1, MapOps DEF userdel_copy, AccountTypes
  <2>3. users' \in [Threads -> SUBSET Users]
    BY <1>3, <1>10, <2>1 DEF userdel_copy, ingroup, AccountTypes, IsMap
  <2>4. QED
    BY <1>3, <1>10, <2>2, <2>3 DEF userdel_copy, AccountTypes
<1>11. CASE userdel_write(t)
  <2>1. g \in Gids /\ users[t] \in SUBSET Users
    BY <1>1, <1>3, <1>11, RequestFields DEF userdel_write, At, AccountTypes
  <2>2. IsMap(groupusers', Gids, SUBSET Users)
    BY <1>3, <1>11, <2>1, MapOps DEF userdel_write, AccountTypes
  <2>3. QED
    BY <1>3, <1>11, <2>2 DEF userdel_write, AccountTypes
<1>12. QED
  BY <1>5, <1>6, <1>7, <1>8, <1>9, <1>10, <1>11 DEF AccountStep

-----------------------------------------------------------------------------
\* Every step keeps the inductive invariant.
LEMMA Inductive == IInv /\ [Next]_vars => IInv'
<1> SUFFICES ASSUME IInv, [Next]_vars PROVE IInv'
  OBVIOUS
<1>1. ASSUME NEW t \in Threads, NEW r \in Calls, begin(t, r) PROVE IInv'
  <2>1. TypeOK'
    BY <1>1, BeginTypes DEF IInv
  <2>2. AttrsContentsAgree'
    BY <1>1 DEF IInv, begin, extents, AttrsContentsAgree
  <2>3. QED
    BY <2>1, <2>2 DEF IInv
<1>2. ASSUME NEW t \in Threads, enter(t) PROVE IInv'
  <2>1. TypeOK'
    BY <1>2, EnterTypes DEF IInv
  <2>2. AttrsContentsAgree'
    BY <1>2 DEF IInv, enter, extents, AttrsContentsAgree
  <2>3. QED
    BY <2>1, <2>2 DEF IInv
<1>3. ASSUME NEW t \in Threads, get(t) PROVE IInv'
  <2>1. AccountTypes' /\ ThreadTypes'
    BY <1>3, LeaveTypes DEF IInv, get
  <2>2. ExtentTypes' /\ AttrsContentsAgree'
    BY <1>3 DEF IInv, TypeOK, get, extents, ExtentTypes, AttrsContentsAgree
  <2>3. QED
    BY <2>1, <2>2 DEF IInv, TypeOK
<1>4. ASSUME NEW t \in Threads, getattr(t) PROVE IInv'
  <2>1. ThreadTypes'
    BY <1>4, ThreadStep DEF IInv, TypeOK, getattr
  <2>2. AccountTypes' /\ ExtentTypes' /\ AttrsContentsAgree'
    BY <1>4 DEF IInv, TypeOK, getattr, extents, accounts, AccountTypes, ExtentTypes,
                AttrsContentsAgree
  <2>3. QED
    BY <2>1, <2>2 DEF IInv, TypeOK
<1>5. ASSUME NEW t \in Threads, AccountStep(t) PROVE IInv'
  BY <1>5, AccountFrame, AccountStepTypes DEF IInv, TypeOK
<1>6. CASE UNCHANGED vars
  BY <1>6 DEF IInv, TypeOK, vars, ExtentTypes, AccountTypes, ThreadTypes, AttrsContentsAgree
<1>7. QED
  BY <1>1, <1>2, <1>3, <1>4, <1>5, <1>6, PutStep, SetattrStep, RemoveStep
     DEF Next, Handle, AccountStep

\* The invariant holds in every reachable state.
THEOREM Invariance == SafeSpec => []IInv
<1>1. Init => IInv
  BY InitTypes DEF Init, IInv, AttrsContentsAgree
<1>2. QED
  BY <1>1, Inductive, PTL DEF SafeSpec

\* The server's state is well typed, whatever handlers run concurrently.
THEOREM TypeCorrect == SafeSpec => []TypeOK
<1>1. IInv => TypeOK
  BY DEF IInv
<1>2. QED
  BY <1>1, Invariance, PTL

\* attrs and contents always describe the same extents with the same sizes.
THEOREM AgreementTheorem == SafeSpec => []AttrsContentsAgree
<1>1. IInv => AttrsContentsAgree
  BY DEF IInv
<1>2. QED
  BY <1>1, Invariance, PTL

-----------------------------------------------------------------------------
(* Keys.                                                                   *)

KeyKept(u) == Settled(u) => Settled(u)' /\ userkeys'[u] = userkeys[u]

\* A thread that does not become about to assign a key of u, in a step that
\* leaves u's entry alone.
LEMMA SettledFrame ==
  ASSUME ThreadTypes, NEW t \in Threads, NEW u,
         Return(t) \/ \E p \in Phases \ {"assign"} : Goto(t, p),
         u \in DOMAIN userkeys => u \in DOMAIN userkeys' /\ userkeys'[u] = userkeys[u]
  PROVE  KeyKept(u)
  BY DEF ThreadTypes, Return, Goto, KeyKept, Settled

\* authenticate never changes an entry that is there.
LEMMA AuthenticateKeeps ==
  ASSUME NEW w, authenticate(w), NEW u \in DOMAIN userkeys
  PROVE  u \in DOMAIN userkeys' /\ userkeys'[u] = userkeys[u]
  BY DEF authenticate, Indexed, With

\* No step changes a settled key.
LEMMA KeyStep == ASSUME IInv, Next, NEW u \in Users PROVE KeyKept(u)
<1>1. ThreadTypes
  BY DEF IInv, TypeOK
<1>2. ASSUME NEW t \in Threads, NEW r \in Calls, begin(t, r) PROVE KeyKept(u)
  BY <1>1, <1>2 DEF begin, accounts, ThreadTypes, KeyKept, Settled
<1>3. ASSUME NEW t \in Threads, enter(t) \/ admin(t) PROVE KeyKept(u)
  <2>1. authenticate(rq[t].who)
    BY <1>3 DEF enter, admin
  <2>2. Return(t) \/ \E p \in Phases \ {"assign"} : Goto(t, p)
    BY <1>3 DEF enter, admin, Phases
  <2>3. QED
    BY <1>1, <2>1, <2>2, AuthenticateKeeps, SettledFrame
<1>4. ASSUME NEW t \in Threads,
             \/ put(t) \/ get(t) \/ getattr(t) \/ setattr(t) \/ remove(t)
             \/ groupadd(t) \/ groupdel(t) \/ groupdel_erase(t) \/ useradd(t)
             \/ userdel(t) \/ userdel_copy(t) \/ userdel_write(t)
      PROVE  KeyKept(u)
  <2>1. userkeys' = userkeys
    BY <1>4 DEF put, get, getattr, setattr, remove, Leave, accounts, groupadd, groupdel,
                groupdel_erase, useradd, userdel, userdel_copy, userdel_write
  <2>2. Return(t) \/ \E p \in Phases \ {"assign"} : Goto(t, p)
    BY <1>4 DEF put, get, getattr, setattr, remove, Leave, groupadd, groupdel,
                groupdel_erase, useradd, userdel, userdel_copy, userdel_write, Phases
  <2>3. QED
    BY <1>1, <2>1, <2>2, SettledFrame
<1>5. ASSUME NEW t \in Threads, reg(t) PROVE KeyKept(u)
  <2>1. userkeys' = userkeys
    BY <1>5 DEF reg, accounts
  <2>2. CASE Return(t)
    BY <1>1, <2>1, <2>2, SettledFrame
  <2>3. CASE Goto(t, "assign") /\ rq[t].who.user \notin DOMAIN userkeys
    BY <1>1, <2>1, <2>3 DEF Goto, ThreadTypes, KeyKept, Settled
  <2>4. QED
    BY <1>5, <2>2, <2>3 DEF reg
<1>6. ASSUME NEW t \in Threads, reg_assign(t) PROVE KeyKept(u)
  <2>1. CASE rq[t].who.user = u
    BY <1>6, <2>1 DEF reg_assign, At, KeyKept, Settled
  <2>2. CASE rq[t].who.user # u
    <3>1. u \in DOMAIN userkeys => u \in DOMAIN userkeys' /\ userkeys'[u] = userkeys[u]
      BY <1>6, <2>2 DEF reg_assign, With
    <3>2. QED
      BY <1>1, <1>6, <3>1, SettledFrame DEF reg_assign
  <2>3. QED
    BY <2>1, <2>2
<1>7. QED
  BY <1>2, <1>3, <1>4, <1>5, <1>6 DEF Next, Handle

\* Once no first registration of a user is under way, the user's key never
\* changes again, for any number of concurrent handlers.
THEOREM KeyTheorem == SafeSpec => KeySettles
<1>1. IInv /\ [Next]_vars => [\A u \in Users : KeyKept(u)]_vars
  BY KeyStep
<1>2. [\A u \in Users : KeyKept(u)]_vars
      => [\A u \in Users : Settled(u) => Settled(u)' /\ userkeys'[u] = userkeys[u]]_vars
  BY DEF KeyKept
<1>3. QED
  BY <1>1, <1>2, Invariance, PTL DEF SafeSpec, KeySettles
=============================================================================
