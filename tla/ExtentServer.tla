---------------------------- MODULE ExtentServer ----------------------------
(***************************************************************************)
(* The extent server (extent_server.cc): the extents and their attributes, *)
(* the users' keys and the groups, and the handlers that the threads of    *)
(* the RPC server's pool run on them.                                      *)
(*                                                                         *)
(* put, get, getattr, setattr and remove hold mutex throughout; reg and    *)
(* the group operations take no lock, so between two of their accesses to  *)
(* userkeys or groupusers any other handler may run.  Every such access is *)
(* a step of its own, in the locked handlers too (authenticate, then the   *)
(* rest).  A single access is taken to be atomic: what unsynchronised      *)
(* accesses do to the inside of a std::map is not modelled.  Times are     *)
(* left out; a mode is the set of its permission bits that are consulted.  *)
(***************************************************************************)
EXTENDS Naturals, Sequences

CONSTANTS Threads,       \* pool threads that run handlers
          Ids, Root,     \* extent ids, and the root directory's
          Users, Gids,
          Keys,          \* the keys that users give
          Bufs,          \* the contents clients put
          Modes,         \* the modes clients set
          Calls,         \* the requests that clients send
          MaxCalls       \* bound on the requests handled

NoCall == [op |-> "none"]
NoKey == "no key"        \* the empty string, which operator[] creates

Cred == [user : Users, key : Keys]
Request ==
  [op : {"put"}, id : Ids, buf : Bufs, who : Cred]
  \cup [op : {"get", "getattr", "remove"}, id : Ids, who : Cred]
  \cup [op : {"setattr"}, id : Ids, mode : Modes, uid : Users, gid : Gids,
        who : Cred]
  \cup [op : {"reg"}, who : Cred]
  \cup [op : {"groupadd", "groupdel"}, gid : Gids, who : Cred]
  \cup [op : {"useradd", "userdel"}, gid : Gids, uid : Users, who : Cred]

Locked == {"put", "get", "getattr", "setattr", "remove"}
AllBits == {"u", "g", "o"} \X {"r", "w"}            \* of mode 0777

ASSUME RootAssumption == Root \in Ids
ASSUME KeysAssumption == NoKey \notin Keys
ASSUME DataAssumption == <<>> \in Bufs /\ \A b \in Bufs : Len(b) \in Nat
ASSUME ModesAssumption == Modes \subseteq SUBSET AllBits
ASSUME CallsAssumption == Calls \subseteq Request /\ MaxCalls \in Nat

VARIABLES
  attrs, contents,       \* id -> attributes, id -> buffer, for the ids present
  userkeys, groupusers,  \* user -> key, gid -> members, likewise
  mutex,                 \* the threads that hold it: none or one
  pc, rq, users,         \* each thread's place, request, and copy of a group
  handled                \* requests taken so far

vars == <<attrs, contents, userkeys, groupusers, mutex, pc, rq, users, handled>>
extents == <<attrs, contents>>
accounts == <<userkeys, groupusers>>

Attr == [size : Nat, mode : SUBSET AllBits, uid : Users, gid : Gids]
Phases == {"idle", "start", "perm", "assign", "group", "erase", "copy",
           "write"}

\* f with the value v at k, where k need not be in the domain.
With(f, k, v) == [x \in DOMAIN f \cup {k} |-> IF x = k THEN v ELSE f[x]]
Without(f, k) == [x \in DOMAIN f \ {k} |-> f[x]]

\* std::map's operator[] creates a missing element.
Indexed(f, k, default) == IF k \in DOMAIN f THEN f ELSE With(f, k, default)

IsMap(f, A, B) == DOMAIN f \subseteq A /\ f \in [DOMAIN f -> B]

ExtentTypes == IsMap(attrs, Ids, Attr) /\ IsMap(contents, Ids, Bufs)
AccountTypes ==
  /\ IsMap(userkeys, Users, Keys \cup {NoKey})
  /\ IsMap(groupusers, Gids, SUBSET Users)
  /\ users \in [Threads -> SUBSET Users]
ThreadTypes ==
  /\ mutex \in {{}} \cup {{t} : t \in Threads}
  /\ pc \in [Threads -> Phases] /\ rq \in [Threads -> Calls \cup {NoCall}]
  /\ handled \in 0 .. MaxCalls
TypeOK == ExtentTypes /\ AccountTypes /\ ThreadTypes

\* The server's own ids own the root directory.
Init ==
  /\ contents = [i \in {Root} |-> <<>>]
  /\ \E u \in Users, g \in Gids :
       attrs = [i \in {Root} |-> [size |-> 0, mode |-> AllBits, uid |-> u, gid |-> g]]
  /\ userkeys = [u \in {} |-> NoKey] /\ groupusers = [g \in {} |-> {}]
  /\ mutex = {}
  /\ pc = [t \in Threads |-> "idle"]
  /\ rq = [t \in Threads |-> NoCall]
  /\ users = [t \in Threads |-> {}]
  /\ handled = 0

-----------------------------------------------------------------------------
At(t, p, ops) == pc[t] = p /\ rq[t].op \in ops
Goto(t, p) == pc' = [pc EXCEPT ![t] = p] /\ UNCHANGED rq
Return(t) == pc' = [pc EXCEPT ![t] = "idle"] /\ rq' = [rq EXCEPT ![t] = NoCall]

\* dispatch calls the handler of request r.
begin(t, r) ==
  /\ pc[t] = "idle" /\ handled < MaxCalls
  /\ pc' = [pc EXCEPT ![t] = "start"]
  /\ rq' = [rq EXCEPT ![t] = r]
  /\ handled' = handled + 1
  /\ UNCHANGED <<extents, accounts, mutex, users>>

\* authenticate: its verdict, and what it does to userkeys.
Authentic(w) == w.user \in DOMAIN userkeys /\ userkeys[w.user] = w.key
authenticate(w) == userkeys' = Indexed(userkeys, w.user, NoKey)

-----------------------------------------------------------------------------
(* Extents.                                                                *)

ingroup(u, g) == g \in DOMAIN groupusers /\ u \in groupusers[g]

\* The terms of has_read_perm (x = "r") and has_write_perm (x = "w") before
\* the one about the group.
GrantedToUser(i, u, x) ==
  \/ i \notin DOMAIN attrs
  \/ <<"o", x>> \in attrs[i].mode
  \/ attrs[i].uid = u /\ <<"u", x>> \in attrs[i].mode

Granted(i, u, x) ==
  GrantedToUser(i, u, x) \/ (ingroup(u, attrs[i].gid) /\ <<"g", x>> \in attrs[i].mode)

\* ingroup creates a missing group, when it is called.
CheckGroup(i, u, x) ==
  groupusers' = IF GrantedToUser(i, u, x) THEN groupusers
                ELSE Indexed(groupusers, attrs[i].gid, {})

\* Mutant: the lock is kept when the key is wrong.
enter_KeepsLock(t) ==
  /\ At(t, "start", Locked \ {"getattr"}) /\ mutex = {}
  /\ authenticate(rq[t].who)
  /\ mutex' = mutex \cup {t}
  /\ IF Authentic(rq[t].who) THEN Goto(t, "perm") ELSE Return(t)
  /\ UNCHANGED <<extents, groupusers, users, handled>>

\* put, get, setattr and remove up to the check of the key.
enter(t) ==
  /\ At(t, "start", Locked \ {"getattr"}) /\ mutex = {}
  /\ authenticate(rq[t].who)
  /\ IF Authentic(rq[t].who) THEN Goto(t, "perm") /\ mutex' = mutex \cup {t}
                             ELSE Return(t) /\ UNCHANGED mutex
  /\ UNCHANGED <<extents, groupusers, users, handled>>

\* The rest of one of them: permission x is checked and the lock let go.
Permitted(t, x) == Granted(rq[t].id, rq[t].who.user, x)
Leave(t, x) ==
  /\ CheckGroup(rq[t].id, rq[t].who.user, x)
  /\ mutex' = mutex \ {t} /\ Return(t)
  /\ UNCHANGED <<userkeys, users, handled>>

\* A new record is open to all; its owner and group are not initialised.
put(t) ==
  /\ At(t, "perm", {"put"}) /\ Leave(t, "w")
  /\ IF ~Permitted(t, "w") THEN UNCHANGED extents
     ELSE LET i == rq[t].id
              size == Len(rq[t].buf)
          IN /\ contents' = With(contents, i, rq[t].buf)
             /\ \E u \in Users, g \in Gids :
                  attrs' = With(attrs, i,
                    IF i \in DOMAIN attrs THEN [attrs[i] EXCEPT !.size = size]
                    ELSE [size |-> size, mode |-> AllBits, uid |-> u, gid |-> g])

\* get sets only the time of access, of an extent that is there.
get(t) ==
  /\ At(t, "perm", {"get"}) /\ Leave(t, "r")
  /\ UNCHANGED extents

getattr(t) ==
  /\ At(t, "start", {"getattr"}) /\ mutex = {}
  /\ Return(t)
  /\ UNCHANGED <<extents, accounts, mutex, users, handled>>

setattr(t) ==
  /\ At(t, "perm", {"setattr"}) /\ Leave(t, "w")
  /\ attrs' = IF Permitted(t, "w") /\ rq[t].id \in DOMAIN contents
              THEN [attrs EXCEPT ![rq[t].id].mode = rq[t].mode,
                                 ![rq[t].id].uid = rq[t].uid,
                                 ![rq[t].id].gid = rq[t].gid]
              ELSE attrs
  /\ UNCHANGED contents

\* Mutant: the attributes stay.
remove_KeepsAttrs(t) ==
  /\ At(t, "perm", {"remove"}) /\ Leave(t, "w")
  /\ contents' = IF Permitted(t, "w") THEN Without(contents, rq[t].id) ELSE contents
  /\ UNCHANGED attrs

remove(t) ==
  /\ At(t, "perm", {"remove"}) /\ Leave(t, "w")
  /\ IF Permitted(t, "w") /\ rq[t].id \in DOMAIN contents
     THEN /\ attrs' = Without(attrs, rq[t].id)
          /\ contents' = Without(contents, rq[t].id)
     ELSE UNCHANGED extents

-----------------------------------------------------------------------------
(* Users and groups, without the lock.                                     *)

\* Mutant: a known user's key is assigned again.
reg_Always(t) ==
  /\ At(t, "start", {"reg"})
  /\ Goto(t, "assign")
  /\ UNCHANGED <<extents, accounts, mutex, users, handled>>

\* A user not seen before, or authenticate.
reg(t) ==
  /\ At(t, "start", {"reg"})
  /\ LET w == rq[t].who
     IN IF w.user \notin DOMAIN userkeys
        THEN Goto(t, "assign") ELSE Return(t)
  /\ UNCHANGED <<extents, accounts, mutex, users, handled>>

reg_assign(t) ==
  /\ At(t, "assign", {"reg"})
  /\ userkeys' = With(userkeys, rq[t].who.user, rq[t].who.key)
  /\ Return(t)
  /\ UNCHANGED <<extents, groupusers, mutex, users, handled>>

\* isadmin, which is always true, and authenticate.
admin(t) ==
  /\ At(t, "start", {"groupadd", "groupdel", "useradd", "userdel"})
  /\ authenticate(rq[t].who)
  /\ IF Authentic(rq[t].who) THEN Goto(t, "group") ELSE Return(t)
  /\ UNCHANGED <<extents, groupusers, mutex, users, handled>>

groupadd(t) ==
  /\ At(t, "group", {"groupadd"})
  /\ groupusers' = Indexed(groupusers, rq[t].gid, {})
  /\ Return(t)
  /\ UNCHANGED <<extents, userkeys, mutex, users, handled>>

groupdel(t) ==
  /\ At(t, "group", {"groupdel"})
  /\ IF rq[t].gid \in DOMAIN groupusers THEN Goto(t, "erase") ELSE Return(t)
  /\ UNCHANGED <<extents, accounts, mutex, users, handled>>

groupdel_erase(t) ==
  /\ At(t, "erase", {"groupdel"})
  /\ groupusers' = Without(groupusers, rq[t].gid)
  /\ Return(t)
  /\ UNCHANGED <<extents, userkeys, mutex, users, handled>>

useradd(t) ==
  /\ At(t, "group", {"useradd"})
  /\ groupusers' = LET g == Indexed(groupusers, rq[t].gid, {})
                   IN  [g EXCEPT ![rq[t].gid] = @ \cup {rq[t].uid}]
  /\ Return(t)
  /\ UNCHANGED <<extents, userkeys, mutex, users, handled>>

userdel(t) ==
  /\ At(t, "group", {"userdel"})
  /\ IF rq[t].gid \in DOMAIN groupusers THEN Goto(t, "copy") ELSE Return(t)
  /\ UNCHANGED <<extents, accounts, mutex, users, handled>>

\* The members are copied; a group deleted since is created again.
userdel_copy(t) ==
  /\ At(t, "copy", {"userdel"})
  /\ groupusers' = Indexed(groupusers, rq[t].gid, {})
  /\ IF ingroup(rq[t].uid, rq[t].gid)
     THEN /\ users' = [users EXCEPT ![t] = groupusers[rq[t].gid] \ {rq[t].uid}]
          /\ Goto(t, "write")
     ELSE Return(t) /\ UNCHANGED users
  /\ UNCHANGED <<extents, userkeys, mutex, handled>>

\* The copy is written back, over what others did to the group meanwhile.
userdel_write(t) ==
  /\ At(t, "write", {"userdel"})
  /\ groupusers' = With(groupusers, rq[t].gid, users[t])
  /\ users' = [users EXCEPT ![t] = {}]
  /\ Return(t)
  /\ UNCHANGED <<extents, userkeys, mutex, handled>>

-----------------------------------------------------------------------------
Handle(t) ==
  \/ enter(t) \/ put(t) \/ get(t) \/ getattr(t) \/ setattr(t) \/ remove(t)
  \/ reg(t) \/ reg_assign(t)
  \/ admin(t) \/ groupadd(t) \/ groupdel(t) \/ groupdel_erase(t)
  \/ useradd(t) \/ userdel(t) \/ userdel_copy(t) \/ userdel_write(t)

Next == \E t \in Threads : Handle(t) \/ \E r \in Calls : begin(t, r)

SafeSpec == Init /\ [][Next]_vars

\* Pool threads run, and get the mutex when it is free.
Spec == SafeSpec /\ \A t \in Threads : WF_vars(Handle(t))

-----------------------------------------------------------------------------
\* An extent has attributes exactly when it has contents, and their size is
\* the contents' size: every handler tests one map and indexes the other,
\* and operator[] would make up what is missing.
AttrsContentsAgree ==
  /\ DOMAIN attrs = DOMAIN contents
  /\ \A i \in DOMAIN contents : attrs[i].size = Len(contents[i])

\* The user has an entry in userkeys and no reg is about to assign one.
Settled(u) ==
  /\ u \in DOMAIN userkeys
  /\ \A t \in Threads : pc[t] = "assign" => rq[t].who.user # u

\* A user's key, once assigned, is never changed by anybody, although reg
\* and authenticate touch userkeys without the lock; only first
\* registrations of that user already under way may still overwrite it.
KeySettles == [][\A u \in Users :
  Settled(u) => Settled(u)' /\ userkeys'[u] = userkeys[u]]_vars

\* Every handler returns: no path keeps the mutex.
CallsReturn == \A t \in Threads : pc[t] # "idle" ~> pc[t] = "idle"
=============================================================================
