# YFS: TLA+ models, model checking and proofs

YFS is a small distributed file system: a FUSE client (`fuse.cc`,
`yfs_client.cc`) keeps files and directories as extents on an extent server,
guards them with locks from a lock server, and talks to both over an
at-most-once RPC library (`rpc/`). This directory holds TLA+ modules for the
parts of it that carry concurrency and failure handling, TLC runs on small
instances, and TLAPS proofs for every value of the constants.

## Inventory

| component | state | operations | interacts with | what is hard |
|---|---|---|---|---|
| lock server, `lock_server.cc/.h`, `lock_client.cc`, `server_slock.h` | `locks_`: a flag and a condition variable per lock | `acquire` (blocks in the handler), `release` | RPC server's pool runs it; `yfs_client` nests its locks | waiters occupy pool threads; wakeups race with late requests; clients die holding locks |
| RPC client, `rpcc` in `rpc.cc` | `calls_`, `xid_`, `xid_rep_window_`, `chan_` | `bind`, `call1`, `got_pdu`, `cancel`, `get_refconn`, `update_xid_rep` | connection callbacks, application threads | retransmission, out-of-order and late replies, timeouts, cancel |
| RPC server, `rpcs` in `rpc.cc` | `reply_window_`, `maxima_xid_rep_`, `conns_`, `nonce_` | `dispatch`, `checkduplicate_and_update`, `add_reply`, `rpcbind` | pool threads, connections | duplicates in any order, replies after a broken connection, restart, buffers shared by threads |
| connections and poll manager, `connection.cc`, `pollmgr.cc` | fd, partial pdus, `dead_`, reference count; callback table | `send`, `read_cb`, `write_cb`, `closeconn`, `decref`; `add_callback`, `block_remove_fd`, `wait_loop` | every rpcc and rpcs | callbacks against close, senders against death, lock order |
| thread pool, `thr_pool.cc`, `fifo.h` | job queue, threads | `addJob`, `takeJob`, shutdown by poison pills | `rpcs::got_pdu` | full queue, shutdown |
| extent server, `extent_server.cc` | `attrs`, `contents`, `userkeys`, `groupusers` | `put get getattr setattr remove reg groupadd groupdel useradd userdel` | pool threads; extent clients and `group_util` | half of the handlers take no lock; `operator[]` creates entries |
| file system client, `yfs_client.cc`, `fuse.cc` | none besides connections: directories and files are extents | `lookup create mkdir readdir write read truncate unlink chmod chuid chgid`, `getattr`, `access` | lock and extent clients | several RPCs per operation, any of which can fail; name encoding |
| marshalling, `marshall.h`, `rpc.cc`, the stubs in `rpc.h` | a buffer, its capacity, a position | `<<`, `>>`, headers, `call`, `reg` | RPC | growth of the buffer, arguments read with other types than written |

What makes each correct: one owner per lock and no lost wakeup; each call
answered if a connection lasts, and not executed again while it is remembered; the client's and the
server's idea of which calls are finished consistent; the extent maps consistent
with each other; directories naming exactly the files that exist; pdus whole and
in order on a connection that is deleted exactly when nobody refers to it.

How the modules fit together: `YfsClient` uses the locks as `LockSpec` and each
extent call as one step, which `LockServer` and `ExtentServer` justify. Both
assume calls that are executed once; `Rpc` says how far that holds. `Rpc`
takes a connection to be alive or dead with messages on it (`Connection`,
`Intake`), a header to be a record (`Marshall`), the xid list to be a number
and a set (`XidWindow`), and a deadline to pass at any time (`Deadline`).

## Modules

### LockSpec, LockServer, MCLockServer, LockServerProofs

`LockSpec` is the promise of the lock service: `Request`, `Grant` (only of an
unowned lock), `Free`, and that a free lock that is wanted gets granted.

`LockServer` is the code. `locks_` maps a lock id to absent, free or locked. A
client is one calling thread; `pc` is where its call stands, from the request in
the pool's queue `jobq` over the handler asleep on the lock's condition variable
to the reply. `acquire` and `acquire_recheck` are the two critical sections of
`lock_server::acquire` (before the first wait, and after each wakeup),
`release` signals one sleeper, `spurious_wakeup` is what Pthreads allows.
`client_acquire` and `client_release` are the constructor and destructor of
`ServerScopedLock`; a caller may take and give back locks in any order, but asks
for none it holds. In which order `yfs_client` nests its scopes is checked where
the scopes are, in `YfsClient` (`NoDeadlock`). `client_abort` is the `VERIFY` in
`lock_client` that kills the process when a call fails. `Take` is
`ThrPool`'s worker loop: a request runs only when fewer than `PoolSize` handlers
are blocked. There may be more callers than workers; when as many handlers wait
for taken locks as there are workers the pool is `Exhausted`, and stays so
(`ExhaustionTheorem`). `ReleasesReturn` and the liveness part of
`ImplementsLockSpec` hold up to that point: a worker that waits for a lock which
has come free is never in the way for long. At-most-once delivery is assumed
here; it is `Rpc`'s subject.

### Rpc, MCRpc, RpcProofs

One `rpcc` with several application threads, one `rpcs`, and the connections
between them, numbered by creation time (the order of `connection::compare`).

* Client: `call1` (up to the loop), `transmit` (one round of `if(transmit)`,
  with `get_refconn`), `deadline` (a `pthread_cond_timedwait` that times out; it
  transmits again only if the connection is dead), `finish` (everything after
  the loop), `rpcc_got_pdu`, `cancel`, `cancel_recheck`. `xid_rep` and `pend` are
  the front of `xid_rep_window_` and the set of what is above it.
* Server: the five outcomes of `dispatch` up to the verdict of
  `checkduplicate_and_update` are actions of their own; a request past that point
  is a member of `jobs`, whose handler `run`s (and whose reply is saved by
  `add_reply`) and whose reply is sent by `reply`. `Scan` is the loop over the
  window with the iterator behaviour of the code: `erase` followed by `it++`
  steps over an entry. `conns_` is the latest connection. `window` keeps, per
  entry, the number of the saved reply's buffer; `execs` records the executions.
* Failures: `break` kills the client's end of a connection and `server_break` the
  server's, at different times; requests sent on a connection that is dead at
  the client may still be dispatched, and connects may fail. `restart` is a new
  instance of the server. A message that is never handled is a lost message.

The code does not execute every request at most once (runs `rpc_late_copy` and
`rpc_skipped_entry`). `RepeatsExplained` says that these are the only two ways: a
request that was seen is taken for NEW only when its xid is the largest `xid_rep`
or when its entry lies behind one that the loop erases. `astray` records the xids
whose reply was sent to a connection that the client had left and the server
still took for alive, which is the exception of `CallsAnswered`.

A job that is about to write from a freed buffer takes no further step: the
program's behaviour is undefined there, and what the garbage would do to the
client is not modelled. `FreedIsAnswered` says that nobody waits
for what such a job sends; other properties speak of the behaviours up to it.

### XidWindow, Marshall, Deadline, MCRpcData, RpcDataProofs, Recursion

Three sequential parts of the RPC library, each a specification of its own;
`MCRpcData` lets one of them run while the other two keep still, so that one
run checks all three.

`XidWindow` is `xid_rep_window_` as the list it is, with `update_xid_rep` as
insertion and the `compress` loop. Every xid is passed to it up to twice (by
`got_pdu` and by `call1`), in any order; front and rest turn out to be those
of `Rpc`'s abstraction.

`Marshall` is the bytes of one call. `m` is a `marshall` object (`buf`, `capa`,
`ind`), `u` an `unmarshall` object; `shl` and `shr` are the operators, with the
shifts and masks as division and remainder (`Shifted`, `Mask`), the sign extension
of `rawbyte` and the unsigned sum in `rawbytes`. `marshall_value` is one `m << a` of a stub,
`call1_packs` the header, `dispatch_calls` and `unmarshall_value` the reading on
the other side with the types the handler was registered with, which may be
any, and so back with the reply. Unwritten bytes are `Junk`. A byte has `Radix`
values (256 in the program) and the buffer starts with `DEFAULT_RPC_SZ` bytes.
`MaxArgs` and `MaxBytes` bound the arguments and the bytes of each; the assumption
that the bytes of a message are fewer than an int has values is far above the
10 MB (`MAX_PDU`) beyond which `readpdu` drops the connection.

`Deadline` is the loop of `call1` with its clock: `start`, `round`, the two ends of
the wait, `again`. A second has `MsPerSec` ticks. A deadline whose `tv_nsec` is a
whole second is rejected by `pthread_cond_timedwait`, which returns at once with
the mutex still held, so that no answer gets in.

### Connection, MCConnection, ConnectionProofs

One `connection` object, `PollMgr` and `SelectAIO`. Threads in `Senders` call
`send`, `Closer` calls `closeconn`, the poll thread goes through `wait_loop` (`poll.at`
is where it is), and the peer sends, reads, closes or breaks at any time.

* What a thread does with `m_` held is one step: `send` is `send_wait`, `send_dead` or
  `send_write`, then `send_return` after each wait; `write_cb`, `read_cb` and the part
  of `closeconn` before `block_remove_fd` are steps. `block_remove_fd` is two, around
  its wait for `changedone_c_`, which has no loop around it: `spurious_wakeup` ends
  it early. `removed` says that the wait was ended by the poll thread, or that the
  poll thread has come to the top of its loop since; from then on no callback comes.
* The poll thread looks up the callback (`wait_loop_readable`, `wait_loop_writable`)
  and calls it in separate steps, as it holds no mutex between them. It works
  on copies of the fd sets (`wait_ready_copy`).
* `wpdu_` and `rpdu_` are the two buffers with their progress; `wire` is what was
  written, `delivered` what `got_pdu` accepted. `got_pdu` may refuse.
* `errno_again` is the poll thread's `errno`, which `readpdu` looks at after a `read`
  that returned 0. `aborted` is a failed `VERIFY(!dead_)` in `write_cb`: the process
  ends, and no property is about what comes then.

### Intake, MCIntake, IntakeProofs

How requests get into an `rpcs` and how it goes away: `process_accept` with its
collection of dead connections (`gc_check`, `gc_drop`: two calls and a third one
without a lock around them), `rpcs::got_pdu` called by `read_cb`, the bounded
`fifo` with its two condition variables, the workers of `ThrPool`, `dispatch` as
far as it takes and gives back references, and `~rpcs` with `~tcpsconn` and
`~ThrPool` (poison pills). A worker inside `send` when `~tcpsconn` calls `closeconn` may
be one that nobody wakes any more (`stranded`; `Connection` shows how). `leaked`
counts the references that `dispatch` keeps for requests to an old server instance, `aborted` is the `NULL` connection that it
follows for a client without nonce.

### ExtentServer, MCExtentServer, ExtentServerProofs

The ten handlers on pool threads. `put`, `get`, `getattr`, `setattr`, `remove`
hold `mutex` from `enter` to their last step; their check of the key and the
rest are two steps, since `userkeys` and `groupusers` also change without the
mutex. `reg` and the group operations take one step per access of a map.
`Indexed` is `std::map::operator[]`, which creates what it does not find.
Uninitialised owners of new records are any owner. `getattr` only waits for the
mutex. A mode is the set of its read and write bits; times are left out.

### FsSpec, YfsClient, MCYfsClient, MCYfs, YfsClientProofs

`FsSpec` is the file system as its users think of it: a directory is a map from
names to inode numbers, a file a string of bytes, and each step changes one of
them, or one attribute, from its current value, as one of the requests in
`asked` wants it: a write lays its block over the bytes, a resize gives the file
the length asked for and fills new bytes with zeros. A call that creates or
removes is several such steps and may stop between them.

`YfsClient` is the code. `data` and `attr` are the extents, with one atomic step
per call (which `ExtentServer` justifies), `lock` the lock server (as `LockSpec`).
Each client handles one request at a time: `begin` is the FUSE loop, `pc` the next
call to make, `loc` the handler's locals. The handlers of a name go through
`lookup`/`stat`, `create_lock`, `create_get`, `link`, `make`, `init`, or `unlink`,
`cut`, `remove`; those of an inode start with `stat` and go on with `read`,
`write`/`save`, or, for `setattr`, with `resize`/`save` and `chattr_read`/`chattr` once
per attribute, in the code's order, and `restat`. A scope with one call is one
step; a scope with several holds its lock over them.

A directory's text is a list of pairs. The code searches the text, not the
list: `Within` says which names occur inside which names and numerals, and
`Occurs` and `Occurrence` are `string::find` on the text; cutting at a wrong place
gives `Garbled`. No name is the whole numeral of an inode (the name would be
found as a list item). `Lossy` names the steps whose call may get no answer; what
`yfs_client` does then is what it does with a status other than NOENT and
NOACCESS: go on. A lost `put` or `setattr` is one that had no effect; one that had
an effect but lost its reply is, for the client, the same as one that succeeded.
`fate` says whether a client runs, was killed in a handler, or ended by
`std::out_of_range`; the last two leave their locks taken.

Assumed: new inode numbers are unused (`random_inum` does not see to it); the
kernel asks for what it has seen (`Plausible`); answers of `getattr` are not lost.
The owner of an extent needs the owner's bits ("ur", "uw") in its mode, others the
bits for anybody ("r", "w").

`ImplementsFsSpec` has one exception, which is `fuseserver_setattr`'s: it
computes what to cut or to append from the size of an earlier `getattr`. A resize
that is about to happen to a file of another size (`Stale`) may change the bytes of
that file, and nothing else, in any way (`StaleResize`). What it does then is the
subject of the runs `yfs_stale_size` and `yfs_size_race`.

Left out: group permissions, execute bits, times, error numbers (a request is
answered or not), the key sent with each call.

## Runs

| run | instance | what it shows |
|---|---|---|
| `lock_server` | 3 clients, 2 locks in any order, pool of 2, 1 abort | mutual exclusion, no lost wakeup, refinement of `LockSpec` with its liveness and releases return, up to exhaustion |
| `rpc_harsh` | 2 threads, 3 calls, 2 connections, 1 timeout, 1 restart, cancel | honest `xid_rep`, no early FORGOTTEN, kept replies, success means executed, nobody waits for a freed reply, cancel sticks, repeats only in the two known ways |
| `rpc_live` | 2 threads, 3 calls, 2 connections, cancel | every call answered unless its reply goes astray, cancel returns |
| `rpc_skipped_entry` | 2 threads, 4 calls | violation: the entry after an erased one is not seen and its request executed again |
| `rpc_late_copy` | 1 thread, 3 calls, 2 connections | violation: a late copy whose xid is the largest `xid_rep` is executed again |
| `rpc_data` | 5 xids, 2 calls each; up to 2 arguments of 8 values, any 2 types; 5 timeouts | the list algorithm against its reference, writes inside the buffer, arguments and results arrive, calls end on time |
| `connection` | 2 senders, 1 pdu each, 2 pdus in, 1 refusal, a close | pdus whole and in order both ways, no callback after removal, `send` (unless `closeconn` finds it waiting) and `closeconn` return, a break is noticed |
| `intake` | 2 workers, queue of 2, 2 connections, 3 requests, deletion | reference counts, no lost wakeup and pills last, refused pdus retried, deletion ends unless a worker is stranded |
| `extent_server` | 2 threads, 5 requests, 2 users, 1 group | maps agree, keys settle, handlers return |
| `yfs` | 2 clients, 4 requests, 1 call lost, 1 client killed; on 2 directories, 2 files, 2 names, or on the bytes and attributes of 1 file | unlink erases its entry, entries lead to extents, copies are current when written back, no circle of waiting clients, refinement of `FsSpec`, requests are answered |
| `yfs_size_race` | 2 clients, 4 requests, no faults | violation: two clients that set a file's length end one of them with an exception |
| `yfs_stale_size` | 2 clients, 4 requests, no faults | violation: a client that makes a file longer writes zeros over the bytes of another |

Bounds. Three lock clients give an owner, a waiter and a late arrival; two
locks give one nesting, in either order; two workers are fewer than the callers,
so that the pool can be exhausted. Two RPC threads and three xids (the first is bind's) give
calls in flight that finish in either order, and a third call that carries the
news; two connections give one break and one retransmission, and the last
connection allowed does not break, so that the liveness run has a connection
that lasts. Five xids with duplicates let the window close gaps of several
numbers. A buffer of 26 bytes is outgrown by every value but a byte and a short,
by doubling and by the length of a string; with `Radix` 4 an int has 256 values,
so that the sign bit and the bytes that carry are all met. Timeouts of 0, of
whole seconds and of fractions, started at every phase of a second, give rounds
that are cut short and deadlines with and without a carry. A socket that takes
half a pdu makes every send go through `write_cb`; the length field is one unit,
so a stream ends before a pdu, after its length or within it (a length field that
is itself torn is not met: the code treats it as the end of the stream). Two
pdus in each direction show order, one refusal a pdu offered again. A queue of two
jobs can hold a request and a pill, or two pills, and is full with two of the three requests; two connections give the latest one and one it
replaces. Five requests let two registrations, a group change and two uses of it
overlap. Four requests of two clients let a create, a change, its conflict and an
unlink overlap; the names 5 and 59 and a numeral that contains both are the
smallest case in which one name occurs in another and in a number. `MCYfs` lets
the clients work on names or on one file, so that one run asks both; the second
directory may be changed by its creator only, so that calls are also refused. It loses a
call of `link`, `remove` or `save`; a lost `make` or `cut` breaks `TreeIsSound`
and a lost `get` everything (see below).
Deadlock is not checked where calls are bounded or a lock may be kept
by a dead client for ever: those systems may stop.

Fairness. Lock server: workers take queued requests, woken handlers get
the mutex, clients get replies and leave their scopes (a scope ends with its
block); no client must ask for a lock and no waiter is preferred. RPC: threads
run, deadlines pass, and messages on a live connection arrive (TCP); nothing
must break, and no final deadline need be reached. A connect that is tried again
and again succeeds, and when one end of a connection has died the other notices. Extent server: pool threads
run and get the mutex when it is free. Connection: threads that can run do, and a
peer that stays up reads what it was sent (TCP); nothing makes it send, close or
break. Intake: as long as any thread can run one does; connections and requests are
bounded and every step uses up a part of them, so nothing more is needed. `Deadline`: the caller runs and the clock goes on. File system: a client that runs goes on
with its handler, and takes a lock that stays free; as requests are bounded,
nobody can be overtaken for ever, so weak fairness is enough for the locks too.

## Proofs

The proofs hold for all constants that satisfy the named assumptions of the
modules: finitely many lock clients, pool threads and client nonces, positive bounds, a header shorter than a pdu, marshalled values
of the sizes of their C++ types, messages whose length fits into an int, the empty
key given by no user; for the file system, disjoint `Dirs` and `Files`,
every name occurring in itself, and `setattr` of a size only for files. Where a
theorem about the file system says which calls may be lost, that is a hypothesis of its own.

* `LockServerProofs`. The inductive invariant adds to types that the flag and
  `Owns` agree, with a single owner, over all phases of a call (`Owns` includes the
  grant under way to the client and the release under way to the server), and
  that a free lock with sleepers has a woken handler. Mutual exclusion follows,
  as `held` is part of `Owns`; alone it is not inductive, since a stale flag would
  let a second client in. `Refinement` maps every step to a step of `LockSpec` or
  to a stutter. `ReleaseTheorem` counts: with no more callers than workers a queued
  release finds a worker. `ExhaustionTheorem` is an action property: a worker
  that waits for a taken lock is freed only by a release, which needs a worker.
* `RpcProofs`. `RepIsHonest` needs that all xids in use are below `xid_`, that
  threads use different ones, and that a reply in flight or an entry of
  the window is never about an xid above. `NeverForgottenTheorem` adds that every
  `xid_rep` in a message, and `maxima`, is at most the client's `xid_rep`: if the
  server says FORGOTTEN, the client had finished with the call.
  `TypeCorrect` covers the whole state of client, network and server.

  A second invariant, `SInv`, is about the server's memory. A saved reply, a reply
  on its way and a job past its handler name an execution of their own xid by the
  right instance (`WindowSound`, `JobsSound`, `RepliesSound`, `PastInstances`); all
  copies of a request name the instance its caller did (`CopiesAgree`); and above the
  client's `xid_rep`, an executed request has an entry with its reply and one being
  executed has an entry (`AnswersKept`, `RequestsKept`). The last two need to know
  what `Scan` keeps, for every window: every entry above `xid_rep` survives the
  loop, although it skips entries and starts anew, and it frees only buffers of
  entries it removes. `ReplyKeptTheorem`, `OkMeansExecutedTheorem` and
  `FreedIsAnsweredTheorem` follow with `RepIsHonest`. `CancelSticksTheorem` is an
  action property: after `cancel` every call out has failed, and `call1` refuses.

  `RepeatsTheorem` is an action property about `dispatch_new`, for any regime. `RInv`
  says that an xid this instance has executed or is about to is in the window or at
  most `maxima`. One above `maxima` thus has an entry; if the loop does not find it,
  it has stepped over it, which needs an erased entry before it (`ScanFinds`).
  One below `maxima` is FORGOTTEN. There is nothing to prove of the xid between.
* `Recursion` is what the proofs about loops use. The library's induction
  theorems take an operator as a parameter, which no prover here can instantiate;
  those about well-founded relations speak of sets. From them: induction over a
  set of numbers, and, for a loop written as a recursive function over states
  with a step function and a measure that goes down, that it is defined
  (`LoopIsFunction`), ends (`LoopEnds`) and keeps invariants (`LoopInvariant`, `LoopHasResult`).
* `RpcDataProofs`. `WritesInside` and `CallArrivesTheorem`, for every radix, every
  initial buffer that holds a header, every header and arguments of every number
  and length that an int can count. `Inside` alone is not inductive: packing the
  header moves `ind` to the front, writes there and puts it back. `Fits` adds that the
  buffer has room for a header, and `Wrote` says what `rawbyte`, `rawbytes`, `pack` and
  `shl` put where, by how much `ind` moves and that nothing else changes.

  `CallArrives` needs to know what is in the bytes. `Encoded` is the bytes of a value
  and `Coded` those of a list; `ShlWrote` says that `<<` writes them, for integers by the
  arithmetic of `Radix`, and `ShrReads` that `>>` finds the value in them, the sign
  extension masked and the sum of `rawbytes` not wrapped. `Flatten` and `Coded` are the
  community modules' `FlattenSeq` of a mapped list; that `FlattenSeq` turns a
  concatenation into one (`FlatConcat`) is proved from its defining function by
  `Recursion`'s induction, and makes each `<<` and `>>` a step of algebra. `MIInv` has
  a part for each place of a call: `Writes` (what is in the buffer and what is still
  to be marshalled are the list), `Reads` (what was read and what the bytes left
  hold are), `Carries` (a message holds the list and nothing behind it), and that a
  header, packed last and in front, is read as it was packed (`ReqSent`, `ReplySent`).
  With a type list that is a proper prefix of the arguments' types bytes are left
  when the last type is read; with a longer one a read finds none and fails,
  and a failure is never forgotten (`ShrFails`). Of types that differ before either list ends nothing
  is claimed, nor needed.

  `CallGivesUpOnTime`, for every timeout, every length of a second and every start:
  `add_timespec` is exact, and the caller's deadline is in `finaldeadline` until the
  last round and in `nextdeadline` from then on (`Marking`). Waits are whole seconds but for
  the last, so only that one can have a deadline the wait rejects (`Waits`).

  `WindowStaysExact`, for any number of xids and reports: the insertion loop keeps
  the list ordered, and the compress loop removes the front exactly as long as
  its successor follows it. `WIInv` is `WindowIsExact` with the list ordered.
* `ConnectionProofs`. `OutputStaysInOrder`: `wpdu_` belongs to the one sender
  inside `send` (`Ownership`), and tells where the stream stands (`Position`): its
  progress is the last unit written. `InputStaysInOrder`: what was read is what was
  delivered and what is in `rpdu_` (`Reading`). `CallbacksStayInOrder` needs
  `Removal`, which follows a removal through the two mutexes: from `dead_` until the
  poll thread has passed its loop's top either somebody is in `block_remove_fd` or
  the poll thread has nothing of the connection in hand. A spurious wakeup leaves
  `pending_change_` set until that top, and `removed` waits for it too.
* `IntakeProofs`. `ReferencesAddUp`: a reference count is the number of those who
  hold one (listener, `conns_`, queue, workers) plus the leaked ones, by counting lemmas
  (`Times`) of the library's cardinalities. `Struct` says which connections are named
  where. `QueueStaysInOrder`: no job waits without a thread that is awake or
  woken, and pills, queued and taken, are as many as `~ThrPool` has put. A stranded
  worker keeps its reference and its place.
* `ExtentServerProofs`. `AttrsContentsAgree` with types is inductive.
  `KeySettles` is an action property: a step that could change a settled key is a
  `reg_assign` of that user, which `Settled` excludes, and `reg` never leads there
  once an entry exists.
* `YfsClientProofs` is a rely/guarantee argument. `Own(c)` says what client `c`
  knows: where it is in which request (`Control`), which locks it has (`Locks`),
  that its copy of a locked extent is the server's (`Copies`) and that directory
  texts it has read are clean (`Texts`). `Guarantee(c)` says what a step of `c` does to
  others: nothing to their state, to their locks, or to extents they have locked.
  `Rely` shows that what others know survives such a step, so that each action
  need only establish its own client's part (`Good`). `CopyIsCurrent` alone is not
  inductive, as it does not mention the locks that protect the copies.
  `UnlinkFindsItsEntry` follows from `Clean`: no name occurs in an earlier pair,
  which `create` establishes by its search and `cut` keeps, since in a clean text
  the first occurrence is the entry. It holds whatever calls are lost;
  `CopiesStayCurrent` needs that no `get` is.

  `TInv` adds types and the tree. `Fresh(c)`: until its entry is linked, the number a
  creator has picked is in no directory, names no extent and is nobody else's; until it is
  made no extent has it. `Found(c)`: what `unlink` removes is what its entry
  led to, and after the cut nothing leads there. `Single`: no two
  entries lead to the same number. `TreeStep(c)` is the guarantee that lets the others
  keep what they know. `TreeStaysSound` assumes that no `get`, `make` or `cut` is lost:
  it does not hold otherwise (see below).

  `ImplementsFileSystem` is the refinement of `FsSpec`, for every loss but that
  of a `get`. `nodeBar` reads a directory's text as a map: by `Clean` its names differ,
  so that appending and erasing a pair add and remove one name (`MapOfAppend`,
  `MapOfErased`). `WrittenIsOverlay` shows that `write`'s replace or append is `Overlay`,
  `GrownIsResized` and `CutIsResized` that with the current size `setattr`'s zeros and
  its cut are `Resized`; `SavesAsAsked` puts them together, with `StaleResize` where the
  size is not the current one.
  `save` and `link`, `cut` and `chattr` are changes of the current value by `CopyIsCurrent`;
  `make` makes a new node by `Fresh`; a node about to be given its attributes
  (`newBar`) is locked by its creator, so `remove` drops none.

Only model-checked: liveness under fairness, including the fairness part of
`LockSpec`, which is out of this prover's reach, and `NoDeadlock`, about circles of any
number of clients. Every other invariant of the runs that pass, and every action
property, is proved.

## What the code does not promise

Seen while modelling, and not the subject of a run that fails:

* While a request is handled its client may leave the connection and send it again on
  a new one. If the server has not noticed yet, the copy is dropped as INPROGRESS and
  the reply goes to the old connection (`astray`). As long as the new connection lives
  nothing is sent again: the call waits for its final deadline.
* A dispatch may send its reply from a buffer that the dispatch of a later
  request has freed (`freed` in `Rpc`), when a retransmission was answered from the
  saved reply meanwhile. `FreedIsAnswered`: the call has its answer by then.
* `write_cb` has `VERIFY(!dead_)`, and can be called in the time between `dead_ = true`
  in `send` or `closeconn` and the end of `block_remove_fd`: the process ends.
* `block_remove_fd` waits once for `changedone_c_`. After a spurious wakeup it returns
  while the poll thread may still be about to call the object back.
* `closeconn` does not wake a sender that waits for `send_complete_`; once the fd is
  no longer watched nobody does (`Stranded` in `SendReturns`), although `rpc.cc:14-15` says
  that send "blocks until data is sent or the connection has failed". When the sender
  is a worker, `~rpcs` waits for it for ever (`DeleteReturns`).
* When a stream ends in the middle of a pdu and `errno` is still `EAGAIN` from an
  earlier call, the poll thread calls `read_cb` again and again and the connection is not
  declared dead (`BreakIsNoticed`).
* A pdu refused by a full queue is offered again only when the socket is readable,
  that is, when the client sends more or leaves. A retransmission needs a dead
  connection, so the call may wait for its deadline.
* `dispatch` for a client without nonce (`retrans=false`, which nothing passes) and
  a dead connection follows a `NULL` pointer.
* A timeout that is not a whole number of seconds can give a deadline of exactly
  one second in `tv_nsec`, which is invalid: the caller then spins with `ca.m` held.
* A `get` that gets no answer is taken for an empty extent: `create` then replaces
  the directory by one with the new entry only, and `write` the file by its block.
* A `remove` that is refused or lost leaves an extent without a name; a lost `make`
  leaves a name without an extent.
* `create` refuses a name that occurs in another name or in a number.
* A write to a file that another client has removed is reported as a success of
  all its bytes.
* A user whose key was looked up before the first registration cannot register.
* With six waiters on locks the server's pool of six threads is exhausted, and a release
  is never run; the comment in `lock_tester.cc:16` counts on ten threads.

## Not modelled

`EPollAIO` (compiled, never used), `PollMgr` with several descriptors (each has its
own state besides the pipe) and the limit `MAX_POLL_FDS`; spurious wakeups in
`send`, whose loops look again; length fields below the size
of a header. RPC clients with `retrans=false` (the server's side of them is in
`Intake`), the `reachable_` switch, which nothing turns off, the test switch `RPC_LOSSY`
(the client sends an old request again on purpose; `lossy_` breaks connections, as
`break` does), RPC statistics, the
table of registered procedures, `~rpcc`; wrap-around of the 32-bit xids, which
needs 2^32 calls of one client. Damage inside a `std::map` from unsynchronised
access; times; `statfs`, `open` and mounting; inode numbers that collide. The tests,
`lock_demo.cc`, the log and `gettime.cc` carry no logic of the system.

## Plan

Done: the lock server, RPC with its list, bytes and clock, connections and the
poll manager, the intake of requests with the pool, the extent server and the
file system client. All invariants but one and all action properties of the
passing runs are proved, and both refinements. Liveness stays with TLC. What could
be added:

1. A proof of `NoDeadlock`, from the order in which `create` and `unlink` lock a directory
   and an inode whose number nobody else can name yet, or no longer.
2. Group permissions in `YfsClient`, with the key each call carries, once
   `userdel` and `groupdel` are atomic in the extent server.
