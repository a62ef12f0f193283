# niova-core in TLA+

niova-core is a C library for event-driven daemons: an epoll loop, a tcp manager
on top of it, buffer pools, wakeup pipes, a tree of introspectable objects (the
registry), a file-based control interface that reads the tree, and small
utilities. This directory models its concurrent core, its services and its
algorithms, checks the models with TLC and proves the most important results with
TLAPS.

Contents: [inventory](#inventory), [plan](#plan),
[modules and how they correspond to the code](#modules-and-code),
[runs](#runs), [proofs](#proofs), [findings](#findings),
[observations](#observations-without-a-run), [what is not shown](#what-is-not-shown).

    tlc -workers 2 -config EpollMgrSafety.cfg MCEpollMgr   # a run
    tlapm EpollMgrProofs.tla                               # a proof

`PROJECT.json` lists the runs, the source lines behind every definition, a
mutant for every property (a plausible mistake in the code that the property
catches), the hazards and the theorems.

## Inventory

Paths are relative to `src/src/`.

| component | state it keeps | operations | who uses it |
|---|---|---|---|
| epoll manager, `epoll_mgr.c` | per manager: epoll fd, eventfd, active and destroy lists, ctx-callback list and count, the id of the thread that waits; per handle: installed, installing, destroying, ctx-callback bits | setup, close, handle init/add/mod/del, ctx_cb_add, wait_and_process_events | utility thread, tcp manager, applications |
| tcp manager, `tcp_mgr.c` | per instance: listen socket, worker threads, hand-off queue, bulk credits; per connection: status, socket, epoll handle, partial bulk, handoff flag | setup, sockets_setup, bind/accept, connect, handshake, send, receive a message, close | applications (raft, in other repositories) |
| event pipe, `ev_pipe.c` | a pipe, a writer and a reader counter | setup, notify, drain, reset, cleanup | applications |
| reference tree, `include/ref_tree_proto.h` | a red-black tree of counted elements, a mutex | GET, PUT, REF_GET_ELEM, REF_PUT_ELEM, MIN, iterate | `ctl_svc.c`, applications |
| registry, `registry.c` | a tree of nodes, an install queue, a removal queue, an eventfd, the registry thread | node init, install, remove, wait, walk, virtual nodes, set_thread_ctx | nearly every component exports nodes |
| buffer sets, `buffer.c` | a free list, an in-use list, counters of allocated, reserved and user-cached items | initx, destroy, allocate, reserve, release, user-cache | applications |
| utility thread, `util_thread.c` | a table of 32 event sources, an epoll manager, a thread | install/remove event source, start | registry, control interface |
| thread control, `thread.c` | flags, a mutex and a condition per thread | create, run, halt, join, loop test | tcp workers, utility thread, watchdog |
| watchdog, `watchdog.c` | a list of watched threads and stall counters | add, remove, check | thread control |
| control interface, `ctl_interface.c`, `ctl_interface_cmd.c` | an inotify fd, a directory, the parsed request, a ring of completed requests | start-up scan, process a file, GET / WHERE / APPLY | operators, tests |
| configuration service, `ctl_svc.c`, `config_token.c` | nodes in a reference tree, a token scanner | scan a directory, parse, lookup, put | tcp manager users |
| tcp and udp sockets, `tcp.c`, `udp.c` | sockets | set up, send, receive with retries | tcp manager |
| algorithms: `io.c`, `include/bitmap.h`, `include/alloc.h`, `include/binary_hist.h`, `include/util.h`, `ec.c` | iovecs, bitmaps, histograms | pure functions | everybody |
| fault injection, `fault_inject.c` | sets of injection points with conditions and counters, a stub per call site | look up, evaluate, enable, install a set | every component, in builds that enable it |
| environment, log, system info, file utilities | tables | parse, register, test | everybody |

How they interact. The utility thread runs one epoll manager; the registry's
eventfd and the control interface's inotify fd are two of its event sources. Any
thread installs or removes a registry node by queueing it and writing the
eventfd, and the utility thread changes the tree. A tcp instance lives in an
epoll manager of its application: sockets are epoll handles with a reference
callback, receiving is handed to worker threads through a queue, and closing a
connection from a worker defers the deletion of the handle to the epoll thread.
Buffer sets, fault injection points and log levels are registry nodes. A
destroyed buffer set waits for the removal of its node.

What is hard here, and what makes each part correct:

- *epoll manager*: four kinds of actors (the manager, its callbacks, other
  threads, the owner that closes) work on a handle; the tests of `epoll_handle_del`
  are unlocked; a delete may be immediate, deferred or delayed. Correct means: bits,
  lists and counters agree, a delete completes once and always, a queued ctx
  callback runs, and runs before a delete that came after it, references balance,
  no wakeup is lost.
- *tcp receive path*: bytes arrive in any pieces, over several events and
  workers; connections end and are established again meanwhile. Correct means:
  what the callback is given is what the peer sent, one worker at a time owns a
  connection, credits are accounted for, no readiness is lost. Nothing keeps the epoll
  thread from closing a connection under its worker but the disabled events.
- *tcp connections*: application threads ask, the epoll thread acts, and peers
  connect at the same time. Correct means: a request is run once or refused, a
  socket has one owner while it moves from an accepted connection to the
  application's, a connection that calls itself connected is watched by the
  kernel.
- *event pipe*: two unlocked counters decide whether to write at all. Correct
  means that a writer that does not write was right not to.
- *reference tree*: constructor and destructor run without the mutex. Correct means
  that concurrent holders of a key share one object that lives exactly as long as
  it has references.
- *registry*: a node is checked when it is queued and changed much later; fields
  share memory; the thread that serves the queues may change. Correct means: no
  queued node is forgotten, the tree stays a tree, a parent outlives its children.
- *buffer sets*: free, reserved, cached and in-use items with four counters.
  Correct means that they are exact and that an item has one user.
- *threads, watchdog, utility thread*: a halt is a flag, a broadcast and a signal, and
  the thread may be at any step; the watchdog walks structures that others free;
  event sources are handed in before their thread exists. Correct means: a halt ends,
  only live threads are watched, a stuck one is found, every accepted source is polled.
- *control interface*: clients write files at any time, inotify merges and drops
  events, an answer is written and then renamed, and one static buffer serves all
  requests. Correct means: every request is read, an answer appears whole, the ring of
  operations is shown in order; two threads are at requests only where the code lets them.
- *request commands*: paths are cut in place, and GET and WHERE descend a tree of
  several kinds of values with an iterator per level. Correct means that the selection
  is the one the path asks for, with well-formed output, and that a write
  reaches exactly the nodes that match.
- *configuration service*: nodes with allocated members are copied into a reference
  tree that may refuse them before or after the copy. Correct means that each member
  has one owner and that a node says what its file says.
- *algorithms*: boundaries (the last word, the last unit, zero-length vectors, partial
  transfers). Correct means equality with a set, a string or a sum.
- *fault injection*: counters that nobody locks. Correct means that an injection fires
  as often as it was told to.

The hazards in `PROJECT.json` name the line at which each of these bites.

## Plan

The first seven rows were written first, being the hardest; the others follow in the
order of what depends on them.

| module | content | proofs |
|---|---|---|
| `EpollMgr` | the whole epoll manager | `EpollMgrProofs` |
| `BufferSet`, `BufferInit` | buffer sets; the layout of a new set | `LibraryProofs` |
| `EvPipe` | the event pipe | `ServicesProofs` |
| `RefTree` implements `KeyRefs` | the reference tree and its promise | `LibraryProofs` |
| `Registry` | installation and removal of registry nodes | `RegistryProofs` |
| `TcpRecv` | the receiving half of the tcp manager | `TcpRecvProofs` |
| `TcpConn` | status of a connection: connect, accept, handshake, merge, send, close; the lists of `EpollMgr` as its environment | `TcpConnProofs` |
| `ThreadCtl` | threads, the watchdog, the utility thread's table, start-up and shutdown | `ThreadCtlProofs` |
| `CtlInterface` | directories, inotify, the life of a request, the completed ring | `ServicesProofs` |
| `CtlPath` | the parsing of a request's paths | `LibraryProofs` |
| `CtlRequest` | GET and WHERE over a registry, on top of `CtlPath` | - (recursive) |
| `CtlSvc`, `ConfigToken` | the configuration service and its token scanner | `LibraryProofs`, `DataProofs` |
| `Bitmap`, `VBasic`, `IoVec`, `Histogram` | the algorithms, each against a reference definition | `DataProofs` |
| `FaultInject` | fault injection | `LibraryProofs` |
| `TcpManager` | planned: `TcpConn` with `TcpRecv`'s workers, what a connection does after a close under a worker | - |

`MCLibrary` composes the modules whose state is their own, `MCServices` the control
interface with the event pipe: a variable chooses which of them runs, so that one run
asks one kind of question of many small systems. `TcpConn` uses of `EpollMgr` what
`ListsCorrect`, `DeleteCompletes` and `CtxBeforeDelete` establish; `CtlSvc` uses of the
reference tree what `KeyRefs` promises, which `PromiseCorrect` justifies;
`CtlInterface` leaves to `CtlRequest` what an answer contains.

## Modules and code

Conventions. An action is one critical section, one system call, one unlocked
access to shared state or one call of user code, so that any interleaving the
program can show, the model can show. Variables and actions carry the names of
the C fields and functions. Lists whose order does not matter are sets; bits of a
struct are the set of objects that have the bit. A definition whose comment says
*mutant* is not part of the model: it is a broken version of its neighbour, used
to show that a property can fail.

### EpollMgr (`epoll_mgr.c`)

Threads: `Mgr` runs the loop, `Users` call the API, `Owner` (a user) sets up and
closes. `pc` and `arg` say where each thread is and about which handle. `epm_*` and
`eph_*` are the fields; `kset` is the kernel's interest list, `wake` the state of
the eventfd, `refs` what `ref_cb` has been asked for. `owed` is history: the deletes
that a queued ctx callback must precede.

| action | code |
|---|---|
| `epoll_mgr_setup`, `close_*` | `epoll_mgr_setup`, `epoll_mgr_close` with its three phases |
| `add_*` | `epoll_handle_add`: GET, active list, `EPOLL_CTL_ADD`, installed bit or roll-back |
| `del_*` | `epoll_handle_del`: unlocked tests, then complete, defer with a wakeup, or refuse |
| `ctx_*` | `epoll_mgr_ctx_cb_add` |
| `epoll_wait`, dispatch, `cb` | the two loops of `epoll_mgr_wait_and_process_events` |
| reap steps | `epoll_mgr_reap_ctx_list`, `epoll_mgr_reap_destroy_list` with `delay_list` |

Three constants say what the application does: `PeerDel` (a callback deletes another
handle), `CloseRaces`, `HasTimeout`. The passing run has the first two off, because
the code has races when they are on (see findings); the theorems cover them wherever
they can. Handles with a `ref_cb` are added by `Mgr`, as the tcp manager does.
`epoll_handle_mod` changes only the kernel's event mask and is left out.

### BufferSet and BufferInit (`buffer.c`)

`BufferSet`: the two lists, the four counters, the bits of the items and, as the
users' side, who holds which item and who has one in its cache. Caching is two steps,
since the bit is set before the lock is taken. `usage` chooses, once per behaviour, the
liberties that an application takes: allocating when every free item is reserved
(`over_reserve`), giving a cached item back (`give_back`), and doing so while
another thread may be revoking it (`give_back_late`). `asserted` records a failed
assertion, after which the process is gone.

`BufferInit`: `buffer_set_initx`'s checks, in order, and its loop, with `size_t`
arithmetic modulo `SizeMod`, against disjointness, containment and alignment of the
slots. `RegionAligned` and `NoWrap` state what callers must respect today.

### EvPipe (`ev_pipe.c`)

`ev_pipe_notify` is six steps (read the writer counter, compare with the reader
counter, increment, write, undo on failure), `ev_pipe_reset` is drain, load, store. The
consumer follows the test's protocol: wait, reset, then empty every queue. The
counters are 64 bits wide and are modelled as unbounded.

### RefTree, KeyRefs (`include/ref_tree_proto.h`)

GET is up to three critical sections with the constructor and, for a lost race, the
destructor between them. `ref` names the references that callers keep; `Elems` is
memory, which is reused. `KeyRefs` is what callers rely on: Create, Share and
Drop on keys, atomically. `RefTree!PromiseKept` is `KeyRefs!Spec` under the mapping
*reference r refers to the key of its element*.

### Registry (`registry.c`, the union of `include/registry.h`)

Callers: `Install_prep`, `Install_queue`, `Notify`, `Remove_check`,
`Remove_capture`, `Remove_queue`, `Wait_removed`. Servers ("util", and "app" after
a handover): read the event, test the thread context, serve the install queue,
then the removal queue, each node in several steps. `kids` and `ptr` model
the union: capturing the parent for removal overwrites the head of the child list.
`InstallHere` and `RemoveHere` are the synchronous paths of init and destroy
context. Callers' rules that the code does not enforce: a node is removed once,
an install that failed is not repeated, and a handover happens while the utility
thread is not serving (`QuietHandover`). `MayBeForgotten` are the inlined members of
static nodes: such a member is linked below its parent before the parent is
installed, and installing a static parent initialises its list (see the observation on
`registry.c:174`), so that `LinkedOnce` asks of them only that they are linked at most
once.

### TcpRecv (`tcp_mgr.c`, receive path; `tcp_socket_recv_all` in `tcp.c`)

`Stream` is what a peer sends; bytes are positions in it. `RecvEvent` is
`tcp_mgr_recv_cb` and the hand-off, `Take` the worker's dequeue, then
`RecvHeader`, `SizeKnown`, the three steps of `tcp_mgr_credits_malloc`, `RecvBulk`,
`CompleteBulk`, `CloseOnError`, `Reenable`. `delivered` is history: what `recv_cb`
got. `drift` is history: how far the two known leaks of credits have moved the total.
Closes and events have no guard that the code lacks. `CloseElsewhere` is a close by the epoll
thread (a send that failed, a peer that connects again), `ErrorEvent` the close of
`tcp_mgr_recv_cb`, and both may meet a worker inside the connection; `CloseOnError` is the
worker's own. The epoll thread's close completes at once (`EpollDefers`); a worker's leaves the
handle on `epm_destroy_list` (`deleting`), so that an event that was `fetched` before is still
dispatched unless `Reap` comes first. Connected handles have EPOLLIN (`tcp_mgr.c:959`) and
may report an error at any time, accepted ones EPOLLIN | EPOLLONESHOT (`:790`, `Oneshot`).
`clash` is history: which connection two threads have changed at once, and whether by an
event, a close or a new connection. What the program does then depends on a freed buffer,
and the model ends (`Defined`); the properties speak of the states before that,
and of which events can bring it about. `exposed` is history too: a connection that was
established again while it was queued, in a worker's hands or about to be handed off. Its
events are armed under the holder, so that even EPOLLONESHOT no longer protects it.
Not modelled: a new socket that takes over the descriptor number while the delete of the
old handle is deferred (see the observation on `tcp_mgr.c:345`).

### TcpConn (`tcp_mgr.c`, connections without hand-off)

`tmc_status`, `fd` and `tmc_epoll_ctx_cb` are a connection's fields; `installed`,
`eph_ctx_cb`, `ctx_cb_list`, `tmp_head`, `destroy_list` are the bits and lists of the
epoll manager it can disturb, `interest` the kernel's list by descriptor. Application
threads `Verify`, `Send`, `Claim` (under `tmi_epoll_ctx_mutex`), `CtxCbAdd` (under
`epm_mutex`), `Unclaim`. The epoll thread takes a set of events and dispatches them
in any order (`Accept`, `HandshakeFails`, `Merge`, `MergeRefused`, `ConnectEvent`,
`RecvEvent`), runs the queued callbacks (`ctx_start` ... `ctx_done`), then the deferred
deletes. `mpc` is its place, `ret` where `tcp_mgr_connection_close_internal` or a
connect goes back to: the same code is called from an event, from the queue and in
place (`ReplyFails`, `InlineConnect`). `corrupt` records that a handle was initialised
while on a list, after which the lists mean nothing and the model stops. `deaf` are
the connections that the kernel does not watch: a system call failed and nobody
noticed, or a delayed `EPOLL_CTL_DEL` hit a reused descriptor. `tmc_send_mutex` only
orders senders and is left out, as are the bytes.

### ThreadCtl (`thread.c`, `watchdog.c`, `util_thread.c`, `init.c`)

The main thread makes calls of several steps (`call`): create (`CreateWorker`),
`Watch`/`SetWatched`, `thread_ctl_run`, and for a halt `thread_ctl_halt`,
`remove_from_watchdog`, `UnsetWatched`, `Broadcast`, `Kill`, `Join`. Each thread is at
a place `pc` of `THREAD_LOOP_WITH_CTL` or of what it blocks in; a signal that arrives
while it does not block is lost (`Interrupted`). The watchdog goes `WdWait` or
`WdTimedOut`, `watchdog_track_threads`, `WdNext`. `slots` is the utility thread's table.
`phase` follows the constructors and destructors. Iteration counters are kept only as
far as the watchdog tells them apart.

### CtlInterface (`ctl_interface.c`, `ctl_interface_cmd.c`, `file_util.c`)

Clients open, write, close and move files (`OpenForWrite`, `CloseWritten`, `MoveIn`);
`Report` is inotify, which merges an event that equals the last one and overflows.
`epoll_mgr_cb` is the callback of the inotify descriptor, `read_events` and `read_nothing`
its loop of read() calls, `handle_event` starts a request, and `process_request` takes it
through reading the file into the static buffer, parsing it from there, opening the temporary
output, scanning, renaming and storing the result, any of which may fail. The number of a
completed operation is read (`count_completed_op`) and written (`store_completed_op`) in two
steps. `process_init_subdir` begins requests on the main thread, at the start and in up to
`MaxRescans` later scans (`init_subdir_rescan`); clients may write from the moment the watch
is set. `server` is the thread that reads the events: the utility thread, or the main thread
after `util_thread_unregister`, which takes the handle away wherever the utility thread is:
it has no reference callback, so that its delete completes at once
(`include/epoll_mgr.h:122-127`), no new callback is entered, and one in progress is not
waited for. The two threads may therefore be at requests at the same time. Each has its
own request (`proc`), with `fd` for the file that its descriptor refers to after the other
thread's truncations and renames, and they share the buffer, the files and the ring.
History: `alone` (no other request meanwhile), `torn` (two threads have stored at the same
time), `overtaken` (the interface was taken from a thread in its loop).

### CtlPath and CtlRequest (`ctl_interface_cmd.c`, walks of `registry.c`)

In `CtlPath`, `parse_token_value_GET` goes through a text one character at a time with
the parser's three flags (`PathChar`) and cuts it in place; its reference says without
state what the text means, by its delimiters, its letters and the places where keys and
values start (`Delims`, `Letters`, `KeyStarts`, `ValuesOf`), and which texts are
malformed. `CtlRequest` takes the segments. `GetNode`/`GetKey` and `WhereNode`/`WhereKey` are the two
callbacks of the walk, with the iterator of each level and the output writer's
commas and brackets; `Expected` and `Targets` are their references. A regular
expression is the set of strings that it matches, output a sequence of JSON tokens.

### CtlSvc and ConfigToken (`ctl_svc.c`, `config_token.c`)

`ConfigToken` is the scanner: one character of the buffer is one step (`CommentChar`,
`SkipSpace`, `MatchToken`, `ValueChar`, `ValueEnd`, `BufferEnd`); its reference works
line by line. `CtlSvc` starts from tokens, each with its length: `parse_input_file_name`, `apply_token` with
one rule per handler (the host name is kept byte by byte, because `strncpy` writes no
terminator), `tree_add`, then lookups, additions and puts by users, a second
scan and the release at the end. `svcStores` records for each allocated STORE who owns
it or how it went.

### Bitmap, VBasic, IoVec, Histogram

Words are sets of bits, vectors are base and length, and each operation is an action on
them; the callers' view (`used`, `blocks`, the bytes on the wire, `added`) is kept
beside and compared. `IoVec` has two parts: the helpers on all small arrays, and a
transfer that the kernel may cut, interrupt, refuse or end.

### FaultInject (`fault_inject.c`, `include/fault_inject.h`)

`Enter`, `Resolve` and `fault_injection_apply_info` are the stub of a call site,
`Evaluate` and `Note` the decision and its record, `WriteVal` the registry's write,
`fault_inject_set_install` the installation of a set. `raced` are the injections that
two actors were inside of at once, for which the code promises nothing.

## Runs

Distinct states are those of the instances in the `.cfg` files.

| run | instance | what it shows |
|---|---|---|
| `epoll_safety` | 2 users and `Mgr`, one handle with a `ref_cb`, one without, 5 API calls, 314 K states | `HandlesExact`: lists, bits and counters agree; `CtxCbSafe`: callbacks are counted, no wakeup is lost, no delete overtakes one; `NothingOwed`: references balance, a closed manager is empty; `CallsComplete`: deletes complete, callbacks run |
| `epoll_peer_del` | 1 user, 2 handles, `PeerDel` | **violation** of `NoRefLeak` |
| `registry_safety` | 2 callers, a static parent, its static child, an inlined member of it (as the log's file entries have), handover, 60 K states | `EventsServed`: nothing forgotten, one thread on the tree; `TreeSound`: well formed, no assertion; `RequestsServed` |
| `registry_wait` | 1 caller, 1 node | **violation** of `WaitedIsDone` |
| `tcp_recv` | 2 connections, 2 workers, messages with and without bulk, 1 credit, 2 establishments, 211 K states | `Framing`; `BuffersExact`: one holder; credits and assertions until two threads change a connection at once, and which error events do that; `StreamServed`: whatever is owed is delivered or closes the connection |
| `tcp_split_header` | 1 connection, a header of 2 bytes that arrives in parts | **violation** of `Framing` |
| `tcp_conn` | 2 connections, 2 threads, 2 calls, 1 accepted socket, 2 descriptors, 518 K states | requests have one owner and are released, sockets and credits are accounted for, CONNECTED means watched |
| `tcp_conn_reinit` | 1 connection, 1 thread, 1 accepted socket | **violation** of `HandleIsOurs` |
| `threads` | a worker, the watchdog, the utility thread, 2 event sources | only live threads are watched, accepted sources are polled, halts end, a stuck thread is found |
| `services` | control interface: 2 names, 2 writes, an inotify queue of 2, a ring of 2, 1 file in init/, 1 rescan, the takeover by the main thread at any time; event pipe: 2 writers, 3 items, room for 1 byte; 520 K states | the history is exact until two threads store at once, the answer of a request that was alone appears whole, two threads are at requests only where `OneThread` says, every request is served; no lost wakeup, everything is consumed |
| `ctl_single_thread` | the control interface of `services`, without a rescan | **violation** of `BufferIsOurs` |
| `library` | thirteen units on all inputs of their sets, 660 K states | see below |

The units of `library`:

| unit | inputs | property |
|---|---|---|
| path | GET and WHERE: after the "/" all texts of up to 5 characters, with all the delimiters or with a "[" that does not compile, and all of 7 of "/", "@" and a letter, some a segment too deep; two that do not start with "/" or are empty. APPLY: all texts of up to 3 | `PathParsed` |
| request | 4 registries with arrays, objects, virtual, skipped and reversed nodes, all paths of up to 3 segments from 18 | `GetSelects`, `WhereApplies` |
| config | up to 3 lines out of 13 kinds, 3 tokens, one the prefix of another | `LinesDelivered` |
| bitmap | 2 words of 3 bits, limits 3 and 5, every sequence of operations | `BitmapExact` |
| vba | 480 regions of up to 5 units, 5 sizes, every sequence | `VbaSound` |
| vectors, transfer | up to 3 vectors of 0 to 2 bytes, 2 interruptions | `VectorsAreStrings`, `TransferExact` |
| histogram | 4 shapes, 10 values | `HistRanges` |
| ctl_svc | directories of 1 and 2 files out of 10, 2 scans, 1 user reference | `NodesFromFiles`, `StoresOwned` |
| layout | all arguments from small sets, `size_t` of 6 bits | `LayoutSound` |
| buffer_set | 2 threads, 2 items, 2 lives of the set, three usages | `Conservation`, `RevokedLast` |
| ref_tree | 2 threads, 2 keys, 3 elements, 3 references, initial count 2 | `RefCntExact`, `PromiseKept` (refinement of `KeyRefs`) |
| faults | 2 threads, 3 call sites, 2 sets with four conditions, 3 calls, 3 seconds, a counter of 3 values | `FaultsExact` |

**Why these bounds are enough to be interesting.** Every hazard needs at most
two threads besides the manager and one contended object; a second object is there
for the batch and list cases. Five API calls allow add, ctx callback, two racing
deletes and a re-add of one handle. A pipe of one byte with two writers makes
writes fail and the undo run; three items each allow a stale counter to survive a
reset. Two items and two threads exhaust a buffer set, by use or by
reservation, and two lives reach re-initialisation. Three elements for two keys let
a lost race, a destruction in progress and a live element coexist. One credit for
two connections makes one of them run without. In `TcpConn` a peer's connect needs no
call of ours, so that two calls on top of it make two requests compete, and two
descriptors are reused. Two writes to two names allow a rewrite while the first
version is served, a merged event and an overflow; they and the two scans of init/
wrap a ring of two, with the two threads in any relative position. Three segments pass through two containers to a
value; five characters hold two separators, a value and an escape in any order. Two
words of three bits have a partial last word. Three calls let an injection be armed,
used up and tried again, or two threads and the registry meet in it.
A bound that was too small would
show in the mutants: each property has one that breaks it under the run's own
instance. The theorems then remove the bounds for what they cover.

**Deadlock** is not checked: in all these systems a state in which nobody calls
the library, or in which the bound on calls is used up, is a legal end.

**Fairness.**
- `EpollMgr`: a thread inside an API call, a close or the loop goes on, and
  `epoll_wait` returns when the eventfd is readable. No call has to be made, no
  user descriptor has to become ready. Justified by the scheduler and by the kernel's
  level-triggered report of the eventfd.
- `EvPipe`: the consumer and any thread inside `ev_pipe_notify` go on. Nobody has to
  produce.
- `Registry`: a caller that began finishes, a server whose fd is readable is scheduled,
  and a handover that began is completed, since the functions that do its two
  halves are called in sequence.
- `TcpRecv`: the epoll thread serves ready handles (level triggered), workers
  run. The peer, the network and the application promise nothing.
- `TcpConn`: the epoll thread goes round (a request wakes it, which is `EpollMgr`'s
  subject), and a thread inside a call returns. This assumes that
  `tcp_socket_send`, which retries `EAGAIN` in a loop, comes to an end.

- `ThreadCtl`: a thread that can run does, time-outs expire, a call of the main thread
  that began goes on. What a callback does is up to the application; `HaltJoins`
  therefore asks that it ends.
- `CtlInterface`: a thread inside a request goes on, and events in the queue are read
  (the descriptor is polled level triggered). Clients promise nothing.

The units of `library` have no waiting and no liveness property.

## Proofs

All constants are arbitrary within the named assumptions of each module
(`EpollMgrAssumption`, ...), which are what the code needs to make sense: finite
sets of objects, distinct null values, positive sizes.

**`EpollMgrProofs`**: `TypeCorrect`; `ListsCorrect`, `NumHandlesCorrect`,
`CtxCbCorrect`, `CtxBeforeDeleteCorrect`, `NoLostWakeupCorrect`, the last five for an
owner that does not close a manager in use (`~CloseRaces`). `ListsMatchFlags` is not
inductive. It needs `CloseInv` (while the owner closes everyone else is idle, and
whoever is inside finds the manager open), `EmptyInv` (a closed manager has no
handle), `DelayInv` (`delay_list` lives only inside the reaper), `AddInv` (one adder
per handle from before its critical section on) and `DelInv` (a thread that passed
`epoll_handle_del`'s unlocked tests finds the handle installed, or gone and not
initialised again: this is what makes the unlocked tests harmless). The counters follow
by cardinality of the sets that one step changes. For the ctx callbacks, `CtxInv`
says which list or local holds each queued handle at each point of the reaper,
`OwedInv` that an owed delete waits on a reaper's list, and `WakeInv` that work which
is queued when `Mgr` has already looked comes with a wakeup. `HandlesExactCorrect` and
`CtxCbSafeCorrect` join these into the two invariants of the run.

`NothingOwedCorrect` adds that callbacks delete only their own handle (`~PeerDel`;
with it on, `epoll_peer_del` shows the leak). `RefInv` counts the references on a
handle's owner: one for each call in progress that took one, one each for the
list it is on, its queued ctx callback, the event being dispatched and the
callback that has run. It needs `EventInv` (a handle with a `ref_cb` that has an event
to come stays installed, and `held` is what the second loop gives back), `KernelInv`
and `MgrOnlyInv` (no other thread adds or completes such a handle).

**`ServicesProofs`**: the event pipe and the control interface.
`NoLostWakeupCorrect`: the invariant says for every point of the
consumer after its reset: if the counters are such that a writer would not write,
a byte is in the pipe or about to be (`CountersCovered`); the same for a
counter read before (`StaleCovered`) and between the two halves of the reset
(`ResetCovered`); and work whose writer has finished is covered or its queue is
still to be looked at (`WorkCovered`). `HistoryCorrect`, for a ring of any size
(`CtlAssumption`: at least one entry): `RingInv` says which entries are the last ones and
that a thread between the two halves of storing has the current number, until two are
there at once; two lemmas on `%` say that operations less than a ring apart do not share
an entry and where the oldest is. `OneThreadCorrect`: `Places` says where each thread may
be in each stage of the process. `AnswersCorrect` and `BufferCorrect` assume nothing of clients,
takeovers and rescans: `AloneInv` says that a request that is alone finds its buffer, its
temporary file and its descriptor as it left them, and that no descriptor of the other
thread still refers to an answer that was published alone. Both are about requests that were
alone; that others are not protected is what the run `ctl_single_thread` shows.

**`RegistryProofs`**: `NoLostEventCorrect`, also across a handover, and
`OneRegistryThreadCorrect` under `QuietHandover`. `NoLostEvent` is inductive with the
types of the program counters. `EventsServedCorrect` joins the two for the run.
`TreeSoundCorrect`, under `QuietHandover`: what was checked when a node was queued
has to be carried to the moment at which it is served. `TreeInv` says where a node may
be (with a caller, on a queue, in a server's hands, on its parent's list), that
it is in one such place, and what its state, its parent and its captured pointer are
there. `ComingIn` and `Ready` keep the parent of a node that is being installed in place,
or before it in the queue (`QueueReady`, which is where the order of the queue
matters); `GoingOut`, `Pointers` and `Parents` make a parent wait for its children;
`Lists` keeps every list free of repetitions. The step lemmas are
`QuietStep`, `LinkStep`, `ResetStep` and `UnlinkStep`, by what a step does to the lists,
and one lemma per action.

**`TcpRecvProofs`**: `TypeCorrect`, `OneHolderCorrect`, `NoAssertCorrect`,
`OneshotShieldsCorrect`, `PlainIsTransientCorrect`, `CreditsExactCorrect`. `OneHolder` and
`OneshotShields` hold always, the others as long as no two threads have changed a connection
at once (`Defined`), with nothing assumed about when the epoll thread closes. `Shielded` is the
invariant behind the second: the events of an EPOLLONESHOT handle stay disabled, or are those
of a handle that is being deleted, from the hand-off to `Reenable`, unless the connection was
`exposed`. The invariant for the rest joins the types,
`OneHolder`, the relation between a worker's place and the bulk fields of its
connection, and, for an uncharged buffer, that what remains of its bulk has
arrived; the credits follow by counting charged buffers and undecided
decrements. `BuffersExactCorrect` joins all but the types for the run.
`FramingCorrect` is for headers that arrive as a whole (`~SplitHeaders`; with it on
`tcp_split_header` is the counterexample): `FrameConn` says that what was delivered is a
prefix of the stream and that the bytes read are those of it and of the bulk in
progress, `FrameWorker` where a worker is when it has read further than that. The
positions of the messages are a recursive function; that it exists
(`PositionsExist`) and grows (`StartsGrow`) is shown on a smallest counterexample, which
well-foundedness of the natural numbers gives.

**`TcpConnProofs`**: `ConnTypes`, `SocketsAreAccounted`, `OneClaimant`,
`ConnectedHeard`. `ConnInv` has one part for the stack of the epoll thread (`Stack`: which
connection is in which half-done state), one for the sockets and credits (`Owned`,
`Credits`), one for the claims (`Claimed`: the four kinds of claimant exclude each other)
and one for what each status promises of the handle (`Promise`). All but the sockets are
for a manager whose handles were not initialised while on a list (`~corrupt`, finding
4), which is what the properties themselves say. That descriptors are reused is part of
it: an old event or a delayed delete may hit a new socket, and `Promise` holds because
such a connection counts as `deaf`.

**`ThreadCtlProofs`**: `WatchedAlive`, `AcceptedPolled`, for any workers and any number
of event sources. `Lifetimes` ties identifiers, calls and phases together, `FlagsOfCall`
says what the flags are when a call is about to assert something of them (so that no
assertion of `thread.c`, `watchdog.c` and `util_thread.c` fails), `ListOfWatched` is
the list up to the two-step calls.

**`LibraryProofs`**: buffer sets, their layout, fault injection, the reference tree, the
parser of paths and the configuration service. `BufferTypes`,
`BuffersConserved`, `CacheRevokedLast`: `AnyUse` holds for every application,
`CarefulUse` (one holder, a mark only where somebody caches, no assertion) for those that
respect the reservations and give a cached item back only while nobody can be
revoking it, `CachedLast` for those that never give one back, as `Careful` and `RevokedLast`
have it. The counters
follow from the lists being free of repetitions. `FaultsCorrect`: `Stubs` (one thread
resolves a stub, and it stays resolved), `AbortSite` (an abort has a second call site
behind it), `Unraced` (an injection that no two actors were inside of at once has counted
exactly, and a decision that is about to be recorded is still right). `LayoutCorrect`
assumes what `buffer_set_initx` leaves to its caller: the size of the region is a
multiple of the alignment (`RegionAligned`), and the size of all slots does not wrap (`NoWrap`);
`LayoutInv` gives item k the place (k - 1) * Width + prologue, and disjointness and
alignment are then arithmetic.
Of the reference tree, `TypeCorrect`, `RefCntCorrect`, `PrivateElemsCorrect`, and `PromiseCorrect`:
`Spec` implements `KeyRefs!Spec`. The invariant adds `OnePerKey` and the private
state of threads in the middle of a GET or PUT. Each step of `RefTree` is
shown to be a Create, Share or Drop, or to leave the mapped state alone.
`PathCorrect` stands here because `DataProofs`, whose facts about folds it uses, is as large
as a module should be. Behind the first i characters of a path the parser's flags are the
delimiters that are pending there (`RunBefore`), its cuts the delimiters so far, and its
segments the keys so far, each with the last of its values (`PathStep`); an error is set
exactly where the text has become malformed. `Ordinal` numbers the keys, which takes
counting finite sets (`KeysCounted`). A cut made later does not reach back into a string
that has ended, so that the strings read at the end are those of the text
(`StringsOfKey`). Assumed (`PathAssumption`): there is room for at least one segment.
`StoresCorrect`, `NodesCorrect`, under `CtlSvcAssumption` (files are records of a UUID, a
suffix and tokens with their lengths): `StoreOwners` says that every pointer to a STORE is the
only one and agrees with what became of the memory, on the stack and in the tree; a node that
has a store is of a kind whose members are released; `NodeRefs` counts the tree's reference
and those of the users. `FilesRead` follows the tokens of a file one by one: the node
on the stack is what the first k tokens say (`FromPrefix`), where each byte of the host is that of the
last name of those that reach it (`IsHost`), and the tokens that are left are those behind
them. One lemma per kind of value shows what one more token changes. `FilesPassed` is what makes
the file of a node the first that may be used: each file in front of the one being read
has a node of its UUID in the tree or was refused, and a file is refused only for
what makes it unacceptable (`RefusedIsNot`, `UnknownIsNot`).

**`DataProofs`**: what reads and keeps data, for any input. The code is sequential, so the
difficulty is not in the steps but in what the loops compute. The provers know no
induction and cannot look into a fold, so the module begins with the facts that stand
in for it: a property that holds at 0 and is handed from k to k + 1 holds up to n
(`Induction`, from a smallest counterexample), a function given by recursion exists
(`RecursionExists`, `SetRecursionExists`), and a fold of the library passes through the
states of such a function (`FoldPrefixes`, `FoldsBack`).

- `HistCorrect`: the invariant of the histogram is that each bucket holds the tally of what was
  added within its printed range. An added value has exactly one such bucket, which follows from
  the length in bits that the code computes. `HistAssumption` says that the start bit and
  the number of buckets add up to at most 64. The code does not check that
  (`binary_hist_init` bounds each of the two on its own): it is what callers must see to
  for `1ULL << ...` to be defined.
- `VbaCorrect`: `VbaInv` says that every block is a run of units inside the region, that
  runs are disjoint, and that the bits are the union of the runs and of the units past the
  end (`BitsAreOwned`), without which a free could give back a neighbour's unit. The search for a run
  is an argument about the loop of `avail_offset`: it returns the first place where nothing is
  set, and jumping behind a set bit misses none (`AvailOffset`). `space_avail_nitems` then
  follows by going through its trial allocations one by one (`SpaceFits`). Assumed
  (`VbaAssumption`): sizes are natural numbers and no caller asks for no bytes, which is
  refused before anything is looked at.
- `BitmapCorrect`: the words agree with the set of used bits (`Agrees`), the source map of
  a merge has no bit behind the limit, and every operation answered what that set says. The counts are
  a sum over words, the iteration a fold over all bits; both are followed state by
  state (`IterateStates`). Assumed (`BitmapAssumption`): the limit is within the map, as
  `niova_bitmap_init` checks, and ranges have a width, as the code asserts.
- `HelpersCorrect`, `TransferCorrect`: an array of iovecs is the string of its bytes, and
  each helper is shown to be an operation on that string: mapping is a part of it (`MapConsumed`),
  advancing drops a beginning and saves what the restore needs, touching takes a beginning.
  `XferInv` says that wire or file hold the first bytes of the data, each from its place or, for a
  plain read, from as many places behind as it was interrupted, and how far the count is
  from what was moved: equal for sockets, short by the interruptions for a read,
  between the two for a positioned transfer, which moves the same bytes again. `OfferedRest` is the step that matters: what a retry offers is what was not moved.
  Assumed (`IoVecAssumption`): bases and lengths are natural numbers.
- `LinesCorrect`: `ConfInv` places the reader on a line (`OnLine`) in one of three states: only
  white space so far (`FreshAt`), in a comment (`CommentAt`), or in a setting, and then where
  its token and its value begin (`ValueAt`). In each the items are those of the
  lines already ended (`Handed`). `TokenFound` shows that the search through the rest of the
  buffer finds the token that the line alone has, `ValueIs` that the characters collected are, their
  white space cleared, the value of the line. Assumed (`ConfAssumption`): no token of the table
  holds a newline. Documents that cannot be read by lines are left out by
  `ByLines`, in the property itself.

The type invariants of `EpollMgr`, `RefTree`, `TcpRecv`, `TcpConn`, `BufferSet` and
`ThreadCtl` are proved, as is that of `Registry` under `QuietHandover` (as parts of the
invariants above where no theorem states them).

Only model-checked:

- every liveness property: fairness and ENABLED are beyond TLAPS;
- `GetSelects`, `WhereApplies` of `CtlRequest`: the descent through the registry
  is written with RECURSIVE operators, which no module with a proof may reach.

## Findings

Each is the violation of a run; `PROJECT.json` quotes the line of the repository
that says otherwise.

1. `epoll_mgr.c:627` (`epoll_peer_del`): a callback deletes another handle of the same
   batch (as a handshake does with the connection it replaces); the second loop
   skips it and the reference taken by the first is never given back.
2. `registry.c:223` (`registry_wait`): the state that waiters poll becomes REMOVED
   before the destroy callback runs, so that the owner may free the node under
   the registry thread.
3. `tcp_mgr.c:671` (`tcp_split_header`): when the socket runs dry in the middle of a
   header, what was read of it is forgotten, and the rest is read as the start of
   a new header.
4. `tcp_mgr.c:475` (`tcp_conn_reinit`): connecting and merging initialise the
   connection's epoll handle without regard to a ctx callback that is queued on it. A
   send on a disconnected connection and the handshake of its peer in the same round
   of events are enough; the next round fails the assertion at `epoll_mgr.c:537`. A
   request that comes between the end of a connect callback and
   `epoll_mgr_ctx_cb_run`'s own clearing of `eph_ctx_cb` has the same effect.
5. `ctl_interface.c:744` (`ctl_single_thread`): the main thread serves the requests of
   init/ while the utility thread already serves clients, and both use the static
   buffers that are said to need no lock because "the entire ctl interface is single
   threaded". `lctli_init_subdir_rescan` (`:724`) does so at any later time.

## Observations without a run

Seen while modelling; they lie outside what the runs above ask.

- `epoll_mgr.c:617`/`:637`: the dispatcher takes a reference if the handle is installed
  when its first loop looks, and gives one back if it is installed when the second
  loop looks. An add on another thread sets the bit in between: the installation's
  own reference is dropped. `EpollMgr` excludes it: only `Mgr` adds such handles.
- `buffer.c:214`: when all free items are reserved, an allocation runs into the
  assertion that the free list is empty instead of returning NULL (`over_reserve`,
  excluded from `NoAssert` by `Careful`).
- `epoll_mgr.c:164`: handles are counted and `epm_ready` cleared in different
  critical sections; a close that races with users leaves handles attached. The
  passing run and the theorems assume an owner that does not (`CloseRaces`).
- `buffer.c:567`: a region whose size is no multiple of the alignment passes the
  checks and fails an assertion; `buffer.c:517`: `nbufs * size` may wrap and then pass
  the check. Excluded by `RegionAligned` and `NoWrap`.
- `buffer.c:349`: a cached item that is explicitly given back stays at the tail of
  the free list, behind cached ones, which are then revoked before it.
- `registry.c:203`: `lreg_node_remove` called twice before it is served queues the
  node twice; the second service fails an assertion.
- `registry.c:416`, `include/registry.h:333`: a walk into a node whose removal is
  queued reads the captured parent as a child list.
- `registry.c:174`: installing a static parent initialises its child list and drops
  children linked before. The log does this to itself: the entry of a file
  (`include/log.h:99-137`) is static, and the inlined entry of the first message is
  linked below it before it is installed. That entry stays INSTALLED and is
  not found by any walk, so the first log point of every file is missing from
  `log_entry_map`. This came out of the proof of `TreeSoundCorrect`; see `MayBeForgotten`.
- `include/registry.h:747`: the macro for removing a root entry installs it.
- `ctl_interface.c:648`/`:671`: `lctli_util_thread_unregister` deletes the event
  source without waiting for the utility thread, which may still be serving the
  queues when the function returns, though its comment says that nothing will be
  processed after it. In `CtlInterface` this happens (`overtaken`) and is the second of the
  two ways in which two threads come to be at requests at once. In `Registry`
  `QuietHandover` excludes it.
- `ctl_interface.c:154`: two threads that complete requests at once may take the same
  number: one entry of the ring is lost and the count with it (`torn`).
- `ctl_interface_cmd.c:213`, `:240`: two requests that name the same OUTFILE at the same time
  share the temporary file; the answer of one may be truncated by the other, or go on being
  written under its final name.
- `tcp_mgr.c:339`: a close by the epoll thread frees the bulk buffer under a worker: a send that
  failed, a peer that connects again, or the error event of a handle without EPOLLONESHOT.
  `TcpRecv` lets it happen and ends there (`clash`). An accepted connection is protected from
  the last by its disabled events, but not if it is established again under its holder.
- `tcp_mgr.c:345`: a close closes the descriptor although the delete of its handle may
  be deferred; the number can be reused in the same round, and the delayed
  `EPOLL_CTL_DEL` then takes the new socket out of the epoll set.
- `tcp_mgr.c:792`, `:868`: a handle that cannot be added is not noticed; the connection is
  CONNECTED and deaf, the accepted one is never freed. `tcp_mgr.c:1011`: a connect that
  fails before `connect()` leaves CONNECTING behind.
- `tcp_mgr.c:1108`: a send that is cut short returns success, and the close that it asks
  for is dropped when another request is under way.
- `tcp_mgr.c:650`: a reply that fails inside `recv_cb` for a bulk closes the
  connection in place; the buffer is freed under the callback, and
  `tcp_mgr_bulk_complete` then frees a null pointer and gives a second credit back.
- `tcp_mgr.c:743`: an error event other than the three that close leaves an
  `EPOLLONESHOT` connection disabled for good (`Abandoned`; `StreamServed` leaves such
  a connection out).
- `tcp_mgr.c:39`, `:574`: a failed allocation keeps its credit; the free of an
  uncharged buffer gives one back. `drift` counts both.
- `tcp_mgr.c:671`: a `bulk_size_cb` that itself answered `-EAGAIN` would be taken
  for "nothing arrived". The model's callback does not.
- `buffer.c:679`: when `calloc` fails half way, `buffer_set_destroy` returns early
  because `bs_init` is not set yet, and the items made so far are leaked;
  `buffer.c:503`: a second `buffer_set_initx` of a live set fails, and its error path
  destroys the set that was there.
- `util_thread.c:92`: the table of event sources has 32 slots and a removed source's
  slot is never used again.
- `thread.c:301`: a signal that arrives between the test of the flag and the call that
  blocks is lost; the utility thread then halts at its next time-out of one second, and
  only because it has one. `thread_join` does not take the thread off the watchdog.
- `watchdog.c:177`: additions and removals start a round early, which counts a stall of
  a thread that had no time to run; stalls are never reset and `wdi_num_stalls_allowed`
  is not used.
- `ctl_interface_cmd.c:628`: asserts fewer than 32 segments, the parser lets 32 pass.
  `:640`: an array element that selects nothing prints no comma behind it (left out of
  `GetSelects`). A value that cannot be read ends a GET's object unclosed, and WHERE goes
  on where GET stops. Signed 32-bit values have no string to compare with.
- `ctl_interface.c`: files that are in input/ before the watch are never served; the
  event of an overflow has no name (an overflow is handled as a request whose file does not
  exist); `:269` removes only empty directories.
- `include/alloc.h:324`: the offset of an allocation is multiplied by the size of a unit in 32 bits,
  which wraps for very large units; `VBasic` computes without a width.
- `config_token.c:258`: the search ends at the first enabled token that is longer than
  what is left of the buffer, so that a shorter one on the last line is not found; a
  token at the very end without a value is accepted silently (both left out by `ByLines`).
- `io.c:30`, `:56`, `:80`: `niova_io_read`, `_pwrite` and `_pread` add the -1 of an interrupted
  call to their count. A plain read then puts what follows one byte too early, over what it had
  read, and returns a count that is too small; a `pread` returns a smaller count than it moved
  if the end of the file follows; a call that is interrupted at once stops with -1.
  `TransferExact` says exactly this and no more. A `pwrite` that returns 0 is repeated for ever.
- `include/bitmap.h:324`, `:373`: copying or merging from a map with a higher limit sets
  bits behind the limit.
- `ctl_svc.c:337`: a second HOSTNAME of a file is copied over the first without a terminator
  (the address at `:481` gets one), so that a shorter one keeps the tail of the longer.
  `NodesFromFiles` states each byte of the host as it is, not as the file means it.
- `ctl_svc.c:742`: a name without a known suffix gives a negative type, which the test
  `>= CTL_SVC_NODE_TYPE_ANY` does not catch. `:773`: a file that is refused after its
  STORE leaks it. `:992`: the destructor frees a registry node that is still
  installed. `:1115`: releasing all nodes also drains those that users still hold.
- `include/fault_inject.h:144`: two threads that race for the last of a fixed number
  wrap the counter to 2^32-1. `fault_inject.c:169`: the second call site of an injection
  fails the assertion at `include/fault_inject.h:173`. `fault_inject.c:355`: replacing the
  first set leaves resolved stubs with the old one, which the registry no longer shows.

## What is not shown

- Partly modelled: buffer sets (registry objects, `buffer_set_apply`), the registry
  (value formatting, a walk of a node whose removal is queued), the tcp manager
  (workers together with the connection status; starting and ending an instance),
  sockets (set-up), the control interface (the choice of nodes by user type in
  `lctli_init_subdir_rescan`), its commands (the text of values), the configuration service
  (`ctl_svc_nodes_apply`, dumping an invalid file), start-up (wrappers of system calls).
- Not modelled: logging, environment variables, wrappers of system calls, erasure
  coding's Galois-field kernel (numeric, with reference data in its own test), the
  vendored allocator and tree, scripts and the configuration browser.
- Hazards that no property covers, each with its reason in `PROJECT.json`: a close that races
  with users of the epoll manager, an allocation of what is reserved, a walk during a
  removal, a close by the epoll thread while a worker is inside the connection (only the events
  of EPOLLONESHOT handles are bounded), the connection an error event leaves disabled, the race
  for the last of a fixed number of faults. The notes of others say which case their
  property leaves out: the late return of a cached item, the wrap of a size, the order
  inside the start-up of the utility thread, tokens at the end of the buffer, the comma
  behind an empty array element.
- `CtlPath` takes every text with a "[" for one that does not compile; `regcomp` accepts a
  bracket expression that is closed. No property depends on which texts these are.
- Memory is sequentially consistent in the models. The unlocked accesses that they
  take apart are atomic built-ins and reads of bits that are written under a mutex.
- Counters are unbounded except where a property is about wrapping (`BufferInit`, `FaultInject`).
