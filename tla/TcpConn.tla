------------------------------- MODULE TcpConn -------------------------------
(***************************************************************************)
(* The connections of the tcp manager (src/tcp_mgr.c) without hand-off:    *)
(* all changes of a connection's status are made by the epoll thread, in   *)
(* event callbacks and in "ctx" callbacks that application threads ask     *)
(* for.  Peers connect too: an accepted socket is an "incoming" connection *)
(* until its handshake tells which of the application's connections it is, *)
(* which then takes over the socket.                                       *)
(*                                                                         *)
(* Of the epoll manager the module keeps what the tcp manager can disturb: *)
(* the lists a handle is on, its bits and the kernel's interest list, by   *)
(* descriptor.  References and wakeups are the subject of EpollMgr, the    *)
(* bytes that are received that of TcpRecv.                                *)
(***************************************************************************)
EXTENDS Integers, FiniteSets

CONSTANTS
    Conns,            \* the application's connections (struct tcp_mgr_connection)
    Incoming,         \* memory for accepted connections (tcp_mgr_incoming_connection)
    Threads,          \* application threads
    Fds,              \* file descriptors
    IncomingCredits,  \* incoming_credits of tcp_mgr_setup
    MaxCalls,         \* bound: sends and closes of the application
    MaxAccepts        \* bound: sockets that peers connect

None == "none"
Listen == "listen"

ASSUME TcpConnAssumption ==
    /\ IsFiniteSet(Conns) /\ IsFiniteSet(Incoming) /\ IsFiniteSet(Fds)
    /\ {None, Listen} \cap (Conns \cup Incoming \cup Fds) = {}
    /\ Conns \cap Incoming = {}
    /\ {"queue", "run", "inline"} \cap Threads = {}
    /\ IncomingCredits \in Nat /\ MaxCalls \in Nat /\ MaxAccepts \in Nat

VARIABLES
    \* struct tcp_mgr_connection: the status, tsh_socket and the callback that
    \* waits to run in the epoll thread
    tmc_status, fd, tmc_epoll_ctx_cb,
    \* its epoll handle: bits, descriptor, callback, and the lists it is on
    installed, eph_fd, eph_cb, eph_ctx_cb, ctx_cb_list, tmp_head, destroy_list,
    \* incoming connections: their descriptor, and tmi_incoming_credits
    in_fd, in_credits,
    \* the kernel: open descriptors and the interest list
    open, interest,
    \* the epoll thread: its place, the events to dispatch, the connection and
    \* the place to go on at after a nested call, epm_ctx_cb_running
    mpc, evs, cur, ret, running,
    \* application threads: place, connection, what they ask for
    pc, arg, ask,
    \* history: credits lost to a failed allocation; connections that the kernel
    \* does not watch, since a system call failed or since a delayed delete took
    \* a descriptor that was theirs by then; a handle was initialised while on a
    \* list
    lost_credits, deaf, corrupt,
    calls, accepts

connVars == <<tmc_status, fd, tmc_epoll_ctx_cb>>
ephVars  == <<installed, eph_fd, eph_cb, eph_ctx_cb, destroy_list>>
ctxVars  == <<ctx_cb_list, tmp_head>>
inVars   == <<in_fd, in_credits, lost_credits>>
kernel   == <<open, interest>>
mgrVars  == <<mpc, evs, cur, ret, running>>
appVars  == <<pc, arg, ask, calls>>
vars == <<connVars, ephVars, ctxVars, inVars, kernel, mgrVars, appVars,
          deaf, corrupt, accepts>>

Statuses == {"NEEDS_SETUP", "DISCONNECTING", "DISCONNECTED", "CONNECTING",
             "CONNECTED"}
AppLabels == {"idle", "send", "claim", "add", "unclaim"}
MgrLabels == {"wait", "dispatch", "reap_ctx", "ctx_end", "ctx_done", "reap_destroy",
              "ctx_start", "conn_add", "connect", "complete", "del", "close",
              "inline_end"}

Init ==
    /\ tmc_status = [c \in Conns |-> "NEEDS_SETUP"]
    /\ fd = [c \in Conns |-> None]
    /\ tmc_epoll_ctx_cb = [c \in Conns |-> None]
    /\ installed = {} /\ eph_ctx_cb = {} /\ destroy_list = {}
    /\ eph_fd = [c \in Conns |-> None] /\ eph_cb = [c \in Conns |-> None]
    /\ ctx_cb_list = {} /\ tmp_head = {}
    /\ in_fd = [i \in Incoming |-> None]
    /\ in_credits = IncomingCredits /\ lost_credits = 0
    /\ open = {} /\ interest = [f \in Fds |-> None]
    /\ mpc = "wait" /\ evs = {} /\ cur = None /\ ret = "wait" /\ running = None
    /\ pc = [t \in Threads |-> "idle"] /\ arg = [t \in Threads |-> None]
    /\ ask = [t \in Threads |-> None]
    /\ deaf = {} /\ corrupt = FALSE
    /\ calls = 0 /\ accepts = 0

-------------------------------------------------------------------------------
(* Application threads.                                                      *)

AppGoto(t, from, to) ==
    /\ ~corrupt
    /\ pc[t] = from /\ pc' = [pc EXCEPT ![t] = to]

\* What only the epoll thread changes.
EpollOnly == <<tmc_status, fd, installed, eph_fd, eph_cb, destroy_list, tmp_head,
               inVars, kernel, mgrVars, deaf, corrupt, accepts>>

\* tcp_mgr_connection_setup().
Setup(c) ==
    /\ tmc_status[c] = "NEEDS_SETUP" /\ ~corrupt
    /\ tmc_status' = [tmc_status EXCEPT ![c] = "DISCONNECTED"]
    /\ UNCHANGED <<fd, tmc_epoll_ctx_cb, ephVars, ctxVars, inVars, kernel, mgrVars,
                   appVars, deaf, corrupt, accepts>>

\* tcp_mgr_send_msg() and tcp_mgr_connection_verify(): the status is read
\* once, and a connection that was CONNECTED is written to later.
Verify(t, c) ==
    /\ calls < MaxCalls /\ calls' = calls + 1
    /\ arg' = [arg EXCEPT ![t] = c]
    /\ \/ /\ tmc_status[c] = "CONNECTED"
          /\ AppGoto(t, "idle", "send") /\ UNCHANGED ask
       \/ /\ tmc_status[c] = "DISCONNECTED"
          /\ AppGoto(t, "idle", "claim") /\ ask' = [ask EXCEPT ![t] = "connect"]
    /\ UNCHANGED <<EpollOnly, tmc_epoll_ctx_cb, eph_ctx_cb, ctx_cb_list>>

\* The message is written to whatever tsh_socket is by now.
Send(t) ==
    /\ AppGoto(t, "send", "idle")
    /\ fd[arg[t]] # None
    /\ UNCHANGED <<EpollOnly, tmc_epoll_ctx_cb, eph_ctx_cb, ctx_cb_list, arg, ask, calls>>

\* The socket is gone or fails: the connection is closed, if it can be.
SendFails(t) ==
    /\ AppGoto(t, "send", "claim")
    /\ ask' = [ask EXCEPT ![t] = "close"]
    /\ UNCHANGED <<EpollOnly, tmc_epoll_ctx_cb, eph_ctx_cb, ctx_cb_list, arg, calls>>

tcp_mgr_connection_close(t, c) ==
    /\ calls < MaxCalls /\ calls' = calls + 1
    /\ tmc_status[c] # "NEEDS_SETUP"
    /\ AppGoto(t, "idle", "claim")
    /\ arg' = [arg EXCEPT ![t] = c]
    /\ ask' = [ask EXCEPT ![t] = "close"]
    /\ UNCHANGED <<EpollOnly, tmc_epoll_ctx_cb, eph_ctx_cb, ctx_cb_list>>

\* Mutant: the claim of another thread is overwritten.
Claimable_always(c) == TRUE
Claimable(c) == tmc_epoll_ctx_cb[c] = None

\* tcp_mgr_connection_epoll_ctx_run(), under tmi_epoll_ctx_mutex: one request
\* at a time; a second one is refused.
Claim(t) ==
    LET c == arg[t] IN
    /\ \/ /\ AppGoto(t, "claim", "add")
          /\ Claimable(c)
          /\ tmc_epoll_ctx_cb' = [tmc_epoll_ctx_cb EXCEPT ![c] = ask[t]]
       \/ /\ AppGoto(t, "claim", "idle")
          /\ ~Claimable(c)
          /\ UNCHANGED tmc_epoll_ctx_cb
    /\ UNCHANGED <<EpollOnly, eph_ctx_cb, ctx_cb_list, arg, ask, calls>>

\* epoll_mgr_ctx_cb_add(), under epm_mutex: refused while a callback of the
\* handle is queued or not yet cleared.
CtxCbAdd(t) ==
    LET c == arg[t] IN
    /\ \/ /\ AppGoto(t, "add", "idle")
          /\ c \notin eph_ctx_cb
          /\ eph_ctx_cb' = eph_ctx_cb \cup {c}
          /\ ctx_cb_list' = ctx_cb_list \cup {c}
       \/ /\ AppGoto(t, "add", "unclaim")
          /\ c \in eph_ctx_cb
          /\ UNCHANGED <<eph_ctx_cb, ctx_cb_list>>
    /\ UNCHANGED <<EpollOnly, tmc_epoll_ctx_cb, arg, ask, calls>>

\* Mutant: a refused request keeps the claim.
Unclaimed_kept(c) == tmc_epoll_ctx_cb
Unclaimed(c) == [tmc_epoll_ctx_cb EXCEPT ![c] = None]

Unclaim(t) ==
    /\ AppGoto(t, "unclaim", "idle")
    /\ tmc_epoll_ctx_cb' = Unclaimed(arg[t])
    /\ UNCHANGED <<EpollOnly, eph_ctx_cb, ctx_cb_list, arg, ask, calls>>

AppStep(t) == Send(t) \/ SendFails(t) \/ Claim(t) \/ CtxCbAdd(t) \/ Unclaim(t)

App(t) ==
    \/ AppStep(t)
    \/ \E c \in Conns : Verify(t, c) \/ tcp_mgr_connection_close(t, c)

-------------------------------------------------------------------------------
(* The epoll thread.                                                         *)

MgrGoto(from, to) == ~corrupt /\ mpc = from /\ mpc' = to

\* A callback is entered from an event, removed from evs, and goes back to
\* the events.
Event(e, to) ==
    /\ MgrGoto("dispatch", to)
    /\ e \in evs /\ evs' = evs \ {e}
    /\ ret' = "dispatch"
    /\ UNCHANGED running

Ready == {interest[f] : f \in Fds} \ {None}

epoll_wait ==
    /\ MgrGoto("wait", "dispatch")
    /\ \E l \in {{}, {Listen}} :
          /\ l = {Listen} => accepts < MaxAccepts
          /\ \E E \in SUBSET Ready : evs' = E \cup l
    /\ UNCHANGED <<connVars, ephVars, ctxVars, inVars, kernel, cur, ret, running,
                   appVars, deaf, corrupt, accepts>>

\* The events are dispatched; the queue of ctx callbacks is taken.
DispatchDone ==
    /\ MgrGoto("dispatch", "reap_ctx") /\ evs = {}
    /\ tmp_head' = ctx_cb_list /\ ctx_cb_list' = {}
    /\ UNCHANGED <<connVars, ephVars, inVars, kernel, evs, cur, ret, running,
                   appVars, deaf, corrupt, accepts>>

\* An event of a handle that an earlier callback of the batch has deleted.
SkipEvent(c) ==
    /\ Event(c, "dispatch") /\ c \notin installed
    /\ UNCHANGED <<connVars, ephVars, ctxVars, inVars, kernel, cur, appVars, deaf,
                   corrupt, accepts>>

\* tcp_mgr_connect_cb(): connected, or failed.
ConnectEvent(c) ==
    /\ c \in installed /\ eph_cb[c] = "connect"
    /\ \E l \in {"complete", "del"} : Event(c, l)
    /\ cur' = c
    /\ UNCHANGED <<connVars, ephVars, ctxVars, inVars, kernel, appVars, deaf,
                   corrupt, accepts>>

\* tcp_mgr_recv_cb(): a message is received, or an error closes the connection.
RecvEvent(c) ==
    /\ c \in installed /\ eph_cb[c] = "recv"
    /\ \E l \in {"dispatch", "del"} : Event(c, l)
    /\ cur' = c
    /\ UNCHANGED <<connVars, ephVars, ctxVars, inVars, kernel, appVars, deaf,
                   corrupt, accepts>>

\* The application's recv_cb sends a reply, which fails: in the epoll thread
\* tcp_mgr_connection_close() closes at once, unless another thread has a request.
ReplyFails(c) ==
    /\ c \in installed /\ eph_cb[c] = "recv" /\ tmc_status[c] = "CONNECTED"
    /\ \/ /\ Claimable(c)
          /\ MgrGoto("dispatch", "del") /\ ret' = "inline_end"
          /\ tmc_epoll_ctx_cb' = [tmc_epoll_ctx_cb EXCEPT ![c] = "close"]
       \/ /\ ~Claimable(c)
          /\ MgrGoto("dispatch", "dispatch") /\ ret' = "dispatch"
          /\ UNCHANGED tmc_epoll_ctx_cb
    /\ c \in evs /\ evs' = evs \ {c}
    /\ cur' = c
    /\ UNCHANGED <<tmc_status, fd, ephVars, ctxVars, inVars, kernel, running, appVars,
                   deaf, corrupt, accepts>>

\* Another callback of the application in the epoll thread (a timer, the
\* recv_cb of another connection) sends: tcp_mgr_connection_verify() connects
\* in place.
InlineConnect(c) ==
    /\ calls < MaxCalls /\ calls' = calls + 1
    /\ tmc_status[c] = "DISCONNECTED" /\ Claimable(c)
    /\ MgrGoto("dispatch", "ctx_start") /\ ret' = "inline_end"
    /\ tmc_epoll_ctx_cb' = [tmc_epoll_ctx_cb EXCEPT ![c] = "connect"]
    /\ cur' = c
    /\ UNCHANGED <<tmc_status, fd, ephVars, ctxVars, inVars, kernel, evs, running, pc,
                   arg, ask, deaf, corrupt, accepts>>

\* tcp_mgr_epoll_ctx_cb() of the call in place ends.  The recv_cb may then
\* return an error, on which the connection is closed once more.
InlineEnd ==
    /\ \/ MgrGoto("inline_end", "dispatch")
       \/ MgrGoto("inline_end", "del") /\ tmc_epoll_ctx_cb[cur] = "close"
    /\ tmc_epoll_ctx_cb' = [tmc_epoll_ctx_cb EXCEPT ![cur] = None]
    /\ ret' = "dispatch"
    /\ UNCHANGED <<tmc_status, fd, ephVars, ctxVars, inVars, kernel, evs, cur,
                   running, appVars, deaf, corrupt, accepts>>

-------------------------------------------------------------------------------
(* Incoming connections: tcp_mgr_listen_cb() and tcp_mgr_handshake_cb().     *)

\* tcp_mgr_accept(): the socket is accepted and its handle added.  That the add
\* fails is not noticed.
Accept(i, f) ==
    /\ Event(Listen, "dispatch")
    /\ in_credits > 0 /\ in_fd[i] = None /\ f \notin open
    /\ in_credits' = in_credits - 1
    /\ in_fd' = [in_fd EXCEPT ![i] = f]
    /\ open' = open \cup {f}
    /\ \/ interest' = [interest EXCEPT ![f] = i] /\ UNCHANGED deaf
       \/ deaf' = deaf \cup {i} /\ UNCHANGED interest
    /\ accepts' = accepts + 1
    /\ UNCHANGED <<connVars, ephVars, ctxVars, cur, lost_credits, appVars, corrupt>>

\* tcp_mgr_incoming_new() fails for want of a credit, or accept() fails and
\* the credit is given back.
AcceptFails ==
    /\ Event(Listen, "dispatch")
    /\ accepts' = accepts + 1
    /\ UNCHANGED <<connVars, ephVars, ctxVars, inVars, kernel, cur, appVars, deaf,
                   corrupt>>

\* The allocation fails, and the credit stays taken.
AcceptNoMemory ==
    /\ Event(Listen, "dispatch")
    /\ in_credits > 0
    /\ in_credits' = in_credits - 1 /\ lost_credits' = lost_credits + 1
    /\ accepts' = accepts + 1
    /\ UNCHANGED <<connVars, ephVars, ctxVars, in_fd, kernel, cur, appVars,
                   deaf, corrupt>>

\* tcp_mgr_incoming_fini() gives the memory and the credit back...
FreeIncoming(i) ==
    /\ in_fd' = [in_fd EXCEPT ![i] = None]
    /\ in_credits' = in_credits + 1
    /\ UNCHANGED lost_credits

\* ... and tcp_mgr_incoming_fini_err() also closes the socket.
CloseIncoming(i) ==
    /\ open' = open \ {in_fd[i]}
    /\ interest' = [interest EXCEPT ![in_fd[i]] = None]
    /\ FreeIncoming(i)

\* The peer hangs up or the application does not know it.
HandshakeFails(i) ==
    /\ Event(i, "dispatch")
    /\ CloseIncoming(i)
    /\ UNCHANGED <<connVars, ephVars, ctxVars, cur, appVars, deaf, corrupt, accepts>>

\* The application names a connection that is not DISCONNECTED: that one is
\* closed if it was CONNECTED, and so is the incoming one (here first: nothing
\* in between tells the order).
MergeRefused(i, c) ==
    /\ tmc_status[c] # "DISCONNECTED"
    /\ Event(i, IF tmc_status[c] = "CONNECTED" THEN "del" ELSE "dispatch")
    /\ cur' = c
    /\ CloseIncoming(i)
    /\ UNCHANGED <<connVars, ephVars, ctxVars, appVars, deaf, corrupt, accepts>>

\* epoll_handle_init() and epoll_handle_add() of tcp_mgr_connection_epoll_add().
\* The handle must not be on any list of the epoll manager.
EpollAdd(c, f, cb) ==
    /\ corrupt' = (c \in installed \cup ctx_cb_list \cup tmp_head)
    /\ eph_ctx_cb' = eph_ctx_cb \ {c}
    /\ eph_fd' = [eph_fd EXCEPT ![c] = f]
    /\ eph_cb' = [eph_cb EXCEPT ![c] = cb]
    /\ installed' = installed \cup {c}
    /\ interest' = [interest EXCEPT ![f] = c]
    /\ UNCHANGED <<destroy_list, deaf>>

\* EPOLL_CTL_ADD fails; both callers leave the connection as it is.
EpollAddFails(c, f, cb) ==
    /\ corrupt' = (c \in installed \cup ctx_cb_list \cup tmp_head)
    /\ eph_ctx_cb' = eph_ctx_cb \ {c}
    /\ eph_fd' = [eph_fd EXCEPT ![c] = f]
    /\ eph_cb' = [eph_cb EXCEPT ![c] = cb]
    /\ installed' = installed \ {c}
    /\ interest' = [interest EXCEPT ![f] = None]
    /\ deaf' = deaf \cup {c}
    /\ UNCHANGED destroy_list

\* Mutant: the incoming connection is finished as after an error.
KeepsSocket_closed(f) == open \ {f}
KeepsSocket(f) == open

\* tcp_mgr_connection_merge_incoming(): the socket changes hands.
Merge(i, c) ==
    LET f == in_fd[i] IN
    /\ Event(i, "dispatch")
    /\ tmc_status[c] = "DISCONNECTED"
    /\ tmc_status' = [tmc_status EXCEPT ![c] = "CONNECTED"]
    /\ fd' = [fd EXCEPT ![c] = f]
    /\ EpollAdd(c, f, "recv") \/ EpollAddFails(c, f, "recv")
    /\ open' = KeepsSocket(f)
    /\ FreeIncoming(i)
    /\ UNCHANGED <<tmc_epoll_ctx_cb, ctxVars, cur, appVars, accepts>>

-------------------------------------------------------------------------------
(* Closing: tcp_mgr_connection_close_internal() of connection cur.           *)

\* epoll_handle_del(): deferred while a ctx callback of the handle is queued,
\* unless it is the one that runs; nothing if it is deferred already.
DelDeferred(c) == c \in eph_ctx_cb /\ running # c

CloseDel ==
    LET c == cur IN
    /\ MgrGoto("del", "close")
    /\ tmc_status' = [tmc_status EXCEPT ![c] = "DISCONNECTING"]
    /\ \/ /\ c \in installed \ destroy_list
          /\ IF DelDeferred(c)
               THEN /\ destroy_list' = destroy_list \cup {c}
                    /\ UNCHANGED <<installed, eph_fd, interest>>
               ELSE /\ installed' = installed \ {c}
                    /\ interest' = [interest EXCEPT ![eph_fd[c]] = None]
                    /\ eph_fd' = [eph_fd EXCEPT ![c] = None]
                    /\ UNCHANGED destroy_list
       \/ /\ c \notin installed \ destroy_list
          /\ UNCHANGED <<destroy_list, installed, eph_fd, interest>>
    /\ UNCHANGED <<fd, tmc_epoll_ctx_cb, eph_cb, eph_ctx_cb, ctxVars, inVars, open, evs,
                   cur, ret, running, appVars, deaf, corrupt, accepts>>

\* tcp_socket_close(), which also takes the descriptor off the interest list.
CloseEnd ==
    LET c == cur IN
    /\ MgrGoto("close", ret)
    /\ open' = open \ {fd[c]}
    /\ interest' = [f \in Fds |-> IF f = fd[c] THEN None ELSE interest[f]]
    /\ fd' = [fd EXCEPT ![c] = None]
    /\ tmc_status' = [tmc_status EXCEPT ![c] = "DISCONNECTED"]
    /\ deaf' = deaf \ {c}
    /\ UNCHANGED <<tmc_epoll_ctx_cb, ephVars, ctxVars, inVars, evs, cur, ret, running,
                   appVars, corrupt, accepts>>

-------------------------------------------------------------------------------
(* The ctx callbacks: tcp_mgr_epoll_ctx_cb() runs what was asked for.        *)

RunCtxCb(c) ==
    /\ c \in tmp_head
    /\ MgrGoto("reap_ctx", CASE tmc_epoll_ctx_cb[c] = "connect" -> "ctx_start"
                             [] tmc_epoll_ctx_cb[c] = "close" -> "del"
                             [] OTHER -> "ctx_end")
    /\ tmp_head' = tmp_head \ {c}
    /\ cur' = c /\ running' = c /\ ret' = "ctx_end"
    /\ UNCHANGED <<connVars, ephVars, ctx_cb_list, inVars, kernel, evs, appVars,
                   deaf, corrupt, accepts>>

CtxCbEnd ==
    /\ MgrGoto("ctx_end", "ctx_done")
    /\ tmc_epoll_ctx_cb' = [tmc_epoll_ctx_cb EXCEPT ![cur] = None]
    /\ UNCHANGED <<tmc_status, fd, ephVars, ctxVars, inVars, kernel, evs, cur, ret,
                   running, appVars, deaf, corrupt, accepts>>

\* epoll_mgr_ctx_cb_run() clears the handle's ctx callback.  If the callback
\* has initialised the handle, another one may have been queued since.
CtxCbDone ==
    /\ MgrGoto("ctx_done", "reap_ctx")
    /\ corrupt' = (cur \in ctx_cb_list)
    /\ eph_ctx_cb' = eph_ctx_cb \ {cur}
    /\ running' = None
    /\ UNCHANGED <<connVars, installed, eph_fd, eph_cb, destroy_list, ctxVars, inVars,
                   kernel, evs, cur, ret, appVars, deaf, accepts>>

CtxListDone ==
    /\ MgrGoto("reap_ctx", "reap_destroy") /\ tmp_head = {}
    /\ UNCHANGED <<connVars, ephVars, ctxVars, inVars, kernel, evs, cur, ret, running,
                   appVars, deaf, corrupt, accepts>>

\* epoll_mgr_reap_destroy_list(): the descriptor that the handle names is
\* taken off the interest list, whose ever it is by now.
ReapDestroy(c) ==
    /\ MgrGoto("reap_destroy", "reap_destroy")
    /\ c \in destroy_list \ eph_ctx_cb
    /\ destroy_list' = destroy_list \ {c}
    /\ installed' = installed \ {c}
    /\ interest' = [interest EXCEPT ![eph_fd[c]] = None]
    /\ deaf' = deaf \cup ({interest[eph_fd[c]]} \ {c, None})
    /\ eph_fd' = [eph_fd EXCEPT ![c] = None]
    /\ UNCHANGED <<connVars, eph_cb, eph_ctx_cb, ctxVars, inVars, open, evs, cur, ret,
                   running, appVars, corrupt, accepts>>

ReapDone ==
    /\ MgrGoto("reap_destroy", "wait") /\ destroy_list \subseteq eph_ctx_cb
    /\ UNCHANGED <<connVars, ephVars, ctxVars, inVars, kernel, evs, cur, ret, running,
                   appVars, deaf, corrupt, accepts>>

-------------------------------------------------------------------------------
(* Connecting: tcp_mgr_connection_connect_epoll_ctx() of connection cur.     *)

\* Mutant: the status is not looked at again in the epoll thread.
StillDisconnected_any(c) == TRUE
StillDisconnected(c) == tmc_status[c] = "DISCONNECTED"

NoLonger ==
    /\ MgrGoto("ctx_start", ret) /\ ~StillDisconnected(cur)
    /\ UNCHANGED <<connVars, ephVars, ctxVars, inVars, kernel, evs, cur, ret, running,
                   appVars, deaf, corrupt, accepts>>

ConnectSocket(f) ==
    /\ MgrGoto("ctx_start", "conn_add") /\ StillDisconnected(cur)
    /\ f \notin open
    /\ tmc_status' = [tmc_status EXCEPT ![cur] = "CONNECTING"]
    /\ fd' = [fd EXCEPT ![cur] = f]
    /\ open' = open \cup {f}
    /\ UNCHANGED <<tmc_epoll_ctx_cb, ephVars, ctxVars, inVars, interest, evs, cur, ret,
                   running, appVars, deaf, corrupt, accepts>>

\* socket() fails, and the status stays CONNECTING.
ConnectNoSocket ==
    /\ MgrGoto("ctx_start", ret) /\ StillDisconnected(cur)
    /\ tmc_status' = [tmc_status EXCEPT ![cur] = "CONNECTING"]
    /\ deaf' = deaf \cup {cur}
    /\ UNCHANGED <<fd, tmc_epoll_ctx_cb, ephVars, ctxVars, inVars, kernel, evs, cur, ret,
                   running, appVars, corrupt, accepts>>

ConnectAdd ==
    /\ \/ MgrGoto("conn_add", "connect") /\ EpollAdd(cur, fd[cur], "connect")
       \/ MgrGoto("conn_add", ret) /\ EpollAddFails(cur, fd[cur], "connect")
    /\ UNCHANGED <<connVars, ctxVars, inVars, open, evs, cur, ret, running, appVars, accepts>>

\* tcp_socket_connect() fails, is in progress, or succeeds at once.
Connect ==
    /\ \E l \in {"del", ret, "complete"} : MgrGoto("connect", l)
    /\ UNCHANGED <<connVars, ephVars, ctxVars, inVars, kernel, evs, cur, ret, running,
                   appVars, deaf, corrupt, accepts>>

\* tcp_mgr_connect_complete(): the handle now receives, the handshake is sent.
ConnectComplete ==
    /\ MgrGoto("complete", ret)
    /\ tmc_status[cur] = "CONNECTING" /\ cur \in installed \ destroy_list
    /\ eph_cb' = [eph_cb EXCEPT ![cur] = "recv"]
    /\ tmc_status' = [tmc_status EXCEPT ![cur] = "CONNECTED"]
    /\ UNCHANGED <<fd, tmc_epoll_ctx_cb, installed, eph_fd, eph_ctx_cb, destroy_list,
                   ctxVars, inVars, kernel, evs, cur, ret, running, appVars, deaf,
                   corrupt, accepts>>

\* The connection is not CONNECTING any more, or epoll_ctl() or the handshake fails.
CompleteFails ==
    /\ MgrGoto("complete", "del")
    /\ IF tmc_status[cur] = "CONNECTING" THEN eph_cb' = [eph_cb EXCEPT ![cur] = "recv"]
                                         ELSE UNCHANGED eph_cb
    /\ UNCHANGED <<connVars, installed, eph_fd, eph_ctx_cb, destroy_list, ctxVars, inVars,
                   kernel, evs, cur, ret, running, appVars, deaf, corrupt, accepts>>

-------------------------------------------------------------------------------
Peers == \/ AcceptFails \/ AcceptNoMemory
         \/ \E i \in Incoming : \/ \E f \in Fds : Accept(i, f)
                                \/ HandshakeFails(i)
                                \/ \E c \in Conns : MergeRefused(i, c) \/ Merge(i, c)

Mgr ==
    \/ epoll_wait \/ DispatchDone \/ Peers \/ InlineEnd
    \/ \E c \in Conns : \/ SkipEvent(c) \/ ConnectEvent(c) \/ RecvEvent(c)
                        \/ ReplyFails(c) \/ InlineConnect(c) \/ RunCtxCb(c) \/ ReapDestroy(c)
    \/ CloseDel \/ CloseEnd
    \/ CtxCbEnd \/ CtxCbDone \/ CtxListDone \/ ReapDone
    \/ NoLonger \/ ConnectNoSocket \/ \E f \in Fds : ConnectSocket(f)
    \/ ConnectAdd \/ Connect \/ ConnectComplete \/ CompleteFails

Next == \/ Mgr
        \/ \E t \in Threads : App(t)
        \/ \E c \in Conns : Setup(c)

Spec == Init /\ [][Next]_vars

\* The epoll thread's loop goes on (a request wakes it), and so does a thread
\* inside a call.  Nobody has to call, and no peer has to do anything.
FairSpec ==
    /\ Spec
    /\ WF_vars(Mgr)
    /\ \A t \in Threads : WF_vars(AppStep(t))

-------------------------------------------------------------------------------
(* Properties.                                                               *)

\* The types of the connections, handles, lists and threads.
TypeOK ==
    /\ tmc_status \in [Conns -> Statuses]
    /\ fd \in [Conns -> Fds \cup {None}] /\ eph_fd \in [Conns -> Fds \cup {None}]
    /\ tmc_epoll_ctx_cb \in [Conns -> {None, "connect", "close"}]
    /\ eph_cb \in [Conns -> {None, "connect", "recv"}]
    /\ \A S \in {installed, eph_ctx_cb, destroy_list, ctx_cb_list, tmp_head} :
          S \subseteq Conns
    /\ deaf \subseteq Conns \cup Incoming
    /\ in_fd \in [Incoming -> Fds \cup {None}]
    /\ in_credits \in Int /\ lost_credits \in Nat
    /\ open \subseteq Fds
    /\ interest \in [Fds -> Conns \cup Incoming \cup {None}]
    /\ mpc \in MgrLabels /\ ret \in MgrLabels
    /\ evs \subseteq Conns \cup Incoming \cup {Listen}
    /\ cur \in Conns \cup {None} /\ running \in Conns \cup {None}
    /\ pc \in [Threads -> AppLabels] /\ arg \in [Threads -> Conns \cup {None}]
    /\ ask \in [Threads -> {None, "connect", "close"}]
    /\ corrupt \in BOOLEAN /\ calls \in Nat /\ accepts \in Nat

\* Who will release the claim that tmc_epoll_ctx_cb is: a thread that asks, the
\* queue, the callback that runs for it, the epoll thread that closes in place.
Claimants(c) ==
    {t \in Threads : arg[t] = c /\ pc[t] \in {"add", "unclaim"}}
    \cup {p \in {"queue", "run", "inline"} :
            \/ p = "queue" /\ c \in ctx_cb_list \cup tmp_head
            \/ p = "run" /\ running = c /\ mpc # "ctx_done"
            \/ p = "inline" /\ cur = c /\ ret = "inline_end"
                            /\ mpc \notin {"wait", "dispatch", "reap_ctx"}}

\* tmc_epoll_ctx_cb, which is set under a mutex and cleared without one, has
\* exactly one owner while it is set: no request is overwritten by another, none
\* is run twice, and none blocks the connection for good after it was refused.
ClaimAccounted ==
    ~corrupt => \A c \in Conns :
       Cardinality(Claimants(c)) = IF tmc_epoll_ctx_cb[c] = None THEN 0 ELSE 1

\* Between two rounds of the loop a CONNECTED connection has a socket that the
\* kernel watches on its behalf, and a DISCONNECTED one has neither socket nor
\* handle, but for a delete that a queued callback delays.
ConnectedIsHeard ==
    mpc = "wait" /\ ~corrupt => \A c \in Conns :
       /\ tmc_status[c] = "CONNECTED" /\ c \notin deaf =>
             /\ c \in installed \ destroy_list /\ eph_cb[c] = "recv"
             /\ fd[c] # None /\ interest[fd[c]] = c
       /\ tmc_status[c] = "DISCONNECTED" =>
             fd[c] = None /\ installed \cap {c} \subseteq destroy_list

\* Every open socket belongs to one connection, across the handshake that moves
\* it from an incoming connection to the application's; and every credit of
\* tmi_incoming_credits to an incoming connection, but for those that a failed
\* allocation lost.
SocketsAccounted ==
    LET held == [x \in Conns \cup Incoming |-> IF x \in Conns THEN fd[x] ELSE in_fd[x]]
    IN  /\ open = {held[x] : x \in DOMAIN held} \ {None}
        /\ \A x, y \in DOMAIN held : held[x] = held[y] /\ held[x] # None => x = y
        /\ in_credits = IncomingCredits - lost_credits
                          - Cardinality({i \in Incoming : in_fd[i] # None})

\* A request for the epoll thread is run or refused, and the next one is let in.
ClaimReleased ==
    \A c \in Conns :
       tmc_epoll_ctx_cb[c] # None ~> tmc_epoll_ctx_cb[c] = None \/ corrupt

\* A handle is initialised only while the epoll manager has it on no list, so
\* that "NIOVA_ASSERT(epm && eph && eph->eph_ctx_cb && eph->eph_ref_cb)" of
\* epoll_mgr_ctx_cb_run() holds for every queued handle.
HandleIsOurs == ~corrupt
===============================================================================
