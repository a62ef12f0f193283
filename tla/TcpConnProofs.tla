---------------------------- MODULE TcpConnProofs ----------------------------
(***************************************************************************)
(* Proofs about TcpConn, for any number of connections, of application     *)
(* threads, of descriptors and of peers that connect: every open socket    *)
(* and every credit has one owner, a request for the epoll thread has one  *)
(* claimant, and what is CONNECTED is heard.                               *)
(*                                                                         *)
(* A connection is changed step by step by the epoll thread, whose stack   *)
(* (mpc, ret, cur, running) says which connection is in which half-done    *)
(* state.  The inductive invariant has one part for that stack, one for    *)
(* the sockets, one for the claims and one for what each status promises   *)
(* of the handle.  Nothing is promised once a handle was initialised while *)
(* the epoll manager had it on a list, but for the sockets.                *)
(***************************************************************************)
EXTENDS TcpConn, FiniteSetTheorems, TLAPS

\* TypeOK, with the sets spelled out.
Types ==
    /\ tmc_status \in [Conns -> Statuses]
    /\ fd \in [Conns -> Fds \cup {None}] /\ eph_fd \in [Conns -> Fds \cup {None}]
    /\ tmc_epoll_ctx_cb \in [Conns -> {None, "connect", "close"}]
    /\ eph_cb \in [Conns -> {None, "connect", "recv"}]
    /\ installed \subseteq Conns /\ eph_ctx_cb \subseteq Conns /\ destroy_list \subseteq Conns
    /\ ctx_cb_list \subseteq Conns /\ tmp_head \subseteq Conns
    /\ deaf \subseteq Conns \cup Incoming
    /\ in_fd \in [Incoming -> Fds \cup {None}]
    /\ in_credits \in Int /\ lost_credits \in Nat
    /\ open \subseteq Fds
    /\ interest \in [Fds -> Conns \cup Incoming \cup {None}]
    /\ mpc \in MgrLabels /\ ret \in MgrLabels
    /\ evs \subseteq Conns \cup Incoming \cup {Listen}
    /\ cur \in Conns \cup {None} /\ running \in Conns \cup {None}
    /\ pc \in [Threads -> AppLabels] /\ arg \in [Threads -> Conns \cup {None}]
    /\ ask \in [Threads -> {None, "connect", "close"}]
    /\ corrupt \in BOOLEAN /\ calls \in Nat /\ accepts \in Nat

\* The places of the epoll thread inside a call, where the call returns to, and
\* the places at which it works on connection cur.
Nested == {"ctx_start", "conn_add", "connect", "complete", "del", "close"}
Returns == {"dispatch", "ctx_end", "inline_end"}
OnConn == Nested \cup {"ctx_end", "ctx_done", "inline_end"}

\* The stack of the epoll thread.
Stack ==
    /\ mpc \in OnConn => cur \in Conns /\ ret \in Returns
    /\ mpc = "inline_end" => ret = "inline_end"
    /\ mpc \in {"ctx_end", "ctx_done"} => ret = "ctx_end"
    /\ ret = "inline_end" => mpc \in Nested \cup {"inline_end"}
    /\ mpc \in OnConn /\ ret = "ctx_end" => running = cur
    /\ ~(mpc \in OnConn /\ ret = "ctx_end") => running = None
    /\ tmp_head # {} => mpc = "reap_ctx" \/ running # None
    /\ running \notin tmp_head

\* The threads inside a call work on a connection and ask for something.
Callers ==
    \A t \in Threads : pc[t] # "idle" =>
       /\ arg[t] \in Conns
       /\ pc[t] = "claim" => ask[t] # None

\* The sockets, without the function that SocketsAccounted builds.
Owned ==
    /\ \A c \in Conns : fd[c] # None => fd[c] \in open
    /\ \A i \in Incoming : in_fd[i] # None => in_fd[i] \in open
    /\ \A f \in open : (\E c \in Conns : fd[c] = f) \/ (\E i \in Incoming : in_fd[i] = f)
    /\ \A c, d \in Conns : fd[c] = fd[d] /\ fd[c] # None => c = d
    /\ \A i, j \in Incoming : in_fd[i] = in_fd[j] /\ in_fd[i] # None => i = j
    /\ \A c \in Conns, i \in Incoming : fd[c] # None => fd[c] # in_fd[i]
Credits ==
    in_credits = IncomingCredits - lost_credits
                   - Cardinality({i \in Incoming : in_fd[i] # None})

\* An incoming connection has an event only while it has a socket.
Heard ==
    /\ \A i \in Incoming : i \in evs => in_fd[i] # None
    /\ \A f \in Fds : interest[f] \in Incoming => in_fd[interest[f]] = f

\* The queue of ctx callbacks: what is on it has its callback set.
Queued ==
    /\ ctx_cb_list \cup tmp_head \subseteq eph_ctx_cb
    /\ ctx_cb_list \cap tmp_head = {}

\* ClaimAccounted, without cardinalities: the four kinds of claimant, of which a
\* claimed connection has one and another has none.
Asks(t, c) == arg[t] = c /\ pc[t] \in {"add", "unclaim"}
Waits(c) == c \in ctx_cb_list \cup tmp_head
Runs(c) == running = c /\ mpc # "ctx_done"
InPlace(c) == cur = c /\ ret = "inline_end" /\ mpc \notin {"wait", "dispatch", "reap_ctx"}
Claimed(c) ==
    /\ tmc_epoll_ctx_cb[c] = None <=>
          ~Waits(c) /\ ~Runs(c) /\ ~InPlace(c) /\ \A t \in Threads : ~Asks(t, c)
    /\ ~(Waits(c) /\ Runs(c)) /\ ~(Waits(c) /\ InPlace(c)) /\ ~(Runs(c) /\ InPlace(c))
    /\ \A t \in Threads : Asks(t, c) =>
          /\ ~Waits(c) /\ ~Runs(c) /\ ~InPlace(c)
          /\ \A u \in Threads : Asks(u, c) => u = t
Claims == \A c \in Conns : Claimed(c)

\* The handle of c is installed and not about to be deleted; the kernel watches
\* the socket of c for it.
Live(c) == c \in installed /\ c \notin destroy_list
Watched(c) == Live(c) /\ interest[fd[c]] = c

\* What each status promises.
Handles ==
    /\ destroy_list \subseteq installed
    /\ \A c \in installed : eph_fd[c] # None
    /\ \A c \in Conns : Live(c) => eph_fd[c] = fd[c]
    /\ mpc = "close" => tmc_status[cur] = "DISCONNECTING"
    /\ mpc = "conn_add" => tmc_status[cur] = "CONNECTING" /\ fd[cur] # None
Promise(c) ==
    /\ tmc_status[c] = "NEEDS_SETUP" => fd[c] = None /\ c \notin installed
    /\ tmc_status[c] = "DISCONNECTED" => fd[c] = None /\ ~Live(c)
    /\ tmc_status[c] = "DISCONNECTING" => mpc = "close" /\ cur = c /\ ~Live(c)
    /\ tmc_status[c] = "CONNECTING" /\ c \notin deaf =>
          (mpc = "conn_add" /\ cur = c) \/ Watched(c)
    /\ tmc_status[c] = "CONNECTED" /\ c \notin deaf => Watched(c) /\ eph_cb[c] = "recv"
Promises == \A c \in Conns : Promise(c)

ConnInv ==
    /\ Types /\ Stack /\ Callers /\ Owned /\ Credits /\ Heard
    /\ ~corrupt => Queued /\ Claims /\ Handles /\ Promises
-------------------------------------------------------------------------------
(* The types, the stack of the epoll thread and the callers.                 *)

\* The parts that every step needs of the state before it, which is never corrupt:
\* each action of TcpConn has ~corrupt as a guard.
Before == Types /\ Stack /\ Callers /\ Owned /\ Credits /\ Heard
          /\ Queued /\ Claims /\ Handles /\ Promises
Frame == Types /\ Stack /\ Callers

\* An application thread keeps the types, the stack and what callers hold.
LEMMA AppFrame ==
    ASSUME Before, NEW t \in Threads, App(t)
    PROVE  Frame'
<1>. USE TcpConnAssumption DEF Before, Frame, Types, AppLabels, EpollOnly, inVars, kernel, mgrVars, AppGoto
<1>1. ASSUME NEW c \in Conns, Verify(t, c) PROVE Frame'
  <2>1. Types'  BY <1>1 DEF Verify
  <2>2. Stack'  BY <1>1 DEF Verify, Stack
  <2>3. Callers'  BY <1>1 DEF Verify, Callers, None
  <2>. QED  BY <2>1, <2>2, <2>3
<1>2. ASSUME NEW c \in Conns, tcp_mgr_connection_close(t, c) PROVE Frame'
  <2>1. Types'  BY <1>2 DEF tcp_mgr_connection_close
  <2>2. Stack'  BY <1>2 DEF tcp_mgr_connection_close, Stack
  <2>3. Callers'  BY <1>2 DEF tcp_mgr_connection_close, Callers, None
  <2>. QED  BY <2>1, <2>2, <2>3
<1>3. CASE Send(t)
  BY <1>3 DEF Send, Stack, Callers
<1>4. CASE SendFails(t)
  <2>1. Types'  BY <1>4 DEF SendFails
  <2>2. Stack'  BY <1>4 DEF SendFails, Stack
  <2>3. Callers'  BY <1>4 DEF SendFails, Callers, None
  <2>. QED  BY <2>1, <2>2, <2>3
<1>5. CASE Claim(t)
  BY <1>5 DEF Claim, Stack, Callers
<1>6. CASE CtxCbAdd(t)
  BY <1>6 DEF CtxCbAdd, Stack, Callers
<1>7. CASE Unclaim(t)
  BY <1>7 DEF Unclaim, Unclaimed, Stack, Callers
<1>. QED  BY <1>1, <1>2, <1>3, <1>4, <1>5, <1>6, <1>7 DEF App, AppStep

\* The events of a batch, and the end of the batch.
LEMMA EventFrame ==
    ASSUME Before,
           \/ epoll_wait \/ DispatchDone \/ InlineEnd
           \/ \E c \in Conns : SkipEvent(c) \/ ConnectEvent(c) \/ RecvEvent(c)
                                 \/ ReplyFails(c) \/ InlineConnect(c)
    PROVE  Frame'
<1>. USE TcpConnAssumption DEF Before, Frame, Types, MgrLabels, OnConn, Nested, Returns,
         MgrGoto, Event, connVars, ephVars, ctxVars, inVars, kernel, appVars, Callers
<1>1. CASE epoll_wait
  BY <1>1 DEF epoll_wait, Ready, Stack
<1>2. CASE DispatchDone
  BY <1>2 DEF DispatchDone, Stack
<1>3. CASE InlineEnd
  BY <1>3 DEF InlineEnd, Stack
<1>4. ASSUME NEW c \in Conns, SkipEvent(c) PROVE Frame'
  BY <1>4 DEF SkipEvent, Stack
<1>5. ASSUME NEW c \in Conns, ConnectEvent(c) PROVE Frame'
  BY <1>5 DEF ConnectEvent, Stack
<1>6. ASSUME NEW c \in Conns, RecvEvent(c) PROVE Frame'
  BY <1>6 DEF RecvEvent, Stack
<1>7. ASSUME NEW c \in Conns, ReplyFails(c) PROVE Frame'
  BY <1>7 DEF ReplyFails, Stack
<1>8. ASSUME NEW c \in Conns, InlineConnect(c) PROVE Frame'
  BY <1>8 DEF InlineConnect, Stack
<1>. QED  BY <1>1, <1>2, <1>3, <1>4, <1>5, <1>6, <1>7, <1>8

\* The peers.
LEMMA PeerFrame ==
    ASSUME Before, Peers
    PROVE  Frame'
<1>. USE TcpConnAssumption DEF Before, Frame, Types, MgrLabels, OnConn, Nested, Returns,
         MgrGoto, Event, connVars, ephVars, ctxVars, inVars, kernel, appVars, Callers,
         FreeIncoming, CloseIncoming
<1>1. CASE AcceptFails
  BY <1>1 DEF AcceptFails, Stack
<1>2. CASE AcceptNoMemory
  BY <1>2 DEF AcceptNoMemory, Stack
<1>3. ASSUME NEW i \in Incoming, NEW f \in Fds, Accept(i, f) PROVE Frame'
  BY <1>3 DEF Accept, Stack
<1>4. ASSUME NEW i \in Incoming, HandshakeFails(i) PROVE Frame'
  <2>1. interest' \in [Fds -> Conns \cup Incoming \cup {None}]
    BY <1>4 DEF HandshakeFails
  <2>2. Types'  BY <1>4, <2>1 DEF HandshakeFails
  <2>3. Stack' /\ Callers'  BY <1>4 DEF HandshakeFails, Stack
  <2>. QED  BY <2>2, <2>3
<1>5. ASSUME NEW i \in Incoming, NEW c \in Conns, MergeRefused(i, c) PROVE Frame'
  <2>1. interest' \in [Fds -> Conns \cup Incoming \cup {None}]
    BY <1>5 DEF MergeRefused
  <2>2. Types'  BY <1>5, <2>1 DEF MergeRefused
  <2>3. Stack' /\ Callers'  BY <1>5 DEF MergeRefused, Stack
  <2>. QED  BY <2>2, <2>3
<1>6. ASSUME NEW i \in Incoming, NEW c \in Conns, Merge(i, c) PROVE Frame'
  <2>. in_fd[i] \in Fds
    BY <1>6 DEF Merge, Heard
  <2>a. ASSUME EpollAdd(c, in_fd[i], "recv") PROVE Types'
    <3>1. interest' \in [Fds -> Conns \cup Incoming \cup {None}]
      BY <2>a DEF EpollAdd
    <3>. QED  BY <3>1, <2>a, <1>6 DEF EpollAdd, Merge, KeepsSocket, Statuses
  <2>b. ASSUME EpollAddFails(c, in_fd[i], "recv") PROVE Types'
    <3>1. interest' \in [Fds -> Conns \cup Incoming \cup {None}]
      BY <2>b DEF EpollAddFails
    <3>. QED  BY <3>1, <2>b, <1>6 DEF EpollAddFails, Merge, KeepsSocket, Statuses
  <2>1. Types'
    BY <1>6, <2>a, <2>b DEF Merge
  <2>2. Stack' /\ Callers'
    BY <1>6 DEF Merge, Stack
  <2>. QED  BY <2>1, <2>2
<1>. QED  BY <1>1, <1>2, <1>3, <1>4, <1>5, <1>6 DEF Peers

\* The ctx callbacks, the delayed deletes, closing and connecting.
LEMMA WorkFrame ==
    ASSUME Before,
           \/ \E c \in Conns : RunCtxCb(c) \/ ReapDestroy(c)
           \/ CloseDel \/ CloseEnd
           \/ CtxCbEnd \/ CtxCbDone \/ CtxListDone \/ ReapDone
           \/ NoLonger \/ ConnectNoSocket \/ \E f \in Fds : ConnectSocket(f)
           \/ ConnectAdd \/ Connect \/ ConnectComplete \/ CompleteFails
    PROVE  Frame'
<1>. USE TcpConnAssumption DEF Before, Frame, Types, MgrLabels, OnConn, Nested, Returns,
         MgrGoto, connVars, ephVars, ctxVars, inVars, kernel, appVars, Callers
<1>1. ASSUME NEW c \in Conns, RunCtxCb(c) PROVE Frame'
  BY <1>1 DEF RunCtxCb, Stack
<1>2. ASSUME NEW c \in Conns, ReapDestroy(c) PROVE Frame'
  <2>. eph_fd[c] \in Fds
    BY <1>2 DEF ReapDestroy, Handles
  <2>1. interest' \in [Fds -> Conns \cup Incoming \cup {None}]
    BY <1>2 DEF ReapDestroy
  <2>2. Types'  BY <1>2, <2>1 DEF ReapDestroy
  <2>3. Stack' /\ Callers'  BY <1>2 DEF ReapDestroy, Stack
  <2>. QED  BY <2>2, <2>3
<1>3. CASE CloseDel
  <2>. cur \in Conns
    BY <1>3 DEF CloseDel, Stack
  <2>a. /\ interest' \in [Fds -> Conns \cup Incoming \cup {None}]
        /\ installed' \subseteq Conns /\ destroy_list' \subseteq Conns
        /\ eph_fd' \in [Conns -> Fds \cup {None}]
    <3>1. CASE cur \in installed \ destroy_list /\ ~DelDeferred(cur)
      BY <3>1, <1>3 DEF CloseDel
    <3>2. CASE ~(cur \in installed \ destroy_list /\ ~DelDeferred(cur))
      BY <3>2, <1>3 DEF CloseDel
    <3>. QED  BY <3>1, <3>2
  <2>1. Types'  BY <1>3, <2>a DEF CloseDel, Statuses
  <2>2. Stack' /\ Callers'  BY <1>3 DEF CloseDel, Stack
  <2>. QED  BY <2>1, <2>2
<1>4. CASE CloseEnd
  BY <1>4 DEF CloseEnd, Stack, Statuses
<1>5. CASE CtxCbEnd
  BY <1>5 DEF CtxCbEnd, Stack
<1>6. CASE CtxCbDone
  BY <1>6 DEF CtxCbDone, Stack
<1>7. CASE CtxListDone
  BY <1>7 DEF CtxListDone, Stack
<1>8. CASE ReapDone
  BY <1>8 DEF ReapDone, Stack
<1>9. CASE NoLonger
  BY <1>9 DEF NoLonger, Stack
<1>10. CASE ConnectNoSocket
  BY <1>10 DEF ConnectNoSocket, Stack, Statuses
<1>11. ASSUME NEW f \in Fds, ConnectSocket(f) PROVE Frame'
  BY <1>11 DEF ConnectSocket, Stack, Statuses
<1>12. CASE ConnectAdd
  <2>. cur \in Conns /\ fd[cur] \in Fds
    BY <1>12 DEF ConnectAdd, Stack, Handles
  <2>a. ASSUME EpollAdd(cur, fd[cur], "connect") PROVE Types'
    <3>1. interest' \in [Fds -> Conns \cup Incoming \cup {None}]
      BY <2>a DEF EpollAdd
    <3>. QED  BY <3>1, <2>a, <1>12 DEF EpollAdd, ConnectAdd, Stack
  <2>b. ASSUME EpollAddFails(cur, fd[cur], "connect") PROVE Types'
    <3>1. interest' \in [Fds -> Conns \cup Incoming \cup {None}]
      BY <2>b DEF EpollAddFails
    <3>. QED  BY <3>1, <2>b, <1>12 DEF EpollAddFails, ConnectAdd, Stack
  <2>1. Types'
    BY <1>12, <2>a, <2>b DEF ConnectAdd
  <2>2. Stack' /\ Callers'  BY <1>12 DEF ConnectAdd, Stack
  <2>. QED  BY <2>1, <2>2
<1>13. CASE Connect
  BY <1>13 DEF Connect, Stack
<1>14. CASE ConnectComplete
  BY <1>14 DEF ConnectComplete, Stack, Statuses
<1>15. CASE CompleteFails
  BY <1>15 DEF CompleteFails, Stack
<1>. QED  BY <1>1, <1>2, <1>3, <1>4, <1>5, <1>6, <1>7, <1>8, <1>9, <1>10, <1>11,
            <1>12, <1>13, <1>14, <1>15

-------------------------------------------------------------------------------
(* The sockets and the credits.                                              *)

Sockets == Owned /\ Credits /\ Heard

\* A step that leaves the sockets and the credits alone, adds no event of a closed
\* incoming connection and no entry of one to the interest list.
LEMMA SocketsQuiet ==
    ASSUME Before, Frame',
           UNCHANGED <<fd, in_fd, open, in_credits, lost_credits>>,
           \A i \in Incoming : i \in evs' => i \in evs \/ in_fd[i] # None,
           \A f \in Fds : interest'[f] \in Incoming => interest'[f] = interest[f]
    PROVE  Sockets'
<1>1. Owned' /\ Credits'
  BY DEF Before, Owned, Credits
<1>2. Heard'
  BY DEF Before, Heard
<1>. QED  BY <1>1, <1>2 DEF Sockets

\* The incoming connections that have a socket are finitely many; one more, or
\* one less, is counted so.
LEMMA OneMore ==
    ASSUME NEW g \in [Incoming -> Fds \cup {None}], NEW i \in Incoming, NEW x \in Fds \cup {None},
           g[i] = None, x # None
    PROVE  Cardinality({j \in Incoming : [g EXCEPT ![i] = x][j] # None})
             = Cardinality({j \in Incoming : g[j] # None}) + 1
           /\ Cardinality({j \in Incoming : g[j] # None}) \in Nat
<1>. DEFINE S == {j \in Incoming : g[j] # None}
            T == {j \in Incoming : [g EXCEPT ![i] = x][j] # None}
<1>1. IsFiniteSet(S) /\ i \notin S
  BY TcpConnAssumption, FS_Subset
<1>2. T = S \cup {i}
  OBVIOUS
<1>. HIDE DEF S, T
<1>3. Cardinality(T) = Cardinality(S) + 1 /\ Cardinality(S) \in Nat
  BY <1>1, <1>2, FS_AddElement, FS_CardinalityType
<1>. QED  BY <1>3 DEF S, T
LEMMA OneLess ==
    ASSUME NEW g \in [Incoming -> Fds \cup {None}], NEW i \in Incoming, g[i] # None
    PROVE  Cardinality({j \in Incoming : [g EXCEPT ![i] = None][j] # None})
             = Cardinality({j \in Incoming : g[j] # None}) - 1
           /\ Cardinality({j \in Incoming : g[j] # None}) \in Nat
<1>. DEFINE S == {j \in Incoming : g[j] # None}
            T == {j \in Incoming : [g EXCEPT ![i] = None][j] # None}
<1>1. IsFiniteSet(S) /\ i \in S
  BY TcpConnAssumption, FS_Subset
<1>2. T = S \ {i}
  OBVIOUS
<1>. HIDE DEF S, T
<1>3. Cardinality(T) = Cardinality(S) - 1 /\ Cardinality(S) \in Nat
  BY <1>1, <1>2, FS_RemoveElement, FS_CardinalityType
<1>. QED  BY <1>3 DEF S, T

\* An accepted socket is new, and takes one credit.
LEMMA AcceptSockets ==
    ASSUME Before, NEW i \in Incoming, NEW f \in Fds, Accept(i, f)
    PROVE  Sockets'
<1>. USE TcpConnAssumption DEF Before, Types
<1>1. in_fd[i] = None /\ f \notin open /\ f # None /\ UNCHANGED <<fd, lost_credits>>
      /\ in_fd' = [in_fd EXCEPT ![i] = f] /\ open' = open \cup {f}
      /\ in_credits' = in_credits - 1 /\ evs' = evs \ {Listen}
  BY DEF Accept, Event, connVars
<1>2. Owned'
  BY <1>1 DEF Owned
<1>3. Credits'
  BY <1>1, OneMore DEF Credits
<1>4. \A g \in Fds : interest'[g] = interest[g] \/ (g = f /\ interest'[g] = i)
  BY DEF Accept
<1>5. Heard'
  BY <1>1, <1>4 DEF Heard, Owned
<1>. QED  BY <1>2, <1>3, <1>5 DEF Sockets

\* An incoming connection is closed.
LEMMA CloseIncomingSockets ==
    ASSUME Before, NEW i \in Incoming, i \in evs, evs' = evs \ {i}, UNCHANGED fd,
           CloseIncoming(i)
    PROVE  Sockets'
<1>. USE TcpConnAssumption DEF Before, Types
<1>1. in_fd[i] # None /\ in_fd' = [in_fd EXCEPT ![i] = None] /\ open' = open \ {in_fd[i]}
      /\ in_credits' = in_credits + 1 /\ UNCHANGED lost_credits
      /\ interest' = [interest EXCEPT ![in_fd[i]] = None]
  BY DEF CloseIncoming, FreeIncoming, Heard
<1>2. Owned'
  BY <1>1 DEF Owned
<1>3. Credits'
  BY <1>1, OneLess DEF Credits
<1>4. Heard'
  BY <1>1 DEF Heard, Owned
<1>. QED  BY <1>2, <1>3, <1>4 DEF Sockets

\* A socket changes hands: the connection had none.
LEMMA MergeSockets ==
    ASSUME Before, NEW i \in Incoming, NEW c \in Conns, Merge(i, c)
    PROVE  Sockets'
<1>. USE TcpConnAssumption DEF Before, Types
<1>1. /\ in_fd[i] \in Fds /\ in_fd[i] # None /\ fd[c] = None
      /\ in_fd' = [in_fd EXCEPT ![i] = None] /\ open' = open
      /\ in_credits' = in_credits + 1 /\ UNCHANGED lost_credits
      /\ fd' = [fd EXCEPT ![c] = in_fd[i]] /\ evs' = evs \ {i}
  BY DEF Merge, Event, FreeIncoming, KeepsSocket, Heard, Promises, Promise
<1>2. Owned'
  BY <1>1 DEF Owned
<1>3. Credits'
  BY <1>1, OneLess DEF Credits
<1>4. \A g \in Fds : \/ interest'[g] = interest[g] /\ g # in_fd[i]
                     \/ g = in_fd[i] /\ interest'[g] \in {c, None}
  BY <1>1 DEF Merge, EpollAdd, EpollAddFails
<1>5. Heard'
  BY <1>1, <1>4 DEF Heard, Owned
<1>. QED  BY <1>2, <1>3, <1>5 DEF Sockets

\* What the application's connections do with their sockets.
LEMMA CloseEndSockets ==
    ASSUME Before, CloseEnd
    PROVE  Sockets'
<1>. USE TcpConnAssumption DEF Before, Types
<1>1. /\ cur \in Conns /\ UNCHANGED <<in_fd, in_credits, lost_credits, evs>>
      /\ fd' = [fd EXCEPT ![cur] = None] /\ open' = open \ {fd[cur]}
      /\ interest' = [f \in Fds |-> IF f = fd[cur] THEN None ELSE interest[f]]
  BY DEF CloseEnd, MgrGoto, Stack, OnConn, Nested, inVars
<1>2. Owned'
  BY <1>1 DEF Owned
<1>3. Credits'
  BY <1>1 DEF Credits
<1>4. Heard'
  BY <1>1 DEF Heard
<1>. QED  BY <1>2, <1>3, <1>4 DEF Sockets
LEMMA ConnectSockets ==
    ASSUME Before, NEW f \in Fds, ConnectSocket(f)
    PROVE  Sockets'
<1>. USE TcpConnAssumption DEF Before, Types
<1>1. /\ cur \in Conns /\ UNCHANGED <<in_fd, in_credits, lost_credits, evs, interest>>
      /\ fd[cur] = None /\ f # None /\ f \notin open
      /\ fd' = [fd EXCEPT ![cur] = f] /\ open' = open \cup {f}
  BY DEF ConnectSocket, MgrGoto, Stack, OnConn, Nested, inVars, StillDisconnected, Promises, Promise
<1>2. Owned'
  BY <1>1 DEF Owned
<1>3. Credits'
  BY <1>1 DEF Credits
<1>4. Heard'
  BY <1>1 DEF Heard
<1>. QED  BY <1>2, <1>3, <1>4 DEF Sockets

\* Every other step leaves the sockets alone.
LEMMA StepSockets ==
    ASSUME Before, Next, Frame'
    PROVE  Sockets'
<1>. USE DEF EpollOnly, connVars, ephVars, ctxVars, inVars, kernel, mgrVars, appVars
<1>1. CASE \E t \in Threads : App(t)
  BY <1>1, SocketsQuiet DEF App, AppStep, Verify, Send, SendFails, tcp_mgr_connection_close,
     Claim, CtxCbAdd, Unclaim
<1>2. CASE \E c \in Conns : Setup(c)
  BY <1>2, SocketsQuiet DEF Setup
<1>3. CASE epoll_wait
  <2>1. \A i \in Incoming : i \in evs' => in_fd[i] # None
    BY <1>3, TcpConnAssumption DEF epoll_wait, Ready, Before, Heard, Types
  <2>. QED  BY <1>3, <2>1, SocketsQuiet DEF epoll_wait
<1>4. CASE DispatchDone \/ InlineEnd
  BY <1>4, SocketsQuiet DEF DispatchDone, InlineEnd
<1>5. CASE \E c \in Conns : \/ SkipEvent(c) \/ ConnectEvent(c) \/ RecvEvent(c)
                            \/ ReplyFails(c) \/ InlineConnect(c) \/ RunCtxCb(c)
  BY <1>5, SocketsQuiet DEF SkipEvent, ConnectEvent, RecvEvent, ReplyFails, InlineConnect,
     RunCtxCb, Event
<1>6. CASE AcceptFails
  BY <1>6, SocketsQuiet DEF AcceptFails, Event
<1>7. CASE AcceptNoMemory
  <2>1. Owned' /\ Heard'
    BY <1>7 DEF AcceptNoMemory, Event, Before, Owned, Heard
  <2>2. Cardinality({i \in Incoming : in_fd[i] # None}) \in Nat
    BY TcpConnAssumption, FS_Subset, FS_CardinalityType
  <2>3. Credits'
    BY <1>7, <2>2, TcpConnAssumption DEF AcceptNoMemory, Before, Types, Credits
  <2>. QED  BY <2>1, <2>3 DEF Sockets
<1>8. CASE \E i \in Incoming : HandshakeFails(i)
  BY <1>8, CloseIncomingSockets DEF HandshakeFails, Event
<1>9. CASE \E i \in Incoming, c \in Conns : MergeRefused(i, c)
  BY <1>9, CloseIncomingSockets DEF MergeRefused, Event
<1>10. CASE CloseDel \/ \E c \in Conns : ReapDestroy(c)
  <2>1. \A f \in Fds : interest'[f] = interest[f] \/ interest'[f] = None
    BY <1>10 DEF CloseDel, ReapDestroy, Before, Types
  <2>2. UNCHANGED <<fd, in_fd, open, in_credits, lost_credits, evs>>
    BY <1>10 DEF CloseDel, ReapDestroy
  <2>. QED  BY <2>1, <2>2, SocketsQuiet, TcpConnAssumption
<1>11. CASE ConnectAdd
  <2>1. cur \in Conns
    BY <1>11 DEF ConnectAdd, MgrGoto, Before, Stack, OnConn, Nested
  <2>2. \A f \in Fds : interest'[f] = interest[f] \/ interest'[f] \in {cur, None}
    BY <1>11 DEF ConnectAdd, EpollAdd, EpollAddFails, Before, Types
  <2>. QED  BY <1>11, <2>1, <2>2, SocketsQuiet, TcpConnAssumption DEF ConnectAdd
<1>12. CASE \/ CtxCbEnd \/ CtxCbDone \/ CtxListDone \/ ReapDone \/ NoLonger
            \/ ConnectNoSocket \/ Connect \/ ConnectComplete \/ CompleteFails
  BY <1>12, SocketsQuiet DEF CtxCbEnd, CtxCbDone, CtxListDone, ReapDone, NoLonger,
     ConnectNoSocket, Connect, ConnectComplete, CompleteFails
<1>. HIDE DEF EpollOnly, connVars, ephVars, ctxVars, inVars, kernel, mgrVars, appVars
<1>13. CASE Mgr
  BY <1>13, <1>3, <1>4, <1>5, <1>6, <1>7, <1>8, <1>9, <1>10, <1>11, <1>12, AcceptSockets,
     MergeSockets, CloseEndSockets, ConnectSockets DEF Mgr, Peers
<1>. QED  BY <1>1, <1>2, <1>13 DEF Next

-------------------------------------------------------------------------------
(* The claims.                                                               *)

\* An application thread.
LEMMA AppClaims ==
    ASSUME Before, NEW t \in Threads, App(t)
    PROVE  Queued' /\ Claims'
<1>. USE TcpConnAssumption DEF Before, Types, Callers, EpollOnly, mgrVars, AppGoto, Queued,
         Claims, Claimed, Asks, Waits, Runs, InPlace
<1>1. ASSUME NEW c \in Conns, Verify(t, c) PROVE Queued' /\ Claims'
  BY <1>1 DEF Verify
<1>2. ASSUME NEW c \in Conns, tcp_mgr_connection_close(t, c) PROVE Queued' /\ Claims'
  BY <1>2 DEF tcp_mgr_connection_close
<1>3. CASE Send(t)
  BY <1>3 DEF Send
<1>4. CASE SendFails(t)
  BY <1>4 DEF SendFails
<1>5. CASE Claim(t)
  BY <1>5 DEF Claim, Claimable
<1>6. CASE CtxCbAdd(t)
  BY <1>6 DEF CtxCbAdd
<1>7. CASE Unclaim(t)
  BY <1>7 DEF Unclaim, Unclaimed
<1>. QED  BY <1>1, <1>2, <1>3, <1>4, <1>5, <1>6, <1>7 DEF App, AppStep

\* A step of the epoll thread that keeps the queue and the request, and stays at a
\* place that claims for the same connection.
LEMMA MgrKeepsClaims ==
    ASSUME Before, UNCHANGED <<tmc_epoll_ctx_cb, ctx_cb_list, tmp_head, pc, arg>>,
           ctx_cb_list \cup tmp_head \subseteq eph_ctx_cb',
           \A c \in Conns : Runs(c)' <=> Runs(c),
           \A c \in Conns : InPlace(c)' <=> InPlace(c)
    PROVE  Queued' /\ Claims'
<1>1. Queued'
  BY DEF Before, Queued
<1>2. \A c \in Conns : Waits(c)' <=> Waits(c)
  BY DEF Waits
<1>3. \A c \in Conns, t \in Threads : Asks(t, c)' <=> Asks(t, c)
  BY DEF Asks
<1>4. Claims'
  BY <1>2, <1>3 DEF Before, Claims, Claimed
<1>. QED  BY <1>1, <1>4

\* Every step of the epoll thread.
LEMMA MgrClaims ==
    ASSUME Before, Mgr, Frame', ~corrupt'
    PROVE  Queued' /\ Claims'
<1>. USE TcpConnAssumption DEF connVars, ephVars, ctxVars, appVars, MgrGoto, Event
<1>0. None # "close" /\ None # "connect"
  BY DEF None
<1>1. CASE \/ epoll_wait \/ AcceptFails \/ AcceptNoMemory
           \/ \E i \in Incoming : \/ \E f \in Fds : Accept(i, f)
                                  \/ HandshakeFails(i)
                                  \/ \E c \in Conns : MergeRefused(i, c)
           \/ \E c \in Conns : SkipEvent(c) \/ ConnectEvent(c) \/ RecvEvent(c) \/ ReapDestroy(c)
           \/ CtxListDone \/ ReapDone
  <2>1. UNCHANGED <<tmc_epoll_ctx_cb, ctx_cb_list, tmp_head, pc, arg, eph_ctx_cb, running>>
    BY <1>1 DEF epoll_wait, AcceptFails, AcceptNoMemory, Accept, HandshakeFails, MergeRefused,
       SkipEvent, ConnectEvent, RecvEvent, ReapDestroy, CtxListDone, ReapDone
  <2>2. mpc # "ctx_done" /\ mpc' # "ctx_done"
    BY <1>1 DEF epoll_wait, AcceptFails, AcceptNoMemory, Accept, HandshakeFails, MergeRefused,
       SkipEvent, ConnectEvent, RecvEvent, ReapDestroy, CtxListDone, ReapDone
  <2>3. mpc \in {"wait", "dispatch", "reap_ctx", "reap_destroy"} /\ ret' \in {ret, "dispatch"}
    BY <1>1 DEF epoll_wait, AcceptFails, AcceptNoMemory, Accept, HandshakeFails, MergeRefused,
       SkipEvent, ConnectEvent, RecvEvent, ReapDestroy, CtxListDone, ReapDone
  <2>4. ret # "inline_end" /\ ret' # "inline_end"
    BY <2>3 DEF Before, Stack, Nested
  <2>. QED  BY <2>1, <2>2, <2>4, MgrKeepsClaims DEF Runs, InPlace, Before, Queued
<1>2. ASSUME NEW i \in Incoming, NEW c \in Conns, Merge(i, c) PROVE Queued' /\ Claims'
  <2>1. /\ UNCHANGED <<tmc_epoll_ctx_cb, ctx_cb_list, tmp_head, pc, arg, running, mpc>>
        /\ mpc = "dispatch" /\ eph_ctx_cb' = eph_ctx_cb \ {c}
        /\ c \notin ctx_cb_list \cup tmp_head
    BY <1>2 DEF Merge, EpollAdd, EpollAddFails
  <2>. QED  BY <2>1, MgrKeepsClaims DEF Runs, InPlace, Before, Queued
<1>3. CASE DispatchDone
  BY <1>3 DEF DispatchDone, Before, Stack, OnConn, Nested, Queued, Claims, Claimed, Asks, Waits,
     Runs, InPlace
<1>4. CASE InlineEnd
  BY <1>4, <1>0 DEF InlineEnd, Before, Types, Stack, OnConn, Nested, Queued, Claims,
     Claimed, Asks, Waits, Runs, InPlace
<1>5. ASSUME NEW c \in Conns, ReplyFails(c) PROVE Queued' /\ Claims'
  BY <1>5, <1>0 DEF ReplyFails, Claimable, Before, Types, Stack, OnConn, Nested, Queued,
     Claims, Claimed, Asks, Waits, Runs, InPlace
<1>6. ASSUME NEW c \in Conns, InlineConnect(c) PROVE Queued' /\ Claims'
  BY <1>6, <1>0 DEF InlineConnect, Claimable, Before, Types, Stack, OnConn, Nested,
     Queued, Claims, Claimed, Asks, Waits, Runs, InPlace
<1>7. ASSUME NEW c \in Conns, RunCtxCb(c) PROVE Queued' /\ Claims'
  BY <1>7 DEF RunCtxCb, Before, Types, Stack, OnConn, Nested, Queued, Claims, Claimed, Asks, Waits,
     Runs, InPlace
<1>8. CASE CtxCbEnd
  BY <1>8 DEF CtxCbEnd, Before, Types, Stack, OnConn, Nested, Queued, Claims, Claimed, Asks, Waits,
     Runs, InPlace
<1>9. CASE CtxCbDone
  <2>1. /\ UNCHANGED <<tmc_epoll_ctx_cb, ctx_cb_list, tmp_head, pc, arg, cur, ret>>
        /\ mpc = "ctx_done" /\ mpc' = "reap_ctx" /\ eph_ctx_cb' = eph_ctx_cb \ {cur}
        /\ cur \notin ctx_cb_list /\ running' = None
    BY <1>9 DEF CtxCbDone
  <2>2. ret = "ctx_end" /\ cur \notin tmp_head
    BY <2>1 DEF Before, Stack, OnConn
  <2>. QED  BY <2>1, <2>2, MgrKeepsClaims DEF Runs, InPlace, Before, Queued
<1>10. CASE \/ CloseDel \/ CloseEnd \/ NoLonger \/ ConnectNoSocket
            \/ \E f \in Fds : ConnectSocket(f)
            \/ Connect \/ ConnectComplete \/ CompleteFails
  <2>1. UNCHANGED <<tmc_epoll_ctx_cb, ctx_cb_list, tmp_head, pc, arg, eph_ctx_cb, running, cur, ret>>
    BY <1>10 DEF CloseDel, CloseEnd, NoLonger, ConnectNoSocket, ConnectSocket, Connect,
       ConnectComplete, CompleteFails
  <2>2. mpc \in Nested /\ mpc' \in Nested \cup {ret}
    BY <1>10 DEF CloseDel, CloseEnd, NoLonger, ConnectNoSocket, ConnectSocket, Connect,
       ConnectComplete, CompleteFails, Nested
  <2>. QED  BY <2>1, <2>2, MgrKeepsClaims DEF Runs, InPlace, Before, Queued, Stack, OnConn, Nested,
               Returns
<1>11. CASE ConnectAdd
  <2>1. /\ UNCHANGED <<tmc_epoll_ctx_cb, ctx_cb_list, tmp_head, pc, arg, running, cur, ret>>
        /\ mpc = "conn_add" /\ mpc' \in {"connect", ret} /\ eph_ctx_cb' = eph_ctx_cb \ {cur}
        /\ cur \notin ctx_cb_list \cup tmp_head
    BY <1>11 DEF ConnectAdd, EpollAdd, EpollAddFails
  <2>. QED  BY <2>1, MgrKeepsClaims DEF Runs, InPlace, Before, Queued, Stack, OnConn, Nested, Returns
<1>. QED  BY <1>1, <1>2, <1>3, <1>4, <1>5, <1>6, <1>7, <1>8, <1>9, <1>10, <1>11 DEF Mgr, Peers

-------------------------------------------------------------------------------
(* What each status promises.                                                *)

Kept == Handles /\ Promises

\* A step that changes neither status nor handle, takes no descriptor of a
\* connection off the interest list and is not inside a close or an add.
LEMMA KeptQuiet ==
    ASSUME Before, UNCHANGED <<tmc_status, fd, eph_fd, eph_cb, installed, destroy_list>>,
           deaf \subseteq deaf',
           \A c \in Conns : fd[c] # None => interest'[fd[c]] = interest[fd[c]],
           mpc \notin {"close", "conn_add"}, mpc' \notin {"close", "conn_add"}
    PROVE  Kept'
<1>1. Handles'
  BY DEF Before, Handles, Live
<1>2. \A c \in Conns : Live(c)' <=> Live(c)
  BY DEF Live
<1>3. \A c \in Conns : Watched(c) => Watched(c)'
  BY <1>2 DEF Watched, Live, Before, Handles
<1>4. Promises'
  BY <1>2, <1>3 DEF Promises, Promise, Before
<1>. QED  BY <1>1, <1>4 DEF Kept

\* A step that opens no socket and closes none, of another connection than d: what is
\* promised of the others is kept.
LEMMA OthersKept ==
    ASSUME Before, NEW d \in Conns,
           mpc \in {"close", "conn_add"} => cur = d,
           \A c \in Conns \ {d} :
              /\ tmc_status'[c] = tmc_status[c] /\ fd'[c] = fd[c] /\ eph_fd'[c] = eph_fd[c]
              /\ eph_cb'[c] = eph_cb[c]
              /\ c \in installed' <=> c \in installed
              /\ c \in destroy_list' <=> c \in destroy_list
              /\ c \in deaf => c \in deaf'
              /\ fd[c] # None => interest'[fd[c]] = interest[fd[c]] \/ c \in deaf'
    PROVE  \A c \in Conns \ {d} :
              /\ Live(c)' <=> Live(c)
              /\ Promise(c)'
<1>. TAKE c \in Conns \ {d}
<1>1. Live(c)' <=> Live(c)
  BY DEF Live
<1>2. Watched(c) => Watched(c)' \/ c \in deaf'
  BY <1>1 DEF Watched, Live, Before, Handles
<1>3. Promise(c)
  BY DEF Before, Promises
<1>4. tmc_status'[c] = tmc_status[c] /\ fd'[c] = fd[c] /\ eph_cb'[c] = eph_cb[c]
      /\ (c \in installed' <=> c \in installed) /\ (c \in deaf => c \in deaf')
  OBVIOUS
<1>5. ~(mpc = "close" /\ cur = c) /\ ~(mpc = "conn_add" /\ cur = c)
  OBVIOUS
<1>6. Promise(c)'
  BY <1>1, <1>2, <1>3, <1>4, <1>5 DEF Promise
<1>. QED  BY <1>1, <1>6

\* The connection takes over a socket of an incoming one.
LEMMA MergeKept ==
    ASSUME Before, NEW i \in Incoming, NEW c \in Conns, Merge(i, c), ~corrupt'
    PROVE  Kept'
<1>. USE TcpConnAssumption
<1>1. /\ mpc = "dispatch" /\ mpc' = "dispatch" /\ in_fd[i] \in Fds /\ in_fd[i] # None
      /\ tmc_status' = [tmc_status EXCEPT ![c] = "CONNECTED"]
      /\ fd' = [fd EXCEPT ![c] = in_fd[i]] /\ eph_fd' = [eph_fd EXCEPT ![c] = in_fd[i]]
      /\ eph_cb' = [eph_cb EXCEPT ![c] = "recv"]
      /\ UNCHANGED destroy_list /\ c \notin installed /\ c \notin destroy_list
      /\ \/ installed' = installed \cup {c} /\ deaf' = deaf
            /\ interest' = [interest EXCEPT ![in_fd[i]] = c]
         \/ installed' = installed \ {c} /\ deaf' = deaf \cup {c}
            /\ interest' = [interest EXCEPT ![in_fd[i]] = None]
  BY DEF Merge, Event, MgrGoto, EpollAdd, EpollAddFails, Before, Types, Heard, Handles
<1>2. \A d \in Conns \ {c} : fd[d] # None => fd[d] # in_fd[i]
  BY DEF Before, Owned
<1>3. \A d \in Conns \ {c} : (Live(d)' <=> Live(d)) /\ Promise(d)'
  BY <1>1, <1>2, OthersKept DEF Before, Types
<1>4. Promise(c)'
  BY <1>1 DEF Promise, Watched, Live, Before, Types
<1>5. Handles'
  BY <1>1, <1>3 DEF Handles, Live, Before, Types
<1>. QED  BY <1>3, <1>4, <1>5 DEF Kept, Promises

\* Closing: the handle is deleted or will be, then the socket is closed.
LEMMA CloseDelKept ==
    ASSUME Before, CloseDel
    PROVE  Kept'
<1>. USE TcpConnAssumption
<1>1. /\ mpc = "del" /\ mpc' = "close" /\ cur \in Conns
      /\ tmc_status' = [tmc_status EXCEPT ![cur] = "DISCONNECTING"]
      /\ UNCHANGED <<fd, eph_cb, deaf, cur>>
  BY DEF CloseDel, MgrGoto, Before, Stack, OnConn, Nested
<1>2. \/ /\ Live(cur) /\ destroy_list' = destroy_list \cup {cur}
         /\ UNCHANGED <<installed, eph_fd, interest>>
      \/ /\ Live(cur) /\ installed' = installed \ {cur} /\ UNCHANGED destroy_list
         /\ interest' = [interest EXCEPT ![eph_fd[cur]] = None]
         /\ eph_fd' = [eph_fd EXCEPT ![cur] = None]
      \/ ~Live(cur) /\ UNCHANGED <<installed, destroy_list, eph_fd, interest>>
  BY DEF CloseDel, Live
<1>3. \A d \in Conns \ {cur} : fd[d] # None /\ Live(cur) => fd[d] # eph_fd[cur]
  BY <1>1 DEF Before, Owned, Handles
<1>4. \A d \in Conns \ {cur} : /\ d \in installed' <=> d \in installed
                               /\ d \in destroy_list' <=> d \in destroy_list
                               /\ eph_fd'[d] = eph_fd[d]
                               /\ fd[d] # None => interest'[fd[d]] = interest[fd[d]]
  BY <1>2, <1>3 DEF Before, Types
<1>5. \A d \in Conns \ {cur} : (Live(d)' <=> Live(d)) /\ Promise(d)'
  BY <1>1, <1>4, OthersKept DEF Before, Types
<1>6. ~Live(cur)'
  BY <1>1, <1>2 DEF Live
<1>7. Promise(cur)'
  BY <1>1, <1>6 DEF Promise, Before, Types
<1>8. destroy_list' \subseteq installed' /\ \A d \in installed' : eph_fd'[d] # None
  BY <1>1, <1>2 DEF Live, Before, Handles, Types
<1>9. Handles'
  BY <1>1, <1>4, <1>5, <1>6, <1>8 DEF Handles, Before, Types
<1>. QED  BY <1>1, <1>5, <1>7, <1>9 DEF Kept, Promises
LEMMA CloseEndKept ==
    ASSUME Before, CloseEnd
    PROVE  Kept'
<1>. USE TcpConnAssumption
<1>1. /\ mpc = "close" /\ mpc' = ret /\ ret \in Returns /\ cur \in Conns
      /\ fd' = [fd EXCEPT ![cur] = None]
      /\ interest' = [f \in Fds |-> IF f = fd[cur] THEN None ELSE interest[f]]
      /\ tmc_status' = [tmc_status EXCEPT ![cur] = "DISCONNECTED"]
      /\ deaf' = deaf \ {cur}
      /\ UNCHANGED <<eph_cb, eph_fd, installed, destroy_list, cur>>
  BY DEF CloseEnd, MgrGoto, ephVars, Before, Stack, OnConn, Nested
<1>2. \A d \in Conns \ {cur} : fd[d] # None => interest'[fd[d]] = interest[fd[d]]
  BY <1>1 DEF Before, Owned, Types
<1>3. \A d \in Conns \ {cur} : (Live(d)' <=> Live(d)) /\ Promise(d)'
  BY <1>1, <1>2, OthersKept DEF Before, Types
<1>4. ~Live(cur) /\ (Live(cur)' <=> Live(cur))
  BY <1>1 DEF Live, Before, Handles, Promises, Promise
<1>5. Promise(cur)'
  BY <1>1, <1>4 DEF Promise, Before, Types
<1>6. Handles'
  BY <1>1, <1>3, <1>4 DEF Handles, Before, Types, Returns
<1>. QED  BY <1>1, <1>3, <1>5, <1>6 DEF Kept, Promises

\* A delayed delete: who loses its place on the interest list is deaf.
LEMMA ReapKept ==
    ASSUME Before, NEW c \in Conns, ReapDestroy(c)
    PROVE  Kept'
<1>. USE TcpConnAssumption
<1>1. /\ mpc = "reap_destroy" /\ mpc' = "reap_destroy" /\ c \in destroy_list
      /\ destroy_list' = destroy_list \ {c} /\ installed' = installed \ {c}
      /\ interest' = [interest EXCEPT ![eph_fd[c]] = None]
      /\ deaf' = deaf \cup ({interest[eph_fd[c]]} \ {c, None})
      /\ eph_fd' = [eph_fd EXCEPT ![c] = None]
      /\ UNCHANGED <<tmc_status, fd, eph_cb>>
  BY DEF ReapDestroy, MgrGoto, connVars
<1>2. \A d \in Conns \ {c} : fd[d] # None /\ interest[fd[d]] = d =>
         interest'[fd[d]] = interest[fd[d]] \/ d \in deaf'
  BY <1>1 DEF Before, Types
<1>3. \A d \in Conns \ {c} : Live(d)' <=> Live(d)
  BY <1>1 DEF Live
<1>4. \A d \in Conns \ {c} : Watched(d) => Watched(d)' \/ d \in deaf'
  BY <1>1, <1>2, <1>3 DEF Watched, Live, Before, Handles
<1>5. \A d \in Conns \ {c} : Promise(d)'
  BY <1>1, <1>3, <1>4 DEF Promise, Before, Promises
<1>6. ~Live(c) /\ ~Live(c)'
  BY <1>1 DEF Live
<1>7. Promise(c)'
  BY <1>1, <1>6 DEF Promise, Before, Promises, Watched
<1>8. Handles'
  BY <1>1, <1>3, <1>6 DEF Handles, Before, Types
<1>. QED  BY <1>5, <1>7, <1>8 DEF Kept, Promises

\* Connecting: the socket, the handle, the status.
LEMMA ConnectSocketKept ==
    ASSUME Before, NEW f \in Fds, ConnectSocket(f)
    PROVE  Kept'
<1>. USE TcpConnAssumption
<1>1. /\ mpc = "ctx_start" /\ mpc' = "conn_add" /\ cur \in Conns /\ cur' = cur
      /\ tmc_status[cur] = "DISCONNECTED"
      /\ tmc_status' = [tmc_status EXCEPT ![cur] = "CONNECTING"]
      /\ fd' = [fd EXCEPT ![cur] = f] /\ f # None
      /\ UNCHANGED <<eph_cb, eph_fd, installed, destroy_list, interest, deaf>>
  BY DEF ConnectSocket, StillDisconnected, MgrGoto, ephVars, Before, Stack, OnConn, Nested
<1>2. \A d \in Conns \ {cur} : (Live(d)' <=> Live(d)) /\ Promise(d)'
  BY <1>1, OthersKept DEF Before, Types
<1>3. ~Live(cur) /\ (Live(cur)' <=> Live(cur))
  BY <1>1 DEF Live, Before, Promises, Promise
<1>4. Promise(cur)'
  BY <1>1 DEF Promise, Before, Types
<1>5. Handles'
  BY <1>1, <1>2, <1>3 DEF Handles, Before, Types
<1>. QED  BY <1>1, <1>2, <1>4, <1>5 DEF Kept, Promises
LEMMA ConnectNoSocketKept ==
    ASSUME Before, ConnectNoSocket
    PROVE  Kept'
<1>. USE TcpConnAssumption
<1>1. /\ mpc = "ctx_start" /\ mpc' = ret /\ ret \in Returns /\ cur \in Conns
      /\ tmc_status' = [tmc_status EXCEPT ![cur] = "CONNECTING"]
      /\ deaf' = deaf \cup {cur}
      /\ UNCHANGED <<fd, eph_cb, eph_fd, installed, destroy_list, interest, cur>>
  BY DEF ConnectNoSocket, MgrGoto, ephVars, kernel, Before, Stack, OnConn, Nested
<1>2. \A d \in Conns \ {cur} : (Live(d)' <=> Live(d)) /\ Promise(d)'
  BY <1>1, OthersKept DEF Before, Types
<1>3. Live(cur)' <=> Live(cur)
  BY <1>1 DEF Live
<1>4. Promise(cur)'
  BY <1>1 DEF Promise, Before, Types
<1>5. Handles'
  BY <1>1, <1>2, <1>3 DEF Handles, Before, Types, Returns
<1>. QED  BY <1>1, <1>2, <1>4, <1>5 DEF Kept, Promises
LEMMA ConnectAddKept ==
    ASSUME Before, ConnectAdd, ~corrupt'
    PROVE  Kept'
<1>. USE TcpConnAssumption
<1>1. /\ mpc = "conn_add" /\ mpc' \notin {"conn_add", "close"} /\ cur \in Conns
      /\ fd[cur] \in Fds /\ tmc_status[cur] = "CONNECTING"
      /\ UNCHANGED <<tmc_status, fd, cur>>
  BY DEF ConnectAdd, MgrGoto, connVars, Before, Stack, OnConn, Nested, Returns, Handles, Types
<1>2. /\ eph_fd' = [eph_fd EXCEPT ![cur] = fd[cur]]
      /\ eph_cb' = [eph_cb EXCEPT ![cur] = "connect"]
      /\ UNCHANGED destroy_list /\ cur \notin installed /\ cur \notin destroy_list
      /\ \/ installed' = installed \cup {cur} /\ deaf' = deaf
            /\ interest' = [interest EXCEPT ![fd[cur]] = cur]
         \/ installed' = installed \ {cur} /\ deaf' = deaf \cup {cur}
            /\ interest' = [interest EXCEPT ![fd[cur]] = None]
  BY DEF ConnectAdd, EpollAdd, EpollAddFails, Before, Handles
<1>3. \A d \in Conns \ {cur} : fd[d] # None => fd[d] # fd[cur]
  BY <1>1 DEF Before, Owned
<1>4. \A d \in Conns \ {cur} : (Live(d)' <=> Live(d)) /\ Promise(d)'
  BY <1>1, <1>2, <1>3, OthersKept DEF Before, Types
<1>5. Promise(cur)'
  BY <1>1, <1>2 DEF Promise, Watched, Live, Before, Types
<1>6. Handles'
  BY <1>1, <1>2, <1>4 DEF Handles, Live, Before, Types
<1>. QED  BY <1>1, <1>4, <1>5, <1>6 DEF Kept, Promises
LEMMA CompleteKept ==
    ASSUME Before, ConnectComplete \/ CompleteFails
    PROVE  Kept'
<1>. USE TcpConnAssumption
<1>1. /\ mpc = "complete" /\ mpc' \notin {"conn_add", "close"} /\ cur \in Conns
      /\ UNCHANGED <<fd, eph_fd, installed, destroy_list, interest, deaf, cur>>
  BY DEF ConnectComplete, CompleteFails, MgrGoto, connVars, kernel, Before, Stack, OnConn, Nested,
     Returns
<1>2. \/ /\ tmc_status[cur] = "CONNECTING"
         /\ tmc_status' = [tmc_status EXCEPT ![cur] = "CONNECTED"]
         /\ eph_cb' = [eph_cb EXCEPT ![cur] = "recv"]
      \/ /\ tmc_status[cur] = "CONNECTING" /\ UNCHANGED tmc_status
         /\ eph_cb' = [eph_cb EXCEPT ![cur] = "recv"]
      \/ UNCHANGED <<tmc_status, eph_cb>>
  BY DEF ConnectComplete, CompleteFails, connVars
<1>3. \A d \in Conns \ {cur} : tmc_status'[d] = tmc_status[d] /\ eph_cb'[d] = eph_cb[d]
  BY <1>2 DEF Before, Types
<1>4. \A d \in Conns \ {cur} : (Live(d)' <=> Live(d)) /\ Promise(d)'
  BY <1>1, <1>3, OthersKept DEF Before, Types
<1>5. (Live(cur)' <=> Live(cur)) /\ (Watched(cur)' <=> Watched(cur))
  BY <1>1 DEF Live, Watched
<1>6. Promise(cur)'
  BY <1>1, <1>2, <1>5 DEF Promise, Before, Promises, Types
<1>7. Handles'
  BY <1>1, <1>4, <1>5 DEF Handles, Before
<1>. QED  BY <1>1, <1>4, <1>6, <1>7 DEF Kept, Promises

\* The application, and the other steps of the epoll thread.
LEMMA AppKept ==
    ASSUME Before, \/ \E t \in Threads : App(t)
                   \/ \E c \in Conns : Setup(c)
    PROVE  Kept'
<1>1. CASE \E t \in Threads : App(t)
  <2>1. UNCHANGED <<tmc_status, fd, installed, eph_fd, eph_cb, destroy_list, interest, mpc, cur, deaf>>
    BY <1>1 DEF App, AppStep, Verify, Send, SendFails, tcp_mgr_connection_close, Claim, CtxCbAdd,
       Unclaim, EpollOnly, kernel, mgrVars
  <2>. QED  BY <2>1 DEF Kept, Before, Handles, Promises, Promise, Watched, Live
<1>2. ASSUME NEW c \in Conns, Setup(c) PROVE Kept'
  <2>1. /\ UNCHANGED <<fd, installed, eph_fd, eph_cb, destroy_list, interest, mpc, cur, deaf>>
        /\ tmc_status[c] = "NEEDS_SETUP"
        /\ tmc_status' = [tmc_status EXCEPT ![c] = "DISCONNECTED"]
    BY <1>2 DEF Setup, ephVars, kernel, mgrVars
  <2>2. \A d \in Conns : (Live(d)' <=> Live(d)) /\ (Watched(d)' <=> Watched(d))
    BY <2>1 DEF Live, Watched
  <2>3. Handles'
    BY <2>1, <2>2 DEF Before, Handles, Stack, OnConn, Nested, Types
  <2>4. Promises'
    BY <2>1, <2>2 DEF Before, Promises, Promise, Types, Live
  <2>. QED  BY <2>3, <2>4 DEF Kept
<1>. QED  BY <1>1, <1>2
LEMMA MgrKept ==
    ASSUME Before, Mgr, ~corrupt'
    PROVE  Kept'
<1>. USE TcpConnAssumption DEF connVars, ephVars, kernel, MgrGoto, Event
<1>1. CASE \/ epoll_wait \/ DispatchDone \/ InlineEnd \/ AcceptFails \/ AcceptNoMemory
           \/ \E c \in Conns : \/ SkipEvent(c) \/ ConnectEvent(c) \/ RecvEvent(c)
                               \/ ReplyFails(c) \/ InlineConnect(c) \/ RunCtxCb(c)
           \/ CtxCbEnd \/ CtxCbDone \/ CtxListDone \/ ReapDone
           \/ NoLonger \/ Connect
  <2>1. UNCHANGED <<tmc_status, fd, eph_fd, eph_cb, installed, destroy_list, interest, deaf>>
    BY <1>1 DEF epoll_wait, DispatchDone, InlineEnd, AcceptFails, AcceptNoMemory, SkipEvent,
       ConnectEvent, RecvEvent, ReplyFails, InlineConnect, RunCtxCb, CtxCbEnd, CtxCbDone,
       CtxListDone, ReapDone, NoLonger, Connect
  <2>2. mpc \notin {"close", "conn_add"} /\ mpc' \notin {"close", "conn_add"}
    BY <1>1 DEF epoll_wait, DispatchDone, InlineEnd, AcceptFails, AcceptNoMemory, SkipEvent,
       ConnectEvent, RecvEvent, ReplyFails, InlineConnect, RunCtxCb, CtxCbEnd, CtxCbDone,
       CtxListDone, ReapDone, NoLonger, Connect, Before, Stack, OnConn, Nested, Returns
  <2>. QED  BY <2>1, <2>2, KeptQuiet
<1>2. ASSUME NEW i \in Incoming,
             \/ \E f \in Fds : Accept(i, f)
             \/ HandshakeFails(i)
             \/ \E c \in Conns : MergeRefused(i, c)
      PROVE  Kept'
  <2>1. UNCHANGED <<tmc_status, fd, eph_fd, eph_cb, installed, destroy_list>> /\ deaf \subseteq deaf'
    BY <1>2 DEF Accept, HandshakeFails, MergeRefused
  <2>2. mpc = "dispatch" /\ mpc' \notin {"close", "conn_add"}
    BY <1>2 DEF Accept, HandshakeFails, MergeRefused
  <2>3. \A c \in Conns : fd[c] # None => interest'[fd[c]] = interest[fd[c]]
    BY <1>2 DEF Accept, HandshakeFails, MergeRefused, CloseIncoming, Before, Owned, Types
  <2>. QED  BY <2>1, <2>2, <2>3, KeptQuiet
<1>. HIDE DEF connVars, ephVars, kernel, MgrGoto, Event
<1>. QED  BY <1>1, <1>2, MergeKept, CloseDelKept, CloseEndKept, ReapKept, ConnectSocketKept,
             ConnectNoSocketKept, ConnectAddKept, CompleteKept DEF Mgr, Peers

-------------------------------------------------------------------------------
(* The invariant and the theorems.                                           *)

\* Every step: the state before it is not corrupt.
LEMMA StepInv ==
    ASSUME ConnInv, Next
    PROVE  ConnInv'
<1>1. ~corrupt
  BY DEF Next, Mgr, Peers, App, AppStep, Setup, Verify, Send, SendFails, tcp_mgr_connection_close,
     Claim, CtxCbAdd, Unclaim, AppGoto, epoll_wait, DispatchDone, InlineEnd, AcceptFails,
     AcceptNoMemory, Accept, HandshakeFails, MergeRefused, Merge, SkipEvent, ConnectEvent,
     RecvEvent, ReplyFails, InlineConnect, RunCtxCb, ReapDestroy, CloseDel, CloseEnd, CtxCbEnd,
     CtxCbDone, CtxListDone, ReapDone, NoLonger, ConnectNoSocket, ConnectSocket, ConnectAdd,
     Connect, ConnectComplete, CompleteFails, Event, MgrGoto
<1>2. Before
  BY <1>1 DEF ConnInv, Before
<1>3. ASSUME NEW c \in Conns, Setup(c) PROVE Frame' /\ Queued' /\ Claims'
  <2>1. Frame'
    BY <1>2, <1>3 DEF Setup, Before, Frame, Types, Stack, Callers, Statuses, ephVars, ctxVars, inVars,
       kernel, mgrVars, appVars
  <2>2. Queued' /\ Claims'
    BY <1>2, <1>3, MgrKeepsClaims DEF Setup, Before, Queued, ephVars, ctxVars, mgrVars, appVars, Runs,
       InPlace
  <2>. QED  BY <2>1, <2>2
<1>4. Frame'
  BY <1>2, <1>3, AppFrame, EventFrame, PeerFrame, WorkFrame DEF Next, Mgr
<1>5. Sockets'
  BY <1>2, <1>4, StepSockets
<1>6. ~corrupt' => Queued' /\ Claims'
  BY <1>2, <1>3, <1>4, AppClaims, MgrClaims DEF Next
<1>7. ~corrupt' => Kept'
  BY <1>2, AppKept, MgrKept DEF Next
<1>. QED  BY <1>4, <1>5, <1>6, <1>7 DEF ConnInv, Frame, Sockets, Kept

\* ConnInv is inductive.
LEMMA ConnInvariant == Spec => []ConnInv
<1>1. Init => ConnInv
  <2>. SUFFICES ASSUME Init PROVE ConnInv
    OBVIOUS
  <2>. USE TcpConnAssumption DEF Init
  <2>0. Types
    <3>1. /\ tmc_status \in [Conns -> Statuses] /\ pc \in [Threads -> AppLabels]
          /\ ask \in [Threads -> {None, "connect", "close"}]
          /\ arg \in [Threads -> Conns \cup {None}]
      BY DEF Statuses, AppLabels
    <3>2. /\ fd \in [Conns -> Fds \cup {None}] /\ eph_fd \in [Conns -> Fds \cup {None}]
          /\ tmc_epoll_ctx_cb \in [Conns -> {None, "connect", "close"}]
          /\ eph_cb \in [Conns -> {None, "connect", "recv"}]
          /\ in_fd \in [Incoming -> Fds \cup {None}]
          /\ interest \in [Fds -> Conns \cup Incoming \cup {None}]
      OBVIOUS
    <3>3. /\ in_credits \in Int /\ lost_credits \in Nat
          /\ calls \in Nat /\ accepts \in Nat
      OBVIOUS
    <3>4. mpc \in MgrLabels /\ ret \in MgrLabels
      BY DEF MgrLabels
    <3>5. corrupt \in BOOLEAN
      OBVIOUS
    <3>. QED  BY <3>1, <3>2, <3>3, <3>4, <3>5 DEF Types
  <2>1. Stack /\ Callers
    BY DEF Stack, OnConn, Nested, Callers
  <2>2. Owned /\ Heard
    BY DEF Owned, Heard
  <2>3. {i \in Incoming : in_fd[i] # None} = {}
    OBVIOUS
  <2>4. Credits
    BY <2>3, FS_EmptySet DEF Credits
  <2>5. Queued /\ Claims
    BY DEF Queued, Claims, Claimed, Asks, Waits, Runs, InPlace
  <2>6. Handles /\ Promises
    BY DEF Handles, Promises, Promise, Live
  <2>. QED  BY <2>0, <2>1, <2>2, <2>4, <2>5, <2>6 DEF ConnInv
<1>2. ConnInv /\ [Next]_vars => ConnInv'
  <2>1. CASE Next
    BY <2>1, StepInv
  <2>2. ASSUME ConnInv, UNCHANGED vars PROVE ConnInv'
    <3>. USE <2>2 DEF vars, connVars, ephVars, ctxVars, inVars, kernel, mgrVars, appVars
    <3>1. Types' /\ Stack' /\ Callers'
      BY DEF ConnInv, Types, Stack, Callers
    <3>2. Owned' /\ Credits' /\ Heard'
      BY DEF ConnInv, Owned, Credits, Heard
    <3>3. ~corrupt' => Queued' /\ Claims'
      BY DEF ConnInv, Queued, Claims, Claimed, Asks, Waits, Runs, InPlace
    <3>4. ~corrupt' => Handles' /\ Promises'
      BY DEF ConnInv, Handles, Promises, Promise, Watched, Live
    <3>. QED  BY <3>1, <3>2, <3>3, <3>4 DEF ConnInv
  <2>. QED  BY <2>1, <2>2
<1>. QED  BY <1>1, <1>2, PTL DEF Spec

\* Every field of the connections, of their handles and of the threads has its type,
\* whatever the epoll thread, the application and the peers do (tcp_mgr.c).
THEOREM ConnTypes == Spec => []TypeOK
<1>1. ConnInv => TypeOK
  BY DEF ConnInv, Types, TypeOK
<1>. QED  BY <1>1, ConnInvariant, PTL

\* Every open socket belongs to exactly one connection, also across the handshake that
\* moves it, and every incoming credit to an incoming connection or to an
\* allocation that failed (tcp_mgr.c, tcp_mgr_connection_merge_incoming(),
\* tcp_mgr_incoming_fini()): for any number of connections, peers and threads.
THEOREM SocketsAreAccounted == Spec => []SocketsAccounted
<1>1. ASSUME ConnInv PROVE SocketsAccounted
  <2>. DEFINE held == [x \in Conns \cup Incoming |-> IF x \in Conns THEN fd[x] ELSE in_fd[x]]
  <2>. USE <1>1, TcpConnAssumption DEF ConnInv, Types
  <2>1. /\ \A c \in Conns : held[c] = fd[c]
        /\ \A i \in Incoming : held[i] = in_fd[i]
        /\ DOMAIN held = Conns \cup Incoming
    OBVIOUS
  <2>. HIDE DEF held
  <2>2. open = {held[x] : x \in DOMAIN held} \ {None}
    BY <2>1 DEF Owned
  <2>3. \A x, y \in DOMAIN held : held[x] = held[y] /\ held[x] # None => x = y
    BY <2>1 DEF Owned
  <2>. QED  BY <2>2, <2>3 DEF SocketsAccounted, Credits, held
<1>. QED  BY <1>1, ConnInvariant, PTL

\* A request for the epoll thread, which tmc_epoll_ctx_cb is, has exactly one owner from
\* the time it is set to the time it is cleared (tcp_mgr_connection_epoll_ctx_run(),
\* tcp_mgr_epoll_ctx_cb()), until a handle is initialised on a list.
THEOREM OneClaimant == Spec => []ClaimAccounted
<1>1. ASSUME ConnInv PROVE ClaimAccounted
  <2>. SUFFICES ASSUME ~corrupt, NEW c \in Conns
                PROVE  Cardinality(Claimants(c)) = IF tmc_epoll_ctx_cb[c] = None THEN 0 ELSE 1
    BY DEF ClaimAccounted
  <2>1. Claimed(c)
    BY <1>1 DEF ConnInv, Claims
  <2>2. \A x : x \in Claimants(c) <=>
          \/ x \in Threads /\ Asks(x, c)
          \/ x = "queue" /\ Waits(c)
          \/ x = "run" /\ Runs(c)
          \/ x = "inline" /\ InPlace(c)
    BY TcpConnAssumption DEF Claimants, Asks, Waits, Runs, InPlace
  <2>. HIDE DEF Claimants
  <2>3. CASE tmc_epoll_ctx_cb[c] = None
    <3>1. Claimants(c) = {}
      BY <2>1, <2>2, <2>3 DEF Claimed
    <3>. QED  BY <3>1, <2>3, FS_EmptySet
  <2>4. CASE tmc_epoll_ctx_cb[c] # None
    <3>1. \E x : Claimants(c) = {x}
      <4>1. ASSUME NEW t \in Threads, Asks(t, c) PROVE Claimants(c) = {t}
        BY <4>1, <2>1, <2>2 DEF Claimed
      <4>2. CASE Waits(c)
        <5>1. Claimants(c) = {"queue"}
          BY <4>2, <2>1, <2>2 DEF Claimed
        <5>. QED  BY <5>1
      <4>3. CASE Runs(c)
        <5>1. Claimants(c) = {"run"}
          BY <4>3, <2>1, <2>2 DEF Claimed
        <5>. QED  BY <5>1
      <4>4. CASE InPlace(c)
        <5>1. Claimants(c) = {"inline"}
          BY <4>4, <2>1, <2>2 DEF Claimed
        <5>. QED  BY <5>1
      <4>. QED  BY <4>1, <4>2, <4>3, <4>4, <2>1, <2>4 DEF Claimed
    <3>. QED  BY <3>1, <2>4, FS_Singleton
  <2>. QED  BY <2>3, <2>4
<1>. QED  BY <1>1, ConnInvariant, PTL

\* Between two rounds of the loop the kernel watches the socket of every CONNECTED
\* connection on its behalf, unless a system call failed or a delayed delete took the
\* descriptor; a DISCONNECTED one has no socket, and no handle but one to be deleted
\* (tcp_mgr_connection_close_internal(), epoll_handle_del(), epoll_mgr_reap_destroy_list()).
THEOREM ConnectedHeard == Spec => []ConnectedIsHeard
<1>1. ASSUME ConnInv PROVE ConnectedIsHeard
  BY <1>1 DEF ConnInv, Handles, Promises, Promise, Watched, Live, Types, ConnectedIsHeard
<1>. QED  BY <1>1, ConnInvariant, PTL
==============================================================================
