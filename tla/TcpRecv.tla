------------------------------- MODULE TcpRecv -------------------------------
(***************************************************************************)
(* The receiving half of the tcp manager (src/tcp_mgr.c) with hand-off:    *)
(* the epoll thread puts a readable connection on tmi_connq, a worker      *)
(* takes it off, reads at most one message from the socket and enables the *)
(* connection's events again.  A message is a header of HdrSize bytes,     *)
(* which names the size of the bulk that follows it; the buffer of a bulk  *)
(* is allocated against tmi_bulk_credits, and an incomplete bulk stays in  *)
(* the connection until more bytes arrive.                                 *)
(*                                                                         *)
(* Bytes are positions in the stream of the peer: what the peer sends on a *)
(* connection is the constant Stream, arrived counts the bytes the kernel  *)
(* holds or held, and consumed those that recvmsg returned.  Without       *)
(* hand-off the epoll thread calls tcp_mgr_conn_recv_inline itself, which  *)
(* is one worker that is never behind.                                     *)
(*                                                                         *)
(* Nothing in the code keeps the epoll thread from closing a connection    *)
(* that a worker is reading from, nor from establishing one that a worker  *)
(* is closing.  The history variable clash tells that it has happened: two *)
(* threads have changed the fields of one connection at once, and what the *)
(* program does from then on is not modelled (Defined).                    *)
(***************************************************************************)
EXTENDS Integers, Sequences, FiniteSets, FiniteSetsExt

CONSTANTS
    Conns,          \* connections of one tcp_mgr_instance
    Workers,        \* its worker threads (tmi_workers)
    Oneshot,        \* connections whose events are EPOLLIN | EPOLLONESHOT (the accepted ones)
    HdrSize,        \* tmc_header_size
    Stream,         \* the bulk sizes of the messages a peer sends, by connection
    MaxBulkSize,    \* TCP_MGR_MAX_BULK_SIZE
    MaxAttempts,    \* attempts of tcp_socket_recv_all
    BulkCredits,    \* credits of tcp_mgr_setup
    MaxConnects,    \* bound: connections established in all
    SplitHeaders    \* whether a header may arrive in parts

ASSUME TcpRecvAssumption ==
    /\ IsFiniteSet(Conns)
    /\ IsFiniteSet(Workers)
    /\ HdrSize \in Nat \ {0}
    /\ Stream \in [Conns -> Seq(Nat)]
    /\ BulkCredits \in Nat
    /\ MaxBulkSize \in Nat
    /\ MaxAttempts \in Nat
    /\ MaxConnects \in Nat
    /\ Oneshot \subseteq Conns
    /\ SplitHeaders \in BOOLEAN

None == "none"
ASSUME NoneAssumption == None \notin Conns

VARIABLES
    arrived,        \* bytes of the stream that have reached the socket
    sockErr,        \* what ended the stream: "none", "eof", an errno, or "taken" by SO_ERROR
    consumed,       \* bytes of the stream that recvmsg returned
    open,           \* the socket is open and its epoll handle installed
    deleting,       \* the socket is closed, its handle is on epm_destroy_list
    connects,       \* connections established so far, for the bound
    armed,          \* the handle's events are enabled
    fetched,        \* the event that epoll_wait returned and that is not yet dispatched
    handoff,        \* tmc_handoff
    connq,          \* tmi_connq
    bulkBuf,        \* tmc_bulk_buf: none, charged to a credit, or plain
    bulkOffset,     \* tmc_bulk_offset
    bulkRemain,     \* tmc_bulk_remain
    credits,        \* tmi_bulk_credits
    drift,          \* history: plain buffers freed less allocations that failed
    delivered,      \* history: what recv_cb was given on this connection
    wpc,            \* a worker's place in its loop
    wconn,          \* the connection in its hands
    wmsg,           \* locals: bytes and attempts of a header, bulk size, recv_bytes of a bulk
    exposed,        \* history: connections established while queued, held or about to be
    clash           \* history: connections that two threads changed at once, and how

peer == <<arrived, sockErr>>
bulk == <<bulkBuf, bulkOffset, bulkRemain>>
queue == <<handoff, connq>>
work == <<wpc, wconn, wmsg>>
epoll == <<deleting, armed, fetched>>
hist == <<exposed, clash>>
vars == <<peer, consumed, open, connects, epoll, queue, bulk, credits, drift, delivered, work, hist>>

----------------------------------------------------------------------------
(* The peer's stream *)

\* Position at which message k of c begins, and where message k ends.
Start(c, k) ==
    LET at[i \in 0..Len(Stream[c])] ==
            IF i = 0 THEN 0 ELSE at[i - 1] + HdrSize + Stream[c][i]
    IN  at[k - 1]
End(c, k) == Start(c, k) + HdrSize + Stream[c][k]

StreamLen(c) == Start(c, Len(Stream[c]) + 1)

\* What message k looks like to recv_cb: its first byte and its length.
Message(c, k) == [at |-> Start(c, k), len |-> HdrSize + Stream[c][k]]

\* tmi_bulk_size_cb: what it answers for the header that begins at a position.  Bytes that are
\* no header can be answered by an error or by any size.
BulkSizeCb(c, at) ==
    LET here == {k \in DOMAIN Stream[c] : Start(c, k) = at}
    IN  IF here # {} THEN {Stream[c][k] : k \in here} ELSE {-1, 0, 1}

\* Errors for which tcp_mgr_recv_cb closes the connection, and another one for which it does not.
ClosingErrs == {"ECONNRESET"}
SockErrs == {"ECONNRESET", "ETIMEDOUT"}

Avail(c) == arrived[c] - consumed[c]

----------------------------------------------------------------------------
Idle == "idle"
NoMsg == [got |-> 0, tries |-> 0, size |-> 0, recv |-> 0]

\* Inside tcp_mgr_conn_recv_inline, which assumes that nobody else changes the connection.
Receiving == {"hdr", "size", "credit", "undo", "malloc", "nocredit", "bulk", "progress", "complete",
              "close"}

TypeOK ==
    /\ arrived \in [Conns -> Nat]
    /\ consumed \in [Conns -> Nat]
    /\ \A c \in Conns : consumed[c] <= arrived[c]
    /\ sockErr \in [Conns -> {"none", "eof", "taken"} \union SockErrs]
    /\ open \in [Conns -> BOOLEAN]
    /\ connects \in 0..MaxConnects
    /\ deleting \in [Conns -> BOOLEAN]
    /\ armed \in [Conns -> BOOLEAN]
    /\ fetched \in [Conns -> {"none", "in", "err"}]
    /\ handoff \in [Conns -> BOOLEAN]
    /\ connq \in Seq(Conns)
    /\ bulkBuf \in [Conns -> {"none", "credit", "plain"}]
    /\ bulkOffset \in [Conns -> Nat]
    /\ bulkRemain \in [Conns -> Nat]
    /\ credits \in Int
    /\ drift \in Int
    /\ delivered \in [Conns -> Seq([at : Int, len : Nat])]
    /\ wpc \in [Workers -> {Idle, "reenable"} \union Receiving]
    /\ wconn \in [Workers -> Conns \union {None}]
    /\ wmsg \in [Workers -> [got : 0..HdrSize, tries : Nat, size : Nat, recv : Nat]]
    /\ exposed \subseteq Conns
    /\ clash \subseteq Conns \X {"event", "close", "setup"}

Init ==
    /\ arrived = [c \in Conns |-> 0]
    /\ sockErr = [c \in Conns |-> "none"]
    /\ consumed = [c \in Conns |-> 0]
    /\ open = [c \in Conns |-> FALSE]
    /\ connects = 0
    /\ deleting = [c \in Conns |-> FALSE]
    /\ armed = [c \in Conns |-> FALSE]
    /\ fetched = [c \in Conns |-> "none"]
    /\ handoff = [c \in Conns |-> FALSE]
    /\ connq = <<>>
    /\ bulkBuf = [c \in Conns |-> "none"]
    /\ bulkOffset = [c \in Conns |-> 0]
    /\ bulkRemain = [c \in Conns |-> 0]
    /\ credits = BulkCredits
    /\ drift = 0
    /\ delivered = [c \in Conns |-> <<>>]
    /\ wpc = [w \in Workers |-> Idle]
    /\ wconn = [w \in Workers |-> None]
    /\ wmsg = [w \in Workers |-> NoMsg]
    /\ exposed = {}
    /\ clash = {}

----------------------------------------------------------------------------
(* The peer and the kernel *)

\* Bytes reach the socket.
Arrive(c) ==
    /\ open[c]
    /\ sockErr[c] = "none"
    /\ \E n \in (arrived[c] + 1)..StreamLen(c) :
           /\ \/ SplitHeaders
              \/ \A k \in DOMAIN Stream[c] : n <= Start(c, k) \/ Start(c, k) + HdrSize <= n
           /\ arrived' = [arrived EXCEPT ![c] = n]
    /\ UNCHANGED <<sockErr, consumed, open, connects, epoll, queue, bulk, credits, drift,
                   delivered, work, hist>>

\* The peer closes the connection, or the connection fails.
PeerEnds(c) ==
    /\ open[c]
    /\ sockErr[c] = "none"
    /\ \E e \in {"eof"} \union SockErrs : sockErr' = [sockErr EXCEPT ![c] = e]
    /\ UNCHANGED <<arrived, consumed, open, connects, epoll, queue, bulk, credits, drift,
                   delivered, work, hist>>

----------------------------------------------------------------------------
(* Closing *)

Held(c) == IF bulkBuf[c] = "none" THEN 0 ELSE 1
Plain(c) == IF bulkBuf[c] = "plain" THEN 1 ELSE 0

\* tcp_mgr_bulk_free and the reset of the fields: every buffer gives a credit, charged or not.
FreeBulk(c) ==
    /\ credits' = credits + Held(c)
    /\ drift' = drift + Plain(c)
    /\ bulkBuf' = [bulkBuf EXCEPT ![c] = "none"]
    /\ bulkOffset' = [bulkOffset EXCEPT ![c] = 0]
    /\ bulkRemain' = [bulkRemain EXCEPT ![c] = 0]

\* tcp_mgr_connection_close_internal.  What the kernel kept for the socket goes with it, except an
\* event that epoll_wait has returned already.  epoll_handle_del may leave the handle to the end of
\* the epoll thread's batch.
CloseInternal(c, deferred) ==
    /\ FreeBulk(c)
    /\ open' = [open EXCEPT ![c] = FALSE]
    /\ deleting' = [deleting EXCEPT ![c] = @ \/ (open[c] /\ deferred)]
    /\ armed' = [armed EXCEPT ![c] = FALSE]
    /\ arrived' = [arrived EXCEPT ![c] = 0]
    /\ consumed' = [consumed EXCEPT ![c] = 0]
    /\ sockErr' = [sockErr EXCEPT ![c] = "none"]
    /\ delivered' = [delivered EXCEPT ![c] = <<>>]

\* epoll_handle_del completes on the epoll thread itself, unless a ctx callback of the handle is
\* queued; a delete by any other thread is deferred.
EpollDefers == BOOLEAN

\* No worker is inside the connection.
Quiet(c) == \A w \in Workers : wconn[w] = c => wpc[w] \notin Receiving

\* The epoll thread closes a connection, whether or not a worker is inside it.
ClosedByEpoll(c, how) ==
    /\ \E deferred \in EpollDefers : CloseInternal(c, deferred)
    /\ clash' = IF Quiet(c) THEN clash ELSE clash \union {<<c, how>>}

\* tcp_mgr_connection_close, which the epoll thread runs for the application, or a handshake of the
\* same peer that finds it connected.
CloseElsewhere(c) ==
    /\ open[c]
    /\ ClosedByEpoll(c, "close")
    /\ UNCHANGED <<connects, fetched, queue, work, exposed>>

----------------------------------------------------------------------------
(* The epoll thread *)

\* The handle is being deleted, or a worker is inside close_internal.
BeingClosed(c) == deleting[c] \/ \E w \in Workers : wconn[w] = c /\ wpc[w] = "close"

\* A new socket is connected and installed: tcp_mgr_connection_merge_incoming or
\* tcp_mgr_connect_complete.  Neither touches the bulk fields, the queue or tmc_handoff, and
\* epoll_handle_init takes no notice of the handle's state.
Establish(c) ==
    /\ ~open[c]
    /\ connects < MaxConnects
    /\ connects' = connects + 1
    /\ open' = [open EXCEPT ![c] = TRUE]
    /\ armed' = [armed EXCEPT ![c] = TRUE]
    /\ exposed' = IF handoff[c] \/ fetched[c] # "none" THEN exposed \union {c} ELSE exposed
    /\ clash' = IF BeingClosed(c) THEN clash \union {<<c, "setup">>} ELSE clash
    /\ UNCHANGED <<peer, consumed, deleting, fetched, queue, bulk, credits, drift, delivered, work>>

Readable(c) == open[c] /\ (Avail(c) > 0 \/ sockErr[c] # "none")

\* epoll_wait returns an event of the handle, which is disabled by that if it is EPOLLONESHOT.
Fetch(c) ==
    /\ armed[c]
    /\ Readable(c)
    /\ fetched[c] = "none"
    /\ fetched' = [fetched EXCEPT ![c] = IF sockErr[c] \in SockErrs THEN "err" ELSE "in"]
    /\ armed' = [armed EXCEPT ![c] = c \notin Oneshot]
    /\ UNCHANGED <<peer, consumed, open, connects, deleting, queue, bulk, credits, drift, delivered,
                   work, hist>>

\* tcp_mgr_conn_recv_handoff.
HandOff(c) ==
    IF handoff[c]
    THEN UNCHANGED queue
    ELSE /\ handoff' = [handoff EXCEPT ![c] = TRUE]
         /\ connq' = Append(connq, c)

\* The dispatcher skips a handle that has been deleted, not one whose delete is deferred.
Installed(c) == open[c] \/ deleting[c]
Dispatched(c, event) == fetched[c] = event /\ fetched' = [fetched EXCEPT ![c] = "none"]

\* tcp_mgr_recv_cb for an event without an error: the connection is handed off.
RecvEvent(c) ==
    /\ Dispatched(c, "in")
    /\ IF Installed(c) THEN HandOff(c) ELSE UNCHANGED queue
    /\ UNCHANGED <<peer, consumed, open, connects, deleting, armed, bulk, credits, drift, delivered,
                   work, hist>>

\* tcp_mgr_recv_cb for an event with an error: SO_ERROR takes the error of an open socket, if no
\* recvmsg took it before, and some errors close.
ErrorEvent(c) ==
    /\ Dispatched(c, "err")
    /\ \/ /\ open[c] /\ sockErr[c] \in ClosingErrs
          /\ ClosedByEpoll(c, "event")
          /\ UNCHANGED queue
       \/ /\ open[c] /\ sockErr[c] \in SockErrs \ ClosingErrs
          /\ sockErr' = [sockErr EXCEPT ![c] = "taken"]
          /\ UNCHANGED <<arrived, consumed, open, deleting, armed, queue, bulk, credits, drift,
                         delivered, clash>>
       \/ /\ open[c] /\ sockErr[c] \notin SockErrs
          /\ HandOff(c)
          /\ UNCHANGED <<peer, consumed, open, deleting, armed, bulk, credits, drift, delivered, clash>>
       \/ /\ ~open[c]
          /\ UNCHANGED <<peer, consumed, open, deleting, armed, queue, bulk, credits, drift,
                         delivered, clash>>
    /\ UNCHANGED <<connects, work, exposed>>

\* The end of a batch: epoll_mgr_reap_destroy_list completes the delete.
Reap(c) ==
    /\ deleting[c]
    /\ fetched[c] = "none"
    /\ deleting' = [deleting EXCEPT ![c] = FALSE]
    /\ UNCHANGED <<peer, consumed, open, connects, armed, fetched, queue, bulk, credits, drift,
                   delivered, work, hist>>

----------------------------------------------------------------------------
(* tcp_mgr_worker *)

Goto(w, l) == wpc' = [wpc EXCEPT ![w] = l]

\* Take the first connection; tcp_mgr_conn_recv_inline starts with a header, or goes on with a bulk.
Take(w) ==
    /\ wpc[w] = Idle
    /\ connq # <<>>
    /\ LET c == Head(connq)
       IN  /\ wconn' = [wconn EXCEPT ![w] = c]
           /\ Goto(w, IF bulkRemain[c] = 0 THEN "hdr" ELSE "bulk")
    /\ connq' = Tail(connq)
    /\ UNCHANGED <<peer, consumed, open, connects, epoll, handoff, bulk, credits, drift, delivered,
                   wmsg, hist>>

\* What a recvmsg for n bytes returns: bytes, or none when there are none, or an end.
RecvLen(c, n) == Min({Avail(c), n})
Ended(c) == ~open[c] \/ (Avail(c) = 0 /\ sockErr[c] # "none")
NothingYet(c) == open[c] /\ Avail(c) = 0 /\ sockErr[c] = "none"

\* tcp_socket_recv_all: an attempt that returns bytes of the header.
RecvHeader(w) ==
    LET c == wconn[w]
        n == RecvLen(c, HdrSize - wmsg[w].got)
        got == wmsg[w].got + n
    IN  /\ wpc[w] = "hdr"
        /\ open[c]
        /\ Avail(c) > 0
        /\ consumed' = [consumed EXCEPT ![c] = @ + n]
        /\ wmsg' = [wmsg EXCEPT ![w].got = got, ![w].tries = @ + 1]
        /\ Goto(w, IF got = HdrSize THEN "size"
                   ELSE IF wmsg[w].tries + 1 = MaxAttempts THEN "close" ELSE "hdr")
        /\ UNCHANGED <<peer, open, connects, epoll, queue, bulk, credits, drift, delivered, wconn, hist>>

\* -EAGAIN: nothing to do on this socket, whatever was read of the header before.
HeaderEagain(w) ==
    /\ wpc[w] = "hdr"
    /\ NothingYet(wconn[w])
    /\ Goto(w, "reenable")
    /\ UNCHANGED <<peer, consumed, open, connects, epoll, queue, bulk, credits, drift, delivered,
                   wconn, wmsg, hist>>

\* The socket has closed or fails, in a header or in a bulk.  recvmsg takes the error.
RecvEnds(w) ==
    LET c == wconn[w]
    IN  /\ wpc[w] \in {"hdr", "bulk"}
        /\ Ended(c)
        /\ sockErr' = [sockErr EXCEPT ![c] = IF @ \in SockErrs THEN "taken" ELSE @]
        /\ Goto(w, "close")
        /\ UNCHANGED <<arrived, consumed, open, connects, epoll, queue, bulk, credits, drift,
                       delivered, wconn, wmsg, hist>>

\* recv_cb gets what lies between two positions.
Deliver(c, at, len) == delivered' = [delivered EXCEPT ![c] = Append(@, [at |-> at, len |-> len])]

\* The header is complete: its bulk size decides.  A message without bulk is delivered from the
\* stack buffer; the application may fail it, which closes the connection.
SizeKnown(w) ==
    LET c == wconn[w]
        at == consumed[c] - HdrSize
    IN  /\ wpc[w] = "size"
        /\ \E size \in BulkSizeCb(c, at) :
              \/ /\ size = 0
                 /\ Deliver(c, at, HdrSize)
                 /\ \E l \in {"reenable", "close"} : Goto(w, l)
                 /\ UNCHANGED wmsg
              \/ /\ size # 0
                 /\ wmsg' = IF size > 0 THEN [wmsg EXCEPT ![w].size = size] ELSE wmsg
                 /\ Goto(w, IF size < 0 \/ HdrSize + size > MaxBulkSize THEN "close" ELSE "credit")
                 /\ UNCHANGED delivered
        /\ UNCHANGED <<peer, consumed, open, connects, epoll, queue, bulk, credits, drift, wconn, hist>>

\* tcp_mgr_credits_malloc: decrement, and look at the result.
TakeCredit(w) ==
    /\ wpc[w] = "credit"
    /\ credits' = credits - 1
    /\ Goto(w, IF credits - 1 < 0 THEN "undo" ELSE "malloc")
    /\ UNCHANGED <<peer, consumed, open, connects, epoll, queue, bulk, drift, delivered, wconn, wmsg, hist>>

\* Mutant: a refused credit is not given back.
UndoCredit_none(w) ==
    /\ wpc[w] = "undo"
    /\ Goto(w, "nocredit")
    /\ UNCHANGED <<peer, consumed, open, connects, epoll, queue, bulk, credits, drift, delivered,
                   wconn, wmsg, hist>>

\* The decrement is taken back.
UndoCredit(w) ==
    /\ wpc[w] = "undo"
    /\ credits' = credits + 1
    /\ Goto(w, "nocredit")
    /\ UNCHANGED <<peer, consumed, open, connects, epoll, queue, bulk, drift, delivered, wconn, wmsg, hist>>

\* Mutant: the header copied to the front of the buffer is not counted in the offset.
BulkPrepared_noheader(w, kind) ==
    LET c == wconn[w]
    IN  /\ bulkBuf' = [bulkBuf EXCEPT ![c] = kind]
        /\ bulkOffset' = [bulkOffset EXCEPT ![c] = 0]
        /\ bulkRemain' = [bulkRemain EXCEPT ![c] = wmsg[w].size]
        /\ Goto(w, "bulk")

BulkPrepared(w, kind) ==
    LET c == wconn[w]
    IN  /\ bulkBuf' = [bulkBuf EXCEPT ![c] = kind]
        /\ bulkOffset' = [bulkOffset EXCEPT ![c] = HdrSize]
        /\ bulkRemain' = [bulkRemain EXCEPT ![c] = wmsg[w].size]
        /\ Goto(w, "bulk")

\* The allocation against the credit.
CreditMalloc(w) ==
    /\ wpc[w] = "malloc"
    /\ BulkPrepared(w, "credit")
    /\ UNCHANGED <<peer, consumed, open, connects, epoll, queue, credits, drift, delivered, wconn, wmsg, hist>>

\* It fails, and the credit stays taken.
CreditMallocFails(w) ==
    /\ wpc[w] = "malloc"
    /\ drift' = drift - 1
    /\ Goto(w, "nocredit")
    /\ UNCHANGED <<peer, consumed, open, connects, epoll, queue, bulk, credits, delivered, wconn, wmsg, hist>>

\* FIONREAD: an allocation without a credit is tried if the whole bulk has arrived.
BulkIsHere(w) == Avail(wconn[w]) >= wmsg[w].size

PlainMalloc(w) ==
    /\ wpc[w] = "nocredit"
    /\ BulkIsHere(w)
    /\ BulkPrepared(w, "plain")
    /\ UNCHANGED <<peer, consumed, open, connects, epoll, queue, credits, drift, delivered, wconn, wmsg, hist>>

\* -ENOMEM: the bulk has not arrived, or the allocation fails.
NoBuffer(w) ==
    /\ wpc[w] = "nocredit"
    /\ Goto(w, "close")
    /\ UNCHANGED <<peer, consumed, open, connects, epoll, queue, bulk, credits, drift, delivered,
                   wconn, wmsg, hist>>

\* tcp_mgr_bulk_progress_recv: recvmsg fills the buffer from where it ended before.
RecvBulk(w) ==
    LET c == wconn[w]
        n == RecvLen(c, bulkRemain[c])
    IN  /\ wpc[w] = "bulk"
        /\ open[c]
        /\ Avail(c) > 0 \/ NothingYet(c)
        /\ consumed' = [consumed EXCEPT ![c] = @ + n]
        /\ wmsg' = [wmsg EXCEPT ![w].recv = n]
        /\ Goto(w, "progress")
        /\ UNCHANGED <<peer, open, connects, epoll, queue, bulk, credits, drift, delivered, wconn, hist>>

\* What was received is counted, under the assertion that it is no more than what remained.
BulkProgress(w) ==
    LET c == wconn[w]
        n == wmsg[w].recv
    IN  /\ wpc[w] = "progress"
        /\ bulkOffset' = [bulkOffset EXCEPT ![c] = @ + n]
        /\ bulkRemain' = [bulkRemain EXCEPT ![c] = @ - n]
        /\ Goto(w, IF bulkRemain[c] = n THEN "complete" ELSE "reenable")
        /\ UNCHANGED <<peer, consumed, open, connects, epoll, queue, bulkBuf, credits, drift, delivered,
                       wconn, wmsg, hist>>

\* tcp_mgr_bulk_complete: recv_cb, which may fail, then the buffer is freed.
CompleteBulk(w) ==
    LET c == wconn[w]
    IN  /\ wpc[w] = "complete"
        /\ Deliver(c, consumed[c] - bulkOffset[c], bulkOffset[c])
        /\ FreeBulk(c)
        /\ \E l \in {"reenable", "close"} : Goto(w, l)
        /\ UNCHANGED <<peer, consumed, open, connects, epoll, queue, wconn, wmsg, hist>>

\* An error of tcp_mgr_conn_recv_inline closes the connection.
CloseOnError(w) ==
    /\ wpc[w] = "close"
    /\ CloseInternal(wconn[w], TRUE)
    /\ Goto(w, "reenable")
    /\ UNCHANGED <<connects, fetched, queue, wconn, wmsg, hist>>

\* Mutant: the events are not enabled again.
Reenable_disarmed(w) ==
    LET c == wconn[w]
    IN  /\ wpc[w] = "reenable"
        /\ handoff' = [handoff EXCEPT ![c] = FALSE]
        /\ Goto(w, Idle)
        /\ wconn' = [wconn EXCEPT ![w] = None]
        /\ wmsg' = [wmsg EXCEPT ![w] = NoMsg]
        /\ UNCHANGED <<peer, consumed, open, connects, epoll, connq, bulk, credits, drift, delivered, hist>>

\* tcp_mgr_conn_reenable: epoll_handle_mod enables the events if the handle is installed and not
\* being deleted.
Reenable(w) ==
    LET c == wconn[w]
    IN  /\ wpc[w] = "reenable"
        /\ handoff' = [handoff EXCEPT ![c] = FALSE]
        /\ armed' = [armed EXCEPT ![c] = open[c]]
        /\ Goto(w, Idle)
        /\ wconn' = [wconn EXCEPT ![w] = None]
        /\ wmsg' = [wmsg EXCEPT ![w] = NoMsg]
        /\ UNCHANGED <<peer, consumed, open, connects, deleting, fetched, connq, bulk, credits, drift,
                       delivered, hist>>

Work(w) ==
    \/ Take(w)
    \/ RecvHeader(w)
    \/ HeaderEagain(w)
    \/ RecvEnds(w)
    \/ SizeKnown(w)
    \/ TakeCredit(w)
    \/ UndoCredit(w)
    \/ CreditMalloc(w)
    \/ CreditMallocFails(w)
    \/ PlainMalloc(w)
    \/ NoBuffer(w)
    \/ RecvBulk(w)
    \/ BulkProgress(w)
    \/ CompleteBulk(w)
    \/ CloseOnError(w)
    \/ Reenable(w)

Epoll(c) == Fetch(c) \/ RecvEvent(c) \/ ErrorEvent(c) \/ Reap(c)

\* No two threads have changed the fields of a connection at once.
Defined == clash = {}

Next ==
    /\ Defined
    /\ \/ \E c \in Conns : Arrive(c) \/ PeerEnds(c) \/ Establish(c) \/ CloseElsewhere(c) \/ Epoll(c)
       \/ \E w \in Workers : Work(w)

Spec == Init /\ [][Next]_vars

\* The epoll thread serves every handle that is ready and a worker runs until it waits.  The peer,
\* the network and the application promise nothing.
FairSpec ==
    /\ Spec
    /\ \A c \in Conns : WF_vars(Defined /\ Epoll(c))
    /\ \A w \in Workers : WF_vars(Defined /\ Work(w))

----------------------------------------------------------------------------
(* Properties *)

\* What recv_cb was given on a connection is, message by message, what the peer sent: no header
\* is taken from the middle of a message, no bulk is cut, mixed or repeated, also after a close in
\* the middle of a bulk and a new connection (tcp_mgr_new_msg_handler, tcp_mgr_bulk_complete).
\* Nothing is said of a connection that two threads changed at once.
Framing ==
    Defined =>
        \A c \in Conns :
            /\ Len(delivered[c]) <= Len(Stream[c])
            /\ \A k \in DOMAIN delivered[c] : delivered[c][k] = Message(c, k)

Charged == {c \in Conns : bulkBuf[c] = "credit"}
Deciding == {w \in Workers : wpc[w] \in {"malloc", "undo"}}

\* The credits of tcp_mgr_credits_malloc and tcp_mgr_credits_free are exact between all workers:
\* the buffers that were charged, the decrements not yet decided, and nothing else but two leaks of
\* the code that drift counts (an uncharged buffer's free gives a credit, a failed allocation keeps one).
CreditsExact == credits = BulkCredits + drift - Cardinality(Charged) - Cardinality(Deciding)

\* A buffer allocated without a credit is gone when the call that allocated it returns: the whole
\* bulk was in the socket, so one recvmsg completes it (tcp_mgr_bulk_prepare_and_recv).
PlainIsTransient ==
    \A c \in Conns : bulkBuf[c] = "plain" => \E w \in Workers : wconn[w] = c /\ wpc[w] \in Receiving

\* tmc_handoff is set exactly while the connection is on the queue, once, or in the hands of one
\* worker: a connection's messages are processed one at a time (tcp_mgr_worker), whoever closes it
\* and establishes it again in the meantime.
OneHolder ==
    /\ \A i, j \in DOMAIN connq : connq[i] = connq[j] => i = j
    /\ \A v, w \in Workers : wconn[v] = wconn[w] /\ wconn[w] # None => v = w
    /\ \A w \in Workers, i \in DOMAIN connq : connq[i] # wconn[w]
    /\ \A c \in Conns :
          handoff[c] <=> (\E i \in DOMAIN connq : connq[i] = c) \/ (\E w \in Workers : wconn[w] = c)

\* "NIOVA_ASSERT((size_t)recv_bytes <= tmc->tmc_bulk_remain)" (tcp_mgr.c:550): what recvmsg put into
\* the buffer is no more than what the connection still waits for.
ReceivedFits == \A w \in Workers : wpc[w] = "progress" => wmsg[w].recv <= bulkRemain[wconn[w]]

\* The assertions of tcp_mgr_conn_recv_inline, tcp_mgr_bulk_prepare_and_recv and
\* tcp_mgr_bulk_progress_recv: a header is read and a buffer allocated only when there is no buffer,
\* a bulk is read only into a buffer, no more than remains, and between two calls there is a buffer
\* if and only if bytes remain.
NoAssert ==
    /\ ReceivedFits
    /\ \A w \in Workers :
          LET c == wconn[w]
          IN  /\ wpc[w] \in {"hdr", "size", "credit", "undo", "malloc", "nocredit"} =>
                     bulkBuf[c] = "none" /\ bulkRemain[c] = 0
              /\ wpc[w] \in {"bulk", "progress"} => bulkBuf[c] # "none" /\ bulkRemain[c] > 0
              /\ wpc[w] = "complete" => bulkBuf[c] # "none" /\ bulkRemain[c] = 0
    /\ \A c \in Conns : Quiet(c) => (bulkBuf[c] = "none" <=> bulkRemain[c] = 0)

\* An error event closes the connection of an EPOLLONESHOT handle under a worker only if the
\* connection was established anew while it was still queued, in a worker's hands or about to be
\* handed off.  Otherwise its events stay disabled from the hand-off to tcp_mgr_conn_reenable, which
\* is all that protects tcp_mgr_conn_recv_inline (tcp_mgr.c:88-112, 735-744, 788-792).
OneshotShields == \A c \in Oneshot : <<c, "event">> \in clash => c \in exposed

\* An EPOLLONESHOT handle whose error tcp_mgr_recv_cb took and did not close for: nobody enables its
\* events again, and the connection stays as it is (tcp_mgr.c:743).
Abandoned(c) == c \in Oneshot /\ sockErr[c] = "taken"

\* What the socket of c still has to tell: a message that has arrived and was not given to recv_cb,
\* or an end of the stream.
Untold(c) ==
    \/ sockErr[c] # "none"
    \/ \E k \in DOMAIN Stream[c] : arrived[c] >= End(c, k) /\ Len(delivered[c]) < k

Owed(c) == Defined /\ open[c] /\ ~Abandoned(c) /\ Untold(c)

\* A connection has one holder.  As long as no two threads changed a connection at once, its bulk
\* buffer is there exactly while a message needs it and is paid for once, and no assertion fails;
\* when two did, it was not an error event of an EPOLLONESHOT handle that nobody established under
\* its worker (tcp_mgr.c:28-52, 88-141, 524-752).
BuffersExact ==
    /\ OneHolder
    /\ Defined => CreditsExact /\ PlainIsTransient /\ NoAssert
    /\ OneshotShields

\* Nothing that the socket has to tell is forgotten between the event, its dispatch, the queue and
\* tcp_mgr_conn_reenable: a message is delivered and an end closes the connection, whatever was
\* queued or half read then: again and again nothing is owed.  Left out are an abandoned connection
\* and what two threads changed at once.
StreamServed == \A c \in Conns : []<>~Owed(c)
=============================================================================
