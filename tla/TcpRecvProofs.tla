---------------------------- MODULE TcpRecvProofs ----------------------------
(* The hand-off, the bulk buffers and the credits of the tcp manager's       *)
(* workers, and the framing of messages, for any connections, workers and    *)
(* streams.                                                                  *)
EXTENDS TcpRecv, TLAPS, FiniteSetTheorems, SequenceTheorems, WellFoundedInduction

----------------------------------------------------------------------------
(* The type invariant in four parts: sockets, epoll, hands, buffers.          *)

SockType ==
    /\ arrived \in [Conns -> Nat]
    /\ consumed \in [Conns -> Nat]
    /\ \A c \in Conns : consumed[c] <= arrived[c]
    /\ sockErr \in [Conns -> {"none", "eof", "taken"} \union SockErrs]
    /\ open \in [Conns -> BOOLEAN]
    /\ connects \in 0..MaxConnects

EpollType ==
    /\ deleting \in [Conns -> BOOLEAN]
    /\ armed \in [Conns -> BOOLEAN]
    /\ fetched \in [Conns -> {"none", "in", "err"}]
    /\ exposed \subseteq Conns
    /\ clash \subseteq Conns \X {"event", "close", "setup"}

HandType ==
    /\ handoff \in [Conns -> BOOLEAN]
    /\ connq \in Seq(Conns)
    /\ wpc \in [Workers -> {Idle, "reenable"} \union Receiving]
    /\ wconn \in [Workers -> Conns \union {None}]

BulkType ==
    /\ bulkBuf \in [Conns -> {"none", "credit", "plain"}]
    /\ bulkOffset \in [Conns -> Nat]
    /\ bulkRemain \in [Conns -> Nat]
    /\ credits \in Int
    /\ drift \in Int
    /\ delivered \in [Conns -> Seq([at : Int, len : Nat])]
    /\ wmsg \in [Workers -> [got : 0..HdrSize, tries : Nat, size : Nat, recv : Nat]]

LEMMA TypeParts == TypeOK <=> SockType /\ EpollType /\ HandType /\ BulkType
  BY DEF TypeOK, SockType, EpollType, HandType, BulkType

\* A worker holds a connection exactly while it is not waiting for one.
Busy == \A w \in Workers : wpc[w] = Idle <=> wconn[w] = None

Hands == HandType /\ Busy /\ OneHolder

----------------------------------------------------------------------------
LEMMA RecvLenType ==
  ASSUME NEW c, NEW n \in Nat, Avail(c) \in Nat
  PROVE  /\ RecvLen(c, n) \in Nat
         /\ RecvLen(c, n) = IF Avail(c) <= n THEN Avail(c) ELSE n
<1> DEFINE S == {Avail(c), n}
<1>1. \E x \in S : \A y \in S : x <= y
  OBVIOUS
<1>2. Min(S) \in S /\ \A y \in S : Min(S) <= y
  BY <1>1 DEF Min
<1> QED
  BY <1>2 DEF RecvLen

LEMMA BulkSizeType ==
  ASSUME NEW c \in Conns, NEW at, NEW size \in BulkSizeCb(c, at)
  PROVE  size \in Int
  BY TcpRecvAssumption DEF BulkSizeCb

----------------------------------------------------------------------------
(* The hands: queue, hand-off flag and workers *)

\* A worker that keeps its connection changes nothing in who holds what.
LEMMA SameHands ==
  ASSUME Hands, NEW w \in Workers, wpc[w] # Idle,
         NEW l \in {"reenable"} \union Receiving,
         wpc' = [wpc EXCEPT ![w] = l],
         UNCHANGED <<handoff, connq, wconn>>
  PROVE  Hands'
<1>1. l # Idle
  BY DEF Receiving, Idle
<1>2. HandType'
  BY DEF Hands, HandType
<1>3. Busy'
  BY <1>1 DEF Hands, HandType, Busy
<1>4. OneHolder'
  BY DEF Hands, OneHolder
<1> QED
  BY <1>2, <1>3, <1>4 DEF Hands

\* Nothing of the hands changes.
LEMMA IdleHands ==
  ASSUME Hands, UNCHANGED <<handoff, connq, wconn, wpc>>
  PROVE  Hands'
  BY DEF Hands, HandType, Busy, OneHolder

\* The epoll thread hands a connection off.
LEMMA HandOffHands ==
  ASSUME Hands, NEW c \in Conns, HandOff(c) \/ UNCHANGED queue, UNCHANGED work
  PROVE  Hands'
<1>1. CASE UNCHANGED queue
  BY <1>1, IdleHands DEF queue, work
<1>2. CASE ~handoff[c] /\ HandOff(c)
  <2>1. /\ handoff' = [handoff EXCEPT ![c] = TRUE]
        /\ connq' = Append(connq, c)
        /\ wconn' = wconn /\ wpc' = wpc
    BY <1>2 DEF HandOff, work
  <2>2. /\ \A i \in DOMAIN connq : connq[i] # c
        /\ \A w \in Workers : wconn[w] # c
    BY <1>2 DEF Hands, OneHolder
  <2>3. /\ connq \in Seq(Conns)
        /\ handoff \in [Conns -> BOOLEAN]
    BY DEF Hands, HandType
  <2>4. connq' \in Seq(Conns)
    BY <2>1, <2>3
  <2>5. PICK n \in Nat :
           /\ DOMAIN connq = 1..n
           /\ DOMAIN connq' = 1..(n + 1)
           /\ \A i \in 1..n : connq'[i] = connq[i]
           /\ connq'[n + 1] = c
    BY <2>1, <2>3
  <2>6. HandType'
    BY <2>1, <2>4 DEF Hands, HandType
  <2>7. \A i, j \in DOMAIN connq' : connq'[i] = connq'[j] => i = j
    BY <2>2, <2>5 DEF Hands, OneHolder
  <2>8. \A v \in Workers, i \in DOMAIN connq' : connq'[i] # wconn[v]
    BY <2>2, <2>5 DEF Hands, OneHolder
  <2>9. ASSUME NEW d \in Conns
        PROVE  (\E i \in DOMAIN connq' : connq'[i] = d) <=>
                   d = c \/ \E i \in DOMAIN connq : connq[i] = d
    <3>1. CASE d = c
      BY <2>5, <3>1
    <3>2. CASE d # c
      BY <2>5, <3>2
    <3> QED
      BY <3>1, <3>2
  <2>10. \A d \in Conns : handoff'[d] <=> (d = c \/ handoff[d])
    BY <2>1, <2>3
  <2>11. OneHolder'
    BY <2>1, <2>7, <2>8, <2>9, <2>10 DEF Hands, OneHolder
  <2>12. Busy'
    BY <2>1 DEF Hands, Busy
  <2> QED
    BY <2>6, <2>11, <2>12 DEF Hands
<1>3. UNCHANGED queue \/ (~handoff[c] /\ HandOff(c))
  BY DEF HandOff
<1> QED
  BY <1>1, <1>2, <1>3

\* A worker takes the first connection of the queue.
LEMMA TakeHands ==
  ASSUME Hands, NEW w \in Workers, Take(w)
  PROVE  Hands'
<1> DEFINE c == Head(connq)
<1>1. /\ connq \in Seq(Conns)
      /\ connq # <<>>
      /\ wconn \in [Workers -> Conns \union {None}]
      /\ wpc \in [Workers -> {Idle, "reenable"} \union Receiving]
      /\ handoff \in [Conns -> BOOLEAN]
  BY DEF Hands, HandType, Take
<1>2. /\ wconn' = [wconn EXCEPT ![w] = c]
      /\ connq' = Tail(connq)
      /\ handoff' = handoff
      /\ wpc[w] = Idle
  BY DEF Take
<1>3. PICK l \in {"hdr", "bulk"} : wpc' = [wpc EXCEPT ![w] = l]
  BY DEF Take, Goto
<1>4. c \in Conns /\ connq' \in Seq(Conns)
  BY <1>1, <1>2
<1>5. PICK n \in Nat :
         /\ DOMAIN connq = 1..(n + 1)
         /\ DOMAIN connq' = 1..n
         /\ \A i \in 1..n : connq'[i] = connq[i + 1]
         /\ connq[1] = c
  <2>1. Len(connq) \in Nat /\ Len(connq) > 0
    BY <1>1
  <2>2. /\ Len(connq) - 1 \in Nat
        /\ DOMAIN connq = 1..((Len(connq) - 1) + 1)
        /\ DOMAIN connq' = 1..(Len(connq) - 1)
        /\ \A i \in 1..(Len(connq) - 1) : connq'[i] = connq[i + 1]
        /\ connq[1] = c
    BY <1>1, <1>2, <2>1
  <2> QED
    BY <2>2
<1>6. HandType'
  BY <1>1, <1>2, <1>3, <1>4 DEF HandType, Receiving
<1>7. Busy'
  BY <1>1, <1>2, <1>3, <1>4, NoneAssumption DEF Hands, Busy, Idle
<1>8. \A i \in 1..n : connq[i + 1] # c
  BY <1>5 DEF Hands, OneHolder
<1>9. \A v \in Workers : wconn[v] # c
  BY <1>5 DEF Hands, OneHolder
<1>10. \A i, j \in DOMAIN connq' : connq'[i] = connq'[j] => i = j
  BY <1>5 DEF Hands, OneHolder
<1>11. \A u, v \in Workers : wconn'[u] = wconn'[v] /\ wconn'[v] # None => u = v
  BY <1>1, <1>2, <1>9 DEF Hands, OneHolder
<1>12. \A v \in Workers, i \in DOMAIN connq' : connq'[i] # wconn'[v]
  BY <1>1, <1>2, <1>5, <1>8 DEF Hands, OneHolder
<1>13. ASSUME NEW d \in Conns, d # c
       PROVE  (\E i \in DOMAIN connq' : connq'[i] = d) <=> \E i \in DOMAIN connq : connq[i] = d
  <2>1. ASSUME NEW i \in DOMAIN connq, connq[i] = d
        PROVE  \E k \in DOMAIN connq' : connq'[k] = d
    <3>1. i # 1 /\ i - 1 \in 1..n /\ connq'[i - 1] = connq[i]
      BY <1>5, <1>13, <2>1
    <3> QED
      BY <1>5, <2>1, <3>1
  <2>2. ASSUME NEW i \in DOMAIN connq', connq'[i] = d
        PROVE  \E k \in DOMAIN connq : connq[k] = d
    <3>1. i + 1 \in DOMAIN connq /\ connq[i + 1] = d
      BY <1>5, <2>2
    <3> QED
      BY <3>1
  <2> QED
    BY <2>1, <2>2
<1>14. ASSUME NEW d \in Conns, d # c
       PROVE  (\E v \in Workers : wconn'[v] = d) <=> \E v \in Workers : wconn[v] = d
  <2>1. wconn[w] = None
    BY <1>2 DEF Hands, Busy
  <2>2. d # None
    BY NoneAssumption
  <2> QED
    BY <1>1, <1>2, <1>14, <2>1, <2>2
<1>15. handoff[c]
  BY <1>4, <1>5 DEF Hands, OneHolder
<1>16. ASSUME NEW d \in Conns
       PROVE  handoff'[d] <=> (\E i \in DOMAIN connq' : connq'[i] = d) \/ \E v \in Workers : wconn'[v] = d
  <2>1. CASE d = c
    BY <1>1, <1>2, <1>15, <2>1
  <2>2. CASE d # c
    BY <1>2, <1>13, <1>14, <2>2 DEF Hands, OneHolder
  <2> QED
    BY <2>1, <2>2
<1>17. OneHolder'
  BY <1>10, <1>11, <1>12, <1>16 DEF OneHolder
<1> QED
  BY <1>6, <1>7, <1>17 DEF Hands

\* A worker lets its connection go.
LEMMA ReenableHands ==
  ASSUME Hands, NEW w \in Workers, Reenable(w)
  PROVE  Hands'
<1> DEFINE c == wconn[w]
<1>1. /\ wconn \in [Workers -> Conns \union {None}]
      /\ wpc \in [Workers -> {Idle, "reenable"} \union Receiving]
      /\ handoff \in [Conns -> BOOLEAN]
  BY DEF Hands, HandType
<1>2. /\ wpc[w] = "reenable"
      /\ handoff' = [handoff EXCEPT ![c] = FALSE]
      /\ wpc' = [wpc EXCEPT ![w] = Idle]
      /\ wconn' = [wconn EXCEPT ![w] = None]
      /\ connq' = connq
  BY DEF Reenable, Goto
<1>3. c \in Conns
  BY <1>1, <1>2 DEF Hands, Busy, Idle
<1>4. HandType' /\ Busy'
  BY <1>1, <1>2, <1>3 DEF Hands, HandType, Busy
<1>5. \A v \in Workers : v # w => wconn[v] # c
  BY <1>3, NoneAssumption DEF Hands, OneHolder
<1>6. \A i \in DOMAIN connq : connq[i] # c
  BY DEF Hands, OneHolder
<1>7. \A i \in DOMAIN connq : connq[i] # None
  BY NoneAssumption DEF Hands, HandType
<1>8. ASSUME NEW d \in Conns
      PROVE  handoff'[d] <=> (\E i \in DOMAIN connq' : connq'[i] = d) \/ \E v \in Workers : wconn'[v] = d
  <2>1. CASE d = c
    BY <1>1, <1>2, <1>3, <1>5, <1>6, <2>1, NoneAssumption
  <2>2. CASE d # c
    <3>1. (\E v \in Workers : wconn'[v] = d) <=> \E v \in Workers : wconn[v] = d
      BY <1>1, <1>2, <2>2, NoneAssumption
    <3> QED
      BY <1>1, <1>2, <2>2, <3>1 DEF Hands, OneHolder
  <2> QED
    BY <2>1, <2>2
<1>9. \A u, v \in Workers : wconn'[u] = wconn'[v] /\ wconn'[v] # None => u = v
  BY <1>1, <1>2 DEF Hands, OneHolder
<1>10. \A v \in Workers, i \in DOMAIN connq : connq[i] # wconn'[v]
  BY <1>1, <1>2, <1>7 DEF Hands, OneHolder
<1>11. OneHolder'
  BY <1>2, <1>8, <1>9, <1>10 DEF Hands, OneHolder
<1> QED
  BY <1>4, <1>11 DEF Hands

----------------------------------------------------------------------------
(* Types of the sockets and buffers, and the facts about one connection's   *)
(* buffer that hold while a worker is inside it                             *)

\* A worker that asks for a buffer knows the size of the bulk.
SizeSet ==
    \A w \in Workers :
        wpc[w] \in {"credit", "undo", "malloc", "nocredit"} => wmsg[w].size > 0

\* While a worker reads into a buffer without a credit, the rest of the bulk is in the socket, and
\* one recvmsg reads it.
PlainIsHere ==
    \A w \in Workers :
        LET c == wconn[w]
        IN  bulkBuf[c] = "plain" =>
                /\ wpc[w] = "bulk" => Avail(c) >= bulkRemain[c]
                /\ wpc[w] = "progress" => wmsg[w].recv = bulkRemain[c]

Inv == SockType /\ BulkType /\ Hands /\ SizeSet /\ NoAssert /\ PlainIsTransient /\ PlainIsHere

LEMMA InitInv == Init => Inv
<1> SUFFICES ASSUME Init PROVE Inv
  OBVIOUS
<1>1. SockType /\ BulkType
  BY TcpRecvAssumption DEF Init, SockType, BulkType, NoMsg, SockErrs
<1>2. Hands
  BY NoneAssumption DEF Init, Hands, HandType, Busy, OneHolder, Idle
<1>3. SizeSet /\ NoAssert /\ PlainIsTransient /\ PlainIsHere
  BY DEF Init, SizeSet, NoAssert, ReceivedFits, PlainIsTransient, PlainIsHere, Idle, Quiet
<1> QED
  BY <1>1, <1>2, <1>3 DEF Inv

\* The peer's and the network's steps leave the buffers alone.
LEMMA PeerKeeps ==
  ASSUME Inv, NEW c \in Conns, Arrive(c) \/ PeerEnds(c) \/ Establish(c)
  PROVE  Inv'
<1>1. SockType'
  <2>1. CASE Arrive(c)
    BY <2>1 DEF Inv, SockType, Arrive
  <2>2. CASE PeerEnds(c)
    BY <2>2 DEF Inv, SockType, PeerEnds
  <2>3. CASE Establish(c)
    BY <2>3, TcpRecvAssumption DEF Inv, SockType, Establish, peer
  <2> QED
    BY <2>1, <2>2, <2>3
<1>2. UNCHANGED <<handoff, connq, wconn, wpc, wmsg, bulkBuf, bulkOffset, bulkRemain, credits, drift, delivered>>
  BY DEF Arrive, PeerEnds, Establish, queue, bulk, work
<1>3. BulkType' /\ Hands'
  BY <1>2, IdleHands DEF Inv, BulkType
<1>4. SizeSet' /\ NoAssert' /\ PlainIsTransient'
  BY <1>2 DEF Inv, SizeSet, NoAssert, ReceivedFits, PlainIsTransient, Quiet
<1>5. PlainIsHere'
  <2>1. \A d \in Conns : Avail(d)' >= Avail(d)
    BY DEF Inv, SockType, Arrive, PeerEnds, Establish, peer, Avail
  <2>2. \A w \in Workers : wpc[w] = "bulk" => wconn[w] \in Conns
    BY DEF Inv, Hands, HandType, Busy, Idle
  <2>3. \A d \in Conns : Avail(d) \in Int /\ Avail(d)' \in Int /\ bulkRemain[d] \in Int
    BY <1>1 DEF Inv, SockType, BulkType, Avail
  <2> QED
    BY <1>2, <2>1, <2>2, <2>3 DEF Inv, PlainIsHere
<1> QED
  BY <1>1, <1>3, <1>4, <1>5 DEF Inv

\* Closing a connection leaves the types and the hands alone, and everything else too if no worker
\* is inside the connection.
LEMMA CloseKeeps ==
  ASSUME Inv, NEW c \in Conns, NEW deferred, CloseInternal(c, deferred),
         UNCHANGED <<connects, handoff, connq, wpc, wconn, wmsg>>
  PROVE  SockType' /\ BulkType' /\ Hands' /\ (Quiet(c) => Inv')
<1>1. SockType'
  BY DEF Inv, SockType, CloseInternal
<1>2. BulkType'
  BY DEF Inv, BulkType, CloseInternal, FreeBulk, Held, Plain
<1>3. Hands'
  BY IdleHands DEF Inv
<1> SUFFICES ASSUME Quiet(c) PROVE Inv'
  BY <1>1, <1>2, <1>3
<1>4. /\ bulkBuf' = [bulkBuf EXCEPT ![c] = "none"]
      /\ bulkRemain' = [bulkRemain EXCEPT ![c] = 0]
      /\ open' = [open EXCEPT ![c] = FALSE]
      /\ arrived' = [arrived EXCEPT ![c] = 0]
      /\ consumed' = [consumed EXCEPT ![c] = 0]
  BY DEF CloseInternal, FreeBulk
<1>5. \A w \in Workers : wpc[w] \in Receiving => wconn[w] # c
  BY DEF Quiet
<1>6. SizeSet'
  BY DEF Inv, SizeSet
<1>7. \A w \in Workers : wpc[w] \in Receiving => wconn[w] \in Conns
  BY DEF Inv, Hands, HandType, Busy, Idle, Receiving
<1>8. NoAssert'
  BY <1>4, <1>5, <1>7 DEF Inv, BulkType, NoAssert, ReceivedFits, Quiet, Receiving
<1>9. PlainIsTransient'
  BY <1>4 DEF Inv, BulkType, PlainIsTransient
<1>10. PlainIsHere'
  BY <1>4, <1>5, <1>7 DEF Inv, SockType, BulkType, PlainIsHere, Avail, Receiving
<1> QED
  BY <1>1, <1>2, <1>3, <1>6, <1>8, <1>9, <1>10 DEF Inv

\* The epoll thread closes: if nobody was inside the connection, or else it is seen in clash.
LEMMA EpollCloseKeeps ==
  ASSUME Inv, NEW c \in Conns, NEW how, ClosedByEpoll(c, how), UNCHANGED <<connects, queue, work>>
  PROVE  SockType' /\ BulkType' /\ Hands' /\ (Defined' => Inv')
<1>1. PICK deferred \in EpollDefers : CloseInternal(c, deferred)
  BY DEF ClosedByEpoll
<1>2. Defined' => Quiet(c)
  BY DEF ClosedByEpoll, Defined
<1> QED
  BY <1>1, <1>2, CloseKeeps DEF queue, work

\* The epoll thread.
LEMMA EpollKeeps ==
  ASSUME Inv, NEW c \in Conns, CloseElsewhere(c) \/ Epoll(c)
  PROVE  SockType' /\ BulkType' /\ Hands' /\ (Defined' => Inv')
<1>1. ASSUME UNCHANGED <<arrived, consumed, open, connects, bulk, credits, drift, delivered, work>>,
             sockErr' \in [Conns -> {"none", "eof", "taken"} \union SockErrs],
             HandOff(c) \/ UNCHANGED queue
      PROVE  Inv'
  <2>1. UNCHANGED <<arrived, consumed, open, connects, bulkBuf, bulkOffset, bulkRemain, credits, drift,
                    delivered, wpc, wconn, wmsg>>
    BY <1>1 DEF bulk, work
  <2>2. SockType' /\ BulkType'
    BY <1>1, <2>1 DEF Inv, SockType, BulkType
  <2>3. Hands'
    BY <1>1, HandOffHands DEF Inv
  <2>4. SizeSet' /\ NoAssert' /\ PlainIsTransient' /\ PlainIsHere'
    BY <2>1 DEF Inv, SizeSet, NoAssert, ReceivedFits, PlainIsTransient, PlainIsHere, Quiet, Avail
  <2> QED
    BY <2>2, <2>3, <2>4 DEF Inv
<1>2. sockErr \in [Conns -> {"none", "eof", "taken"} \union SockErrs]
  BY DEF Inv, SockType
<1>3. CASE CloseElsewhere(c)
  BY <1>3, EpollCloseKeeps DEF CloseElsewhere
<1>4. CASE Fetch(c) \/ RecvEvent(c) \/ Reap(c)
  <2>1. Inv'
    BY <1>1, <1>2, <1>4 DEF Fetch, RecvEvent, Reap, peer
  <2> QED
    BY <2>1 DEF Inv
<1>5. CASE ErrorEvent(c)
  <2>1. CASE ClosedByEpoll(c, "event") /\ UNCHANGED <<connects, queue, work>>
    BY <2>1, EpollCloseKeeps
  <2>2. CASE UNCHANGED <<arrived, consumed, open, connects, bulk, credits, drift, delivered, work>>
             /\ (sockErr' = [sockErr EXCEPT ![c] = "taken"] \/ UNCHANGED sockErr)
             /\ (HandOff(c) \/ UNCHANGED queue)
    <3>1. Inv'
      BY <1>1, <1>2, <2>2
    <3> QED
      BY <3>1 DEF Inv
  <2> QED
    BY <1>5, <2>1, <2>2 DEF ErrorEvent, peer
<1> QED
  BY <1>3, <1>4, <1>5 DEF Epoll

----------------------------------------------------------------------------
(* The workers.  Invariants are read worker by worker and connection by     *)
(* connection: a worker changes only itself and the connection it holds.    *)

WorkerOK(w) ==
    LET c == wconn[w]
    IN  /\ wpc[w] \in {"credit", "undo", "malloc", "nocredit"} => wmsg[w].size > 0
        /\ wpc[w] \in {"hdr", "size", "credit", "undo", "malloc", "nocredit"} =>
               bulkBuf[c] = "none" /\ bulkRemain[c] = 0
        /\ wpc[w] \in {"bulk", "progress"} => bulkBuf[c] # "none" /\ bulkRemain[c] > 0
        /\ wpc[w] = "progress" => wmsg[w].recv <= bulkRemain[c]
        /\ wpc[w] = "complete" => bulkBuf[c] # "none" /\ bulkRemain[c] = 0
        /\ bulkBuf[c] = "plain" =>
               /\ wpc[w] = "bulk" => Avail(c) >= bulkRemain[c]
               /\ wpc[w] = "progress" => wmsg[w].recv = bulkRemain[c]

ConnOK(c) ==
    /\ Quiet(c) => (bulkBuf[c] = "none" <=> bulkRemain[c] = 0)
    /\ bulkBuf[c] = "plain" => \E w \in Workers : wconn[w] = c /\ wpc[w] \in Receiving

LEMMA Locally ==
  SizeSet /\ NoAssert /\ PlainIsTransient /\ PlainIsHere <=>
      (\A w \in Workers : WorkerOK(w)) /\ (\A c \in Conns : ConnOK(c))
  BY DEF SizeSet, NoAssert, ReceivedFits, PlainIsTransient, PlainIsHere, WorkerOK, ConnOK

\* What is left to show for a step of a worker that keeps its connection.
LEMMA WorkerStep ==
  ASSUME Inv, NEW w \in Workers, wpc[w] # Idle,
         NEW l \in {"reenable"} \union Receiving,
         wpc' = [wpc EXCEPT ![w] = l],
         UNCHANGED <<handoff, connq, wconn>>,
         \A v \in Workers \ {w} : wmsg'[v] = wmsg[v],
         \A d \in Conns \ {wconn[w]} :
             /\ bulkBuf'[d] = bulkBuf[d]
             /\ bulkRemain'[d] = bulkRemain[d]
             /\ open'[d] = open[d]
             /\ arrived'[d] = arrived[d]
             /\ consumed'[d] = consumed[d],
         SockType', BulkType',
         WorkerOK(w)',
         l = "reenable" => /\ bulkBuf'[wconn[w]] = "none" <=> bulkRemain'[wconn[w]] = 0
                           /\ bulkBuf'[wconn[w]] # "plain"
  PROVE  Inv'
<1> DEFINE c == wconn[w]
<1>1. Hands'
  BY SameHands DEF Inv
<1>2. /\ wpc \in [Workers -> {Idle, "reenable"} \union Receiving]
      /\ wconn \in [Workers -> Conns \union {None}]
      /\ wconn' = wconn
      /\ wpc'[w] = l
      /\ \A v \in Workers \ {w} : wpc'[v] = wpc[v]
  BY DEF Inv, Hands, HandType
<1>3. \A v \in Workers \ {w} : wconn[v] # None => wconn[v] # c
  BY DEF Inv, Hands, OneHolder
<1>4. \A v \in Workers : wpc[v] \in Receiving => wconn[v] \in Conns
  BY <1>2 DEF Inv, Hands, Busy, Idle, Receiving
<1>5. ASSUME NEW v \in Workers PROVE WorkerOK(v)'
  <2>1. CASE v = w
    BY <2>1
  <2>2. CASE v # w /\ wpc[v] \in Receiving
    <3>1. wconn[v] \in Conns \ {c}
      BY <1>3, <1>4, <2>2, NoneAssumption
    <3>2. WorkerOK(v)
      BY Locally DEF Inv
    <3> QED
      BY <1>2, <2>2, <3>1, <3>2 DEF WorkerOK, Avail
  <2>3. CASE v # w /\ wpc[v] \notin Receiving
    BY <1>2, <2>3 DEF WorkerOK, Receiving
  <2> QED
    BY <2>1, <2>2, <2>3
<1>6. ASSUME NEW d \in Conns PROVE ConnOK(d)'
  <2>1. CASE d # c
    <3>1. ConnOK(d)
      BY Locally DEF Inv
    <3>2. \A v \in Workers : wconn[v] = d => v # w
      BY <2>1
    <3>3. Quiet(d)' <=> Quiet(d)
      BY <1>2, <3>2 DEF Quiet
    <3> QED
      BY <1>2, <2>1, <3>1, <3>2, <3>3 DEF ConnOK
  <2>2. CASE d = c /\ l \in Receiving
    BY <1>2, <2>2 DEF ConnOK, Quiet
  <2>3. CASE d = c /\ l = "reenable"
    BY <2>3 DEF ConnOK
  <2> QED
    BY <2>1, <2>2, <2>3
<1>7. SizeSet' /\ NoAssert' /\ PlainIsTransient' /\ PlainIsHere'
  BY <1>2, <1>5, <1>6 DEF SizeSet, NoAssert, ReceivedFits, PlainIsTransient, PlainIsHere, WorkerOK, ConnOK, Quiet
<1> QED
  BY <1>1, <1>7 DEF Inv

LEMMA WorkKeeps ==
  ASSUME Inv, NEW w \in Workers, Work(w)
  PROVE  Inv'
<1> DEFINE c == wconn[w]
<1>1. wpc[w] # Idle => c \in Conns
  BY DEF Inv, Hands, HandType, Busy
<1>2. WorkerOK(w)
  BY Locally DEF Inv
<1>3. /\ wpc \in [Workers -> {Idle, "reenable"} \union Receiving]
      /\ wmsg \in [Workers -> [got : 0..HdrSize, tries : Nat, size : Nat, recv : Nat]]
  BY DEF Inv, Hands, HandType, BulkType
<1>4. CASE Take(w)
  <2> DEFINE q == Head(connq)
  <2>1. Hands'
    BY <1>4, TakeHands DEF Inv
  <2>2. SockType' /\ BulkType'
    BY <1>4 DEF Inv, SockType, BulkType, Take, peer, bulk
  <2>3. /\ wpc' = [wpc EXCEPT ![w] = IF bulkRemain[q] = 0 THEN "hdr" ELSE "bulk"]
        /\ wconn' = [wconn EXCEPT ![w] = q]
        /\ UNCHANGED <<wmsg, bulkBuf, bulkRemain, open, arrived, consumed>>
        /\ wpc[w] = Idle
    BY <1>4 DEF Take, Goto, peer, bulk
  <2>4. q \in Conns /\ \A v \in Workers : wconn[v] # q
    <3>1. q \in Conns /\ 1 \in DOMAIN connq /\ q = connq[1]
      BY <1>4 DEF Inv, Hands, HandType, Take
    <3> QED
      BY <3>1 DEF Inv, Hands, OneHolder
  <2>5. ConnOK(q)
    BY <2>4, Locally DEF Inv
  <2>6. Quiet(q) /\ bulkBuf[q] # "plain"
    BY <2>4, <2>5 DEF Quiet, ConnOK
  <2>7. /\ bulkBuf[q] = "none" <=> bulkRemain[q] = 0
        /\ bulkRemain[q] \in Nat
    BY <2>4, <2>5, <2>6 DEF ConnOK, Inv, BulkType
  <2>8. wconn \in [Workers -> Conns \union {None}] /\ wconn[w] = None
    BY <2>3 DEF Inv, Hands, HandType, Busy
  <2>9. ASSUME NEW v \in Workers PROVE WorkerOK(v)'
    <3>1. CASE v = w
      BY <1>3, <2>3, <2>6, <2>7, <2>8, <3>1 DEF WorkerOK
    <3>2. CASE v # w
      <4>1. WorkerOK(v)
        BY Locally DEF Inv
      <4> QED
        BY <1>3, <2>3, <2>8, <3>2, <4>1 DEF WorkerOK, Avail
    <3> QED
      BY <3>1, <3>2
  <2>10. ASSUME NEW d \in Conns PROVE ConnOK(d)'
    <3>1. CASE d = q
      BY <1>3, <2>3, <2>6, <2>7, <2>8, <3>1 DEF ConnOK
    <3>2. CASE d # q
      <4>1. ConnOK(d)
        BY Locally DEF Inv
      <4>2. \A v \in Workers : (wconn'[v] = d <=> wconn[v] = d) /\ (wconn[v] = d => wpc'[v] = wpc[v])
        BY <1>3, <2>3, <2>8, <3>2, NoneAssumption
      <4> QED
        BY <2>3, <4>1, <4>2 DEF ConnOK, Quiet
    <3> QED
      BY <3>1, <3>2
  <2>11. SizeSet' /\ NoAssert' /\ PlainIsTransient' /\ PlainIsHere'
    BY <2>9, <2>10 DEF SizeSet, NoAssert, ReceivedFits, PlainIsTransient, PlainIsHere, WorkerOK, ConnOK, Quiet
  <2> QED
    BY <2>1, <2>2, <2>11 DEF Inv
<1>5. CASE Reenable(w)
  <2>1. Hands'
    BY <1>5, ReenableHands DEF Inv
  <2>2. wpc[w] = "reenable" /\ c \in Conns
    BY <1>1, <1>5 DEF Reenable, Idle
  <2>3. SockType' /\ BulkType'
    <3>1. SockType'
      BY <1>5, <2>2 DEF Inv, SockType, Reenable, peer
    <3>2. NoMsg \in [got : 0..HdrSize, tries : Nat, size : Nat, recv : Nat]
      BY TcpRecvAssumption DEF NoMsg
    <3>3. BulkType'
      BY <1>5, <3>2 DEF Inv, BulkType, Reenable, bulk
    <3> QED
      BY <3>1, <3>3
  <2>4. /\ wpc' = [wpc EXCEPT ![w] = Idle]
        /\ wconn' = [wconn EXCEPT ![w] = None]
        /\ wmsg' = [wmsg EXCEPT ![w] = NoMsg]
        /\ UNCHANGED <<bulkBuf, bulkRemain, open, arrived, consumed>>
    BY <1>5 DEF Reenable, Goto, peer, bulk
  <2>5. wconn \in [Workers -> Conns \union {None}]
    BY DEF Inv, Hands, HandType
  <2>6. ASSUME NEW v \in Workers PROVE WorkerOK(v)'
    <3>1. CASE v = w
      BY <1>3, <2>4, <2>5, <3>1 DEF WorkerOK, Idle
    <3>2. CASE v # w
      <4>1. WorkerOK(v)
        BY Locally DEF Inv
      <4> QED
        BY <1>3, <2>4, <2>5, <3>2, <4>1 DEF WorkerOK, Avail
    <3> QED
      BY <3>1, <3>2
  <2>7. ASSUME NEW d \in Conns PROVE ConnOK(d)'
    <3>1. ConnOK(d)
      BY Locally DEF Inv
    <3>2. \A v \in Workers : wconn[v] = d /\ wpc[v] \in Receiving <=> wconn'[v] = d /\ wpc'[v] \in Receiving
      BY <1>3, <2>2, <2>4, <2>5, NoneAssumption DEF Receiving, Idle
    <3>3. Quiet(d)' <=> Quiet(d)
      BY <3>2 DEF Quiet
    <3> QED
      BY <2>4, <3>1, <3>2, <3>3 DEF ConnOK
  <2>8. SizeSet' /\ NoAssert' /\ PlainIsTransient' /\ PlainIsHere'
    BY <2>6, <2>7 DEF SizeSet, NoAssert, ReceivedFits, PlainIsTransient, PlainIsHere, WorkerOK, ConnOK, Quiet
  <2> QED
    BY <2>1, <2>3, <2>8 DEF Inv
<1>6. CASE RecvHeader(w)
  <2>1. c \in Conns /\ wpc[w] # Idle
    BY <1>1, <1>6 DEF RecvHeader, Idle
  <2> DEFINE n == RecvLen(c, HdrSize - wmsg[w].got)
             got == wmsg[w].got + n
  <2>10. /\ HdrSize \in Nat
         /\ wmsg[w].got \in 0..HdrSize
         /\ HdrSize - wmsg[w].got \in Nat
         /\ Avail(c) \in Nat
    BY SMTT(30), <1>3, <2>1, TcpRecvAssumption DEF Inv, SockType, Avail
  <2>11. n \in Nat /\ n <= Avail(c) /\ n <= HdrSize - wmsg[w].got
    BY <2>10, RecvLenType
  <2>12. /\ consumed' = [consumed EXCEPT ![c] = @ + n]
         /\ wmsg' = [wmsg EXCEPT ![w].got = got, ![w].tries = @ + 1]
         /\ got \in 0..HdrSize
    BY <1>6, <2>10, <2>11 DEF RecvHeader
  <2> HIDE DEF n
  <2>2. PICK l \in {"size", "close", "hdr"} : wpc' = [wpc EXCEPT ![w] = l]
    BY <1>6 DEF RecvHeader, Goto
  <2>3. SockType'
    BY <1>6, <2>1, <2>11, <2>12 DEF Inv, SockType, RecvHeader, Avail, peer
  <2>4. BulkType'
    <3>1. wmsg[w].tries + 1 \in Nat
      BY <1>3
    <3>2. wmsg' \in [Workers -> [got : 0..HdrSize, tries : Nat, size : Nat, recv : Nat]]
      BY <1>3, <2>12, <3>1
    <3> QED
      BY <1>6, <3>2 DEF Inv, BulkType, RecvHeader, bulk
  <2>5. UNCHANGED <<handoff, connq, wconn>>
    BY <1>6 DEF RecvHeader, peer, queue, bulk
  <2>6. \A v \in Workers \ {w} : wmsg'[v] = wmsg[v]
    BY <1>3, <1>6 DEF RecvHeader
  <2>7. \A d \in Conns \ {c} :
             /\ bulkBuf'[d] = bulkBuf[d]
             /\ bulkRemain'[d] = bulkRemain[d]
             /\ open'[d] = open[d]
             /\ arrived'[d] = arrived[d]
             /\ consumed'[d] = consumed[d]
    BY <1>6, <2>1 DEF Inv, SockType, BulkType, RecvHeader, peer, queue, bulk
  <2>8. WorkerOK(w)' /\ (l = "reenable" => /\ bulkBuf'[c] = "none" <=> bulkRemain'[c] = 0
                                          /\ bulkBuf'[c] # "plain")
    BY <1>2, <1>3, <1>6, <2>1, <2>2, <2>5 DEF Inv, SockType, BulkType, WorkerOK, Goto, Avail, RecvHeader, peer, queue, bulk
  <2> QED
    BY <2>1, <2>2, <2>3, <2>4, <2>5, <2>6, <2>7, <2>8, WorkerStep DEF Receiving
<1>7. CASE HeaderEagain(w)
  <2>1. c \in Conns /\ wpc[w] # Idle
    BY <1>1, <1>7 DEF HeaderEagain, Idle
  <2>2. PICK l \in {"reenable"} : wpc' = [wpc EXCEPT ![w] = l]
    BY <1>7 DEF HeaderEagain, Goto
  <2>3. SockType'
    BY <1>7, <2>1 DEF Inv, SockType, HeaderEagain, peer, queue, bulk
  <2>4. BulkType'
    BY <1>7, <2>1 DEF Inv, BulkType, HeaderEagain, peer, queue, bulk
  <2>5. UNCHANGED <<handoff, connq, wconn>>
    BY <1>7 DEF HeaderEagain, peer, queue, bulk
  <2>6. \A v \in Workers \ {w} : wmsg'[v] = wmsg[v]
    BY <1>3, <1>7 DEF HeaderEagain
  <2>7. \A d \in Conns \ {c} :
             /\ bulkBuf'[d] = bulkBuf[d]
             /\ bulkRemain'[d] = bulkRemain[d]
             /\ open'[d] = open[d]
             /\ arrived'[d] = arrived[d]
             /\ consumed'[d] = consumed[d]
    BY <1>7, <2>1 DEF Inv, SockType, BulkType, HeaderEagain, peer, queue, bulk
  <2>8. WorkerOK(w)' /\ (l = "reenable" => /\ bulkBuf'[c] = "none" <=> bulkRemain'[c] = 0
                                          /\ bulkBuf'[c] # "plain")
    BY <1>2, <1>3, <1>7, <2>1, <2>2, <2>5 DEF Inv, SockType, BulkType, WorkerOK, Goto, Avail, HeaderEagain, peer, queue, bulk
  <2> QED
    BY <2>1, <2>2, <2>3, <2>4, <2>5, <2>6, <2>7, <2>8, WorkerStep DEF Receiving
<1>8. CASE RecvEnds(w)
  <2>1. c \in Conns /\ wpc[w] # Idle
    BY <1>1, <1>8 DEF RecvEnds, Idle
  <2>2. PICK l \in {"close"} : wpc' = [wpc EXCEPT ![w] = l]
    BY <1>8 DEF RecvEnds, Goto
  <2>3. SockType'
    BY <1>8, <2>1 DEF Inv, SockType, RecvEnds, peer, queue, bulk
  <2>4. BulkType'
    BY <1>8, <2>1 DEF Inv, BulkType, RecvEnds, peer, queue, bulk
  <2>5. UNCHANGED <<handoff, connq, wconn>>
    BY <1>8 DEF RecvEnds, peer, queue, bulk
  <2>6. \A v \in Workers \ {w} : wmsg'[v] = wmsg[v]
    BY <1>3, <1>8 DEF RecvEnds
  <2>7. \A d \in Conns \ {c} :
             /\ bulkBuf'[d] = bulkBuf[d]
             /\ bulkRemain'[d] = bulkRemain[d]
             /\ open'[d] = open[d]
             /\ arrived'[d] = arrived[d]
             /\ consumed'[d] = consumed[d]
    BY <1>8, <2>1 DEF Inv, SockType, BulkType, RecvEnds, peer, queue, bulk
  <2>8. WorkerOK(w)' /\ (l = "reenable" => /\ bulkBuf'[c] = "none" <=> bulkRemain'[c] = 0
                                          /\ bulkBuf'[c] # "plain")
    BY <1>2, <1>3, <1>8, <2>1, <2>2, <2>5 DEF Inv, SockType, BulkType, WorkerOK, Goto, Avail, RecvEnds, peer, queue, bulk
  <2> QED
    BY <2>1, <2>2, <2>3, <2>4, <2>5, <2>6, <2>7, <2>8, WorkerStep DEF Receiving
<1>9. CASE SizeKnown(w)
  <2>1. c \in Conns /\ wpc[w] # Idle
    BY <1>1, <1>9 DEF SizeKnown, Idle
  <2>2. PICK l \in {"reenable", "close", "credit"} : wpc' = [wpc EXCEPT ![w] = l]
    BY <1>9 DEF SizeKnown, Deliver, Goto
  <2>3. SockType'
    BY <1>9, <2>1 DEF Inv, SockType, SizeKnown, Deliver, peer, queue, bulk
  <2>4. BulkType'
    <3>1. /\ wmsg' \in [Workers -> [got : 0..HdrSize, tries : Nat, size : Nat, recv : Nat]]
          /\ UNCHANGED <<bulkBuf, bulkOffset, bulkRemain, credits, drift>>
      BY <1>3, <1>9, <2>1, BulkSizeType DEF SizeKnown, bulk
    <3>2. delivered' \in [Conns -> Seq([at : Int, len : Nat])]
      <4>1. consumed[c] - HdrSize \in Int /\ HdrSize \in Nat
        BY <2>1, TcpRecvAssumption DEF Inv, SockType
      <4>2. CASE UNCHANGED delivered
        BY <4>2 DEF Inv, BulkType
      <4>3. CASE Deliver(c, consumed[c] - HdrSize, HdrSize)
        BY <2>1, <4>1, <4>3 DEF Deliver, Inv, BulkType
      <4> QED
        BY <1>9, <4>2, <4>3 DEF SizeKnown
    <3> QED
      BY <3>1, <3>2 DEF Inv, BulkType
  <2>5. UNCHANGED <<handoff, connq, wconn>>
    BY <1>9 DEF SizeKnown, Deliver, peer, queue, bulk
  <2>6. \A v \in Workers \ {w} : wmsg'[v] = wmsg[v]
    BY <1>3, <1>9 DEF SizeKnown, Deliver
  <2>7. \A d \in Conns \ {c} :
             /\ bulkBuf'[d] = bulkBuf[d]
             /\ bulkRemain'[d] = bulkRemain[d]
             /\ open'[d] = open[d]
             /\ arrived'[d] = arrived[d]
             /\ consumed'[d] = consumed[d]
    BY <1>9, <2>1 DEF Inv, SockType, BulkType, SizeKnown, Deliver, peer, queue, bulk
  <2>8. WorkerOK(w)' /\ (l = "reenable" => /\ bulkBuf'[c] = "none" <=> bulkRemain'[c] = 0
                                          /\ bulkBuf'[c] # "plain")
    <3>1. /\ bulkBuf[c] = "none" /\ bulkRemain[c] = 0
          /\ UNCHANGED <<bulkBuf, bulkRemain>>
      BY <1>2, <1>9 DEF SizeKnown, WorkerOK, bulk
    <3>2. l = "credit" => wmsg'[w].size > 0
      BY <1>3, <1>9, <2>1, <2>2, BulkSizeType DEF SizeKnown, Goto
    <3> QED
      BY <1>3, <2>2, <2>5, <3>1, <3>2 DEF WorkerOK
  <2> QED
    BY <2>1, <2>2, <2>3, <2>4, <2>5, <2>6, <2>7, <2>8, WorkerStep DEF Receiving
<1>10. CASE TakeCredit(w)
  <2>1. c \in Conns /\ wpc[w] # Idle
    BY <1>1, <1>10 DEF TakeCredit, Idle
  <2>2. PICK l \in {"undo", "malloc"} : wpc' = [wpc EXCEPT ![w] = l]
    BY <1>10 DEF TakeCredit, Goto
  <2>3. SockType'
    BY <1>10, <2>1 DEF Inv, SockType, TakeCredit, peer, queue, bulk
  <2>4. BulkType'
    BY <1>10, <2>1 DEF Inv, BulkType, TakeCredit, peer, queue, bulk
  <2>5. UNCHANGED <<handoff, connq, wconn>>
    BY <1>10 DEF TakeCredit, peer, queue, bulk
  <2>6. \A v \in Workers \ {w} : wmsg'[v] = wmsg[v]
    BY <1>3, <1>10 DEF TakeCredit
  <2>7. \A d \in Conns \ {c} :
             /\ bulkBuf'[d] = bulkBuf[d]
             /\ bulkRemain'[d] = bulkRemain[d]
             /\ open'[d] = open[d]
             /\ arrived'[d] = arrived[d]
             /\ consumed'[d] = consumed[d]
    BY <1>10, <2>1 DEF Inv, SockType, BulkType, TakeCredit, peer, queue, bulk
  <2>8. WorkerOK(w)' /\ (l = "reenable" => /\ bulkBuf'[c] = "none" <=> bulkRemain'[c] = 0
                                          /\ bulkBuf'[c] # "plain")
    BY <1>2, <1>3, <1>10, <2>1, <2>2, <2>5 DEF Inv, SockType, BulkType, WorkerOK, Goto, Avail, TakeCredit, peer, queue, bulk
  <2> QED
    BY <2>1, <2>2, <2>3, <2>4, <2>5, <2>6, <2>7, <2>8, WorkerStep DEF Receiving
<1>11. CASE UndoCredit(w)
  <2>1. c \in Conns /\ wpc[w] # Idle
    BY <1>1, <1>11 DEF UndoCredit, Idle
  <2>2. PICK l \in {"nocredit"} : wpc' = [wpc EXCEPT ![w] = l]
    BY <1>11 DEF UndoCredit, Goto
  <2>3. SockType'
    BY <1>11, <2>1 DEF Inv, SockType, UndoCredit, peer, queue, bulk
  <2>4. BulkType'
    BY <1>11, <2>1 DEF Inv, BulkType, UndoCredit, peer, queue, bulk
  <2>5. UNCHANGED <<handoff, connq, wconn>>
    BY <1>11 DEF UndoCredit, peer, queue, bulk
  <2>6. \A v \in Workers \ {w} : wmsg'[v] = wmsg[v]
    BY <1>3, <1>11 DEF UndoCredit
  <2>7. \A d \in Conns \ {c} :
             /\ bulkBuf'[d] = bulkBuf[d]
             /\ bulkRemain'[d] = bulkRemain[d]
             /\ open'[d] = open[d]
             /\ arrived'[d] = arrived[d]
             /\ consumed'[d] = consumed[d]
    BY <1>11, <2>1 DEF Inv, SockType, BulkType, UndoCredit, peer, queue, bulk
  <2>8. WorkerOK(w)' /\ (l = "reenable" => /\ bulkBuf'[c] = "none" <=> bulkRemain'[c] = 0
                                          /\ bulkBuf'[c] # "plain")
    BY <1>2, <1>3, <1>11, <2>1, <2>2, <2>5 DEF Inv, SockType, BulkType, WorkerOK, Goto, Avail, UndoCredit, peer, queue, bulk
  <2> QED
    BY <2>1, <2>2, <2>3, <2>4, <2>5, <2>6, <2>7, <2>8, WorkerStep DEF Receiving
<1>12. CASE CreditMalloc(w)
  <2>1. c \in Conns /\ wpc[w] # Idle
    BY <1>1, <1>12 DEF CreditMalloc, Idle
  <2>2. PICK l \in {"bulk"} : wpc' = [wpc EXCEPT ![w] = l]
    BY <1>12 DEF CreditMalloc, BulkPrepared, Goto
  <2>3. SockType'
    BY <1>12, <2>1 DEF Inv, SockType, CreditMalloc, BulkPrepared, peer, queue, bulk
  <2>4. BulkType'
    BY <1>12, <2>1, TcpRecvAssumption DEF Inv, BulkType, CreditMalloc, BulkPrepared, peer, queue, bulk
  <2>5. UNCHANGED <<handoff, connq, wconn>>
    BY <1>12 DEF CreditMalloc, BulkPrepared, peer, queue, bulk
  <2>6. \A v \in Workers \ {w} : wmsg'[v] = wmsg[v]
    BY <1>3, <1>12 DEF CreditMalloc, BulkPrepared
  <2>7. \A d \in Conns \ {c} :
             /\ bulkBuf'[d] = bulkBuf[d]
             /\ bulkRemain'[d] = bulkRemain[d]
             /\ open'[d] = open[d]
             /\ arrived'[d] = arrived[d]
             /\ consumed'[d] = consumed[d]
    BY <1>12, <2>1 DEF Inv, SockType, BulkType, CreditMalloc, BulkPrepared, peer, queue, bulk
  <2>8. WorkerOK(w)' /\ (l = "reenable" => /\ bulkBuf'[c] = "none" <=> bulkRemain'[c] = 0
                                          /\ bulkBuf'[c] # "plain")
    BY <1>2, <1>3, <1>12, <2>1, <2>2, <2>5 DEF Inv, SockType, BulkType, WorkerOK, Goto, Avail, CreditMalloc, BulkPrepared, peer, queue, bulk
  <2> QED
    BY <2>1, <2>2, <2>3, <2>4, <2>5, <2>6, <2>7, <2>8, WorkerStep DEF Receiving
<1>13. CASE CreditMallocFails(w)
  <2>1. c \in Conns /\ wpc[w] # Idle
    BY <1>1, <1>13 DEF CreditMallocFails, Idle
  <2>2. PICK l \in {"nocredit"} : wpc' = [wpc EXCEPT ![w] = l]
    BY <1>13 DEF CreditMallocFails, Goto
  <2>3. SockType'
    BY <1>13, <2>1 DEF Inv, SockType, CreditMallocFails, peer, queue, bulk
  <2>4. BulkType'
    BY <1>13, <2>1 DEF Inv, BulkType, CreditMallocFails, peer, queue, bulk
  <2>5. UNCHANGED <<handoff, connq, wconn>>
    BY <1>13 DEF CreditMallocFails, peer, queue, bulk
  <2>6. \A v \in Workers \ {w} : wmsg'[v] = wmsg[v]
    BY <1>3, <1>13 DEF CreditMallocFails
  <2>7. \A d \in Conns \ {c} :
             /\ bulkBuf'[d] = bulkBuf[d]
             /\ bulkRemain'[d] = bulkRemain[d]
             /\ open'[d] = open[d]
             /\ arrived'[d] = arrived[d]
             /\ consumed'[d] = consumed[d]
    BY <1>13, <2>1 DEF Inv, SockType, BulkType, CreditMallocFails, peer, queue, bulk
  <2>8. WorkerOK(w)' /\ (l = "reenable" => /\ bulkBuf'[c] = "none" <=> bulkRemain'[c] = 0
                                          /\ bulkBuf'[c] # "plain")
    BY <1>2, <1>3, <1>13, <2>1, <2>2, <2>5 DEF Inv, SockType, BulkType, WorkerOK, Goto, Avail, CreditMallocFails, peer, queue, bulk
  <2> QED
    BY <2>1, <2>2, <2>3, <2>4, <2>5, <2>6, <2>7, <2>8, WorkerStep DEF Receiving
<1>14. CASE PlainMalloc(w)
  <2>1. c \in Conns /\ wpc[w] # Idle
    BY <1>1, <1>14 DEF PlainMalloc, Idle
  <2>2. PICK l \in {"bulk"} : wpc' = [wpc EXCEPT ![w] = l]
    BY <1>14 DEF PlainMalloc, BulkPrepared, BulkIsHere, Goto
  <2>3. SockType'
    BY <1>14, <2>1 DEF Inv, SockType, PlainMalloc, BulkPrepared, BulkIsHere, peer, queue, bulk
  <2>4. BulkType'
    BY <1>14, <2>1, TcpRecvAssumption DEF Inv, BulkType, PlainMalloc, BulkPrepared, BulkIsHere, peer, queue, bulk
  <2>5. UNCHANGED <<handoff, connq, wconn>>
    BY <1>14 DEF PlainMalloc, BulkPrepared, BulkIsHere, peer, queue, bulk
  <2>6. \A v \in Workers \ {w} : wmsg'[v] = wmsg[v]
    BY <1>3, <1>14 DEF PlainMalloc, BulkPrepared, BulkIsHere
  <2>7. \A d \in Conns \ {c} :
             /\ bulkBuf'[d] = bulkBuf[d]
             /\ bulkRemain'[d] = bulkRemain[d]
             /\ open'[d] = open[d]
             /\ arrived'[d] = arrived[d]
             /\ consumed'[d] = consumed[d]
    BY <1>14, <2>1 DEF Inv, SockType, BulkType, PlainMalloc, BulkPrepared, BulkIsHere, peer, queue, bulk
  <2>8. WorkerOK(w)' /\ (l = "reenable" => /\ bulkBuf'[c] = "none" <=> bulkRemain'[c] = 0
                                          /\ bulkBuf'[c] # "plain")
    <3>1. /\ wmsg[w].size > 0 /\ wmsg[w].size \in Nat
          /\ Avail(c) >= wmsg[w].size
          /\ bulkRemain'[c] = wmsg[w].size
          /\ bulkBuf'[c] = "plain"
          /\ Avail(c)' = Avail(c)
      BY <1>2, <1>3, <1>14, <2>1 DEF PlainMalloc, BulkPrepared, BulkIsHere, WorkerOK, Inv, BulkType, peer, Avail
    <3>2. wpc'[w] = "bulk" /\ wconn' = wconn
      BY <1>3, <2>2, <2>5
    <3> QED
      BY <2>2, <3>1, <3>2 DEF WorkerOK
  <2> QED
    BY <2>1, <2>2, <2>3, <2>4, <2>5, <2>6, <2>7, <2>8, WorkerStep DEF Receiving
<1>15. CASE NoBuffer(w)
  <2>1. c \in Conns /\ wpc[w] # Idle
    BY <1>1, <1>15 DEF NoBuffer, Idle
  <2>2. PICK l \in {"close"} : wpc' = [wpc EXCEPT ![w] = l]
    BY <1>15 DEF NoBuffer, Goto
  <2>3. SockType'
    BY <1>15, <2>1 DEF Inv, SockType, NoBuffer, peer, queue, bulk
  <2>4. BulkType'
    BY <1>15, <2>1 DEF Inv, BulkType, NoBuffer, peer, queue, bulk
  <2>5. UNCHANGED <<handoff, connq, wconn>>
    BY <1>15 DEF NoBuffer, peer, queue, bulk
  <2>6. \A v \in Workers \ {w} : wmsg'[v] = wmsg[v]
    BY <1>3, <1>15 DEF NoBuffer
  <2>7. \A d \in Conns \ {c} :
             /\ bulkBuf'[d] = bulkBuf[d]
             /\ bulkRemain'[d] = bulkRemain[d]
             /\ open'[d] = open[d]
             /\ arrived'[d] = arrived[d]
             /\ consumed'[d] = consumed[d]
    BY <1>15, <2>1 DEF Inv, SockType, BulkType, NoBuffer, peer, queue, bulk
  <2>8. WorkerOK(w)' /\ (l = "reenable" => /\ bulkBuf'[c] = "none" <=> bulkRemain'[c] = 0
                                          /\ bulkBuf'[c] # "plain")
    BY <1>2, <1>3, <1>15, <2>1, <2>2, <2>5 DEF Inv, SockType, BulkType, WorkerOK, Goto, Avail, NoBuffer, peer, queue, bulk
  <2> QED
    BY <2>1, <2>2, <2>3, <2>4, <2>5, <2>6, <2>7, <2>8, WorkerStep DEF Receiving
<1>16. CASE RecvBulk(w)
  <2>1. c \in Conns /\ wpc[w] # Idle
    BY <1>1, <1>16 DEF RecvBulk, Idle
  <2> DEFINE n == RecvLen(c, bulkRemain[c])
  <2>10. /\ bulkRemain[c] \in Nat
         /\ Avail(c) \in Nat
    BY <2>1 DEF Inv, SockType, BulkType, Avail
  <2>11. n \in Nat /\ n <= Avail(c) /\ n <= bulkRemain[c] /\ (n = Avail(c) \/ n = bulkRemain[c])
    BY <2>10, RecvLenType
  <2>12. /\ consumed' = [consumed EXCEPT ![c] = @ + n]
         /\ wmsg' = [wmsg EXCEPT ![w].recv = n]
         /\ wpc[w] = "bulk"
         /\ UNCHANGED <<bulkBuf, bulkOffset, bulkRemain, arrived, sockErr, open, connects>>
    BY <1>16 DEF RecvBulk, bulk, peer
  <2> HIDE DEF n
  <2>2. PICK l \in {"progress"} : wpc' = [wpc EXCEPT ![w] = l]
    BY <1>16 DEF RecvBulk, Goto
  <2>3. SockType'
    BY <2>1, <2>11, <2>12 DEF Inv, SockType, Avail
  <2>4. BulkType'
    <3>1. wmsg' \in [Workers -> [got : 0..HdrSize, tries : Nat, size : Nat, recv : Nat]]
      BY <1>3, <2>11, <2>12
    <3> QED
      BY <1>16, <3>1 DEF Inv, BulkType, RecvBulk, bulk
  <2>5. UNCHANGED <<handoff, connq, wconn>>
    BY <1>16 DEF RecvBulk, queue
  <2>6. \A v \in Workers \ {w} : wmsg'[v] = wmsg[v]
    BY <1>3, <2>12
  <2>7. \A d \in Conns \ {c} :
             /\ bulkBuf'[d] = bulkBuf[d]
             /\ bulkRemain'[d] = bulkRemain[d]
             /\ open'[d] = open[d]
             /\ arrived'[d] = arrived[d]
             /\ consumed'[d] = consumed[d]
    BY <2>1, <2>12 DEF Inv, SockType
  <2>8. WorkerOK(w)' /\ (l = "reenable" => /\ bulkBuf'[c] = "none" <=> bulkRemain'[c] = 0
                                          /\ bulkBuf'[c] # "plain")
    <3>1. /\ wpc'[w] = "progress" /\ wconn'[w] = c /\ wmsg'[w].recv = n
          /\ bulkBuf[c] # "none" /\ bulkRemain[c] > 0
          /\ bulkBuf[c] = "plain" => Avail(c) >= bulkRemain[c]
      BY <1>2, <1>3, <2>2, <2>5, <2>12 DEF WorkerOK
    <3>2. bulkBuf[c] = "plain" => n = bulkRemain[c]
      BY <2>10, <2>11, <3>1
    <3> QED
      BY <2>2, <2>11, <2>12, <3>1, <3>2 DEF WorkerOK
  <2> QED
    BY <2>1, <2>2, <2>3, <2>4, <2>5, <2>6, <2>7, <2>8, WorkerStep DEF Receiving
<1>19. CASE BulkProgress(w)
  <2>1. c \in Conns /\ wpc[w] # Idle
    BY <1>1, <1>19 DEF BulkProgress, Idle
  <2> DEFINE n == wmsg[w].recv
  <2>10. /\ bulkRemain[c] \in Nat /\ bulkOffset[c] \in Nat /\ n \in Nat
    BY <1>3, <2>1 DEF Inv, BulkType
  <2>12. /\ bulkOffset' = [bulkOffset EXCEPT ![c] = @ + n]
         /\ bulkRemain' = [bulkRemain EXCEPT ![c] = @ - n]
         /\ wpc' = [wpc EXCEPT ![w] = IF bulkRemain[c] = n THEN "complete" ELSE "reenable"]
         /\ wpc[w] = "progress"
         /\ UNCHANGED <<bulkBuf, wmsg>>
    BY <1>19 DEF BulkProgress, Goto
  <2>11. n <= bulkRemain[c] /\ bulkBuf[c] # "none" /\ (bulkBuf[c] = "plain" => n = bulkRemain[c])
    BY <1>2, <2>12 DEF WorkerOK
  <2>13. bulkRemain'[c] = bulkRemain[c] - n
    BY <2>1, <2>12 DEF Inv, BulkType
  <2> HIDE DEF n
  <2>2. PICK l \in {"complete", "reenable"} : /\ wpc' = [wpc EXCEPT ![w] = l]
                                         /\ l = IF bulkRemain[c] = n THEN "complete" ELSE "reenable"
    BY <2>12
  <2>3. SockType'
    BY <1>19 DEF Inv, SockType, BulkProgress, peer
  <2>4. BulkType'
    <3>1. bulkOffset[c] + n \in Nat /\ bulkRemain[c] - n \in Nat
      BY <2>10, <2>11
    <3>2. bulkOffset' \in [Conns -> Nat] /\ bulkRemain' \in [Conns -> Nat]
      BY <2>12, <3>1 DEF Inv, BulkType
    <3> QED
      BY <1>19, <3>2 DEF Inv, BulkType, BulkProgress
  <2>5. UNCHANGED <<handoff, connq, wconn>>
    BY <1>19 DEF BulkProgress, queue
  <2>6. \A v \in Workers \ {w} : wmsg'[v] = wmsg[v]
    BY <2>12
  <2>7. \A d \in Conns \ {c} :
             /\ bulkBuf'[d] = bulkBuf[d]
             /\ bulkRemain'[d] = bulkRemain[d]
             /\ open'[d] = open[d]
             /\ arrived'[d] = arrived[d]
             /\ consumed'[d] = consumed[d]
    BY <1>19, <2>1, <2>12 DEF Inv, BulkType, BulkProgress, peer
  <2>8. WorkerOK(w)' /\ (l = "reenable" => /\ bulkBuf'[c] = "none" <=> bulkRemain'[c] = 0
                                          /\ bulkBuf'[c] # "plain")
    <3>1. /\ wpc'[w] = l /\ wconn'[w] = c
          /\ bulkBuf'[c] # "none"
      BY <1>3, <2>2, <2>5, <2>11, <2>12
    <3>2. CASE l = "complete"
      <4>1. bulkRemain'[c] = 0
        BY <2>2, <2>10, <2>13, <3>2
      <4> QED
        BY <3>1, <3>2, <4>1 DEF WorkerOK
    <3>3. CASE l = "reenable"
      <4>1. n # bulkRemain[c]
        BY <2>2, <3>3
      <4>2. bulkBuf[c] # "plain" /\ bulkRemain'[c] # 0
        BY <2>10, <2>11, <2>13, <4>1
      <4> QED
        BY <2>11, <2>12, <3>1, <3>3, <4>2 DEF WorkerOK
    <3> QED
      BY <2>2, <3>2, <3>3
  <2> QED
    BY <2>1, <2>2, <2>3, <2>4, <2>5, <2>6, <2>7, <2>8, WorkerStep DEF Receiving
<1>17. CASE CompleteBulk(w)
  <2>1. c \in Conns /\ wpc[w] # Idle
    BY <1>1, <1>17 DEF CompleteBulk, Idle
  <2>2. PICK l \in {"reenable", "close"} : wpc' = [wpc EXCEPT ![w] = l]
    BY <1>17 DEF CompleteBulk, Deliver, FreeBulk, Held, Plain, Goto
  <2>3. SockType'
    BY <1>17, <2>1 DEF Inv, SockType, CompleteBulk, Deliver, FreeBulk, Held, Plain, peer, queue, bulk
  <2>4. BulkType'
    <3>1. delivered' \in [Conns -> Seq([at : Int, len : Nat])]
      <4>1. consumed[c] - bulkOffset[c] \in Int /\ bulkOffset[c] \in Nat
        BY <2>1 DEF Inv, SockType, BulkType
      <4> QED
        BY <1>17, <2>1, <4>1 DEF CompleteBulk, Deliver, Inv, BulkType
    <3>2. credits + Held(c) \in Int /\ drift + Plain(c) \in Int
      BY DEF Held, Plain, Inv, BulkType
    <3> QED
      BY <1>17, <3>1, <3>2 DEF Inv, BulkType, CompleteBulk, FreeBulk
  <2>5. UNCHANGED <<handoff, connq, wconn>>
    BY <1>17 DEF CompleteBulk, Deliver, FreeBulk, Held, Plain, peer, queue, bulk
  <2>6. \A v \in Workers \ {w} : wmsg'[v] = wmsg[v]
    BY <1>3, <1>17 DEF CompleteBulk, Deliver, FreeBulk, Held, Plain
  <2>7. \A d \in Conns \ {c} :
             /\ bulkBuf'[d] = bulkBuf[d]
             /\ bulkRemain'[d] = bulkRemain[d]
             /\ open'[d] = open[d]
             /\ arrived'[d] = arrived[d]
             /\ consumed'[d] = consumed[d]
    BY <1>17, <2>1 DEF Inv, SockType, BulkType, CompleteBulk, Deliver, FreeBulk, Held, Plain, peer, queue, bulk
  <2>8. WorkerOK(w)' /\ (l = "reenable" => /\ bulkBuf'[c] = "none" <=> bulkRemain'[c] = 0
                                          /\ bulkBuf'[c] # "plain")
    BY <1>2, <1>3, <1>17, <2>1, <2>2, <2>5 DEF Inv, SockType, BulkType, WorkerOK, Goto, Avail, CompleteBulk, Deliver, FreeBulk, Held, Plain, peer, queue, bulk
  <2> QED
    BY <2>1, <2>2, <2>3, <2>4, <2>5, <2>6, <2>7, <2>8, WorkerStep DEF Receiving
<1>18. CASE CloseOnError(w)
  <2>1. c \in Conns /\ wpc[w] # Idle
    BY <1>1, <1>18 DEF CloseOnError, Idle
  <2>2. PICK l \in {"reenable"} : wpc' = [wpc EXCEPT ![w] = l]
    BY <1>18 DEF CloseOnError, CloseInternal, FreeBulk, Held, Plain, Goto
  <2>3. SockType'
    BY <1>18, <2>1 DEF Inv, SockType, CloseOnError, CloseInternal, FreeBulk, Held, Plain, peer, queue, bulk
  <2>4. BulkType'
    BY <1>18, <2>1 DEF Inv, BulkType, CloseOnError, CloseInternal, FreeBulk, Held, Plain, peer, queue, bulk
  <2>5. UNCHANGED <<handoff, connq, wconn>>
    BY <1>18 DEF CloseOnError, CloseInternal, FreeBulk, Held, Plain, peer, queue, bulk
  <2>6. \A v \in Workers \ {w} : wmsg'[v] = wmsg[v]
    BY <1>3, <1>18 DEF CloseOnError, CloseInternal, FreeBulk, Held, Plain
  <2>7. \A d \in Conns \ {c} :
             /\ bulkBuf'[d] = bulkBuf[d]
             /\ bulkRemain'[d] = bulkRemain[d]
             /\ open'[d] = open[d]
             /\ arrived'[d] = arrived[d]
             /\ consumed'[d] = consumed[d]
    BY <1>18, <2>1 DEF Inv, SockType, BulkType, CloseOnError, CloseInternal, FreeBulk, Held, Plain, peer, queue, bulk
  <2>8. WorkerOK(w)' /\ (l = "reenable" => /\ bulkBuf'[c] = "none" <=> bulkRemain'[c] = 0
                                          /\ bulkBuf'[c] # "plain")
    BY <1>2, <1>3, <1>18, <2>1, <2>2, <2>5 DEF Inv, SockType, BulkType, WorkerOK, Goto, Avail, CloseOnError, CloseInternal, FreeBulk, Held, Plain, peer, queue, bulk
  <2> QED
    BY <2>1, <2>2, <2>3, <2>4, <2>5, <2>6, <2>7, <2>8, WorkerStep DEF Receiving
<1> QED
  BY <1>4, <1>5, <1>6, <1>7, <1>8, <1>9, <1>10, <1>11, <1>12, <1>13, <1>14, <1>15, <1>16, <1>17, <1>18, <1>19 DEF Work

\* What a step leaves, whether or not it makes two threads change a connection at once.
LEMMA StepKeeps ==
  ASSUME Inv, Next
  PROVE  SockType' /\ BulkType' /\ Hands' /\ (Defined' => Inv')
<1>1. CASE \E c \in Conns : Arrive(c) \/ PeerEnds(c) \/ Establish(c)
  <2>1. Inv'
    BY <1>1, PeerKeeps
  <2> QED
    BY <2>1 DEF Inv
<1>2. CASE \E c \in Conns : CloseElsewhere(c) \/ Epoll(c)
  BY <1>2, EpollKeeps
<1>3. CASE \E w \in Workers : Work(w)
  <2>1. Inv'
    BY <1>3, WorkKeeps
  <2> QED
    BY <2>1 DEF Inv
<1> QED
  BY <1>1, <1>2, <1>3 DEF Next

----------------------------------------------------------------------------
(* The epoll handles: what EPOLLONESHOT protects                             *)

LEMMA EpollTypeKeeps ==
  ASSUME EpollType, SockType, Hands, Next
  PROVE  EpollType'
<1> USE DEF EpollType
<1>1. \A c \in Conns : open[c] \in BOOLEAN /\ (c \notin Oneshot) \in BOOLEAN
  BY DEF SockType
<1>2. ASSUME NEW c \in Conns, NEW deferred \in BOOLEAN, CloseInternal(c, deferred)
      PROVE  deleting' \in [Conns -> BOOLEAN] /\ armed' \in [Conns -> BOOLEAN]
  <2>1. (deleting[c] \/ (open[c] /\ deferred)) \in BOOLEAN
    OBVIOUS
  <2> QED
    BY <1>2, <2>1 DEF CloseInternal
<1>3. ASSUME NEW c \in Conns, NEW how \in {"event", "close"}, ClosedByEpoll(c, how)
      PROVE  /\ deleting' \in [Conns -> BOOLEAN] /\ armed' \in [Conns -> BOOLEAN]
             /\ clash' \subseteq Conns \X {"event", "close", "setup"}
  <2>1. PICK deferred \in BOOLEAN : CloseInternal(c, deferred)
    BY <1>3 DEF ClosedByEpoll, EpollDefers
  <2>2. clash' \subseteq clash \union {<<c, how>>}
    BY <1>3 DEF ClosedByEpoll
  <2> QED
    BY <1>2, <2>1, <2>2
<1>4. ASSUME NEW c \in Conns, Arrive(c) \/ PeerEnds(c) PROVE EpollType'
  BY <1>4 DEF Arrive, PeerEnds, epoll, hist
<1>5. ASSUME NEW c \in Conns, Establish(c) PROVE EpollType'
  BY <1>5 DEF Establish
<1>6. ASSUME NEW c \in Conns, CloseElsewhere(c) PROVE EpollType'
  BY <1>3, <1>6 DEF CloseElsewhere
<1>7. ASSUME NEW c \in Conns, Fetch(c) PROVE EpollType'
  BY <1>1, <1>7 DEF Fetch, hist
<1>8. ASSUME NEW c \in Conns, RecvEvent(c) PROVE EpollType'
  BY <1>8 DEF RecvEvent, Dispatched, hist
<1>9. ASSUME NEW c \in Conns, Reap(c) PROVE EpollType'
  BY <1>9 DEF Reap, hist
<1>10. ASSUME NEW c \in Conns, ErrorEvent(c) PROVE EpollType'
  <2>1. fetched' \in [Conns -> {"none", "in", "err"}] /\ exposed' = exposed
    BY <1>10 DEF ErrorEvent, Dispatched
  <2>2. CASE ClosedByEpoll(c, "event")
    BY <1>3, <2>1, <2>2
  <2>3. CASE UNCHANGED <<deleting, armed, clash>>
    BY <2>1, <2>3
  <2> QED
    BY <1>10, <2>2, <2>3 DEF ErrorEvent
<1>11. ASSUME NEW w \in Workers, Work(w) PROVE EpollType'
  <2>1. CASE UNCHANGED <<epoll, hist>>
    BY <2>1 DEF epoll, hist
  <2>2. CASE CloseOnError(w)
    <3>1. wconn[w] \in Conns
      BY <2>2 DEF Hands, HandType, Busy, CloseOnError, Idle
    <3> QED
      BY <1>2, <2>2, <3>1 DEF CloseOnError, hist
  <2>3. CASE Reenable(w)
    <3>1. wconn[w] \in Conns
      BY <2>3 DEF Hands, HandType, Busy, Reenable, Idle
    <3> QED
      BY <1>1, <2>3, <3>1 DEF Reenable, hist
  <2> QED
    BY <1>11, <2>1, <2>2, <2>3 DEF Work, Take, RecvHeader, HeaderEagain, RecvEnds, SizeKnown, TakeCredit,
         UndoCredit, CreditMalloc, CreditMallocFails, PlainMalloc, NoBuffer, RecvBulk, BulkProgress,
         CompleteBulk
<1> QED
  BY <1>4, <1>5, <1>6, <1>7, <1>8, <1>9, <1>10, <1>11 DEF Next, Epoll

\* Why an EPOLLONESHOT handle shields its workers: no event is on its way while its events are
\* enabled, and from the hand-off to tcp_mgr_conn_reenable neither is the case.
Shield(c) ==
    /\ fetched[c] # "none" => ~armed[c]
    /\ handoff[c] => ~armed[c] /\ fetched[c] = "none"
    /\ <<c, "event">> \notin clash

Shielded == \A c \in Oneshot \ exposed : Shield(c)

\* A handle that a step does not touch.
LEMMA SameShield ==
  ASSUME NEW c, Shield(c), fetched'[c] = fetched[c], armed'[c] = armed[c], handoff'[c] = handoff[c],
         <<c, "event">> \in clash' => <<c, "event">> \in clash
  PROVE  Shield(c)'
  BY DEF Shield

LEMMA ShieldedKeeps ==
  ASSUME EpollType, SockType, Hands, Shielded, Next
  PROVE  Shielded'
<1>1. /\ armed \in [Conns -> BOOLEAN] /\ fetched \in [Conns -> {"none", "in", "err"}]
      /\ handoff \in [Conns -> BOOLEAN] /\ open \in [Conns -> BOOLEAN]
      /\ Oneshot \subseteq Conns
  BY TcpRecvAssumption DEF EpollType, SockType, Hands, HandType
<1> SUFFICES ASSUME NEW b \in Oneshot, b \notin exposed' PROVE Shield(b)'
  BY DEF Shielded
<1>2. b \in Conns
  BY <1>1
<1>3. exposed \subseteq exposed'
  BY DEF Next, Epoll, Arrive, PeerEnds, Establish, CloseElsewhere, Fetch, RecvEvent, ErrorEvent, Reap, Work,
         Take, RecvHeader, HeaderEagain, RecvEnds, SizeKnown, TakeCredit, UndoCredit, CreditMalloc,
         CreditMallocFails, PlainMalloc, NoBuffer, RecvBulk, BulkProgress, CompleteBulk, CloseOnError,
         Reenable, hist
<1>4. Shield(b)
  BY <1>3 DEF Shielded
<1>5. CASE UNCHANGED <<fetched, armed, handoff, clash>>
  BY <1>4, <1>5, SameShield
<1>6. ASSUME NEW c \in Conns, NEW deferred, CloseInternal(c, deferred),
             UNCHANGED <<fetched, handoff>>, <<b, "event">> \in clash' => <<b, "event">> \in clash
      PROVE  Shield(b)'
  BY <1>1, <1>2, <1>4, <1>6 DEF CloseInternal, Shield
<1>7. ASSUME NEW c \in Conns, Establish(c) PROVE Shield(b)'
  <2>1. UNCHANGED <<fetched, handoff>> /\ armed' = [armed EXCEPT ![c] = TRUE]
    BY <1>7 DEF Establish, queue
  <2>2. <<b, "event">> \in clash' => <<b, "event">> \in clash
    BY <1>7 DEF Establish
  <2>3. CASE b = c
    <3>1. ~handoff[c] /\ fetched[c] = "none"
      BY <1>7, <2>3 DEF Establish
    <3> QED
      BY <1>4, <2>1, <2>2, <2>3, <3>1 DEF Shield
  <2>4. CASE b # c
    BY <1>1, <1>2, <1>4, <2>1, <2>2, <2>4, SameShield
  <2> QED
    BY <2>3, <2>4
<1>8. ASSUME NEW c \in Conns, CloseElsewhere(c) PROVE Shield(b)'
  <2>1. PICK deferred : CloseInternal(c, deferred)
    BY <1>8 DEF CloseElsewhere, ClosedByEpoll
  <2>2. <<b, "event">> \in clash' => <<b, "event">> \in clash
    BY <1>8 DEF CloseElsewhere, ClosedByEpoll
  <2> QED
    BY <1>6, <1>8, <2>1, <2>2 DEF CloseElsewhere, queue
<1>9. ASSUME NEW c \in Conns, Fetch(c) PROVE Shield(b)'
  <2>1. /\ UNCHANGED <<handoff, clash>> /\ armed[c] /\ fetched[c] = "none"
        /\ armed' = [armed EXCEPT ![c] = c \notin Oneshot]
        /\ \E e \in {"in", "err"} : fetched' = [fetched EXCEPT ![c] = e]
    BY <1>9 DEF Fetch, queue, hist
  <2>2. CASE b = c
    <3>1. ~handoff[c] /\ ~armed'[c]
      BY <1>1, <1>2, <1>4, <2>1, <2>2 DEF Shield
    <3> QED
      BY <1>4, <2>1, <2>2, <3>1 DEF Shield
  <2>3. CASE b # c
    BY <1>1, <1>2, <1>4, <2>1, <2>3, SameShield
  <2> QED
    BY <2>2, <2>3
<1>10. ASSUME NEW c \in Conns, NEW e \in {"in", "err"}, Dispatched(c, e), HandOff(c) \/ UNCHANGED queue,
              UNCHANGED <<armed, clash>>
       PROVE  Shield(b)'
  <2>1. /\ fetched[c] = e /\ fetched' = [fetched EXCEPT ![c] = "none"]
        /\ handoff' = [handoff EXCEPT ![c] = TRUE] \/ handoff' = handoff
    BY <1>10 DEF Dispatched, HandOff, queue
  <2>2. CASE b = c
    BY <1>1, <1>2, <1>4, <1>10, <2>1, <2>2 DEF Shield
  <2>3. CASE b # c
    BY <1>1, <1>2, <1>4, <1>10, <2>1, <2>3, SameShield
  <2> QED
    BY <2>2, <2>3
<1>11. ASSUME NEW c \in Conns, RecvEvent(c) PROVE Shield(b)'
  BY <1>10, <1>11 DEF RecvEvent, hist
<1>12. ASSUME NEW c \in Conns, ErrorEvent(c) PROVE Shield(b)'
  <2>1. CASE ClosedByEpoll(c, "event") /\ UNCHANGED queue
    <3>1. PICK deferred : CloseInternal(c, deferred)
      BY <2>1 DEF ClosedByEpoll
    <3>2. fetched[c] = "err" /\ fetched' = [fetched EXCEPT ![c] = "none"]
      BY <1>12 DEF ErrorEvent, Dispatched
    <3>3. armed' = [armed EXCEPT ![c] = FALSE] /\ UNCHANGED handoff
      BY <2>1, <3>1 DEF CloseInternal, queue
    <3>4. CASE b = c
      <4>1. ~handoff[c]
        BY <1>4, <3>2, <3>4 DEF Shield
      <4>2. \A w \in Workers : wconn[w] # c
        BY <4>1 DEF Hands, OneHolder
      <4>3. clash' = clash
        BY <2>1, <4>2 DEF ClosedByEpoll, Quiet
      <4> QED
        BY <1>1, <1>2, <1>4, <3>2, <3>3, <3>4, <4>1, <4>3 DEF Shield
    <3>5. CASE b # c
      <4>1. clash' \subseteq clash \union {<<c, "event">>}
        BY <2>1 DEF ClosedByEpoll
      <4>2. <<b, "event">> \in clash' => <<b, "event">> \in clash
        BY <3>5, <4>1
      <4> QED
        BY <1>1, <1>2, <1>4, <3>2, <3>3, <3>5, <4>2, SameShield
    <3> QED
      BY <3>4, <3>5
  <2>2. CASE Dispatched(c, "err") /\ (HandOff(c) \/ UNCHANGED queue) /\ UNCHANGED <<armed, clash>>
    BY <1>10, <2>2
  <2> QED
    BY <1>12, <2>1, <2>2 DEF ErrorEvent
<1>13. ASSUME NEW w \in Workers, Work(w) PROVE Shield(b)'
  <2>1. CASE CloseOnError(w)
    <3>1. wconn[w] \in Conns
      BY <2>1 DEF Hands, HandType, Busy, CloseOnError, Idle
    <3> QED
      BY <1>6, <2>1, <3>1 DEF CloseOnError, hist, queue
  <2>2. CASE Reenable(w)
    <3> DEFINE c == wconn[w]
    <3>1. /\ handoff' = [handoff EXCEPT ![c] = FALSE] /\ armed' = [armed EXCEPT ![c] = open[c]]
          /\ UNCHANGED <<fetched, clash>> /\ wpc[w] = "reenable"
      BY <2>2 DEF Reenable, hist
    <3>2. c \in Conns /\ handoff[c]
      BY <3>1 DEF Hands, HandType, Busy, OneHolder, Idle
    <3>3. CASE b = c
      BY <1>1, <1>2, <1>4, <3>1, <3>2, <3>3 DEF Shield
    <3>4. CASE b # c
      BY <1>1, <1>2, <1>4, <3>1, <3>4, SameShield
    <3> QED
      BY <3>3, <3>4
  <2>3. CASE UNCHANGED <<fetched, armed, handoff, clash>>
    BY <1>5, <2>3
  <2> QED
    BY <1>13, <2>1, <2>2, <2>3 DEF Work, Take, RecvHeader, HeaderEagain, RecvEnds, SizeKnown, TakeCredit,
         UndoCredit, CreditMalloc, CreditMallocFails, PlainMalloc, NoBuffer, RecvBulk, BulkProgress,
         CompleteBulk, epoll, hist, queue
<1>14. ASSUME NEW c \in Conns, Arrive(c) \/ PeerEnds(c) \/ Reap(c) PROVE Shield(b)'
  BY <1>5, <1>14 DEF Arrive, PeerEnds, Reap, epoll, hist, queue
<1> QED
  BY <1>7, <1>8, <1>9, <1>11, <1>12, <1>13, <1>14 DEF Next, Epoll

----------------------------------------------------------------------------
(* The inductive invariant: types, hands and the shield always, the buffers  *)
(* as long as no two threads changed a connection at once.                   *)

IndInv ==
    /\ SockType /\ EpollType /\ BulkType /\ Hands
    /\ Shielded
    /\ Defined => Inv

LEMMA InitInd == Init => IndInv
<1> SUFFICES ASSUME Init PROVE IndInv
  OBVIOUS
<1>1. Inv
  BY InitInv
<1>2. EpollType
  BY DEF Init, EpollType
<1>3. Shielded
  BY TcpRecvAssumption DEF Init, Shielded, Shield
<1> QED
  BY <1>1, <1>2, <1>3 DEF IndInv, Inv

LEMMA NextKeeps ==
  ASSUME IndInv, [Next]_vars
  PROVE  IndInv'
<1>1. CASE Next
  <2>1. Inv
    BY <1>1 DEF Next, IndInv
  <2> QED
    BY <1>1, <2>1, StepKeeps, EpollTypeKeeps, ShieldedKeeps DEF IndInv
<1>2. CASE UNCHANGED vars
  <2>1. UNCHANGED <<arrived, sockErr, consumed, open, connects, deleting, armed, fetched, handoff, connq,
                    bulkBuf, bulkOffset, bulkRemain, credits, drift, delivered, wpc, wconn, wmsg, exposed,
                    clash>>
    BY <1>2 DEF vars, peer, bulk, queue, work, epoll, hist
  <2>2. SockType' /\ EpollType' /\ BulkType' /\ Hands'
    BY <2>1, IdleHands DEF IndInv, SockType, EpollType, BulkType
  <2>3. Shielded'
    BY <2>1 DEF IndInv, Shielded, Shield
  <2>4. Inv => SizeSet' /\ NoAssert' /\ PlainIsTransient' /\ PlainIsHere'
    BY <2>1 DEF Inv, SizeSet, NoAssert, ReceivedFits, PlainIsTransient, PlainIsHere, Quiet, Avail
  <2> QED
    BY <2>1, <2>2, <2>3, <2>4 DEF IndInv, Inv, Defined
<1> QED
  BY <1>1, <1>2

LEMMA IndAlways == Spec => []IndInv
  BY InitInd, NextKeeps, PTL DEF Spec

\* The state keeps its types: in particular recvmsg never returns more than has arrived and the
\* remaining count of a bulk never falls below zero (tcp_mgr_bulk_progress_recv), up to the step at
\* which two threads change a connection at once.
THEOREM TypeCorrect == Spec => []TypeOK
<1>1. IndInv => TypeOK
  BY TypeParts DEF IndInv, Hands
<1> QED
  BY <1>1, IndAlways, PTL

\* A connection is on the queue once or in the hands of one worker, whoever closes it under the
\* worker (tcp_mgr_conn_recv_handoff, tcp_mgr_worker, tcp_mgr_conn_reenable).
THEOREM OneHolderCorrect == Spec => []OneHolder
<1>1. IndInv => OneHolder
  BY DEF IndInv, Hands
<1> QED
  BY <1>1, IndAlways, PTL

\* An error event closes an EPOLLONESHOT connection under a worker only if the connection was
\* established anew under its holder (tcp_mgr_recv_cb, tcp_mgr_connection_merge_incoming).
THEOREM OneshotShieldsCorrect == Spec => []OneshotShields
<1>1. IndInv => OneshotShields
  BY DEF IndInv, Shielded, Shield, OneshotShields
<1> QED
  BY <1>1, IndAlways, PTL

\* The assertions of tcp_mgr_conn_recv_inline, tcp_mgr_bulk_prepare_and_recv and
\* tcp_mgr_bulk_progress_recv hold until two threads change a connection at once: that is the only
\* way to make them fail.
THEOREM NoAssertCorrect == Spec => [](Defined => NoAssert)
<1>1. IndInv => (Defined => NoAssert)
  BY DEF IndInv, Inv
<1> QED
  BY <1>1, IndAlways, PTL

\* No buffer without a credit outlives the call that allocated it, until two threads change a
\* connection at once (tcp_mgr_bulk_prepare_and_recv).
THEOREM PlainIsTransientCorrect == Spec => [](Defined => PlainIsTransient)
<1>1. IndInv => (Defined => PlainIsTransient)
  BY DEF IndInv, Inv
<1> QED
  BY <1>1, IndAlways, PTL

----------------------------------------------------------------------------
(* The credits *)

LEMMA CreditSets ==
  /\ IsFiniteSet(Charged) /\ Cardinality(Charged) \in Nat
  /\ IsFiniteSet(Deciding) /\ Cardinality(Deciding) \in Nat
<1>1. Charged \in SUBSET Conns /\ Deciding \in SUBSET Workers
  BY DEF Charged, Deciding
<1> QED
  BY <1>1, TcpRecvAssumption, FS_Subset, FS_CardinalityType

\* A step that touches neither the credits nor what they are for.
LEMMA SameCredits ==
  ASSUME CreditsExact, UNCHANGED <<credits, drift>>, Charged' = Charged, Deciding' = Deciding
  PROVE  CreditsExact'
  BY DEF CreditsExact

\* A worker that was not and is not about to decide.
LEMMA SameDeciding ==
  ASSUME Inv, NEW w \in Workers, wpc[w] \notin {"malloc", "undo"},
         NEW l \in {"reenable", Idle} \union (Receiving \ {"malloc", "undo"}),
         wpc' = [wpc EXCEPT ![w] = l]
  PROVE  Deciding' = Deciding
  BY DEF Inv, Hands, HandType, Deciding, Idle

\* Freeing a buffer gives a credit, and drift says which one was not taken.
LEMMA FreeCredits ==
  ASSUME Inv, CreditsExact, NEW c \in Conns, FreeBulk(c), Deciding' = Deciding
  PROVE  CreditsExact'
<1>1. bulkBuf \in [Conns -> {"none", "credit", "plain"}] /\ credits \in Int /\ drift \in Int
  BY DEF Inv, BulkType
<1>2. Charged' = Charged \ {c}
  BY <1>1 DEF Charged, FreeBulk
<1>3. Cardinality(Charged') = IF c \in Charged THEN Cardinality(Charged) - 1 ELSE Cardinality(Charged)
  BY <1>2, CreditSets, FS_RemoveElement
<1>4. c \in Charged <=> bulkBuf[c] = "credit"
  BY DEF Charged
<1>5. credits' = credits + Held(c) /\ drift' = drift + Plain(c)
  BY DEF FreeBulk
<1> QED
  BY <1>1, <1>3, <1>4, <1>5, CreditSets, TcpRecvAssumption DEF CreditsExact, Held, Plain

LEMMA CreditsKept ==
  ASSUME Inv, CreditsExact, Next
  PROVE  CreditsExact'
<1>1. ASSUME NEW c \in Conns,
             Arrive(c) \/ PeerEnds(c) \/ Establish(c) \/ Fetch(c) \/ RecvEvent(c) \/ Reap(c)
      PROVE  CreditsExact'
  BY <1>1, SameCredits DEF Arrive, PeerEnds, Establish, Fetch, RecvEvent, Reap, Charged, Deciding, bulk, work
<1>2. ASSUME NEW c \in Conns, CloseElsewhere(c)
      PROVE  CreditsExact'
  <2>1. Deciding' = Deciding
    BY <1>2 DEF CloseElsewhere, Deciding, work
  <2> QED
    BY <1>2, <2>1, FreeCredits DEF CloseElsewhere, ClosedByEpoll, CloseInternal
<1>3. ASSUME NEW c \in Conns, ErrorEvent(c)
      PROVE  CreditsExact'
  <2>1. Deciding' = Deciding
    BY <1>3 DEF ErrorEvent, Deciding, work
  <2>2. CASE ClosedByEpoll(c, "event")
    BY <2>1, <2>2, FreeCredits DEF ClosedByEpoll, CloseInternal
  <2>3. CASE UNCHANGED <<bulk, credits, drift>>
    BY <2>1, <2>3, SameCredits DEF Charged, bulk
  <2> QED
    BY <1>3, <2>2, <2>3 DEF ErrorEvent
<1>4. ASSUME NEW w \in Workers, Work(w)
      PROVE  CreditsExact'
  <2> DEFINE c == wconn[w]
  <2>1. /\ wpc \in [Workers -> {Idle, "reenable"} \union Receiving]
        /\ credits \in Int /\ drift \in Int /\ BulkCredits \in Int
        /\ bulkBuf \in [Conns -> {"none", "credit", "plain"}]
    BY TcpRecvAssumption DEF Inv, Hands, HandType, BulkType
  <2>2. wpc[w] # Idle => c \in Conns
    BY DEF Inv, Hands, HandType, Busy
  <2>3. WorkerOK(w)
    BY Locally DEF Inv
  <2>4. CASE Take(w) \/ RecvHeader(w) \/ HeaderEagain(w) \/ RecvEnds(w) \/ SizeKnown(w) \/ NoBuffer(w)
             \/ RecvBulk(w) \/ BulkProgress(w) \/ Reenable(w)
    <3>1. UNCHANGED <<credits, drift, bulkBuf>>
      BY <2>4 DEF Take, RecvHeader, HeaderEagain, RecvEnds, SizeKnown, NoBuffer, RecvBulk,
             BulkProgress, Reenable, bulk
    <3>2. PICK l \in {"reenable", "hdr", "bulk", "progress", "size", "close", "credit", "complete",
                 Idle} :
             wpc' = [wpc EXCEPT ![w] = l]
      BY <2>4 DEF Take, RecvHeader, HeaderEagain, RecvEnds, SizeKnown, NoBuffer, RecvBulk,
             BulkProgress, Reenable, Goto
    <3>3. wpc[w] \notin {"malloc", "undo"}
      BY <2>4 DEF Take, RecvHeader, HeaderEagain, RecvEnds, SizeKnown, NoBuffer, RecvBulk,
             BulkProgress, Reenable, Idle
    <3>4. Deciding' = Deciding
      BY <3>2, <3>3, SameDeciding DEF Receiving
    <3> QED
      BY <3>1, <3>4, SameCredits DEF Charged
  <2>5. CASE TakeCredit(w)
    <3>1. Deciding' = Deciding \union {w} /\ w \notin Deciding
      BY <2>1, <2>5 DEF TakeCredit, Goto, Deciding
    <3>2. Charged' = Charged /\ drift' = drift /\ credits' = credits - 1
      BY <2>5 DEF TakeCredit, Charged, bulk
    <3>3. Cardinality(Deciding') = Cardinality(Deciding) + 1
      BY <3>1, CreditSets, FS_AddElement
    <3> QED
      BY <2>1, <3>2, <3>3, CreditSets DEF CreditsExact
  <2>6. CASE UndoCredit(w) \/ CreditMallocFails(w)
    <3>1. Deciding' = Deciding \ {w} /\ w \in Deciding
      <4>1. wpc[w] \in {"undo", "malloc"} /\ wpc' = [wpc EXCEPT ![w] = "nocredit"]
        BY <2>6 DEF UndoCredit, CreditMallocFails, Goto
      <4> QED
        BY <2>1, <4>1 DEF Deciding
    <3>2. /\ Charged' = Charged
          /\ (credits' = credits + 1 /\ drift' = drift) \/ (credits' = credits /\ drift' = drift - 1)
      BY <2>6 DEF UndoCredit, CreditMallocFails, Charged, bulk
    <3>3. Cardinality(Deciding') = Cardinality(Deciding) - 1
      BY <3>1, CreditSets, FS_RemoveElement
    <3>4. Cardinality(Charged') = Cardinality(Charged)
      BY <3>2
    <3>5. credits = BulkCredits + drift - Cardinality(Charged) - Cardinality(Deciding)
      BY DEF CreditsExact
    <3>6. credits' = BulkCredits + drift' - Cardinality(Charged) - (Cardinality(Deciding) - 1)
      <4>1. Cardinality(Charged) \in Int /\ Cardinality(Deciding) \in Int
        BY CreditSets
      <4>2. CASE credits' = credits + 1 /\ drift' = drift
        BY <2>1, <3>5, <4>1, <4>2
      <4>3. CASE credits' = credits /\ drift' = drift - 1
        BY <2>1, <3>5, <4>1, <4>3
      <4> QED
        BY <3>2, <4>2, <4>3
    <3> QED
      BY <3>3, <3>4, <3>6 DEF CreditsExact
  <2>7. CASE CreditMalloc(w)
    <3>1. Deciding' = Deciding \ {w} /\ w \in Deciding
      BY <2>1, <2>7 DEF CreditMalloc, BulkPrepared, Goto, Deciding
    <3>2. c \in Conns /\ c \notin Charged
      BY <2>2, <2>3, <2>7 DEF CreditMalloc, WorkerOK, Charged, Idle
    <3>3. Charged' = Charged \union {c} /\ UNCHANGED <<credits, drift>>
      BY <2>1, <2>7, <3>2 DEF CreditMalloc, BulkPrepared, Charged
    <3>4. Cardinality(Deciding') = Cardinality(Deciding) - 1
      BY <3>1, CreditSets, FS_RemoveElement
    <3>5. Cardinality(Charged') = Cardinality(Charged) + 1
      BY <3>2, <3>3, CreditSets, FS_AddElement
    <3> QED
      BY <2>1, <3>3, <3>4, <3>5, CreditSets DEF CreditsExact
  <2>8. CASE PlainMalloc(w)
    <3>1. c \in Conns /\ bulkBuf[c] = "none"
      BY <2>2, <2>3, <2>8 DEF PlainMalloc, WorkerOK, Idle
    <3>2. Charged' = Charged /\ UNCHANGED <<credits, drift>>
      BY <2>1, <2>8, <3>1 DEF PlainMalloc, BulkPrepared, Charged
    <3>3. Deciding' = Deciding
      BY <2>8, SameDeciding DEF PlainMalloc, BulkPrepared, Goto, Receiving
    <3> QED
      BY <3>2, <3>3, SameCredits
  <2>9. CASE CompleteBulk(w) \/ CloseOnError(w)
    <3>1. c \in Conns /\ FreeBulk(c)
      BY <2>2, <2>9 DEF CompleteBulk, CloseOnError, CloseInternal, Idle
    <3>2. Deciding' = Deciding
      BY <2>9, SameDeciding DEF CompleteBulk, CloseOnError, Goto, Receiving
    <3> QED
      BY <3>1, <3>2, FreeCredits
  <2> QED
    BY <1>4, <2>4, <2>5, <2>6, <2>7, <2>8, <2>9 DEF Work
<1> QED
  BY <1>1, <1>2, <1>3, <1>4 DEF Next, Epoll

\* The bulk credits are exact in every interleaving of the workers with each other and with the
\* epoll thread, until two of them change a connection at once (tcp_mgr_credits_malloc,
\* tcp_mgr_credits_free).
THEOREM CreditsExactCorrect == Spec => [](Defined => CreditsExact)
<1>1. Init => CreditsExact
  <2> SUFFICES ASSUME Init PROVE CreditsExact
    OBVIOUS
  <2>1. Charged = {} /\ Deciding = {}
    BY DEF Init, Charged, Deciding, Idle
  <2> QED
    BY <2>1, FS_EmptySet, TcpRecvAssumption DEF Init, CreditsExact
<1>2. IndInv /\ CreditsExact /\ [Next]_vars => CreditsExact'
  <2>1. IndInv /\ Next => Inv
    BY DEF IndInv, Next
  <2>2. CreditsExact /\ UNCHANGED vars => CreditsExact'
    BY SameCredits DEF vars, bulk, work, Charged, Deciding
  <2> QED
    BY <2>1, <2>2, CreditsKept
<1>3. CreditsExact => (Defined => CreditsExact)
  OBVIOUS
<1> QED
  BY <1>1, <1>2, <1>3, IndAlways, PTL DEF Spec

\* The facts about bulk buffers together, as the model checker's run states them: one holder always;
\* a buffer exactly while a message needs it, exact credits and no failing assertion until two threads
\* change a connection at once; and when that can happen to an EPOLLONESHOT handle.
THEOREM BuffersExactCorrect == Spec => []BuffersExact
<1>1. /\ OneHolder /\ OneshotShields
      /\ Defined => CreditsExact
      /\ Defined => PlainIsTransient
      /\ Defined => NoAssert
      => BuffersExact
  BY DEF BuffersExact
<1> QED
  BY <1>1, CreditsExactCorrect, PlainIsTransientCorrect, OneHolderCorrect, NoAssertCorrect,
     OneshotShieldsCorrect, PTL

----------------------------------------------------------------------------
(* Framing.  Where the messages of a stream begin is a recursive function;   *)
(* that it exists and grows is shown on a smallest counterexample.           *)

LEMMA SmallestMember ==
  ASSUME NEW S \in SUBSET Nat, S # {}
  PROVE  \E x \in S : \A y \in S : x <= y
<1>1. PICK x \in S : \A y \in S : ~(<<y, x>> \in OpToRel(<, Nat))
  BY NatLessThanWellFounded, WFMin
<1>2. \A y \in S : ~(y < x)
  BY <1>1 DEF OpToRel
<1> QED
  BY <1>2

\* The positions of the first n messages of c, and of the end of the last.
ArePositions(c, n, f) ==
    f = [i \in 0..n |-> IF i = 0 THEN 0 ELSE f[i - 1] + HdrSize + Stream[c][i]]

LEMMA PositionsExist ==
  ASSUME NEW c \in Conns
  PROVE  \E f : ArePositions(c, Len(Stream[c]), f)
<1> DEFINE NoneFor(n) == \A f : ~ArePositions(c, n, f)
           Bad == {n \in Nat : NoneFor(n)}
<1>1. SUFFICES ASSUME Bad # {} PROVE FALSE
  <2>1. Len(Stream[c]) \in Nat
    BY TcpRecvAssumption, LenProperties
  <2> QED
    BY <2>1
<1>2. PICK n \in Bad : \A m \in Bad : n <= m
  BY <1>1, SmallestMember
<1>3. n # 0
  <2> DEFINE f == [i \in 0..0 |-> 0]
  <2>1. f = [i \in 0..0 |-> IF i = 0 THEN 0 ELSE f[i - 1] + HdrSize + Stream[c][i]]
    OBVIOUS
  <2>2. ArePositions(c, 0, f)
    BY <2>1 DEF ArePositions
  <2> QED
    BY <2>2
<1>4. PICK f : ArePositions(c, n - 1, f)
  <2>1. n - 1 \in Nat /\ ~(n <= n - 1)
    BY <1>3
  <2> QED
    BY <1>2, <2>1
<1> DEFINE g == [i \in 0..n |-> IF i = n THEN f[n - 1] + HdrSize + Stream[c][n] ELSE f[i]]
<1>5. \A i \in 0..(n - 1) : g[i] = f[i] /\ f[i] = IF i = 0 THEN 0 ELSE f[i - 1] + HdrSize + Stream[c][i]
  BY <1>3, <1>4 DEF ArePositions
<1>6. \A i \in 0..n : g[i] = IF i = 0 THEN 0 ELSE g[i - 1] + HdrSize + Stream[c][i]
  <2>1. ASSUME NEW i \in 0..n PROVE g[i] = IF i = 0 THEN 0 ELSE g[i - 1] + HdrSize + Stream[c][i]
    <3>1. CASE i = n
      <4>1. n - 1 \in 0..(n - 1) /\ n \in 0..n
        BY <1>3
      <4>2. g[n] = f[n - 1] + HdrSize + Stream[c][n] /\ g[n - 1] = f[n - 1]
        BY <1>5, <4>1
      <4> HIDE DEF g
      <4> QED
        BY <1>3, <3>1, <4>2
    <3>2. CASE i # n
      <4>1. i \in 0..(n - 1) /\ (i # 0 => i - 1 \in 0..(n - 1))
        BY <3>2
      <4> HIDE DEF g
      <4> QED
        BY <1>5, <4>1
    <3> QED
      BY <3>1, <3>2
  <2> QED
    BY <2>1
<1>7. ArePositions(c, n, g)
  <2>1. g = [i \in 0..n |-> g[i]]
    OBVIOUS
  <2> HIDE DEF g
  <2> QED
    BY <1>6, <2>1 DEF ArePositions
<1> QED
  BY <1>7

\* What Start means: the first message begins at 0, the next where one ends.
LEMMA Starts ==
  ASSUME NEW c \in Conns
  PROVE  /\ Len(Stream[c]) \in Nat /\ \A k \in 1..Len(Stream[c]) : Stream[c][k] \in Nat
         /\ Start(c, 1) = 0
         /\ \A k \in 1..Len(Stream[c]) : Start(c, k + 1) = Start(c, k) + HdrSize + Stream[c][k]
<1> DEFINE n == Len(Stream[c])
           at == CHOOSE f : f = [i \in 0..n |-> IF i = 0 THEN 0 ELSE f[i - 1] + HdrSize + Stream[c][i]]
<1>1. n \in Nat /\ \A k \in 1..n : Stream[c][k] \in Nat
  BY TcpRecvAssumption, LenProperties, ElementOfSeq
<1>2. at = [i \in 0..n |-> IF i = 0 THEN 0 ELSE at[i - 1] + HdrSize + Stream[c][i]]
  BY PositionsExist DEF ArePositions
<1>3. \A k : Start(c, k) = at[k - 1]
  BY DEF Start
<1> HIDE DEF at, n
<1>4. \A i \in 0..n : at[i] = IF i = 0 THEN 0 ELSE at[i - 1] + HdrSize + Stream[c][i]
  BY <1>2
<1>5. at[0] = 0
  BY <1>1, <1>4
<1>6. Start(c, 1) = 0
  BY <1>3, <1>5
<1>7. ASSUME NEW k \in 1..n PROVE Start(c, k + 1) = Start(c, k) + HdrSize + Stream[c][k]
  <2>1. k \in 0..n /\ k # 0 /\ k + 1 - 1 = k
    BY <1>1
  <2> QED
    BY <1>3, <1>4, <2>1
<1> QED
  BY <1>1, <1>6, <1>7 DEF n

\* Positions are numbers, and a later message begins behind an earlier header.
LEMMA StartsGrow ==
  ASSUME NEW c \in Conns
  PROVE  /\ \A k \in 1..(Len(Stream[c]) + 1) : Start(c, k) \in Nat
         /\ \A j, k \in 1..(Len(Stream[c]) + 1) : j < k => Start(c, j) + HdrSize <= Start(c, k)
<1> DEFINE n == Len(Stream[c])
           Fine(k) == /\ Start(c, k) \in Nat
                      /\ \A j \in 1..(k - 1) : Start(c, j) + HdrSize <= Start(c, k)
           Bad == {k \in 1..(n + 1) : ~Fine(k)}
<1>1. n \in Nat /\ HdrSize \in Nat /\ Start(c, 1) = 0 /\ \A k \in 1..n : Stream[c][k] \in Nat
  BY Starts, TcpRecvAssumption
<1>2. \A k \in 1..n : Start(c, k + 1) = Start(c, k) + HdrSize + Stream[c][k]
  BY Starts
<1>3. SUFFICES ASSUME Bad # {} PROVE FALSE
  <2>1. \A k \in 1..(n + 1) : Fine(k)
    BY <1>3
  <2> HIDE DEF n
  <2>2. \A j, k \in 1..(n + 1) : j < k => j \in 1..(k - 1)
    BY <1>1
  <2>3. (\A k \in 1..(n + 1) : Start(c, k) \in Nat)
          /\ \A j, k \in 1..(n + 1) : j < k => Start(c, j) + HdrSize <= Start(c, k)
    BY <2>1, <2>2
  <2> QED
    BY <2>3 DEF n
<1> HIDE DEF n
<1>4. PICK k \in Bad : \A m \in Bad : k <= m
  <2>1. Bad \subseteq Nat
    BY <1>1
  <2> QED
    BY <1>3, <2>1, SmallestMember
<1>5. k # 1
  BY <1>1, <1>4
<1>6. k - 1 \in 1..n /\ k - 1 + 1 = k /\ k \in Nat
  BY <1>1, <1>4, <1>5
<1>7. Fine(k - 1)
  <2>1. k - 1 \in 1..(n + 1) /\ ~(k <= k - 1)
    BY <1>1, <1>6
  <2> QED
    BY <1>4, <2>1
<1>8. Start(c, k) = Start(c, k - 1) + HdrSize + Stream[c][k - 1] /\ Stream[c][k - 1] \in Nat
  BY <1>1, <1>2, <1>6
<1>9. Start(c, k - 1) \in Nat /\ \A j \in 1..(k - 1 - 1) : Start(c, j) + HdrSize <= Start(c, k - 1)
  BY <1>7
<1>10. ASSUME NEW j \in 1..(k - 1) PROVE Start(c, j) + HdrSize <= Start(c, k)
  <2>1. CASE j = k - 1
    BY <1>1, <1>8, <1>9, <2>1
  <2>2. CASE j # k - 1
    <3>1. j \in 1..(k - 1 - 1)
      BY <1>6, <2>2
    <3>2. Start(c, j) + HdrSize <= Start(c, k - 1)
      BY <1>9, <3>1
    <3>3. Start(c, k - 1) <= Start(c, k)
      BY <1>1, <1>8, <1>9
    <3>4. Start(c, j) \in Nat
      <4>1. j \in 1..(n + 1) /\ ~(k <= j)
        BY <1>1, <1>6
      <4>2. Fine(j)
        BY <1>4, <4>1
      <4> QED
        BY <4>2
    <3> QED
      BY <1>1, <1>8, <1>9, <3>2, <3>3, <3>4
  <2> QED
    BY <2>1, <2>2
<1>11. Start(c, k) \in Nat
  BY <1>1, <1>8, <1>9
<1>12. Fine(k)
  BY <1>10, <1>11
<1> QED
  BY <1>4, <1>12

\* Where a worker has read ahead of the messages that were delivered.
Ahead == {"size", "credit", "undo", "malloc", "nocredit"}

\* What was delivered is a prefix of the stream; the bytes read are those of it
\* and of the bulk in progress, and a header arrives as a whole.
FrameConn(c) ==
    LET d == Len(delivered[c])
    IN  /\ d <= Len(Stream[c]) /\ \A k \in 1..d : delivered[c][k] = Message(c, k)
        /\ arrived[c] <= StreamLen(c)
        /\ \A k \in 1..Len(Stream[c]) :
               arrived[c] <= Start(c, k) \/ Start(c, k) + HdrSize <= arrived[c]
        /\ bulkBuf[c] = "none" => bulkOffset[c] = 0
        /\ bulkBuf[c] # "none" =>
               d < Len(Stream[c]) /\ bulkOffset[c] + bulkRemain[c] = HdrSize + Stream[c][d + 1]
        /\ (\A w \in Workers : wconn[w] = c => wpc[w] \notin Ahead \union {"progress", "close"}) =>
               consumed[c] = Start(c, d + 1) + bulkOffset[c]

FrameWorker(w) ==
    LET c == wconn[w]
        d == Len(delivered[c])
    IN  /\ wpc[w] \in {Idle, "hdr"} => wmsg[w].got = 0
        /\ wpc[w] \in Ahead =>
               d < Len(Stream[c]) /\ consumed[c] = Start(c, d + 1) + HdrSize
        /\ wpc[w] \in Ahead \ {"size"} => wmsg[w].size = Stream[c][d + 1]
        /\ wpc[w] = "progress" => consumed[c] = Start(c, d + 1) + bulkOffset[c] + wmsg[w].recv

Frames == (\A c \in Conns : FrameConn(c)) /\ (\A w \in Workers : FrameWorker(w))

LEMMA InitFrames == Init => Frames
<1> SUFFICES ASSUME Init PROVE Frames
  OBVIOUS
<1>1. ASSUME NEW c \in Conns PROVE FrameConn(c)
  <2>1. Len(Stream[c]) \in Nat /\ Start(c, 1) = 0 /\ StreamLen(c) \in Nat
          /\ \A k \in 1..Len(Stream[c]) : Start(c, k) \in Nat
    BY Starts, StartsGrow DEF StreamLen
  <2>2. Len(delivered[c]) = 0 /\ arrived[c] = 0 /\ consumed[c] = 0 /\ bulkBuf[c] = "none"
          /\ bulkOffset[c] = 0
    BY DEF Init
  <2> QED
    BY <2>1, <2>2 DEF FrameConn
<1>2. ASSUME NEW w \in Workers PROVE FrameWorker(w)
  BY DEF Init, FrameWorker, Ahead, Idle, NoMsg
<1> QED
  BY <1>1, <1>2 DEF Frames

\* A connection whose fields and whose holder stay.
LEMMA SameConn ==
  ASSUME NEW c, FrameConn(c),
         delivered'[c] = delivered[c], arrived'[c] = arrived[c], consumed'[c] = consumed[c],
         bulkBuf'[c] = bulkBuf[c], bulkOffset'[c] = bulkOffset[c], bulkRemain'[c] = bulkRemain[c],
         \A w \in Workers : wconn[w] = c /\ wpc[w] \in Ahead \union {"progress", "close"} =>
             wconn'[w] = c /\ wpc'[w] \in Ahead \union {"progress", "close"}
  PROVE  FrameConn(c)'
  BY DEF FrameConn

\* A worker that does not move, and whose connection stays.
LEMMA SameWorker ==
  ASSUME NEW w, FrameWorker(w), wpc'[w] = wpc[w], wconn'[w] = wconn[w], wmsg'[w] = wmsg[w],
         wpc[w] \in Ahead \union {"progress"} =>
             /\ delivered'[wconn[w]] = delivered[wconn[w]]
             /\ consumed'[wconn[w]] = consumed[wconn[w]]
             /\ bulkOffset'[wconn[w]] = bulkOffset[wconn[w]]
  PROVE  FrameWorker(w)'
  BY DEF FrameWorker

\* A connection without a bulk that has delivered nothing and read nothing.
LEMMA FreshConn ==
  ASSUME NEW c \in Conns, delivered'[c] = <<>>, arrived'[c] = 0, consumed'[c] = 0,
         bulkBuf'[c] = "none", bulkOffset'[c] = 0
  PROVE  FrameConn(c)'
<1>1. Len(Stream[c]) \in Nat /\ Start(c, 1) = 0 /\ StreamLen(c) \in Nat
        /\ \A k \in 1..Len(Stream[c]) : Start(c, k) \in Nat
  BY Starts, StartsGrow DEF StreamLen
<1>2. Len(delivered'[c]) = 0
  OBVIOUS
<1> QED
  BY <1>1, <1>2 DEF FrameConn

\* More bytes arrive, never in the middle of a header.
LEMMA ArriveFrames ==
  ASSUME Inv, Frames, ~SplitHeaders, NEW c \in Conns, Arrive(c)
  PROVE  Frames'
<1>1. UNCHANGED <<delivered, consumed, bulkBuf, bulkOffset, bulkRemain, wpc, wconn, wmsg>>
  BY DEF Arrive, bulk, work
<1>2. PICK n \in (arrived[c] + 1)..StreamLen(c) :
         /\ \A k \in DOMAIN Stream[c] : n <= Start(c, k) \/ Start(c, k) + HdrSize <= n
         /\ arrived' = [arrived EXCEPT ![c] = n]
  BY DEF Arrive
<1>3. DOMAIN Stream[c] = 1..Len(Stream[c])
  BY TcpRecvAssumption, LenProperties
<1>4. arrived'[c] = n /\ \A b \in Conns \ {c} : arrived'[b] = arrived[b]
  BY <1>2 DEF Inv, SockType
<1>5. n <= StreamLen(c)
  BY <1>2
<1>6. FrameConn(c)'
  BY <1>1, <1>2, <1>3, <1>4, <1>5 DEF Frames, FrameConn
<1>7. \A b \in Conns \ {c} : FrameConn(b)'
  BY <1>1, <1>4, SameConn DEF Frames
<1>8. \A w \in Workers : FrameWorker(w)'
  BY <1>1, SameWorker DEF Frames
<1> QED
  BY <1>6, <1>7, <1>8 DEF Frames

\* A close that no worker is inside.
LEMMA QuietCloseFrames ==
  ASSUME Inv, Frames, NEW c \in Conns, Quiet(c), NEW deferred, CloseInternal(c, deferred),
         UNCHANGED <<wpc, wconn, wmsg>>
  PROVE  Frames'
<1>1. /\ delivered'[c] = <<>> /\ arrived'[c] = 0 /\ consumed'[c] = 0
      /\ bulkBuf'[c] = "none" /\ bulkOffset'[c] = 0
      /\ \A b \in Conns \ {c} :
           /\ delivered'[b] = delivered[b] /\ arrived'[b] = arrived[b] /\ consumed'[b] = consumed[b]
           /\ bulkBuf'[b] = bulkBuf[b] /\ bulkOffset'[b] = bulkOffset[b]
           /\ bulkRemain'[b] = bulkRemain[b]
  BY DEF Inv, SockType, BulkType, CloseInternal, FreeBulk
<1>2. FrameConn(c)'
  BY <1>1, FreshConn
<1>3. \A b \in Conns \ {c} : FrameConn(b)'
  BY <1>1, SameConn DEF Frames
<1>4. ASSUME NEW w \in Workers PROVE FrameWorker(w)'
  <2>1. wpc[w] \in Ahead \union {"progress"} => wconn[w] \in Conns \ {c}
    BY DEF Inv, Hands, HandType, Busy, Quiet, Receiving, Ahead, Idle
  <2> QED
    BY <1>1, <2>1, SameWorker DEF Frames
<1> QED
  BY <1>2, <1>3, <1>4 DEF Frames

\* The steps of the peer and of the epoll thread.
LEMMA OutsideFrames ==
  ASSUME Inv, Frames, ~SplitHeaders, NEW c \in Conns, Defined',
         Arrive(c) \/ PeerEnds(c) \/ Establish(c) \/ CloseElsewhere(c) \/ Epoll(c)
  PROVE  Frames'
<1>1. CASE UNCHANGED <<delivered, arrived, consumed, bulk, work>>
  <2> USE DEF bulk, work
  <2>1. \A b \in Conns : FrameConn(b)'
    BY <1>1, SameConn DEF Frames
  <2>2. \A w \in Workers : FrameWorker(w)'
    BY <1>1, SameWorker DEF Frames
  <2> QED
    BY <2>1, <2>2 DEF Frames
<1>2. CASE Arrive(c)
  BY <1>2, ArriveFrames
<1>3. ASSUME NEW how, ClosedByEpoll(c, how), UNCHANGED work PROVE Frames'
  <2>1. PICK deferred : CloseInternal(c, deferred)
    BY <1>3 DEF ClosedByEpoll
  <2>2. Quiet(c)
    BY <1>3 DEF ClosedByEpoll, Defined
  <2> QED
    BY <1>3, <2>1, <2>2, QuietCloseFrames DEF work
<1>4. CASE CloseElsewhere(c)
  BY <1>3, <1>4 DEF CloseElsewhere
<1>5. CASE PeerEnds(c) \/ Establish(c) \/ Fetch(c) \/ RecvEvent(c) \/ Reap(c)
  BY <1>1, <1>5 DEF PeerEnds, Establish, Fetch, RecvEvent, Reap, peer
<1>6. CASE ErrorEvent(c)
  BY <1>1, <1>3, <1>6 DEF ErrorEvent, peer
<1> QED
  BY <1>2, <1>4, <1>5, <1>6 DEF Epoll

\* What is left to show for a step of a worker that keeps its connection.
LEMMA WorkerFrames ==
  ASSUME Inv, Frames, NEW w \in Workers, wpc[w] # Idle, NEW l, wpc' = [wpc EXCEPT ![w] = l],
         wconn' = wconn, \A v \in Workers \ {w} : wmsg'[v] = wmsg[v],
         \A b \in Conns \ {wconn[w]} :
           /\ delivered'[b] = delivered[b] /\ arrived'[b] = arrived[b] /\ consumed'[b] = consumed[b]
           /\ bulkBuf'[b] = bulkBuf[b] /\ bulkOffset'[b] = bulkOffset[b]
           /\ bulkRemain'[b] = bulkRemain[b],
         FrameConn(wconn[w])', FrameWorker(w)'
  PROVE  Frames'
<1>1. \A v \in Workers \ {w} : wpc'[v] = wpc[v]
  BY DEF Inv, Hands, HandType
<1>2. ASSUME NEW b \in Conns \ {wconn[w]} PROVE FrameConn(b)'
  <2>1. \A v \in Workers : wconn[v] = b => v # w
    OBVIOUS
  <2>2. FrameConn(b)
    BY DEF Frames
  <2> QED
    BY <1>1, <2>1, <2>2, SameConn
<1>3. ASSUME NEW v \in Workers \ {w} PROVE FrameWorker(v)'
  <2>1. wpc[v] \in Ahead \union {"progress"} => wconn[v] \in Conns \ {wconn[w]}
    BY NoneAssumption DEF Inv, Hands, HandType, Busy, OneHolder, Ahead, Idle
  <2>2. FrameWorker(v)
    BY DEF Frames
  <2> QED
    BY <1>1, <2>1, <2>2, SameWorker
<1> QED
  BY <1>2, <1>3 DEF Frames

\* The size that the header of message k names is the size of its bulk.
LEMMA SizeOfHeader ==
  ASSUME NEW c \in Conns, NEW k \in 1..Len(Stream[c])
  PROVE  BulkSizeCb(c, Start(c, k)) = {Stream[c][k]}
<1>1. DOMAIN Stream[c] = 1..Len(Stream[c]) /\ Len(Stream[c]) \in Nat /\ HdrSize \in Nat \ {0}
  BY TcpRecvAssumption, LenProperties
<1>2. \A j \in 1..Len(Stream[c]) : Start(c, j) = Start(c, k) => j = k
  <2>1. \A j \in 1..Len(Stream[c]) : j \in 1..(Len(Stream[c]) + 1) /\ Start(c, j) \in Nat
    BY <1>1, StartsGrow
  <2>2. \A i, j \in 1..Len(Stream[c]) : i < j => Start(c, i) + HdrSize <= Start(c, j)
    BY <2>1, StartsGrow
  <2>3. \A i, j \in 1..Len(Stream[c]) : i < j => Start(c, i) # Start(c, j)
    BY <1>1, <2>1, <2>2
  <2>4. \A j \in 1..Len(Stream[c]) : j < k \/ k < j \/ j = k
    BY <1>1
  <2> QED
    BY <2>3, <2>4
<1>3. {j \in DOMAIN Stream[c] : Start(c, j) = Start(c, k)} = {k}
  BY <1>1, <1>2
<1> QED
  BY <1>3 DEF BulkSizeCb

\* One more message is delivered to a connection.
LEMMA Delivers ==
  ASSUME Inv, NEW c \in Conns, FrameConn(c), Len(delivered[c]) < Len(Stream[c]),
         NEW at, NEW len, Deliver(c, at, len), at = Start(c, Len(delivered[c]) + 1),
         len = HdrSize + Stream[c][Len(delivered[c]) + 1]
  PROVE  /\ Len(delivered'[c]) = Len(delivered[c]) + 1 /\ Len(delivered'[c]) <= Len(Stream[c])
         /\ \A k \in 1..Len(delivered'[c]) : delivered'[c][k] = Message(c, k)
         /\ \A b \in Conns \ {c} : delivered'[b] = delivered[b]
<1> DEFINE s == delivered[c]
           m == [at |-> at, len |-> len]
<1>1. s \in Seq([at : Int, len : Nat]) /\ Len(s) \in Nat /\ Len(Stream[c]) \in Nat
  BY Starts, LenProperties DEF Inv, BulkType
<1>2. /\ delivered'[c] = Append(s, m)
      /\ \A b \in Conns \ {c} : delivered'[b] = delivered[b]
  BY DEF Inv, BulkType, Deliver
<1>3. m = Message(c, Len(s) + 1)
  BY DEF Message
<1> HIDE DEF m
<1>4. /\ Len(delivered'[c]) = Len(s) + 1 /\ delivered'[c][Len(s) + 1] = m
      /\ \A k \in 1..Len(s) : delivered'[c][k] = s[k]
  BY <1>1, <1>2
<1>5. \A k \in 1..(Len(s) + 1) : k \in 1..Len(s) \/ k = Len(s) + 1
  BY <1>1
<1>6. \A k \in 1..Len(delivered'[c]) : delivered'[c][k] = Message(c, k)
  BY <1>3, <1>4, <1>5 DEF FrameConn
<1>7. Len(delivered'[c]) <= Len(Stream[c])
  BY <1>1, <1>4
<1> QED
  BY <1>2, <1>4, <1>6, <1>7

\* The steps of a worker.
LEMMA WorkFrames ==
  ASSUME Inv, Frames, NEW w \in Workers, Work(w)
  PROVE  Frames'
<1> DEFINE c == wconn[w]
           d == Len(delivered[c])
<1>1. wpc[w] # Idle => c \in Conns
  BY DEF Inv, Hands, HandType, Busy
<1>2. WorkerOK(w) /\ FrameWorker(w)
  BY Locally DEF Inv, Frames
<1>3. /\ wpc \in [Workers -> {Idle, "reenable"} \union Receiving]
      /\ wmsg \in [Workers -> [got : 0..HdrSize, tries : Nat, size : Nat, recv : Nat]]
      /\ arrived \in [Conns -> Nat] /\ consumed \in [Conns -> Nat]
      /\ bulkBuf \in [Conns -> {"none", "credit", "plain"}]
      /\ bulkOffset \in [Conns -> Nat] /\ bulkRemain \in [Conns -> Nat]
      /\ delivered \in [Conns -> Seq([at : Int, len : Nat])]
      /\ HdrSize \in Nat \ {0}
  BY TcpRecvAssumption DEF Inv, Hands, HandType, BulkType, SockType
<1>4. wpc[w] # Idle =>
      /\ FrameConn(c) /\ d \in Nat /\ Len(Stream[c]) \in Nat /\ Start(c, d + 1) \in Nat
      /\ \A v \in Workers : wconn[v] = c => v = w
      /\ wpc[w] \notin Ahead \union {"progress", "close"} => consumed[c] = Start(c, d + 1) + bulkOffset[c]
  <2> SUFFICES ASSUME wpc[w] # Idle
               PROVE  /\ FrameConn(c) /\ d \in Nat /\ Len(Stream[c]) \in Nat
                      /\ Start(c, d + 1) \in Nat
                      /\ \A v \in Workers : wconn[v] = c => v = w
                      /\ wpc[w] \notin Ahead \union {"progress", "close"} =>
                           consumed[c] = Start(c, d + 1) + bulkOffset[c]
    OBVIOUS
  <2>1. FrameConn(c) /\ d \in Nat /\ Len(Stream[c]) \in Nat
    BY <1>1, <1>3, Starts, LenProperties DEF Frames
  <2>2. \A v \in Workers : wconn[v] = c => v = w
    BY <1>1, NoneAssumption DEF Inv, Hands, OneHolder
  <2>3. d + 1 \in 1..(Len(Stream[c]) + 1)
    BY <2>1 DEF FrameConn
  <2>4. Start(c, d + 1) \in Nat
    BY <1>1, <2>3, StartsGrow
  <2> QED
    BY <2>1, <2>2, <2>4 DEF FrameConn
<1>5. CASE Take(w)
  <2> DEFINE q == Head(connq)
  <2>1. /\ wpc' = [wpc EXCEPT ![w] = IF bulkRemain[q] = 0 THEN "hdr" ELSE "bulk"]
        /\ wconn' = [wconn EXCEPT ![w] = q] /\ wpc[w] = Idle
        /\ UNCHANGED <<wmsg, delivered, arrived, consumed, bulkBuf, bulkOffset, bulkRemain>>
    BY <1>5 DEF Take, Goto, peer, bulk
  <2>2. /\ wconn'[w] = q /\ \A v \in Workers \ {w} : wconn'[v] = wconn[v] /\ wpc'[v] = wpc[v]
        /\ wpc'[w] \in {"hdr", "bulk"}
    BY <2>1 DEF Inv, Hands, HandType
  <2>3. wconn[w] = None
    BY <2>1 DEF Inv, Hands, Busy
  <2>4. ASSUME NEW b \in Conns PROVE FrameConn(b)'
    <3>1. FrameConn(b) /\ b # None
      BY NoneAssumption DEF Frames
    <3> QED
      BY <2>1, <2>2, <2>3, <3>1, SameConn
  <2>5. FrameWorker(w)'
    BY <1>2, <2>1, <2>2 DEF FrameWorker, Ahead
  <2>6. \A v \in Workers \ {w} : FrameWorker(v)'
    BY <2>1, <2>2, SameWorker DEF Frames
  <2> QED
    BY <2>4, <2>5, <2>6 DEF Frames
<1>6. CASE RecvHeader(w)
  <2> DEFINE n == RecvLen(c, HdrSize - wmsg[w].got)
  <2>1. /\ wpc[w] = "hdr" /\ c \in Conns /\ wmsg[w].got = 0 /\ Avail(c) > 0
        /\ bulkBuf[c] = "none" /\ consumed[c] = Start(c, d + 1) + bulkOffset[c]
    BY <1>1, <1>2, <1>4, <1>6 DEF RecvHeader, WorkerOK, FrameWorker, Ahead, Idle
  <2>2. consumed[c] = Start(c, d + 1)
    BY <1>1, <1>3, <1>4, <2>1 DEF FrameConn, Idle
  <2>3. arrived[c] > Start(c, d + 1) /\ Avail(c) = arrived[c] - Start(c, d + 1)
    BY <1>3, <1>4, <2>1, <2>2 DEF Avail, Idle
  <2>4. d < Len(Stream[c])
    <3>1. d = Len(Stream[c]) => arrived[c] <= Start(c, d + 1)
      BY <1>4, <2>1 DEF FrameConn, StreamLen, Idle
    <3>2. d <= Len(Stream[c])
      BY <1>4, <2>1 DEF FrameConn, Idle
    <3>3. arrived[c] \in Nat /\ Start(c, d + 1) \in Nat /\ d \in Nat /\ Len(Stream[c]) \in Nat
      BY <1>3, <1>4, <2>1 DEF Idle
    <3> QED
      BY <2>3, <3>1, <3>2, <3>3
  <2>5. Start(c, d + 1) + HdrSize <= arrived[c]
    <3>1. d + 1 \in 1..Len(Stream[c])
      BY <1>4, <2>1, <2>4 DEF Idle
    <3>2. arrived[c] <= Start(c, d + 1) \/ Start(c, d + 1) + HdrSize <= arrived[c]
      BY <1>4, <2>1, <3>1 DEF FrameConn, Idle
    <3>3. arrived[c] \in Nat /\ Start(c, d + 1) \in Nat
      BY <1>3, <1>4, <2>1 DEF Idle
    <3> QED
      BY <2>3, <3>2, <3>3
  <2>6. n = HdrSize
    <3>1. Avail(c) \in Nat /\ HdrSize <= Avail(c)
      BY <1>3, <1>4, <2>1, <2>3, <2>5 DEF Idle
    <3>2. HdrSize - wmsg[w].got = HdrSize
      BY <1>3, <2>1
    <3>3. RecvLen(c, HdrSize) = IF Avail(c) <= HdrSize THEN Avail(c) ELSE HdrSize
      BY <1>3, <3>1, RecvLenType
    <3> QED
      BY <1>3, <3>1, <3>2, <3>3
  <2>7. /\ consumed' = [consumed EXCEPT ![c] = consumed[c] + HdrSize]
        /\ wpc' = [wpc EXCEPT ![w] = "size"]
        /\ \A v \in Workers \ {w} : wmsg'[v] = wmsg[v]
        /\ UNCHANGED <<delivered, arrived, bulkBuf, bulkOffset, bulkRemain, wconn>>
    <3>1. wmsg[w].got + n = HdrSize
      BY <1>3, <2>1, <2>6
    <3> HIDE DEF n
    <3> QED
      BY <1>3, <1>6, <2>6, <3>1 DEF RecvHeader, Goto, peer, bulk, n
  <2>8. wpc'[w] = "size" /\ wconn'[w] = c /\ consumed'[c] = Start(c, d + 1) + HdrSize
    BY <1>3, <2>1, <2>2, <2>7
  <2>9. FrameConn(c)'
    BY <1>4, <2>1, <2>7, <2>8 DEF FrameConn, Ahead, Idle
  <2>10. FrameWorker(w)'
    BY <2>4, <2>7, <2>8 DEF FrameWorker, Ahead, Idle
  <2>11. wpc[w] # Idle /\ \A b \in Conns \ {c} : consumed'[b] = consumed[b]
    BY <1>3, <2>1, <2>7 DEF Idle
  <2> QED
    BY <2>7, <2>9, <2>10, <2>11, WorkerFrames
<1>7. ASSUME NEW l, wpc[w] # Idle, wpc' = [wpc EXCEPT ![w] = l], l \notin {Idle, "hdr", "progress"},
             UNCHANGED <<wconn, wmsg, delivered, arrived, consumed, bulkBuf, bulkOffset, bulkRemain>>,
             \/ wpc[w] \notin Ahead \union {"progress", "close"} /\ l \notin Ahead
             \/ wpc[w] \in Ahead \ {"size"} /\ l \in Ahead \ {"size"}
             \/ l = "close"
      PROVE  Frames'
  <2>1. wpc'[w] = l /\ wconn'[w] = c
    BY <1>3, <1>7
  <2>2. FrameConn(c)'
    <3>1. CASE wpc[w] \notin Ahead \union {"progress", "close"}
      BY <1>4, <1>7, <2>1, <3>1 DEF FrameConn
    <3>2. CASE wpc[w] \in Ahead \union {"progress", "close"}
      BY <1>4, <1>7, <2>1, <3>2 DEF FrameConn
    <3> QED
      BY <3>1, <3>2
  <2>3. FrameWorker(w)'
    BY <1>2, <1>7, <2>1 DEF FrameWorker, Ahead
  <2> QED
    BY <1>7, <2>2, <2>3, WorkerFrames
<1>8. CASE HeaderEagain(w) \/ RecvEnds(w) \/ TakeCredit(w) \/ UndoCredit(w)
           \/ CreditMallocFails(w) \/ NoBuffer(w)
  <2>1. UNCHANGED <<wconn, wmsg, delivered, arrived, consumed, bulkBuf, bulkOffset, bulkRemain>>
    BY <1>8 DEF HeaderEagain, RecvEnds, TakeCredit, UndoCredit, CreditMallocFails, NoBuffer,
                peer, bulk
  <2>2. \/ wpc[w] = "hdr" /\ wpc' = [wpc EXCEPT ![w] = "reenable"]
        \/ wpc[w] \in {"hdr", "bulk", "nocredit"} /\ wpc' = [wpc EXCEPT ![w] = "close"]
        \/ wpc[w] = "credit" /\ wpc' = [wpc EXCEPT ![w] = "undo"]
        \/ wpc[w] = "credit" /\ wpc' = [wpc EXCEPT ![w] = "malloc"]
        \/ wpc[w] \in {"undo", "malloc"} /\ wpc' = [wpc EXCEPT ![w] = "nocredit"]
    BY <1>8 DEF HeaderEagain, RecvEnds, TakeCredit, UndoCredit, CreditMallocFails, NoBuffer, Goto
  <2> QED
    BY <1>7, <2>1, <2>2 DEF Ahead, Idle
<1>9. CASE SizeKnown(w)
  <2> DEFINE at == consumed[c] - HdrSize
             z == Stream[c][d + 1]
  <2>1. /\ wpc[w] = "size" /\ c \in Conns /\ d < Len(Stream[c])
        /\ consumed[c] = Start(c, d + 1) + HdrSize /\ bulkBuf[c] = "none"
        /\ UNCHANGED <<wconn, arrived, consumed, bulkBuf, bulkOffset, bulkRemain>>
    BY <1>1, <1>2, <1>9 DEF SizeKnown, WorkerOK, FrameWorker, Ahead, Idle, peer, bulk
  <2>2. at = Start(c, d + 1) /\ d + 1 \in 1..Len(Stream[c]) /\ z \in Nat
    <3>1. Start(c, d + 1) \in Nat /\ d \in Nat /\ Len(Stream[c]) \in Nat
      BY <1>4, <2>1 DEF Idle
    <3>2. at = Start(c, d + 1) /\ d + 1 \in 1..Len(Stream[c])
      BY SMTT(30), <1>3, <2>1, <3>1
    <3> QED
      BY <2>1, <3>2, Starts
  <2>3. BulkSizeCb(c, at) = {z}
    BY <2>1, <2>2, SizeOfHeader
  <2>4. CASE z = 0
    <3>1. Deliver(c, at, HdrSize) /\ wmsg' = wmsg
          /\ \E l \in {"reenable", "close"} : wpc' = [wpc EXCEPT ![w] = l]
      BY <1>9, <2>3, <2>4 DEF SizeKnown, Goto
    <3>2. PICK l \in {"reenable", "close"} : wpc' = [wpc EXCEPT ![w] = l]
      BY <3>1
    <3>3. HdrSize = HdrSize + z
      BY <1>3, <2>4
    <3> HIDE DEF at, z
    <3>4. /\ Len(delivered'[c]) = d + 1 /\ Len(delivered'[c]) <= Len(Stream[c])
          /\ \A k \in 1..Len(delivered'[c]) : delivered'[c][k] = Message(c, k)
          /\ \A b \in Conns \ {c} : delivered'[b] = delivered[b]
      BY <1>4, <2>1, <2>2, <3>1, <3>3, Delivers DEF Idle, z
    <3>5. Start(c, d + 2) = Start(c, d + 1) + HdrSize + z /\ d + 1 + 1 = d + 2
      BY <1>4, <2>1, <2>2, Starts DEF Idle, z
    <3>6. consumed[c] = Start(c, Len(delivered'[c]) + 1) /\ bulkOffset[c] = 0
      <4>1. consumed[c] = Start(c, d + 2)
        BY <1>3, <1>4, <2>1, <2>4, <3>5 DEF Idle
      <4>2. Len(delivered'[c]) + 1 = d + 2
        BY <1>4, <2>1, <3>4 DEF Idle
      <4> QED
        BY <1>4, <2>1, <4>1, <4>2 DEF FrameConn, Idle
    <3>7. consumed'[c] = Start(c, Len(delivered'[c]) + 1) + bulkOffset'[c]
      BY <1>3, <2>1, <3>6
    <3>8. FrameConn(c)'
      BY <1>4, <2>1, <3>4, <3>7 DEF FrameConn, Idle
    <3>9. FrameWorker(w)'
      BY <1>3, <3>2 DEF FrameWorker, Ahead, Idle
    <3> QED
      BY <2>1, <3>1, <3>2, <3>4, <3>8, <3>9, WorkerFrames DEF Idle
  <2>5. CASE z # 0
    <3>1. /\ wmsg' = [wmsg EXCEPT ![w].size = z] /\ delivered' = delivered
          /\ wpc' = [wpc EXCEPT ![w] = "close"] \/ wpc' = [wpc EXCEPT ![w] = "credit"]
      <4>1. ~(z < 0) /\ z > 0
        BY <2>2, <2>5
      <4> HIDE DEF z, at
      <4> QED
        BY <1>9, <2>3, <2>5, <4>1 DEF SizeKnown, Goto, at
    <3>2. PICK l \in {"close", "credit"} : wpc' = [wpc EXCEPT ![w] = l]
      BY <3>1
    <3>3. /\ wpc'[w] = l /\ wconn'[w] = c /\ wmsg'[w].size = z
          /\ \A v \in Workers \ {w} : wmsg'[v] = wmsg[v]
      BY <1>3, <2>1, <2>2, <3>1, <3>2
    <3>4. FrameConn(c)'
      BY <1>4, <2>1, <3>1, <3>3 DEF FrameConn, Ahead, Idle
    <3>5. FrameWorker(w)'
      BY <2>1, <3>1, <3>3 DEF FrameWorker, Ahead, Idle
    <3> QED
      BY <2>1, <3>1, <3>2, <3>3, <3>4, <3>5, WorkerFrames DEF Idle
  <2> QED
    BY <2>4, <2>5
<1>10. CASE CreditMalloc(w) \/ PlainMalloc(w)
  <2>1. /\ wpc[w] \in Ahead \ {"size"} /\ wpc[w] # Idle /\ c \in Conns /\ d < Len(Stream[c])
        /\ consumed[c] = Start(c, d + 1) + HdrSize /\ wmsg[w].size = Stream[c][d + 1]
    BY <1>1, <1>2, <1>10 DEF CreditMalloc, PlainMalloc, FrameWorker, Ahead, Idle
  <2>2. PICK kind \in {"credit", "plain"} : BulkPrepared(w, kind)
    BY <1>10 DEF CreditMalloc, PlainMalloc
  <2>3. /\ wpc' = [wpc EXCEPT ![w] = "bulk"]
        /\ bulkBuf' = [bulkBuf EXCEPT ![c] = kind]
        /\ bulkOffset' = [bulkOffset EXCEPT ![c] = HdrSize]
        /\ bulkRemain' = [bulkRemain EXCEPT ![c] = wmsg[w].size]
        /\ UNCHANGED <<wconn, wmsg, delivered, arrived, consumed>>
    BY <1>10, <2>2 DEF CreditMalloc, PlainMalloc, BulkPrepared, Goto, peer
  <2>4. /\ wpc'[w] = "bulk" /\ wconn'[w] = c /\ bulkBuf'[c] = kind /\ bulkOffset'[c] = HdrSize
        /\ bulkRemain'[c] = Stream[c][d + 1]
        /\ \A b \in Conns \ {c} : bulkBuf'[b] = bulkBuf[b] /\ bulkOffset'[b] = bulkOffset[b]
                                  /\ bulkRemain'[b] = bulkRemain[b]
    BY <1>3, <2>1, <2>3
  <2>5. FrameConn(c)'
    BY <1>4, <2>1, <2>3, <2>4 DEF FrameConn
  <2>6. FrameWorker(w)'
    BY <2>4 DEF FrameWorker, Ahead, Idle
  <2> QED
    BY <2>1, <2>3, <2>4, <2>5, <2>6, WorkerFrames
<1>11. CASE RecvBulk(w)
  <2> DEFINE n == RecvLen(c, bulkRemain[c])
  <2>1. /\ wpc[w] = "bulk" /\ c \in Conns
        /\ consumed' = [consumed EXCEPT ![c] = consumed[c] + n]
        /\ wmsg' = [wmsg EXCEPT ![w].recv = n]
        /\ wpc' = [wpc EXCEPT ![w] = "progress"]
        /\ UNCHANGED <<wconn, delivered, arrived, bulkBuf, bulkOffset, bulkRemain>>
    BY <1>1, <1>11 DEF RecvBulk, Goto, Idle, peer, bulk
  <2>2. n \in Nat
    <3>1. Avail(c) \in Nat
      BY <1>3, <2>1 DEF Inv, SockType, Avail
    <3> QED
      BY <1>3, <2>1, <3>1, RecvLenType
  <2> HIDE DEF n
  <2>3. /\ wpc'[w] = "progress" /\ wconn'[w] = c /\ wmsg'[w].recv = n
        /\ consumed'[c] = consumed[c] + n
        /\ \A v \in Workers \ {w} : wmsg'[v] = wmsg[v]
        /\ \A b \in Conns \ {c} : consumed'[b] = consumed[b]
    BY <1>3, <2>1
  <2>4. consumed[c] = Start(c, d + 1) + bulkOffset[c]
    BY <1>4, <2>1 DEF Ahead, Idle
  <2>5. FrameConn(c)'
    BY <1>4, <2>1, <2>3 DEF FrameConn, Idle
  <2>6. FrameWorker(w)'
    BY <2>1, <2>3, <2>4 DEF FrameWorker, Ahead, Idle
  <2> QED
    BY <2>1, <2>3, <2>5, <2>6, WorkerFrames DEF Idle
<1>15. CASE BulkProgress(w)
  <2> DEFINE n == wmsg[w].recv
  <2>1. /\ wpc[w] = "progress" /\ c \in Conns /\ bulkBuf[c] # "none" /\ n <= bulkRemain[c]
        /\ bulkOffset' = [bulkOffset EXCEPT ![c] = bulkOffset[c] + n]
        /\ bulkRemain' = [bulkRemain EXCEPT ![c] = bulkRemain[c] - n]
        /\ UNCHANGED <<wconn, wmsg, delivered, arrived, consumed, bulkBuf>>
    BY <1>1, <1>2, <1>15 DEF BulkProgress, WorkerOK, Idle, peer
  <2>2. PICK l \in {"complete", "reenable"} : wpc' = [wpc EXCEPT ![w] = l]
    BY <1>15 DEF BulkProgress, Goto
  <2>3. n \in Nat
    BY <1>3
  <2>5. /\ consumed[c] = Start(c, d + 1) + bulkOffset[c] + n /\ d < Len(Stream[c])
        /\ bulkOffset[c] + bulkRemain[c] = HdrSize + Stream[c][d + 1]
    BY <1>2, <1>4, <2>1 DEF FrameConn, FrameWorker, Idle
  <2> HIDE DEF n
  <2>4. /\ wpc'[w] = l /\ wconn'[w] = c
        /\ bulkOffset'[c] = bulkOffset[c] + n /\ bulkRemain'[c] = bulkRemain[c] - n
        /\ \A b \in Conns \ {c} : bulkOffset'[b] = bulkOffset[b] /\ bulkRemain'[b] = bulkRemain[b]
    BY <1>3, <2>1, <2>2
  <2>6. /\ consumed[c] = Start(c, d + 1) + bulkOffset'[c]
        /\ bulkOffset'[c] + bulkRemain'[c] = HdrSize + Stream[c][d + 1]
    <3>1. /\ consumed[c] \in Nat /\ bulkOffset[c] \in Nat /\ bulkRemain[c] \in Nat
          /\ Start(c, d + 1) \in Nat
      BY <1>3, <1>4, <2>1 DEF Idle
    <3>2. (bulkOffset[c] + n) + (bulkRemain[c] - n) = bulkOffset[c] + bulkRemain[c]
      BY <2>3, <3>1
    <3>3. consumed[c] = Start(c, d + 1) + (bulkOffset[c] + n)
      BY <2>3, <2>5, <3>1
    <3> QED
      BY <2>4, <2>5, <3>2, <3>3
  <2>7. FrameConn(c)'
    BY <1>4, <2>1, <2>5, <2>6 DEF FrameConn, Idle
  <2>8. FrameWorker(w)'
    BY <2>4 DEF FrameWorker, Ahead, Idle
  <2> QED
    BY <2>1, <2>2, <2>4, <2>7, <2>8, WorkerFrames DEF Idle
<1>12. CASE CompleteBulk(w)
  <2>1. /\ wpc[w] = "complete" /\ c \in Conns /\ bulkBuf[c] # "none" /\ bulkRemain[c] = 0
        /\ Deliver(c, consumed[c] - bulkOffset[c], bulkOffset[c]) /\ FreeBulk(c)
        /\ UNCHANGED <<wconn, wmsg, arrived, consumed>>
    BY <1>1, <1>2, <1>12 DEF CompleteBulk, WorkerOK, Idle, peer
  <2>2. PICK l \in {"reenable", "close"} : wpc' = [wpc EXCEPT ![w] = l]
    BY <1>12 DEF CompleteBulk, Goto
  <2>3. /\ consumed[c] = Start(c, d + 1) + bulkOffset[c] /\ d < Len(Stream[c])
        /\ bulkOffset[c] + bulkRemain[c] = HdrSize + Stream[c][d + 1]
    BY <1>4, <2>1 DEF FrameConn, Ahead, Idle
  <2>4. /\ consumed[c] \in Nat /\ bulkOffset[c] \in Nat /\ Start(c, d + 1) \in Nat
        /\ d \in Nat /\ Len(Stream[c]) \in Nat /\ FrameConn(c)
    BY <1>3, <1>4, <2>1 DEF Idle
  <2>5. d + 1 \in 1..Len(Stream[c]) /\ Stream[c][d + 1] \in Nat
    <3>1. d + 1 \in 1..Len(Stream[c])
      BY <2>3, <2>4
    <3> QED
      BY <2>1, <3>1, Starts
  <2>6. /\ consumed[c] - bulkOffset[c] = Start(c, d + 1)
        /\ bulkOffset[c] = HdrSize + Stream[c][d + 1]
    BY <1>3, <2>1, <2>3, <2>4, <2>5
  <2>7. /\ Len(delivered'[c]) = d + 1 /\ Len(delivered'[c]) <= Len(Stream[c])
        /\ \A k \in 1..Len(delivered'[c]) : delivered'[c][k] = Message(c, k)
        /\ \A b \in Conns \ {c} : delivered'[b] = delivered[b]
    BY <2>1, <2>3, <2>4, <2>6, Delivers
  <2>8. /\ bulkBuf'[c] = "none" /\ bulkOffset'[c] = 0
        /\ \A b \in Conns \ {c} : bulkBuf'[b] = bulkBuf[b] /\ bulkOffset'[b] = bulkOffset[b]
                                  /\ bulkRemain'[b] = bulkRemain[b]
    BY <1>3, <2>1 DEF FreeBulk
  <2>9. consumed'[c] = Start(c, Len(delivered'[c]) + 1) + bulkOffset'[c]
    <3>1. Start(c, d + 1 + 1) = Start(c, d + 1) + HdrSize + Stream[c][d + 1]
      BY <2>1, <2>5, Starts
    <3>2. consumed[c] = Start(c, d + 1 + 1)
      <4>1. ASSUME NEW x \in Nat, NEW y \in Nat, NEW h \in Nat PROVE x + (h + y) = x + h + y
        OBVIOUS
      <4>2. consumed[c] = Start(c, d + 1) + (HdrSize + Stream[c][d + 1])
        BY <2>3, <2>6
      <4>3. Start(c, d + 1) + (HdrSize + Stream[c][d + 1])
              = Start(c, d + 1) + HdrSize + Stream[c][d + 1]
        <5>1. Start(c, d + 1) \in Nat /\ HdrSize \in Nat /\ Stream[c][d + 1] \in Nat
          BY <1>3, <2>4, <2>5
        <5> HIDE DEF c, d
        <5> QED
          BY <4>1, <5>1
      <4> QED
        BY <3>1, <4>2, <4>3
    <3>3. consumed[c] = consumed[c] + 0
      BY <2>4
    <3> QED
      BY <2>1, <2>7, <2>8, <3>2, <3>3
  <2>10. FrameConn(c)'
    BY <2>1, <2>4, <2>7, <2>8, <2>9 DEF FrameConn
  <2>11. FrameWorker(w)'
    BY <1>3, <2>2 DEF FrameWorker, Ahead, Idle
  <2> QED
    BY <2>1, <2>2, <2>7, <2>8, <2>10, <2>11, WorkerFrames DEF Idle
<1>13. CASE CloseOnError(w)
  <2>1. /\ wpc[w] = "close" /\ c \in Conns /\ CloseInternal(c, TRUE)
        /\ wpc' = [wpc EXCEPT ![w] = "reenable"] /\ UNCHANGED <<wconn, wmsg>>
    BY <1>1, <1>13 DEF CloseOnError, Goto, Idle
  <2>2. /\ delivered'[c] = <<>> /\ arrived'[c] = 0 /\ consumed'[c] = 0
        /\ bulkBuf'[c] = "none" /\ bulkOffset'[c] = 0
        /\ \A b \in Conns \ {c} :
             /\ delivered'[b] = delivered[b] /\ arrived'[b] = arrived[b] /\ consumed'[b] = consumed[b]
             /\ bulkBuf'[b] = bulkBuf[b] /\ bulkOffset'[b] = bulkOffset[b]
             /\ bulkRemain'[b] = bulkRemain[b]
    BY <1>3, <2>1 DEF CloseInternal, FreeBulk
  <2>3. FrameConn(c)'
    BY <2>1, <2>2, FreshConn
  <2>4. FrameWorker(w)'
    BY <1>3, <2>1 DEF FrameWorker, Ahead, Idle
  <2> QED
    BY <2>1, <2>2, <2>3, <2>4, WorkerFrames DEF Idle
<1>14. CASE Reenable(w)
  <2>1. /\ wpc[w] = "reenable" /\ wpc' = [wpc EXCEPT ![w] = Idle]
        /\ wconn' = [wconn EXCEPT ![w] = None] /\ wmsg' = [wmsg EXCEPT ![w] = NoMsg]
        /\ UNCHANGED <<delivered, arrived, consumed, bulkBuf, bulkOffset, bulkRemain>>
    BY <1>14 DEF Reenable, Goto, peer, bulk
  <2>2. /\ wpc'[w] = Idle /\ wmsg'[w] = NoMsg
        /\ \A v \in Workers \ {w} : wconn'[v] = wconn[v] /\ wpc'[v] = wpc[v] /\ wmsg'[v] = wmsg[v]
    BY <1>3, <2>1 DEF Inv, Hands, HandType
  <2>3. wpc[w] \notin Ahead \union {"progress", "close"}
    BY <2>1 DEF Ahead
  <2>4. ASSUME NEW b \in Conns PROVE FrameConn(b)'
    <3>1. \A v \in Workers : wconn[v] = b /\ wpc[v] \in Ahead \union {"progress", "close"} =>
             wconn'[v] = b /\ wpc'[v] \in Ahead \union {"progress", "close"}
      BY <2>2, <2>3
    <3>2. FrameConn(b)
      BY DEF Frames
    <3> QED
      BY <2>1, <3>1, <3>2, SameConn
  <2>5. FrameWorker(w)'
    BY <2>2 DEF FrameWorker, NoMsg, Ahead, Idle
  <2>6. \A v \in Workers \ {w} : FrameWorker(v)'
    BY <2>1, <2>2, SameWorker DEF Frames
  <2> QED
    BY <2>4, <2>5, <2>6 DEF Frames
<1> QED
  BY <1>5, <1>6, <1>8, <1>9, <1>10, <1>11, <1>12, <1>13, <1>14, <1>15 DEF Work

\* Whatever the workers, the epoll thread and the peers do in which order,
\* recv_cb is given the messages that the peer sent, whole and in order, also
\* across closes and new connections, until two threads change a connection
\* at once (tcp_mgr_new_msg_handler, tcp_mgr_bulk_complete); for any streams,
\* sizes and workers, as long as a header arrives as a whole.
THEOREM FramingCorrect == ASSUME ~SplitHeaders PROVE Spec => []Framing
<1> DEFINE Framed == Defined => Frames
<1>1. IndInv /\ Framed /\ [Next]_vars => Framed'
  <2> SUFFICES ASSUME IndInv, Framed, [Next]_vars, Defined' PROVE Frames'
    OBVIOUS
  <2>1. CASE UNCHANGED vars
    <3>1. /\ UNCHANGED <<delivered, arrived, consumed, bulkBuf, bulkOffset, bulkRemain, wpc, wconn, wmsg>>
          /\ Defined
      BY <2>1 DEF vars, peer, bulk, work, hist, Defined
    <3>2. (\A b \in Conns : FrameConn(b)') /\ \A w \in Workers : FrameWorker(w)'
      BY <3>1, SameConn, SameWorker DEF Frames
    <3> QED
      BY <3>2 DEF Frames
  <2>2. CASE Next
    <3>1. Inv /\ Frames
      BY <2>2 DEF Next, IndInv
    <3> QED
      BY <2>2, <3>1, OutsideFrames, WorkFrames DEF Next
  <2> QED
    BY <2>1, <2>2
<1>2. IndInv /\ Framed => Framing
  <2> SUFFICES ASSUME Inv, Frames, NEW c \in Conns
               PROVE  /\ Len(delivered[c]) <= Len(Stream[c])
                      /\ \A k \in DOMAIN delivered[c] : delivered[c][k] = Message(c, k)
    BY DEF Framing, IndInv
  <2>1. DOMAIN delivered[c] = 1..Len(delivered[c])
    BY LenProperties DEF Inv, BulkType
  <2> QED
    BY <2>1 DEF Frames, FrameConn
<1>3. Init => Framed
  BY InitFrames
<1> QED
  BY <1>1, <1>2, <1>3, IndAlways, PTL DEF Spec
=============================================================================
