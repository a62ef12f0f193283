-------------------------------- MODULE IoVec --------------------------------
(***************************************************************************)
(* The scatter/gather helpers (src/src/io.c, src/src/include/io.h) and the *)
(* transfer loops built on them and on single system calls: tcp_socket_    *)
(* send, udp_socket_send, tcp_socket_recv_all, niova_io_read, _pread,      *)
(* _pwrite (src/src/tcp.c, udp.c, io.c).                                   *)
(*                                                                         *)
(* An iov is [base, len]; memory is a set of addresses.  A transfer moves  *)
(* Bytes(xfer.iovs) one system call at a time; the kernel may move a part, *)
(* be interrupted, have no room, see the end, or fail.                     *)
(***************************************************************************)
EXTENDS Integers, Sequences, FiniteSets, SequencesExt, FiniteSetsExt

CONSTANTS
    IoVecs,         \* the iov arrays tried
    Counts,         \* byte counts tried
    Interrupts,     \* bound on EINTR and EAGAIN in one transfer
    MaxAttempts     \* max_attempts of tcp_socket_recv_all

\* struct iovec: an address and a size_t.
Iov == [base : Nat, len : Nat]

ASSUME IoVecAssumption == IoVecs \subseteq Seq(Iov) /\ Counts \subseteq Nat

VARIABLES
    xfer,    \* [op, iovs, pos, rc, wire, at, intr, tries]
    iojob,   \* the arguments of a call of the helpers: [iovs, done, max, ndest]
    ioret    \* what they returned, <<>> before

xferVars == xfer
iovVars == <<iojob, ioret>>

EOVERFLOW == -75
ERANGE == -34
EXFULL == -54
EINVAL == -22

MinOf(a, b) == IF a < b THEN a ELSE b
Take(s, n) == SubSeq(s, 1, MinOf(n, Len(s)))
Drop(s, n) == SubSeq(s, n + 1, Len(s))

Bytes(iovs) == FlattenSeq([i \in DOMAIN iovs |->
                             [k \in 1..iovs[i].len |-> iovs[i].base + k - 1]])

\* niova_io_iovs_total_size_get()
total_size(iovs) == FoldLeft(LAMBDA n, v : n + v.len, 0, iovs)

Part(v, from, len) == [base |-> v.base + from, len |-> len]

\* niova_io_iovs_map_consumed2(); with ndest = Len(src) this is
\* niova_io_iovs_map_consumed().  m = [done, left, dest, n, stop]
MapIov_nolimit(m, v, max, ndest) ==    \* mutant: a part that fits exactly is not the last
    LET len == v.len - m.done
        left == m.left - len
        over == max > 0 /\ left < 0
    IN  IF m.stop THEN m
        ELSE IF m.done >= v.len THEN [m EXCEPT !.done = @ - v.len]
        ELSE IF m.n = ndest THEN [m EXCEPT !.n = @ + 1, !.stop = TRUE]
        ELSE [done |-> 0, left |-> left, n |-> m.n + 1, stop |-> over,
              dest |-> Append(m.dest, Part(v, m.done, len))]
MapIov(m, v, max, ndest) ==
    LET len == v.len - m.done
        left == m.left - len
        over == max > 0 /\ left <= 0
    IN  IF m.stop THEN m
        ELSE IF m.done >= v.len THEN [m EXCEPT !.done = @ - v.len]
        ELSE IF m.n = ndest THEN [m EXCEPT !.n = @ + 1, !.stop = TRUE]
        ELSE [done |-> 0, left |-> left, n |-> m.n + 1, stop |-> over,
              dest |-> Append(m.dest, Part(v, m.done, IF over THEN len + left ELSE len))]

map_consumed(src, ndest, done, max) ==
    LET m == FoldLeft(LAMBDA a, v : MapIov(a, v, max, ndest),
                      [done |-> done, left |-> max, dest |-> <<>>, n |-> 0, stop |-> FALSE],
                      src)
    IN  IF (max <= 0 /\ Len(src) > ndest) \/ (max > 0 /\ m.left > 0)
          THEN [rc |-> EOVERFLOW, dest |-> <<>>]
          ELSE [rc |-> m.n, dest |-> m.dest]

\* niova_io_iovs_advance(): [rc, iovs, save]; niova_io_iov_restore()
advance(iovs, done) ==
    LET before(i) == total_size(SubSeq(iovs, 1, i))
        ends == {i \in 1..Len(iovs) : before(i) > done} \cup
                {i \in 1..Len(iovs) : before(i-1) = done}
        i == Min(ends)
        cut == done - before(i-1)
    IN  IF done > total_size(iovs) THEN [rc |-> ERANGE, iovs |-> iovs, save |-> iovs[1]]
        ELSE IF ends = {} THEN [rc |-> EXFULL, iovs |-> iovs, save |-> iovs[1]]
        ELSE [rc |-> i - 1, save |-> iovs[i],
              iovs |-> [iovs EXCEPT ![i] = Part(@, cut, @.len - cut)]]

iov_restore(iovs, idx, save) == [iovs EXCEPT ![idx + 1] = save]

\* niova_io_iovs_num_to_meet_size2() (and, with done = 0, ..._size()):
\* [rc, idx, prune]
num_to_meet_size(iovs, want, done) ==
    LET tally(i) == total_size(SubSeq(iovs, 1, i)) - done
        firsts == {i \in DOMAIN iovs : tally(i) > 0}
        ends == {i \in DOMAIN iovs : tally(i) >= want}
    IN  IF want <= 0 THEN [rc |-> EINVAL, idx |-> 0, prune |-> 0]
        ELSE IF ends = {} THEN [rc |-> EOVERFLOW, idx |-> 0, prune |-> 0]
        ELSE [rc |-> Min(ends) + 1 - Min(firsts), idx |-> Min(firsts) - 1,
              prune |-> tally(Min(ends)) - want]

\* niova_io_copy_to_iovs(), niova_io_memset_iovs(), niova_io_copy_from_iovs()
\* and niova_io_iterate_iovs() walk the array the same way: the parts touched.
TouchIov(t, v) ==
    LET n == MinOf(v.len, t.left)
    IN  IF t.left = 0 THEN t
        ELSE [left |-> t.left - n, parts |-> Append(t.parts, Part(v, 0, n))]
touched(iovs, n) == FoldLeft(TouchIov, [left |-> n, parts |-> <<>>], iovs)

IovInit == /\ iojob \in [iovs : IoVecs, done : Counts, max : Counts \cup {-1}, ndest : 1..2]
           /\ ioret = <<>>

CallHelpers ==
    /\ ioret = <<>>
    /\ ioret' = <<[map |-> map_consumed(iojob.iovs, iojob.ndest, iojob.done, iojob.max),
                   adv |-> advance(iojob.iovs, iojob.done),
                   meet |-> num_to_meet_size(iojob.iovs, iojob.max, iojob.done),
                   parts |-> touched(iojob.iovs, iojob.done).parts]>>
    /\ UNCHANGED iojob

-------------------------------------------------------------------------------
\* The transfer loops.

Total == total_size(xfer.iovs)
Data == Bytes(xfer.iovs)

XferInit ==
    \E v \in IoVecs, op \in {"tcp_send", "udp_send", "recv_all", "read", "pread", "pwrite"} :
         /\ op \in {"recv_all", "read", "pread", "pwrite"} => Len(v) = 1
         /\ total_size(v) > 0
         /\ xfer = [op |-> op, iovs |-> v, pos |-> 0, rc |-> "run",
                    wire |-> <<>>, at |-> <<>>, intr |-> 0, tries |-> 0]

\* What the call offers to the kernel: the part of the data not yet moved.
Offered_again == Data    \* mutant: a call after a partial one starts over
Offered == IF xfer.op \in {"tcp_send", "udp_send"}
             THEN Bytes(map_consumed(xfer.iovs, Len(xfer.iovs), xfer.pos, -1).dest)
             ELSE SubSeq(Data, xfer.pos + 1, Total)

InTransfer == /\ xfer.rc = "run" /\ xfer.pos < Total
              /\ xfer.op = "recv_all" => xfer.tries < MaxAttempts

\* Positioned calls move file bytes to where they belong and leave the others
\* alone; streams move the next bytes.  at is the address that holds each byte
\* moved, wire the byte.
Moves(n) ==
    LET off == Take(Offered, n)
        next == IF xfer.op \in {"pread", "pwrite"} THEN xfer.pos ELSE Len(xfer.wire)
    IN  xfer' = [xfer EXCEPT !.pos = @ + n, !.tries = @ + 1,
                   !.wire = Take(@, next) \o [k \in 1..n |-> next + k] \o Drop(@, next + n),
                   !.at = Take(@, next) \o off \o Drop(@, next + n)]

\* A datagram is sent whole.
MovePart == /\ InTransfer
            /\ \E n \in 1..Len(Offered) :
                 /\ xfer.op = "udp_send" => n = Len(Offered)
                 /\ Moves(n)

\* EINTR.  The loops of io.c then add the call's -1 to their count, an
\* unsigned one; the others try again or give the error back.
Interrupted ==
    /\ InTransfer /\ xfer.intr < Interrupts
    /\ CASE xfer.op \in {"tcp_send", "udp_send"} -> xfer' = [xfer EXCEPT !.intr = @ + 1]
         [] xfer.op = "recv_all" -> xfer' = [xfer EXCEPT !.rc = "EINTR"]
         [] OTHER -> xfer' = [xfer EXCEPT !.intr = @ + 1, !.pos = @ - 1,
                                !.rc = IF xfer.pos = 0 THEN "EPERM" ELSE "run"]

\* EAGAIN: a full socket; tcp_socket_send spins, udp_socket_send fails.
NoRoom ==
    /\ InTransfer /\ xfer.intr < Interrupts /\ xfer.op \in {"tcp_send", "udp_send", "recv_all"}
    /\ xfer' = IF xfer.op = "tcp_send" THEN [xfer EXCEPT !.intr = @ + 1]
                                       ELSE [xfer EXCEPT !.rc = "EAGAIN"]

EndOfInput ==
    /\ InTransfer /\ xfer.op \in {"recv_all", "read", "pread"}
    /\ xfer' = [xfer EXCEPT !.rc = IF xfer.op = "recv_all" THEN "ENOTCONN" ELSE "done"]

Broken == InTransfer /\ xfer' = [xfer EXCEPT !.rc = "EIO"]

Complete ==
    /\ xfer.rc = "run"
    /\ xfer.pos = Total \/ (xfer.op = "recv_all" /\ xfer.tries = MaxAttempts)
    /\ xfer' = [xfer EXCEPT !.rc = "done"]

XferNext == MovePart \/ Interrupted \/ NoRoom \/ EndOfInput \/ Broken \/ Complete

\* The library's two uses of these parts.
HelpersSpec == IovInit /\ [][CallHelpers]_iovVars
XferSpec == XferInit /\ [][XferNext]_xferVars

-------------------------------------------------------------------------------
\* io.c: whatever the lengths, zero among them, and wherever the count cuts
\* the array, the helpers see it as one string of bytes: the mapped, advanced
\* or touched parts are exactly the bytes asked for, an advanced array is
\* restored, and a size that does not fit is refused.
VectorsAreStrings ==
    ioret # <<>> =>
    LET v == iojob.iovs
        all == Bytes(v)
        m == ioret[1].map
        a == ioret[1].adv
        q == ioret[1].meet
        rest == Drop(all, iojob.done)
    IN  /\ m.rc >= 0 =>
             /\ m.rc = Len(m.dest) /\ m.rc <= iojob.ndest
             /\ Bytes(m.dest) = IF iojob.max > 0 THEN Take(rest, iojob.max) ELSE rest
             /\ iojob.max > 0 => Len(Bytes(m.dest)) = iojob.max
        /\ (m.rc < 0 /\ iojob.ndest >= Len(v)) => iojob.max > Len(rest)
        /\ a.rc >= 0 => /\ Bytes(Drop(a.iovs, a.rc)) = rest
                        /\ iov_restore(a.iovs, a.rc, a.save) = v
        /\ a.rc = EXFULL => iojob.done = Len(all)
        /\ (a.rc = ERANGE) = (iojob.done > Len(all))
        /\ iojob.max > 0 =>
             /\ (q.rc < 0) = (Len(rest) < iojob.max)
             /\ q.rc > 0 =>
                  LET used == SubSeq(v, q.idx + 1, q.idx + q.rc)
                      cut == iojob.done - Len(Bytes(SubSeq(v, 1, q.idx)))
                  IN  /\ Take(rest, iojob.max + q.prune) = Drop(Bytes(used), cut)
                      /\ q.prune < Last(used).len
        /\ Bytes(ioret[1].parts) = Take(all, iojob.done)

\* How far behind its place a byte may be put: one for each interruption of a
\* plain read.
Behind == IF xfer.op = "read" THEN xfer.intr ELSE 0

\* tcp_socket_send and the other transfer loops: however the kernel cuts the
\* transfer up and however often it interrupts it, the bytes go in their order,
\* none twice and none left out, byte k of the wire or file to or from byte k
\* of the caller's memory; a send or a write that succeeds moved them all; and
\* the count is what was moved.  The loops of io.c lose one from their count
\* with each interruption (io.c:30, 56, 80).  A positioned call may then return
\* that much less than it moved, when the input ends there; a plain read that
\* was interrupted always does, and puts what follows that much too early, over
\* what it had read.
TransferExact ==
    LET moved == Len(xfer.wire)
    IN  /\ xfer.wire = [k \in 1..Len(xfer.at) |-> k]
        /\ \A k \in 1..moved : \E d \in 0..Behind : k - d \in 1..Total /\ xfer.at[k] = Data[k - d]
        /\ xfer.op = "read" => xfer.pos + xfer.intr = moved
        /\ xfer.op \in {"pread", "pwrite"} => xfer.pos <= moved /\ moved <= xfer.pos + xfer.intr
        /\ xfer.op \in {"tcp_send", "udp_send", "recv_all"} => xfer.pos = moved
        /\ xfer.rc = "done" /\ xfer.op \in {"tcp_send", "udp_send", "pwrite"} => moved = Total
================================================================================
