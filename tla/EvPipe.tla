-------------------------------- MODULE EvPipe --------------------------------
(***************************************************************************)
(* The event pipe of niova-core (src/src/ev_pipe.c): producers put work on *)
(* a queue and wake the consumer through a pipe.  Two counters tell the    *)
(* producers whether the consumer was woken already, so that most of them  *)
(* do not write.                                                           *)
(*                                                                         *)
(* Nothing is locked: an action is one access to a shared counter, one     *)
(* system call or one critical section of a queue.  The consumer follows   *)
(* the protocol of the tests: it waits until the pipe is readable, calls   *)
(* EV_PIPE_RESET() and then empties the queues (src/test/ev-pipe-test.c).  *)
(***************************************************************************)
EXTENDS Integers, FiniteSets

CONSTANTS
    Writers,    \* the threads that call ev_pipe_notify()
    Capacity,   \* EV_PIPE_SZ: bytes that the pipe holds
    DrainSize,  \* PIPE_DRAIN_SIZE: bytes that one read() takes
    MaxItems    \* bound: items that each writer produces

ASSUME EvPipeAssumption ==
    /\ IsFiniteSet(Writers)
    /\ Capacity \in Nat \ {0} /\ DrainSize \in Nat \ {0}
    /\ MaxItems \in Nat

VARIABLES
    evp_writer_cnt, evp_reader_cnt,
    bytes,      \* what the pipe holds
    produced,   \* items that each writer has produced
    pending,    \* ... and that wait on its queue
    wpc,        \* the next step of each writer
    old,        \* old_write_cnt of each writer
    rpc,        \* the next step of the consumer
    loaded,     \* the value of evp_writer_cnt that ev_pipe_reset() has read
    todo        \* the queues that the consumer has yet to look at

writerVars == <<produced, wpc, old>>
readerVars == <<evp_reader_cnt, rpc, loaded, todo>>
vars == <<evp_writer_cnt, bytes, pending, writerVars, readerVars>>

\* ev_pipe_setup().
Init ==
    /\ evp_writer_cnt = 0 /\ evp_reader_cnt = 1
    /\ bytes = 0
    /\ produced = [w \in Writers |-> 0] /\ pending = [w \in Writers |-> 0]
    /\ wpc = [w \in Writers |-> "idle"] /\ old = [w \in Writers |-> 0]
    /\ rpc = "wait" /\ loaded = 0 /\ todo = {}

-------------------------------------------------------------------------------
WriterAt(w, from, to) == wpc[w] = from /\ wpc' = [wpc EXCEPT ![w] = to]

\* The producer puts an item on its queue and calls ev_pipe_notify().
produce(w) ==
    /\ produced[w] < MaxItems
    /\ WriterAt(w, "idle", "read")
    /\ produced' = [produced EXCEPT ![w] = @ + 1]
    /\ pending' = [pending EXCEPT ![w] = @ + 1]
    /\ UNCHANGED <<evp_writer_cnt, bytes, old, readerVars>>

notify_read(w) ==
    /\ WriterAt(w, "read", "compare")
    /\ old' = [old EXCEPT ![w] = evp_writer_cnt]
    /\ UNCHANGED <<evp_writer_cnt, bytes, pending, produced, readerVars>>

\* The consumer has not been woken since its last reset.
WakeNeeded_early(w) == old[w] + 1 < evp_reader_cnt  \* mutant: off by one
WakeNeeded(w) == old[w] < evp_reader_cnt

notify_compare(w) ==
    /\ \/ WakeNeeded(w) /\ WriterAt(w, "compare", "inc")
       \/ ~WakeNeeded(w) /\ WriterAt(w, "compare", "idle")
    /\ UNCHANGED <<evp_writer_cnt, bytes, pending, produced, old, readerVars>>

NewWriterCnt == evp_writer_cnt + 1

notify_inc(w) ==
    /\ WriterAt(w, "inc", "write")
    /\ evp_writer_cnt' = NewWriterCnt
    /\ UNCHANGED <<bytes, pending, produced, old, readerVars>>

\* A write() to a full pipe fails and the increment is taken back.
notify_write(w) ==
    /\ \/ /\ bytes < Capacity
          /\ WriterAt(w, "write", "idle")
          /\ bytes' = bytes + 1
       \/ /\ bytes = Capacity
          /\ WriterAt(w, "write", "undo")
          /\ UNCHANGED bytes
    /\ UNCHANGED <<evp_writer_cnt, pending, produced, old, readerVars>>

notify_dec(w) ==
    /\ WriterAt(w, "undo", "idle")
    /\ evp_writer_cnt' = evp_writer_cnt - 1
    /\ UNCHANGED <<bytes, pending, produced, old, readerVars>>

-------------------------------------------------------------------------------
ReaderAt(from, to) == rpc = from /\ rpc' = to

\* The pipe is readable and the consumer's callback runs.
wake ==
    /\ bytes > 0
    /\ ReaderAt("wait", "drain")
    /\ UNCHANGED <<evp_writer_cnt, evp_reader_cnt, bytes, pending, writerVars,
                   loaded, todo>>

Smaller(x, y) == IF x < y THEN x ELSE y

\* One read() of the loop, the last one if it comes back short.
ev_pipe_drain ==
    LET n == Smaller(bytes, DrainSize) IN
    /\ bytes' = bytes - n
    /\ ReaderAt("drain", IF n < DrainSize THEN "load" ELSE "drain")
    /\ UNCHANGED <<evp_writer_cnt, evp_reader_cnt, pending, writerVars,
                   loaded, todo>>

\* ev_pipe_reset() reads the writers' counter ...
reset_load ==
    /\ ReaderAt("load", "store")
    /\ loaded' = evp_writer_cnt
    /\ UNCHANGED <<evp_writer_cnt, evp_reader_cnt, bytes, pending, writerVars,
                   todo>>

\* ... and then enables the next wakeup.
NextReaderCnt_same == loaded      \* mutant: the next wakeup is not enabled
NextReaderCnt == loaded + 1

reset_store ==
    /\ ReaderAt("store", "consume")
    /\ evp_reader_cnt' = NextReaderCnt
    /\ todo' = Writers
    /\ UNCHANGED <<evp_writer_cnt, bytes, pending, writerVars, loaded>>

\* The consumer empties one queue.
consume(w) ==
    /\ rpc = "consume" /\ w \in todo
    /\ todo' = todo \ {w}
    /\ pending' = [pending EXCEPT ![w] = 0]
    /\ UNCHANGED <<evp_writer_cnt, evp_reader_cnt, bytes, writerVars, rpc,
                   loaded>>

sleep ==
    /\ todo = {} /\ ReaderAt("consume", "wait")
    /\ UNCHANGED <<evp_writer_cnt, evp_reader_cnt, bytes, pending, writerVars,
                   loaded, todo>>

-------------------------------------------------------------------------------
Writer(w) == \/ produce(w) \/ notify_read(w) \/ notify_compare(w)
             \/ notify_inc(w) \/ notify_write(w) \/ notify_dec(w)

Reader == \/ wake \/ ev_pipe_drain \/ reset_load \/ reset_store \/ sleep
          \/ \E w \in Writers : consume(w)

Next == Reader \/ \E w \in Writers : Writer(w)

Spec == Init /\ [][Next]_vars

\* A thread that has called ev_pipe_notify() goes on, and so does the
\* consumer; nobody has to produce.
Fairness ==
    /\ WF_vars(Reader)
    /\ \A w \in Writers : WF_vars(wpc[w] # "idle" /\ Writer(w))

FairSpec == Spec /\ Fairness

-------------------------------------------------------------------------------
\* The counters, the pipe and the control states; evp_writer_cnt is unsigned and
\* must not be taken back more often than it was incremented.
TypeOK ==
    /\ evp_writer_cnt \in Nat /\ evp_reader_cnt \in Nat
    /\ bytes \in 0..Capacity
    /\ produced \in [Writers -> Nat] /\ pending \in [Writers -> Nat]
    /\ wpc \in [Writers -> {"idle", "read", "compare", "inc", "write", "undo"}]
    /\ old \in [Writers -> Nat]
    /\ rpc \in {"wait", "drain", "load", "store", "consume"}
    /\ loaded \in Nat /\ todo \subseteq Writers

\* The pipe is readable, or some writer is about to make it so.
Covered == bytes > 0 \/ \E w \in Writers : wpc[w] = "write"

\* The consumer never goes to sleep, or stays asleep, on work that nobody is
\* going to wake it for: a producer that did not write because of the counters
\* can rely on someone else's wakeup, in every interleaving of the writers
\* with the unlocked reset, and also when a write() fails on a full pipe.
NoLostWakeup ==
    \A w \in Writers :
       rpc = "wait" /\ pending[w] > 0 /\ wpc[w] = "idle" => Covered

\* Every item that is produced is consumed.
AllConsumed == \A w \in Writers : pending[w] > 0 ~> pending[w] = 0
===============================================================================
