---------------------------- MODULE ServicesProofs ----------------------------
(***************************************************************************)
(* The services that every process has: the pipes that wake its threads,   *)
(* for any writers and sizes, and the control interface, for any files,    *)
(* requests and size of the ring of completed operations.                  *)
(***************************************************************************)
EXTENDS EvPipe, CtlInterface, Integers, SequenceTheorems, TLAPS

\* The types that the argument needs.
Types ==
    /\ evp_writer_cnt \in Int /\ evp_reader_cnt \in Int /\ loaded \in Int
    /\ bytes \in Nat
    /\ pending \in [Writers -> Nat] /\ produced \in [Writers -> Nat]
    /\ old \in [Writers -> Int]
    /\ wpc \in [Writers -> {"idle", "read", "compare", "inc", "write", "undo"}]
    /\ rpc \in {"wait", "drain", "load", "store", "consume"}
    /\ todo \subseteq Writers

\* After a reset nothing takes bytes out of the pipe until the next wakeup.
PastReset == rpc \in {"wait", "consume"}

\* Whoever reads evp_writer_cnt now and decides not to write is right.
CountersCovered == PastReset /\ evp_writer_cnt >= evp_reader_cnt => Covered

\* Writers that ran between the two halves of the reset will wake the consumer.
ResetCovered == rpc = "store" /\ evp_writer_cnt > loaded => Covered

\* A writer that has read the counter before and will decide not to write is
\* right too, unless its queue is looked at anyway.
StaleCovered ==
    \A w \in Writers :
       /\ PastReset /\ w \notin todo
       /\ pending[w] > 0 /\ wpc[w] = "compare" /\ old[w] >= evp_reader_cnt
       => Covered

\* The work of a writer that is done with ev_pipe_notify() is not forgotten.
WorkCovered ==
    \A w \in Writers :
       /\ PastReset /\ w \notin todo
       /\ pending[w] > 0 /\ wpc[w] \in {"idle", "undo"}
       => Covered

AllSeen == rpc = "wait" => todo = {}

Inv == /\ Types /\ CountersCovered /\ ResetCovered /\ StaleCovered
       /\ WorkCovered /\ AllSeen

\* The pipe after ev_pipe_setup() satisfies the invariant.
LEMMA InitInv == Init => Inv
  BY DEF Init, Inv, Types, CountersCovered, ResetCovered, StaleCovered,
         WorkCovered, AllSeen, PastReset, Covered

\* Every step of ev_pipe_notify() keeps the invariant.
LEMMA WriterInv == ASSUME Inv, NEW w \in Writers, Writer(w) PROVE Inv'
<1> USE EvPipeAssumption DEF Types, WriterAt, writerVars, readerVars
<1>0. /\ Types /\ CountersCovered /\ ResetCovered /\ StaleCovered
      /\ WorkCovered /\ AllSeen
  BY DEF Inv
<1>1. /\ Types'
      /\ UNCHANGED readerVars
  BY <1>0 DEF Writer, produce, notify_read, notify_compare, notify_inc,
      notify_write, notify_dec, WakeNeeded, NewWriterCnt
<1>2. CASE produce(w) \/ notify_read(w)
  BY <1>0, <1>1, <1>2 DEF produce, notify_read, Inv, CountersCovered,
      ResetCovered, StaleCovered, WorkCovered, AllSeen, PastReset, Covered
<1>3. CASE notify_compare(w)
  BY <1>0, <1>1, <1>3 DEF notify_compare, WakeNeeded, Inv, CountersCovered,
      ResetCovered, StaleCovered, WorkCovered, AllSeen, PastReset, Covered
<1>4. CASE notify_inc(w)
  BY <1>0, <1>1, <1>4 DEF notify_inc, NewWriterCnt, Inv, CountersCovered,
      ResetCovered, StaleCovered, WorkCovered, AllSeen, PastReset, Covered
<1>5. CASE notify_write(w)
  <2>1. bytes' > 0
    BY <1>0, <1>5 DEF notify_write
  <2>. QED
    BY <1>0, <1>1, <1>5, <2>1 DEF notify_write, Inv, CountersCovered,
      ResetCovered, StaleCovered, WorkCovered, AllSeen, PastReset, Covered
<1>6. CASE notify_dec(w)
  BY <1>0, <1>1, <1>6 DEF notify_dec, Inv, CountersCovered,
      ResetCovered, StaleCovered, WorkCovered, AllSeen, PastReset, Covered
<1>. QED
  BY <1>2, <1>3, <1>4, <1>5, <1>6 DEF Writer

\* Every step of the consumer, ev_pipe_reset() included, keeps the invariant.
LEMMA ReaderInv == ASSUME Inv, Reader PROVE Inv'
<1> USE EvPipeAssumption DEF Types, ReaderAt, writerVars
<1>0. /\ Types /\ CountersCovered /\ ResetCovered /\ StaleCovered
      /\ WorkCovered /\ AllSeen
  BY DEF Inv
<1>1. CASE wake \/ ev_pipe_drain
  BY <1>0, <1>1 DEF wake, ev_pipe_drain, Smaller, Inv, CountersCovered,
      ResetCovered, StaleCovered, WorkCovered, AllSeen, PastReset, Covered
<1>2. CASE reset_load
  BY <1>0, <1>2 DEF reset_load, Inv, CountersCovered,
      ResetCovered, StaleCovered, WorkCovered, AllSeen, PastReset, Covered
<1>3. CASE reset_store
  BY <1>0, <1>3 DEF reset_store, NextReaderCnt, Inv, CountersCovered,
      ResetCovered, StaleCovered, WorkCovered, AllSeen, PastReset, Covered
<1>4. CASE \E w \in Writers : consume(w)
  BY <1>0, <1>4 DEF consume, Inv, CountersCovered,
      ResetCovered, StaleCovered, WorkCovered, AllSeen, PastReset, Covered
<1>5. CASE sleep
  BY <1>0, <1>5 DEF sleep, Inv, CountersCovered,
      ResetCovered, StaleCovered, WorkCovered, AllSeen, PastReset, Covered
<1>. QED
  BY <1>1, <1>2, <1>3, <1>4, <1>5 DEF Reader

\* The consumer never sleeps on work that nobody is going to wake it for: the
\* unlocked counters of ev_pipe_notify() and ev_pipe_reset() suppress only
\* wakeups that somebody else provides.
THEOREM NoLostWakeupCorrect == Spec => []NoLostWakeup
<1>1. Inv /\ [Next]_vars => Inv'
  <2>1. Inv /\ UNCHANGED vars => Inv'
    BY DEF vars, writerVars, readerVars, Inv, Types, CountersCovered,
        ResetCovered, StaleCovered, WorkCovered, AllSeen, PastReset, Covered
  <2>. QED
    BY <2>1, WriterInv, ReaderInv DEF Next
<1>2. Inv => NoLostWakeup
  BY DEF Inv, WorkCovered, AllSeen, NoLostWakeup, PastReset
<1>. QED
  BY InitInv, <1>1, <1>2, PTL DEF Spec
-------------------------------------------------------------------------------
(***************************************************************************)
(* The control interface for any files, any requests, any size of the ring *)
(* and any number of scans of init/.  First where the threads are: which   *)
(* of them can be at a request, and when both.                             *)
(***************************************************************************)
IsRequest(r) ==
    r \in [at : {r.at}, name : {r.name}, file : {r.file}, want : {r.want}, req : {r.req},
           fd : {r.fd}, op_num : {r.op_num}, alone : BOOLEAN]
Requests == proc = [p \in Procs |-> proc[p]] /\ \A p \in Procs : IsRequest(proc[p])

Loops ==
    /\ server \in Procs /\ serving \subseteq Procs /\ unread = [p \in Procs |-> unread[p]]
    /\ \A p \in Procs : unread[p] # <<>> => p \in serving
    /\ "util" \in serving => server = "util" \/ overtaken
    /\ "main" \in serving => server = "main"

Places ==
    /\ Requests /\ Loops
    /\ ~At("util", "idle") => "util" \in serving
    /\ ~At("main", "idle") => "main" \in serving \/ proc["main"].name = "init"

\* What the fields of a request are after each of its steps.
LEMMA RequestUpdates ==
    ASSUME NEW r, IsRequest(r), NEW x, NEW b \in BOOLEAN
    PROVE  /\ IsRequest([r EXCEPT !.at = "parse", !.want = x])
           /\ IsRequest([r EXCEPT !.at = "open", !.req = x])
           /\ IsRequest([r EXCEPT !.at = "scan", !.fd = x])
           /\ IsRequest([r EXCEPT !.at = "rename", !.fd = "none"])
           /\ IsRequest([r EXCEPT !.at = "stored", !.op_num = x])
           /\ IsRequest([r EXCEPT !.fd = x])
           /\ IsRequest([r EXCEPT !.alone = b])
           /\ IsRequest(Freed(r))
           /\ IsRequest(Idle)
<1>1. ASSUME NEW q, q = [r EXCEPT !.at = "parse", !.want = x] PROVE IsRequest(q)
  BY <1>1 DEF IsRequest
<1>2. ASSUME NEW q, q = [r EXCEPT !.at = "open", !.req = x] PROVE IsRequest(q)
  BY <1>2 DEF IsRequest
<1>3. ASSUME NEW q, q = [r EXCEPT !.at = "scan", !.fd = x] PROVE IsRequest(q)
  BY <1>3 DEF IsRequest
<1>4. ASSUME NEW q, q = [r EXCEPT !.at = "rename", !.fd = "none"] PROVE IsRequest(q)
  BY <1>4 DEF IsRequest
<1>5. ASSUME NEW q, q = [r EXCEPT !.at = "stored", !.op_num = x] PROVE IsRequest(q)
  BY <1>5 DEF IsRequest
<1>6. ASSUME NEW q, q = [r EXCEPT !.fd = x] PROVE IsRequest(q)
  BY <1>6 DEF IsRequest
<1>7. ASSUME NEW q, q = [r EXCEPT !.alone = b] PROVE IsRequest(q)
  BY <1>7 DEF IsRequest
<1>8. ASSUME NEW q, q = Freed(r) PROVE IsRequest(q)
  BY <1>8 DEF IsRequest, Freed, Handle
<1>9. ASSUME NEW q, q = Idle PROVE IsRequest(q)
  BY <1>9 DEF IsRequest, Idle, Handle
<1>. QED
  BY <1>1, <1>2, <1>3, <1>4, <1>5, <1>6, <1>7, <1>8, <1>9

\* The other thread keeps its place, its request and whether it is alone: a
\* step of p changes at most what its descriptor refers to.
Undisturbed(p) ==
    \A q \in Procs : q # p =>
       /\ proc'[q].at = proc[q].at /\ proc'[q].name = proc[q].name /\ proc'[q].req = proc[q].req
       /\ proc'[q].want = proc[q].want /\ proc'[q].alone = proc[q].alone
       /\ proc'[q].op_num = proc[q].op_num

\* A step of a request replaces the record of its thread.
LEMMA OwnStep ==
    ASSUME Requests, NEW p \in Procs, NEW r, IsRequest(r), proc' = [proc EXCEPT ![p] = r]
    PROVE  /\ Requests' /\ proc'[p] = r /\ Undisturbed(p)
           /\ \A q \in Procs : q # p => proc'[q] = proc[q]
  BY DEF Requests, Undisturbed

\* The record of a thread after a step of its request.
LEMMA StepRecord ==
    ASSUME Requests, NEW p \in Procs, process_request(p)
    PROVE  /\ Requests' /\ Undisturbed(p) /\ ~At(p, "idle")
           /\ \/ proc'[p] = Idle
              \/ proc'[p].name = proc[p].name /\ proc'[p].alone = proc[p].alone
<1>. DEFINE r == proc[p]
<1>0. IsRequest(r)
  BY DEF Requests
<1>r. /\ \A x : [r EXCEPT !.at = "parse", !.want = x].name = r.name
      /\ \A x : [r EXCEPT !.at = "parse", !.want = x].alone = r.alone
      /\ \A x : [r EXCEPT !.at = "open", !.req = x].name = r.name
      /\ \A x : [r EXCEPT !.at = "open", !.req = x].alone = r.alone
      /\ \A x : [r EXCEPT !.at = "scan", !.fd = x].name = r.name
      /\ \A x : [r EXCEPT !.at = "scan", !.fd = x].alone = r.alone
      /\ [r EXCEPT !.at = "rename", !.fd = "none"].name = r.name
      /\ [r EXCEPT !.at = "rename", !.fd = "none"].alone = r.alone
      /\ \A x : [r EXCEPT !.at = "stored", !.op_num = x].name = r.name
      /\ \A x : [r EXCEPT !.at = "stored", !.op_num = x].alone = r.alone
      /\ Freed(r).name = r.name /\ Freed(r).alone = r.alone
  BY <1>0 DEF IsRequest, Freed, Handle
<1>i. /\ \A x : IsRequest([r EXCEPT !.at = "parse", !.want = x])
      /\ \A x : IsRequest([r EXCEPT !.at = "open", !.req = x])
      /\ \A x : IsRequest([r EXCEPT !.at = "scan", !.fd = x])
      /\ IsRequest([r EXCEPT !.at = "rename", !.fd = "none"])
      /\ \A x : IsRequest([r EXCEPT !.at = "stored", !.op_num = x])
      /\ IsRequest(Freed(r)) /\ IsRequest(Idle)
  BY <1>0, RequestUpdates
<1>s. ASSUME NEW x, IsRequest(x), proc' = [proc EXCEPT ![p] = x], ~At(p, "idle"),
             x = Idle \/ (x.name = r.name /\ x.alone = r.alone)
      PROVE  /\ Requests' /\ Undisturbed(p) /\ ~At(p, "idle")
             /\ \/ proc'[p] = Idle
                \/ proc'[p].name = proc[p].name /\ proc'[p].alone = proc[p].alone
  BY <1>s, OwnStep
<1>. HIDE DEF r
<1>1. CASE open_and_read_input_file(p)
  <2>1. /\ At(p, "read")
        /\ \/ \E x : proc' = [proc EXCEPT ![p] = [r EXCEPT !.at = "parse", !.want = x]]
           \/ proc' = [proc EXCEPT ![p] = Freed(r)]
    BY <1>1 DEF open_and_read_input_file, Ends, r
  <2>2. ~At(p, "idle")
    BY <2>1 DEF At
  <2>3. CASE proc' = [proc EXCEPT ![p] = Freed(r)]
    BY <1>i, <1>r, <1>s, <2>2, <2>3
  <2>4. CASE \E x : proc' = [proc EXCEPT ![p] = [r EXCEPT !.at = "parse", !.want = x]]
    <3>1. PICK x : proc' = [proc EXCEPT ![p] = [r EXCEPT !.at = "parse", !.want = x]]
      BY <2>4
    <3>2. SUFFICES ASSUME NEW y, y = [r EXCEPT !.at = "parse", !.want = x]
                   PROVE  /\ Requests' /\ Undisturbed(p) /\ ~At(p, "idle")
                          /\ \/ proc'[p] = Idle
                             \/ proc'[p].name = proc[p].name /\ proc'[p].alone = proc[p].alone
      OBVIOUS
    <3>3. IsRequest(y) /\ y.name = r.name /\ y.alone = r.alone
      BY <1>i, <1>r, <3>2
    <3>. QED
      BY <1>s, <2>2, <3>1, <3>2, <3>3
  <2>. QED
    BY <2>1, <2>3, <2>4
<1>2. CASE parse_request(p)
  <2>1. /\ At(p, "parse")
        /\ \/ \E x : proc' = [proc EXCEPT ![p] = [r EXCEPT !.at = "open", !.req = x]]
           \/ proc' = [proc EXCEPT ![p] = Freed(r)]
    BY <1>2 DEF parse_request, Ends, r
  <2>2. ~At(p, "idle")
    BY <2>1 DEF At
  <2>3. CASE proc' = [proc EXCEPT ![p] = Freed(r)]
    BY <1>i, <1>r, <1>s, <2>2, <2>3
  <2>4. CASE \E x : proc' = [proc EXCEPT ![p] = [r EXCEPT !.at = "open", !.req = x]]
    <3>1. PICK x : proc' = [proc EXCEPT ![p] = [r EXCEPT !.at = "open", !.req = x]]
      BY <2>4
    <3>2. SUFFICES ASSUME NEW y, y = [r EXCEPT !.at = "open", !.req = x]
                   PROVE  /\ Requests' /\ Undisturbed(p) /\ ~At(p, "idle")
                          /\ \/ proc'[p] = Idle
                             \/ proc'[p].name = proc[p].name /\ proc'[p].alone = proc[p].alone
      OBVIOUS
    <3>3. IsRequest(y) /\ y.name = r.name /\ y.alone = r.alone
      BY <1>i, <1>r, <3>2
    <3>. QED
      BY <1>s, <2>2, <3>1, <3>2, <3>3
  <2>. QED
    BY <2>1, <2>3, <2>4
<1>3. CASE open_output_file(p)
  <2>1. At(p, "open") /\ proc' = [proc EXCEPT ![p] = [r EXCEPT !.at = "scan", !.fd = "tmp"]]
    BY <1>3 DEF open_output_file, Opened, r
  <2>2. ~At(p, "idle")
    BY <2>1 DEF At
  <2>3. SUFFICES ASSUME NEW y, y = [r EXCEPT !.at = "scan", !.fd = "tmp"]
                 PROVE  /\ Requests' /\ Undisturbed(p) /\ ~At(p, "idle")
                        /\ \/ proc'[p] = Idle
                           \/ proc'[p].name = proc[p].name /\ proc'[p].alone = proc[p].alone
    OBVIOUS
  <2>4. IsRequest(y) /\ y.name = r.name /\ y.alone = r.alone
    BY <1>i, <1>r, <2>3
  <2>. QED
    BY <1>s, <2>1, <2>2, <2>3, <2>4
<1>4. CASE scan_registry(p)
  <2>1. At(p, "scan") /\ proc' = [proc EXCEPT ![p] = [r EXCEPT !.at = "rename", !.fd = "none"]]
    BY <1>4 DEF scan_registry, r
  <2>2. ~At(p, "idle")
    BY <2>1 DEF At
  <2>3. SUFFICES ASSUME NEW y, y = [r EXCEPT !.at = "rename", !.fd = "none"]
                 PROVE  /\ Requests' /\ Undisturbed(p) /\ ~At(p, "idle")
                        /\ \/ proc'[p] = Idle
                           \/ proc'[p].name = proc[p].name /\ proc'[p].alone = proc[p].alone
    OBVIOUS
  <2>4. IsRequest(y) /\ y.name = r.name /\ y.alone = r.alone
    BY <1>i, <1>r, <2>3
  <2>. QED
    BY <1>s, <2>1, <2>2, <2>3, <2>4
<1>5. CASE rename_output_file(p)
  <2>1. At(p, "rename")
    BY <1>5 DEF rename_output_file
  <2>2. CASE r.req \in DOMAIN tmp
    <3>1. proc' = [q \in Procs |-> IF q = p THEN Freed(proc[q])
                                   ELSE [proc[q] EXCEPT !.fd = Renamed(q, r.req)]]
      BY <1>5, <2>2 DEF rename_output_file, r
    <3>2. /\ proc' = [q \in Procs |-> proc'[q]] /\ proc'[p] = Freed(r)
          /\ \A q \in Procs : q # p => proc'[q] = [proc[q] EXCEPT !.fd = Renamed(q, r.req)]
      BY <3>1 DEF r
    <3>3. ASSUME NEW q \in Procs, q # p
          PROVE  /\ IsRequest(proc'[q]) /\ proc'[q].at = proc[q].at /\ proc'[q].name = proc[q].name
                 /\ proc'[q].req = proc[q].req /\ proc'[q].want = proc[q].want
                 /\ proc'[q].alone = proc[q].alone /\ proc'[q].op_num = proc[q].op_num
      <4>1. IsRequest(proc[q]) /\ proc'[q] = [proc[q] EXCEPT !.fd = Renamed(q, r.req)]
        BY <3>2, <3>3 DEF Requests
      <4>2. ASSUME NEW x, NEW v, IsRequest(x)
            PROVE  LET y == [x EXCEPT !.fd = v]
                   IN  /\ IsRequest(y) /\ y.at = x.at /\ y.name = x.name /\ y.req = x.req
                       /\ y.want = x.want /\ y.alone = x.alone /\ y.op_num = x.op_num
        BY <4>2, RequestUpdates DEF IsRequest
      <4>. QED
        BY <4>1, <4>2
    <3>4. IsRequest(Freed(r))
      BY <1>i
    <3>5. proc'[p].name = proc[p].name /\ proc'[p].alone = proc[p].alone
      BY <1>r, <3>2 DEF r
    <3>. QED
      BY <2>1, <3>2, <3>3, <3>4, <3>5 DEF Requests, Undisturbed, At
  <2>3. CASE r.req \notin DOMAIN tmp
    <3>1. proc' = [proc EXCEPT ![p] = Freed(r)]
      BY <1>5, <2>3 DEF rename_output_file, Ends, r
    <3>. QED
      BY <1>i, <1>r, <1>s, <2>1, <3>1 DEF At
  <2>. QED
    BY <2>2, <2>3
<1>6. CASE count_completed_op(p)
  <2>1. /\ At(p, "store")
        /\ \E x : proc' = [proc EXCEPT ![p] = [r EXCEPT !.at = "stored", !.op_num = x]]
    BY <1>6 DEF count_completed_op, r
  <2>2. ~At(p, "idle")
    BY <2>1 DEF At
  <2>3. PICK x : proc' = [proc EXCEPT ![p] = [r EXCEPT !.at = "stored", !.op_num = x]]
    BY <2>1
  <2>4. SUFFICES ASSUME NEW y, y = [r EXCEPT !.at = "stored", !.op_num = x]
                 PROVE  /\ Requests' /\ Undisturbed(p) /\ ~At(p, "idle")
                        /\ \/ proc'[p] = Idle
                           \/ proc'[p].name = proc[p].name /\ proc'[p].alone = proc[p].alone
    OBVIOUS
  <2>5. IsRequest(y) /\ y.name = r.name /\ y.alone = r.alone
    BY <1>i, <1>r, <2>4
  <2>. QED
    BY <1>s, <2>2, <2>3, <2>4, <2>5
<1>7. CASE store_completed_op(p)
  <2>1. At(p, "stored") /\ proc' = [proc EXCEPT ![p] = Idle]
    BY <1>7 DEF store_completed_op
  <2>. QED
    BY <1>i, <1>s, <2>1 DEF At
<1>. QED
  BY <1>1, <1>2, <1>3, <1>4, <1>5, <1>6, <1>7 DEF process_request

\* A thread that begins a request is not alone if the other one is at one, and
\* then the other one is no longer.
LEMMA Beginning ==
    ASSUME Requests, NEW p \in Procs, NEW n, NEW file, Begins(p, Handle(n, file))
    PROVE  /\ Requests' /\ proc'[p].at = "read" /\ proc'[p].name = n
           /\ proc'[p].alone <=> \A q \in Procs \ {p} : At(q, "idle")
           /\ \A q \in Procs : q # p =>
                 \/ At(q, "idle") /\ proc'[q] = proc[q]
                 \/ /\ ~At(q, "idle") /\ proc'[q].at = proc[q].at /\ proc'[q].name = proc[q].name
                    /\ proc'[q].req = proc[q].req /\ proc'[q].op_num = proc[q].op_num
                    /\ proc'[q].fd = proc[q].fd /\ ~proc'[q].alone
<1>. DEFINE b == \A q \in Procs \ {p} : At(q, "idle")
<1>1. ASSUME NEW x, x = [Handle(n, file) EXCEPT !.alone = b]
      PROVE  IsRequest(x) /\ x.at = "read" /\ x.name = n /\ (x.alone <=> b)
  <2>1. b \in BOOLEAN
    OBVIOUS
  <2>. HIDE DEF b
  <2>. QED
    BY <1>1, <2>1 DEF IsRequest, Handle
<1>2. proc' = [q \in Procs |-> proc'[q]] /\ proc'[p] = [Handle(n, file) EXCEPT !.alone = b]
  BY DEF Begins
<1>3. ASSUME NEW q \in Procs, q # p
      PROVE  /\ IsRequest(proc'[q])
             /\ \/ At(q, "idle") /\ proc'[q] = proc[q]
                \/ /\ ~At(q, "idle") /\ proc'[q].at = proc[q].at /\ proc'[q].name = proc[q].name
                   /\ proc'[q].req = proc[q].req /\ proc'[q].op_num = proc[q].op_num
                   /\ proc'[q].fd = proc[q].fd /\ ~proc'[q].alone
  <2>1. proc'[q] = IF At(q, "idle") THEN proc[q] ELSE [proc[q] EXCEPT !.alone = FALSE]
    BY <1>3 DEF Begins
  <2>2. IsRequest(proc[q])
    BY DEF Requests
  <2>3. ASSUME NEW x, IsRequest(x)
        PROVE  LET y == [x EXCEPT !.alone = FALSE]
               IN  /\ IsRequest(y) /\ y.at = x.at /\ y.name = x.name /\ y.req = x.req
                   /\ y.op_num = x.op_num /\ y.fd = x.fd /\ ~y.alone
    BY <2>3 DEF IsRequest
  <2>. QED
    BY <2>1, <2>2, <2>3
<1>4. Requests'
  BY <1>1, <1>2, <1>3 DEF Requests
<1>. QED
  BY <1>1, <1>2, <1>3, <1>4


\* What the fields of a thread's record are after each step of its request.
LEMMA StepFields ==
    ASSUME Requests, NEW p \in Procs, process_request(p)
    PROVE  LET r == proc[p]
               s == proc'[p]
           IN  \/ /\ open_and_read_input_file(p) /\ s.at = "parse" /\ s.want = buffer'
               \/ open_and_read_input_file(p) /\ s.at = "store"
               \/ /\ parse_request(p) /\ s.at = "open" /\ s.req = buffer /\ s.want = r.want
               \/ parse_request(p) /\ s.at = "store"
               \/ /\ open_output_file(p) /\ s.at = "scan" /\ s.fd = "tmp" /\ s.req = r.req
                  /\ s.want = r.want
               \/ /\ scan_registry(p) /\ s.at = "rename" /\ s.req = r.req /\ s.want = r.want
               \/ /\ rename_output_file(p) /\ s.at = "store"
               \/ /\ count_completed_op(p) /\ s.at = "stored" /\ s.op_num = op_cnt
               \/ /\ store_completed_op(p) /\ s.at = "idle"
<1>. DEFINE r == proc[p]
<1>0. IsRequest(r)
  BY DEF Requests
<1>1. ASSUME NEW y, proc' = [proc EXCEPT ![p] = y] PROVE proc'[p] = y
  BY <1>1 DEF Requests
<1>2. Freed(r).at = "store" /\ Idle.at = "idle"
  BY <1>0 DEF IsRequest, Freed, Handle, Idle
<1>3. ASSUME NEW x, NEW y, y = [r EXCEPT !.at = "parse", !.want = x] PROVE y.at = "parse" /\ y.want = x
  BY <1>0, <1>3 DEF IsRequest
<1>4. ASSUME NEW x, NEW y, y = [r EXCEPT !.at = "open", !.req = x]
      PROVE  y.at = "open" /\ y.req = x /\ y.want = r.want
  BY <1>0, <1>4 DEF IsRequest
<1>5. ASSUME NEW y, y = [r EXCEPT !.at = "scan", !.fd = "tmp"]
      PROVE  y.at = "scan" /\ y.fd = "tmp" /\ y.req = r.req /\ y.want = r.want
  BY <1>0, <1>5 DEF IsRequest
<1>6. ASSUME NEW y, y = [r EXCEPT !.at = "rename", !.fd = "none"]
      PROVE  y.at = "rename" /\ y.req = r.req /\ y.want = r.want
  BY <1>0, <1>6 DEF IsRequest
<1>7. ASSUME NEW x, NEW y, y = [r EXCEPT !.at = "stored", !.op_num = x]
      PROVE  y.at = "stored" /\ y.op_num = x
  BY <1>0, <1>7 DEF IsRequest
<1>11. CASE open_and_read_input_file(p)
  <2>1. \/ proc' = [proc EXCEPT ![p] = [r EXCEPT !.at = "parse", !.want = buffer']]
        \/ proc' = [proc EXCEPT ![p] = Freed(r)]
    BY <1>11 DEF open_and_read_input_file, Ends
  <2>. HIDE DEF r
  <2>2. \/ proc'[p].at = "parse" /\ proc'[p].want = buffer'
        \/ proc'[p].at = "store"
    BY <1>1, <1>2, <1>3, <2>1
  <2>. QED
    BY <1>11, <2>2
<1>12. CASE parse_request(p)
  <2>1. \/ proc' = [proc EXCEPT ![p] = [r EXCEPT !.at = "open", !.req = buffer]]
        \/ proc' = [proc EXCEPT ![p] = Freed(r)]
    BY <1>12 DEF parse_request, Ends
  <2>2. CASE proc' = [proc EXCEPT ![p] = Freed(r)]
    BY <1>1, <1>2, <1>12, <2>2
  <2>3. CASE proc' = [proc EXCEPT ![p] = [r EXCEPT !.at = "open", !.req = buffer]]
    <3>1. SUFFICES ASSUME NEW y, y = [r EXCEPT !.at = "open", !.req = buffer]
                   PROVE  /\ proc'[p].at = "open" /\ proc'[p].req = buffer
                          /\ proc'[p].want = r.want
      BY <1>12
    <3>2. y.at = "open" /\ y.req = buffer /\ y.want = r.want
      BY <1>4, <3>1
    <3>3. proc'[p] = y
      BY <1>1, <2>3, <3>1
    <3>. QED
      BY <3>2, <3>3
  <2>. QED
    BY <2>1, <2>2, <2>3
<1>13. CASE open_output_file(p)
  <2>1. proc' = [proc EXCEPT ![p] = [r EXCEPT !.at = "scan", !.fd = "tmp"]]
    BY <1>13 DEF open_output_file, Opened
  <2>. QED
    BY <1>1, <1>5, <1>13, <2>1
<1>14. CASE scan_registry(p)
  <2>1. proc' = [proc EXCEPT ![p] = [r EXCEPT !.at = "rename", !.fd = "none"]]
    BY <1>14 DEF scan_registry
  <2>. QED
    BY <1>1, <1>6, <1>14, <2>1
<1>15. CASE rename_output_file(p)
  <2>1. proc'[p] = Freed(r)
    BY <1>1, <1>15 DEF rename_output_file, Ends
  <2>. QED
    BY <1>2, <1>15, <2>1
<1>16. CASE count_completed_op(p)
  <2>1. proc' = [proc EXCEPT ![p] = [r EXCEPT !.at = "stored", !.op_num = op_cnt]]
    BY <1>16 DEF count_completed_op
  <2>. QED
    BY <1>1, <1>7, <1>16, <2>1
<1>17. CASE store_completed_op(p)
  <2>1. proc' = [proc EXCEPT ![p] = Idle]
    BY <1>17 DEF store_completed_op
  <2>. QED
    BY <1>1, <1>2, <1>17, <2>1
<1>. QED
  BY <1>11, <1>12, <1>13, <1>14, <1>15, <1>16, <1>17 DEF process_request
\* A thread's step of another kind: it begins no request, or begins one.
LEMMA ServeStep ==
    ASSUME Requests, NEW p \in Procs, Serve(p)
    PROVE  /\ UNCHANGED proc \/ \E n, file : At(p, "idle") /\ Begins(p, Handle(n, file))
           /\ UNCHANGED <<opVars, outVars, buffer, stage, server, scan, overtaken>>
  BY DEF Serve, epoll_mgr_cb, read_events, read_nothing, handle_event

\* The main thread's steps in between, and the clients'.
Others ==
    \/ util_thread_unregister \/ lctli_prepare \/ lctli_enabled \/ init_subdir_rescan
    \/ lctli_subsystem_destroy
Clients ==
    \E n \in Names : OpenForWrite(n) \/ \E c \in Contents : CloseWritten(n, c) \/ MoveIn(n, c)

LEMMA OtherSteps ==
    ASSUME Others \/ Clients \/ UNCHANGED ctlVars
    PROVE  UNCHANGED <<proc, opVars, outVars, buffer>>
  BY DEF Others, util_thread_unregister, lctli_prepare, lctli_enabled, init_subdir_rescan,
         lctli_subsystem_destroy, Clients, OpenForWrite, CloseWritten, MoveIn, ctlVars

LEMMA InitStep ==
    ASSUME process_init_subdir
    PROVE  /\ At("main", "idle") /\ Begins("main", Handle("init", Head(scan)))
           /\ UNCHANGED <<opVars, outVars, buffer, server, serving, unread, overtaken>>
  BY DEF process_init_subdir, loopVars

\* The steps of the control interface, sorted by what they do to the requests.
LEMMA AllSteps ==
    ASSUME [CtlNext]_ctlVars
    PROVE  \/ \E p \in Procs : process_request(p)
           \/ \E p \in Procs : Serve(p)
           \/ process_init_subdir
           \/ Others \/ Clients \/ UNCHANGED ctlVars
  BY DEF CtlNext, Others, Clients

\* A request's step leaves the loops of the threads alone.
LEMMA RequestLeaves ==
    ASSUME NEW p \in Procs, process_request(p)
    PROVE  UNCHANGED serveVars
  BY DEF process_request, open_and_read_input_file, parse_request, open_output_file, scan_registry,
         rename_output_file, count_completed_op, store_completed_op

-------------------------------------------------------------------------------
(***************************************************************************)
(* The ring of completed operations: which of its entries are still those  *)
(* of the last operations.                                                 *)
(***************************************************************************)
Entry(k) == [op_num |-> k, op |-> k]
RingInv ==
    ~torn =>
       /\ op_cnt \in Nat /\ completed = op_cnt /\ DOMAIN cio = 0..OPS - 1
       /\ \A k \in Nat : k < op_cnt /\ op_cnt <= k + OPS => cio[k % OPS] = Entry(k)
       /\ \A p \in Procs : At(p, "stored") => proc[p].op_num = op_cnt
       /\ \A p, q \in Procs : At(p, "stored") /\ At(q, "stored") => p = q

\* The place of operation n in the ring.
LEMMA DivMod ==
    ASSUME NEW n \in Nat, NEW q, q = n \div OPS, NEW r, r = n % OPS
    PROVE  q \in Int /\ r \in 0..OPS - 1 /\ n = OPS * q + r
<1>1. OPS \in Nat /\ OPS > 0
  BY CtlAssumption
<1>. QED
  BY <1>1

\* Operations that are less than OPS apart do not share an entry.
LEMMA EntriesApart ==
    ASSUME NEW a \in Nat, NEW b \in Nat, a < b, b < a + OPS
    PROVE  a % OPS # b % OPS
<1>a. SUFFICES ASSUME NEW p, p = a \div OPS, NEW q, q = b \div OPS, NEW r, r = a % OPS,
                      r = b % OPS
               PROVE  FALSE
  OBVIOUS
<1>1. OPS \in Nat /\ OPS > 0
  BY CtlAssumption
<1>2. p \in Int /\ r \in 0..OPS - 1 /\ a = OPS * p + r
  BY <1>a, DivMod
<1>3. q \in Int /\ r \in 0..OPS - 1 /\ b = OPS * q + r
  BY <1>a, DivMod
<1>4. OPS * q - OPS * p = b - a
  BY <1>1, <1>2, <1>3
<1>5. OPS * q - OPS * p = OPS * (q - p)
  BY <1>1, <1>2, <1>3
<1>6. CASE q - p <= 0
  <2>1. OPS * (q - p) <= 0
    BY <1>1, <1>2, <1>3, <1>6
  <2>. QED
    BY <1>4, <1>5, <2>1
<1>7. CASE q - p >= 1
  <2>1. OPS * (q - p) >= OPS
    BY <1>1, <1>2, <1>3, <1>7
  <2>. QED
    BY <1>1, <1>4, <1>5, <2>1
<1>. QED
  BY <1>2, <1>3, <1>6, <1>7

\* The oldest entry is OPS operations before the next one, and in the same place.
LEMMA OldestEntry ==
    ASSUME NEW n \in Nat, n >= OPS, NEW i \in 0..OPS - 1
    PROVE  ((n % OPS) + i) % OPS = (n - OPS + i) % OPS
<1>a. SUFFICES ASSUME NEW p, p = n \div OPS, NEW r, r = n % OPS
               PROVE  (r + i) % OPS = (n - OPS + i) % OPS
  OBVIOUS
<1>1. OPS \in Nat /\ OPS > 0
  BY CtlAssumption
<1>2. p \in Int /\ r \in 0..OPS - 1 /\ n = OPS * p + r
  BY <1>a, DivMod
<1>3. \A x \in Int, y \in 0..OPS - 1, z \in Int : x = OPS * z + y => x % OPS = y
  BY <1>1
<1>4. OPS * (p - 1) = OPS * p - OPS
  BY <1>1, <1>2
<1>5. OPS * (p - 1) \in Int /\ OPS * p \in Int
  BY <1>1, <1>2
<1>6. CASE r + i < OPS
  <2>1. n - OPS + i = OPS * (p - 1) + (r + i)
    BY <1>1, <1>2, <1>4, <1>5
  <2>2. (n - OPS + i) % OPS = r + i
    BY <1>1, <1>2, <1>3, <1>6, <2>1
  <2>3. (r + i) % OPS = r + i
    BY <1>1, <1>2, <1>3, <1>6
  <2>. QED
    BY <2>2, <2>3
<1>7. CASE r + i >= OPS
  <2>1. n - OPS + i = OPS * p + (r + i - OPS)
    BY <1>1, <1>2, <1>5
  <2>2. (n - OPS + i) % OPS = r + i - OPS
    <3>1. n - OPS + i \in Int /\ r + i - OPS \in 0..OPS - 1
      BY <1>1, <1>2, <1>7
    <3>. QED
      BY <1>2, <1>3, <2>1, <3>1
  <2>3. (r + i) % OPS = r + i - OPS
    <3>1. r + i = OPS * 1 + (r + i - OPS)
      BY <1>1, <1>2
    <3>. QED
      BY <1>1, <1>2, <1>3, <1>7, <3>1
  <2>. QED
    BY <2>2, <2>3
<1>. QED
  BY <1>1, <1>2, <1>6, <1>7

\* Every step keeps the ring: only the second half of storing an operation
\* writes to it, and no other thread is between the halves then.
LEMMA RingStep ==
    ASSUME Requests, RingInv, [CtlNext]_ctlVars
    PROVE  Requests' /\ RingInv'
<1>1. ASSUME UNCHANGED opVars, Requests',
             \A p \in Procs : /\ proc'[p].at = "stored" => proc[p].at = "stored"
                              /\ proc'[p].at = "stored" => proc'[p].op_num = proc[p].op_num
      PROVE  Requests' /\ RingInv'
  BY <1>1 DEF RingInv, opVars, At
<1>2. ASSUME NEW p \in Procs, NEW n, NEW file, Begins(p, Handle(n, file)), UNCHANGED opVars
      PROVE  Requests' /\ RingInv'
  <2>1. /\ Requests' /\ proc'[p].at = "read"
        /\ \A q \in Procs : q # p => proc'[q].at = proc[q].at /\ proc'[q].op_num = proc[q].op_num
    BY <1>2, Beginning
  <2>. QED
    BY <1>1, <1>2, <2>1
<1>3. ASSUME NEW p \in Procs, store_completed_op(p) PROVE Requests' /\ RingInv'
  <2>0. process_request(p)
    BY <1>3 DEF process_request
  <2>1. Requests' /\ Undisturbed(p)
    BY <2>0, StepRecord
  <2>2. /\ At(p, "stored") /\ torn' = torn /\ completed' = completed + 1
        /\ op_cnt' = proc[p].op_num + 1
        /\ cio' = [cio EXCEPT ![proc[p].op_num % OPS] = [op_num |-> proc[p].op_num, op |-> completed]]
        /\ proc'[p].at = "idle"
    <3>1. proc' = [proc EXCEPT ![p] = Idle] /\ Idle.at = "idle"
      BY <1>3 DEF store_completed_op, Idle, Handle
    <3>. QED
      BY <1>3, <3>1 DEF store_completed_op, CioIndex, Requests
  <2>3. SUFFICES ASSUME ~torn PROVE RingInv'
    BY <2>1, <2>2 DEF RingInv
  <2>4. /\ op_cnt \in Nat /\ completed = op_cnt /\ proc[p].op_num = op_cnt
        /\ DOMAIN cio = 0..OPS - 1 /\ OPS \in Nat /\ OPS > 0 /\ op_cnt % OPS \in 0..OPS - 1
    BY <2>2, <2>3, CtlAssumption DEF RingInv
  <2>5. /\ op_cnt' = op_cnt + 1 /\ completed' = op_cnt + 1
        /\ cio' = [cio EXCEPT ![op_cnt % OPS] = Entry(op_cnt)]
    BY <2>2, <2>4 DEF Entry
  <2>6. ASSUME NEW k \in Nat, k < op_cnt + 1, op_cnt + 1 <= k + OPS
        PROVE  cio'[k % OPS] = Entry(k)
    <3>1. k % OPS \in 0..OPS - 1
      BY <2>4
    <3>2. CASE k = op_cnt
      BY <2>4, <2>5, <3>2
    <3>3. CASE k < op_cnt
      <4>1. k % OPS # op_cnt % OPS
        BY <2>4, <2>6, <3>3, EntriesApart
      <4>2. cio[k % OPS] = Entry(k)
        BY <2>3, <2>4, <2>6, <3>3 DEF RingInv
      <4>3. cio'[k % OPS] = cio[k % OPS]
        BY <2>4, <2>5, <3>1, <4>1
      <4>. QED
        BY <4>2, <4>3
    <3>. QED
      BY <2>4, <2>6, <3>2, <3>3
  <2>7. \A q \in Procs : ~At(q, "stored")'
    <3>1. \A q \in Procs : q # p => ~At(q, "stored")
      BY <2>2, <2>3 DEF RingInv
    <3>. QED
      BY <2>1, <2>2, <3>1 DEF Undisturbed, At
  <2>8. DOMAIN cio' = 0..OPS - 1
    BY <2>4, <2>5
  <2>9. \A k \in Nat : k < op_cnt' /\ op_cnt' <= k + OPS => cio'[k % OPS] = Entry(k)
    BY <2>5, <2>6
  <2>10. op_cnt' \in Nat /\ completed' = op_cnt'
    BY <2>4, <2>5
  <2>. QED
    BY <2>7, <2>8, <2>9, <2>10 DEF RingInv
<1>4. ASSUME NEW p \in Procs, count_completed_op(p) PROVE Requests' /\ RingInv'
  <2>0. process_request(p)
    BY <1>4 DEF process_request
  <2>1. Requests' /\ Undisturbed(p)
    BY <2>0, StepRecord
  <2>2. /\ UNCHANGED <<op_cnt, cio, completed>>
        /\ torn' = (torn \/ \E q \in Procs \ {p} : At(q, "stored"))
        /\ proc' = [proc EXCEPT ![p] = [proc[p] EXCEPT !.at = "stored", !.op_num = op_cnt]]
    BY <1>4 DEF count_completed_op
  <2>3. proc'[p].op_num = op_cnt
    <3>1. IsRequest(proc[p])
      BY DEF Requests
    <3>2. ASSUME NEW x, IsRequest(x) PROVE [x EXCEPT !.at = "stored", !.op_num = op_cnt].op_num = op_cnt
      BY <3>2 DEF IsRequest
    <3>. QED
      BY <2>2, <3>1, <3>2 DEF Requests
  <2>4. SUFFICES ASSUME ~torn' PROVE RingInv'
    BY <2>1 DEF RingInv
  <2>5. ~torn /\ \A q \in Procs : q # p => ~At(q, "stored")
    BY <2>2, <2>4
  <2>6. \A q \in Procs : q # p => ~At(q, "stored")'
    BY <2>1, <2>5 DEF Undisturbed, At
  <2>. QED
    BY <2>2, <2>3, <2>5, <2>6 DEF RingInv, At
<1>5. ASSUME NEW p \in Procs, process_request(p) PROVE Requests' /\ RingInv'
  <2>1. Requests' /\ Undisturbed(p)
    BY <1>5, StepRecord
  <2>2. CASE \/ open_and_read_input_file(p) \/ parse_request(p) \/ open_output_file(p)
             \/ scan_registry(p) \/ rename_output_file(p)
    <3>1. UNCHANGED opVars
      BY <2>2 DEF open_and_read_input_file, parse_request, open_output_file, scan_registry,
                  rename_output_file
    <3>2. proc'[p].at # "stored" \/ count_completed_op(p)
      BY <1>5, StepFields
    <3>. QED
      BY <1>1, <1>4, <2>1, <3>1, <3>2 DEF Undisturbed
  <2>. QED
    BY <1>3, <1>4, <1>5, <2>2 DEF process_request
<1>6. ASSUME NEW p \in Procs, Serve(p) PROVE Requests' /\ RingInv'
  <2>1. UNCHANGED opVars
    BY <1>6, ServeStep
  <2>2. CASE UNCHANGED proc
    BY <1>1, <2>1, <2>2 DEF Requests
  <2>3. CASE \E n, file : At(p, "idle") /\ Begins(p, Handle(n, file))
    BY <1>2, <2>1, <2>3
  <2>. QED
    BY <1>6, <2>2, <2>3, ServeStep
<1>7. ASSUME process_init_subdir PROVE Requests' /\ RingInv'
  BY <1>2, <1>7, InitStep DEF Procs
<1>8. ASSUME Others \/ Clients \/ UNCHANGED ctlVars PROVE Requests' /\ RingInv'
  <2>1. UNCHANGED <<proc, opVars>>
    BY <1>8, OtherSteps
  <2>. QED
    BY <1>1, <2>1 DEF Requests
<1>. QED
  BY <1>5, <1>6, <1>7, <1>8, AllSteps

\* At the start no thread is at a request.
LEMMA InitRequests == CtlInit => Requests /\ \A p \in Procs : proc[p] = Idle
<1>1. IsRequest(Idle)
  BY DEF IsRequest, Idle, Handle
<1>. QED
  BY <1>1 DEF CtlInit, Requests

\* lctli_store_completed_op() and lctli_lreg_op_history_lreg_cb(): the history
\* of operations shows the last ones, the oldest first, however often the ring
\* has wrapped, for any size of the ring, until two threads have been storing
\* an operation at the same time.
THEOREM HistoryCorrect == CtlSpec => []HistoryExact
<1>1. CtlInit => Requests /\ RingInv
  <2>. SUFFICES ASSUME CtlInit PROVE Requests /\ RingInv
    OBVIOUS
  <2>1. \A p \in Procs : ~At(p, "stored")
    BY InitRequests DEF At, Idle, Handle
  <2>. QED
    BY <2>1, InitRequests, CtlAssumption DEF CtlInit, RingInv
<1>2. Requests /\ RingInv /\ [CtlNext]_ctlVars => Requests' /\ RingInv'
  BY RingStep
<1>3. ASSUME RingInv PROVE HistoryExact
  <2>. SUFFICES ASSUME ~torn, NEW i \in 0..(op_hist_sz - 1)
                PROVE  op_history(i) = Entry(completed - op_hist_sz + i)
    BY <1>3 DEF HistoryExact, RingInv, Entry
  <2>1. /\ op_cnt \in Nat /\ completed = op_cnt /\ OPS \in Nat /\ OPS > 0
        /\ \A k \in Nat : k < op_cnt /\ op_cnt <= k + OPS => cio[k % OPS] = Entry(k)
    BY <1>3, CtlAssumption DEF RingInv
  <2>2. CASE op_cnt < OPS
    <3>1. op_hist_sz = op_cnt /\ base_idx = 0
      BY <2>1, <2>2 DEF op_hist_sz, base_idx
    <3>2. i \in Nat /\ i < op_cnt /\ op_cnt <= i + OPS
      BY <2>1, <2>2, <3>1
    <3>3. cio[i % OPS] = Entry(i)
      BY <2>1, <3>2
    <3>4. base_idx + i = i /\ completed - op_hist_sz + i = i
      BY <2>1, <3>1, <3>2
    <3>. QED
      BY <3>3, <3>4 DEF op_history
  <2>3. CASE op_cnt >= OPS
    <3>1. op_hist_sz = OPS /\ base_idx = op_cnt % OPS
      BY <2>1, <2>3 DEF op_hist_sz, base_idx
    <3>2. /\ op_cnt - OPS + i \in Nat /\ op_cnt - OPS + i < op_cnt
          /\ op_cnt <= (op_cnt - OPS + i) + OPS /\ i \in 0..OPS - 1
      BY <2>1, <2>3, <3>1
    <3>3. cio[(op_cnt - OPS + i) % OPS] = Entry(op_cnt - OPS + i)
      BY <2>1, <3>2
    <3>4. (base_idx + i) % OPS = (op_cnt - OPS + i) % OPS
      BY <2>1, <2>3, <3>1, <3>2, OldestEntry
    <3>. QED
      BY <2>1, <3>1, <3>3, <3>4 DEF op_history
  <2>. QED
    BY <2>1, <2>2, <2>3
<1>. QED
  BY <1>1, <1>2, <1>3, PTL DEF CtlSpec

-------------------------------------------------------------------------------
\* Every step keeps the places of the threads: a loop is entered only by the
\* thread that has the interface, and requests begin only in a loop or for init/.
LEMMA PlacesStep == Places /\ [CtlNext]_ctlVars => Places'
<1>. SUFFICES ASSUME Places, [CtlNext]_ctlVars PROVE Places'
  OBVIOUS
<1>0. Requests /\ Loops
  BY DEF Places
<1>1. ASSUME NEW p \in Procs, process_request(p) PROVE Places'
  <2>1. UNCHANGED <<server, serving, unread, overtaken>>
    BY <1>1, RequestLeaves DEF serveVars, loopVars
  <2>2. Requests' /\ Undisturbed(p) /\ ~At(p, "idle")
    BY <1>0, <1>1, StepRecord
  <2>3. proc'[p].at = "idle" \/ proc'[p].name = proc[p].name
    <3>1. Idle.at = "idle"
      BY DEF Idle, Handle
    <3>. QED
      BY <1>0, <1>1, <3>1, StepRecord
  <2>4. Loops'
    BY <1>0, <2>1 DEF Loops
  <2>. QED
    BY <2>1, <2>2, <2>3, <2>4 DEF Places, Undisturbed, At, Procs
<1>2. ASSUME NEW p \in Procs, epoll_mgr_cb(p) \/ read_events(p) \/ read_nothing(p) PROVE Places'
  <2>1. UNCHANGED <<proc, server, overtaken>> /\ At(p, "idle")
    BY <1>2 DEF epoll_mgr_cb, read_events, read_nothing, InLoop
  <2>2. CASE epoll_mgr_cb(p)
    <3>1. p = server /\ serving' = serving \cup {p} /\ UNCHANGED unread
      BY <2>2 DEF epoll_mgr_cb
    <3>. QED
      BY <1>0, <2>1, <3>1 DEF Places, Requests, Loops, At
  <2>3. CASE read_events(p)
    <3>1. p \in serving /\ unread' = [unread EXCEPT ![p] = events] /\ UNCHANGED serving
      BY <2>3 DEF read_events, InLoop
    <3>. QED
      BY <1>0, <2>1, <3>1 DEF Places, Requests, Loops, At
  <2>4. CASE read_nothing(p)
    <3>1. serving' = serving \ {p} /\ UNCHANGED unread /\ unread[p] = <<>>
      BY <2>4 DEF read_nothing, InLoop
    <3>. QED
      BY <1>0, <2>1, <3>1 DEF Places, Requests, Loops, At
  <2>. QED
    BY <1>2, <2>2, <2>3, <2>4
<1>3. ASSUME NEW p \in Procs, handle_event(p) PROVE Places'
  <2>1. /\ At(p, "idle") /\ unread[p] # <<>> /\ unread' = [unread EXCEPT ![p] = Tail(unread[p])]
        /\ Begins(p, Handle(Head(unread[p]), "ENOENT")) /\ UNCHANGED <<server, serving, overtaken>>
    BY <1>3 DEF handle_event
  <2>2. /\ Requests'
        /\ \A q \in Procs : q # p => proc'[q].at = proc[q].at /\ proc'[q].name = proc[q].name
    BY <1>0, <2>1, Beginning
  <2>3. p \in serving
    BY <1>0, <2>1 DEF Loops
  <2>4. Loops'
    BY <1>0, <2>1, <2>3 DEF Loops
  <2>. QED
    BY <2>1, <2>2, <2>3, <2>4 DEF Places, At, Procs
<1>4. CASE process_init_subdir
  <2>1. /\ At("main", "idle") /\ Begins("main", Handle("init", Head(scan)))
        /\ UNCHANGED <<server, serving, unread, overtaken>> /\ "main" \in Procs
    BY <1>4, InitStep DEF Procs
  <2>2. /\ Requests' /\ proc'["main"].name = "init"
        /\ \A q \in Procs : q # "main" => proc'[q].at = proc[q].at /\ proc'[q].name = proc[q].name
    BY <1>0, <2>1, Beginning
  <2>3. Loops'
    BY <1>0, <2>1 DEF Loops
  <2>. QED
    BY <2>1, <2>2, <2>3 DEF Places, At, Procs
<1>5. CASE util_thread_unregister
  <2>1. /\ server = "util" /\ server' = "main" /\ overtaken' = ("util" \in serving)
        /\ UNCHANGED <<proc, serving, unread>>
    BY <1>5 DEF util_thread_unregister, loopVars
  <2>. QED
    BY <1>0, <2>1 DEF Places, Requests, Loops, At, Procs
<1>6. CASE (Others /\ ~util_thread_unregister) \/ Clients \/ UNCHANGED ctlVars
  <2>1. UNCHANGED <<proc, server, serving, unread, overtaken>>
    BY <1>6 DEF Others, lctli_prepare, lctli_enabled, init_subdir_rescan, lctli_subsystem_destroy,
                Clients, OpenForWrite, CloseWritten, MoveIn, ctlVars, serveVars, loopVars
  <2>. QED
    BY <1>0, <2>1 DEF Places, Requests, Loops, At
<1>. QED
  BY <1>1, <1>2, <1>3, <1>4, <1>5, <1>6, AllSteps DEF Serve

LEMMA PlacesInit == CtlInit => Places
<1>. SUFFICES ASSUME CtlInit PROVE Places
  OBVIOUS
<1>1. Requests /\ \A p \in Procs : At(p, "idle")
  BY InitRequests DEF At, Idle, Handle
<1>. QED
  BY <1>1 DEF CtlInit, Places, Loops, Procs

\* lctli_util_thread_unregister() and lctli_init_subdir_rescan(): two threads
\* are at requests at the same time only if the main one is at a file of init/,
\* or the utility thread was in its loop when it lost the interface: those two
\* are all the ways in which the buffers of the interface come to be shared.
THEOREM OneThreadCorrect == CtlSpec => []OneThread
<1>1. Places => OneThread
  BY DEF Places, Loops, OneThread, Procs
<1>. QED
  BY <1>1, PlacesInit, PlacesStep, PTL DEF CtlSpec

-------------------------------------------------------------------------------
(***************************************************************************)
(* A request that is alone.  Nobody else touches the shared buffer, its    *)
(* temporary file or the file with its final name, although nothing keeps  *)
(* another thread from it: the other one would first begin a request.      *)
(***************************************************************************)
OwnAnswer(p) ==
    /\ At(p, "parse") => buffer = proc[p].want
    /\ At(p, "open") => proc[p].req = proc[p].want
    /\ At(p, "scan") => /\ proc[p].fd = "tmp" /\ proc[p].req = proc[p].want
                        /\ proc[p].req \in DOMAIN tmp /\ tmp[proc[p].req] = {}
    /\ At(p, "rename") => /\ proc[p].req = proc[p].want
                          /\ proc[p].req \in DOMAIN tmp /\ tmp[proc[p].req] = {p}

Apart(p) == ~At(p, "idle") /\ proc[p].alone => \A q \in Procs \ {p} : At(q, "idle")

\* A descriptor of a file that has its final name by now: not of an answer
\* that was published alone.
Borrowed(p) ==
    At(p, "scan") /\ proc[p].fd = "out" => /\ proc[p].req \in DOMAIN out
                                           /\ ~out[proc[p].req].alone

IsAnswer(x) ==
    x \in [by : {x.by}, want : {x.want}, alone : BOOLEAN, answers : {x.answers}]
Genuine(o) == IsAnswer(out[o]) /\ (out[o].alone => out[o].want = o /\ out[o].answers = {out[o].by})

AloneInv ==
    /\ \A p \in Procs : Apart(p) /\ (proc[p].alone => OwnAnswer(p)) /\ Borrowed(p)
    /\ \A o \in DOMAIN out : Genuine(o)

\* What a step of a request changes of the other thread's record: the file that
\* its descriptor refers to, and only a rename does.
LEMMA OthersFd ==
    ASSUME Requests, NEW p \in Procs, process_request(p), NEW q \in Procs, q # p
    PROVE  \/ proc'[q] = proc[q]
           \/ /\ rename_output_file(p) /\ proc[p].req \in DOMAIN tmp
              /\ proc'[q].fd = Renamed(q, proc[p].req)
<1>1. CASE rename_output_file(p)
  <2>1. CASE proc[p].req \in DOMAIN tmp
    <3>1. proc'[q] = [proc[q] EXCEPT !.fd = Renamed(q, proc[p].req)]
      BY <1>1, <2>1 DEF rename_output_file
    <3>2. ASSUME NEW x, NEW v, IsRequest(x) PROVE [x EXCEPT !.fd = v].fd = v
      BY <3>2 DEF IsRequest
    <3>3. IsRequest(proc[q])
      BY DEF Requests
    <3>. QED
      BY <1>1, <2>1, <3>1, <3>2, <3>3
  <2>2. CASE proc[p].req \notin DOMAIN tmp
    BY <1>1, <2>2 DEF rename_output_file, Ends, Requests
  <2>. QED
    BY <2>1, <2>2
<1>2. CASE ~rename_output_file(p)
  BY <1>2 DEF process_request, open_and_read_input_file, parse_request, open_output_file, Opened,
              scan_registry, count_completed_op, store_completed_op, Ends, Requests
<1>. QED
  BY <1>1, <1>2

\* A step of a request keeps what holds of requests that are alone: the other
\* thread is at none, or neither of them is alone.
LEMMA AloneStep ==
    ASSUME Requests, AloneInv, NEW p \in Procs, process_request(p)
    PROVE  AloneInv'
<1>. DEFINE r == proc[p]
            s == proc'[p]
            o == proc[p].req
<1>0. Undisturbed(p) /\ ~At(p, "idle") /\ Requests'
  BY StepRecord
<1>1. s.at = "idle" \/ s.alone = r.alone
  <2>1. Idle.at = "idle"
    BY DEF Idle, Handle
  <2>. QED
    BY <2>1, StepRecord
<1>2. ASSUME NEW q \in Procs, q # p PROVE At(q, "idle") \/ ~proc[q].alone
  BY <1>0, <1>2 DEF AloneInv, Apart
<1>3. ASSUME NEW q \in Procs, q # p PROVE Apart(q)' /\ (proc'[q].alone => OwnAnswer(q)')
  <2>1. proc'[q].at = proc[q].at /\ proc'[q].alone = proc[q].alone
    BY <1>0, <1>3 DEF Undisturbed
  <2>2. CASE At(q, "idle")
    BY <2>1, <2>2 DEF Apart, OwnAnswer, At
  <2>3. CASE ~proc[q].alone
    BY <2>1, <2>3 DEF Apart
  <2>. QED
    BY <1>2, <1>3, <2>2, <2>3
<1>4. Apart(p)'
  <2>1. \A q \in Procs \ {p} : proc'[q].at = proc[q].at
    BY <1>0 DEF Undisturbed
  <2>. QED
    BY <1>0, <1>1, <2>1 DEF AloneInv, Apart, At
<1>5. s.alone => OwnAnswer(p)'
  <2>. SUFFICES ASSUME s.at # "idle", r.alone PROVE OwnAnswer(p)'
    BY <1>1 DEF OwnAnswer, At
  <2>0. OwnAnswer(p)
    BY DEF AloneInv
  <2>1. CASE open_and_read_input_file(p)
    <3>1. \/ s.at = "parse" /\ s.want = buffer'
          \/ s.at = "store"
      BY <2>1, StepFields DEF open_and_read_input_file, parse_request, open_output_file,
            scan_registry, rename_output_file, count_completed_op, store_completed_op, At
    <3>. QED
      BY <3>1 DEF OwnAnswer, At
  <2>2. CASE parse_request(p)
    <3>1. /\ At(p, "parse")
          /\ \/ s.at = "open" /\ s.req = buffer /\ s.want = r.want
             \/ s.at = "store"
      BY <2>2, StepFields DEF open_and_read_input_file, parse_request, open_output_file,
            scan_registry, rename_output_file, count_completed_op, store_completed_op, At
    <3>. QED
      BY <2>0, <3>1 DEF OwnAnswer, At
  <2>3. CASE open_output_file(p)
    <3>1. At(p, "open") /\ s.at = "scan" /\ s.fd = "tmp" /\ s.req = r.req /\ s.want = r.want
      BY <2>3, StepFields DEF open_and_read_input_file, parse_request, open_output_file,
            scan_registry, rename_output_file, count_completed_op, store_completed_op, At
    <3>2. tmp' = Put(tmp, o, {})
      BY <2>3 DEF open_output_file
    <3>3. o \in DOMAIN tmp' /\ tmp'[o] = {}
      BY <3>2 DEF Put
    <3>. QED
      BY <2>0, <3>1, <3>3 DEF OwnAnswer, At
  <2>4. CASE scan_registry(p)
    <3>1. At(p, "scan") /\ s.at = "rename" /\ s.req = r.req /\ s.want = r.want
      BY <2>4, StepFields DEF open_and_read_input_file, parse_request, open_output_file,
            scan_registry, rename_output_file, count_completed_op, store_completed_op, At
    <3>2. r.fd = "tmp" /\ o \in DOMAIN tmp /\ tmp[o] = {} /\ o = r.want
      BY <2>0, <3>1 DEF OwnAnswer
    <3>3. PICK w \in Written(p, tmp[o]) : tmp' = [tmp EXCEPT ![o] = w]
      BY <2>4, <3>2 DEF scan_registry
    <3>4. w = {p}
      BY <3>2, <3>3 DEF Written
    <3>5. o \in DOMAIN tmp' /\ tmp'[o] = {p}
      BY <3>2, <3>3, <3>4
    <3>. QED
      BY <3>1, <3>2, <3>5 DEF OwnAnswer, At
  <2>5. CASE rename_output_file(p) \/ count_completed_op(p) \/ store_completed_op(p)
    <3>1. s.at \in {"store", "stored", "idle"}
      BY <2>5, StepFields DEF open_and_read_input_file, parse_request, open_output_file,
            scan_registry, rename_output_file, count_completed_op, store_completed_op, At
    <3>. QED
      BY <3>1 DEF OwnAnswer, At
  <2>. QED
    BY <2>1, <2>2, <2>3, <2>4, <2>5 DEF process_request
<1>6. Borrowed(p)'
  <2>1. s.at = "scan" => s.fd = "tmp"
    BY StepFields
  <2>. QED
    BY <2>1 DEF Borrowed, At
<1>7. CASE rename_output_file(p) /\ o \in DOMAIN tmp
  <2>1. /\ At(p, "rename") /\ out' = Put(out, o, Published(p, tmp[o]))
    BY <1>7 DEF rename_output_file
  <2>2. /\ DOMAIN out' = DOMAIN out \cup {o} /\ out'[o] = Published(p, tmp[o])
        /\ \A x \in DOMAIN out : x # o => out'[x] = out[x]
    BY <2>1 DEF Put
  <2>3. /\ IsAnswer(out'[o]) /\ out'[o].alone = r.alone
        /\ r.alone => out'[o].by = p /\ out'[o].want = r.want /\ out'[o].answers = tmp[o]
    <3>1. r.alone \in BOOLEAN
      <4>1. IsRequest(r)
        BY DEF Requests
      <4>. QED
        BY <4>1 DEF IsRequest
    <3>2. ASSUME NEW x, x = Published(p, tmp[o])
          PROVE  /\ IsAnswer(x) /\ x.alone = r.alone
                 /\ r.alone => x.by = p /\ x.want = r.want /\ x.answers = tmp[o]
      BY <3>1, <3>2 DEF Published, IsAnswer
    <3>. QED
      BY <2>2, <3>2
  <2>4. r.alone => r.req = r.want /\ tmp[o] = {p}
    BY <2>1 DEF AloneInv, OwnAnswer
  <2>5. ASSUME NEW x, x = o PROVE Genuine(x)'
    BY <2>3, <2>4, <2>5 DEF Genuine
  <2>6. \A x \in DOMAIN out : x # o => Genuine(x)'
    BY <2>2 DEF AloneInv, Genuine
  <2>7. ASSUME NEW q \in Procs, q # p, At(q, "scan")', proc'[q].fd = "out"
        PROVE  proc'[q].req \in DOMAIN out' /\ ~out'[proc'[q].req].alone
    <3>1. proc'[q].at = proc[q].at /\ proc'[q].req = proc[q].req
      BY <1>0, <2>7 DEF Undisturbed
    <3>2. ~r.alone
      <4>1. ~At(q, "idle")
        BY <2>7, <3>1 DEF At
      <4>. QED
        BY <1>0, <2>7, <4>1 DEF AloneInv, Apart
    <3>3. CASE proc[q].req = o
      BY <2>2, <2>3, <3>1, <3>2, <3>3
    <3>4. CASE proc[q].req # o
      <4>1. proc[q].fd = "out"
        BY <2>7, <3>4, OthersFd DEF Renamed
      <4>2. proc[q].req \in DOMAIN out /\ ~out[proc[q].req].alone
        BY <2>7, <3>1, <4>1 DEF AloneInv, Borrowed, At
      <4>. QED
        BY <2>2, <3>1, <3>4, <4>2
    <3>. QED
      BY <3>3, <3>4
  <2>8. \A x \in DOMAIN out' : Genuine(x)'
    BY <2>2, <2>5, <2>6
  <2>9. \A q \in Procs : q # p => Borrowed(q)'
    BY <2>7 DEF Borrowed
  <2>. QED
    BY <1>3, <1>4, <1>5, <1>6, <2>8, <2>9 DEF AloneInv
<1>8. CASE ~(rename_output_file(p) /\ o \in DOMAIN tmp)
  <2>1. \/ UNCHANGED out
        \/ /\ At(p, "scan") /\ r.fd = "out" /\ \E w : out' = [out EXCEPT ![o].answers = w]
    BY <1>8 DEF process_request, open_and_read_input_file, parse_request, open_output_file,
        scan_registry, rename_output_file, count_completed_op, store_completed_op, outVars
  <2>2. \A q \in Procs : q # p => proc'[q] = proc[q]
    BY <1>8, OthersFd
  <2>3. CASE UNCHANGED out
    BY <1>3, <1>4, <1>5, <1>6, <2>2, <2>3 DEF AloneInv, Borrowed, Genuine, At
  <2>4. CASE At(p, "scan") /\ r.fd = "out" /\ \E w : out' = [out EXCEPT ![o].answers = w]
    <3>1. o \in DOMAIN out /\ ~out[o].alone /\ IsAnswer(out[o])
      BY <2>4 DEF AloneInv, Borrowed, Genuine
    <3>2. PICK w : out' = [out EXCEPT ![o] = [out[o] EXCEPT !.answers = w]]
      BY <2>4
    <3>3. ASSUME NEW x, IsAnswer(x), ~x.alone, NEW y, y = [x EXCEPT !.answers = w]
          PROVE  IsAnswer(y) /\ ~y.alone
      BY <3>3 DEF IsAnswer
    <3>4. /\ DOMAIN out' = DOMAIN out /\ IsAnswer(out'[o]) /\ ~out'[o].alone
          /\ \A x \in DOMAIN out : x # o => out'[x] = out[x]
      BY <3>1, <3>2, <3>3
    <3>5. \A x \in DOMAIN out' : Genuine(x)'
      BY <3>4 DEF AloneInv, Genuine
    <3>6. ASSUME NEW q \in Procs, q # p PROVE Borrowed(q)'
      BY <2>2, <3>4, <3>6 DEF AloneInv, Borrowed, At
    <3>. QED
      BY <1>3, <1>4, <1>5, <1>6, <3>5, <3>6 DEF AloneInv
  <2>. QED
    BY <2>1, <2>3, <2>4
<1>. QED
  BY <1>7, <1>8

LEMMA AloneInit == CtlInit => AloneInv
<1>. SUFFICES ASSUME CtlInit PROVE AloneInv
  OBVIOUS
<1>1. \A p \in Procs : At(p, "idle")
  BY InitRequests DEF At, Idle, Handle
<1>2. DOMAIN out = {}
  BY DEF CtlInit
<1>. QED
  BY <1>1, <1>2 DEF AloneInv, Apart, OwnAnswer, Borrowed, At

LEMMA AloneNext == Requests /\ AloneInv /\ [CtlNext]_ctlVars => AloneInv'
<1>. SUFFICES ASSUME Requests, AloneInv, [CtlNext]_ctlVars PROVE AloneInv'
  OBVIOUS
<1>1. ASSUME NEW p \in Procs, NEW n, NEW file, At(p, "idle"), Begins(p, Handle(n, file)),
             UNCHANGED <<buffer, outVars>>
      PROVE  AloneInv'
  <2>1. /\ proc'[p].at = "read" /\ (proc'[p].alone <=> \A q \in Procs \ {p} : At(q, "idle"))
        /\ \A q \in Procs : q # p =>
              \/ At(q, "idle") /\ proc'[q] = proc[q]
              \/ /\ ~At(q, "idle") /\ proc'[q].at = proc[q].at /\ proc'[q].req = proc[q].req
                 /\ proc'[q].fd = proc[q].fd /\ ~proc'[q].alone
    BY <1>1, Beginning
  <2>2. Apart(p)' /\ OwnAnswer(p)' /\ Borrowed(p)'
    BY <2>1 DEF Apart, OwnAnswer, Borrowed, At
  <2>3. ASSUME NEW q \in Procs, q # p
        PROVE  Apart(q)' /\ (proc'[q].alone => OwnAnswer(q)') /\ Borrowed(q)'
    <3>1. CASE At(q, "idle")
      BY <2>1, <2>3, <3>1 DEF Apart, OwnAnswer, Borrowed, At
    <3>2. CASE ~At(q, "idle")
      <4>1. /\ proc'[q].at = proc[q].at /\ proc'[q].req = proc[q].req
            /\ proc'[q].fd = proc[q].fd /\ ~proc'[q].alone
        BY <2>1, <2>3, <3>2
      <4>. QED
        BY <1>1, <4>1 DEF AloneInv, Apart, Borrowed, At, outVars
    <3>. QED
      BY <3>1, <3>2
  <2>4. \A o \in DOMAIN out' : Genuine(o)'
    BY <1>1 DEF AloneInv, Genuine, outVars
  <2>. QED
    BY <2>2, <2>3, <2>4 DEF AloneInv
<1>2. ASSUME UNCHANGED <<proc, buffer, outVars>> PROVE AloneInv'
  BY <1>2 DEF AloneInv, Apart, OwnAnswer, Borrowed, Genuine, At, outVars
<1>3. ASSUME NEW p \in Procs, Serve(p) PROVE AloneInv'
  BY <1>1, <1>2, <1>3, ServeStep
<1>4. CASE process_init_subdir
  BY <1>1, <1>4, InitStep DEF Procs
<1>5. CASE Others \/ Clients \/ UNCHANGED ctlVars
  BY <1>2, <1>5, OtherSteps
<1>. QED
  BY <1>3, <1>4, <1>5, AloneStep, AllSteps

\* ctlic_open_output_file(), ctlic_scan_registry(), ctlic_rename_output_file():
\* a file with its final name that was published by a request that was alone is
\* one answer, that of the request, to what its own file held; and requests are
\* together only in the cases of OneThread.  Nothing is assumed of the clients,
\* of when the interface is taken from the utility thread, or of how often
\* init/ is scanned.
THEOREM AnswersCorrect == CtlSpec => []AnswersPublished
<1>1. Places /\ AloneInv => AnswersPublished
  BY DEF Places, Loops, AloneInv, Genuine, AnswersPublished, OneThread, Procs
<1>2. Places /\ AloneInv /\ [CtlNext]_ctlVars => AloneInv'
  BY AloneNext DEF Places
<1>. QED
  BY <1>1, <1>2, AloneInit, PlacesInit, PlacesStep, PTL DEF CtlSpec

\* The buffer of ctl_interface_cmd.c:43-45 (ctlicBuffer): what the comment about
\* the single set of buffers says holds of a request that is alone: it is
\* parsed from what its own file held.
BufferIsOursAlone ==
    \A p \in Procs : At(p, "parse") /\ proc[p].alone => buffer = proc[p].want

THEOREM BufferCorrect == CtlSpec => []BufferIsOursAlone
<1>1. AloneInv => BufferIsOursAlone
  BY DEF AloneInv, OwnAnswer, BufferIsOursAlone
<1>2. Places /\ AloneInv /\ [CtlNext]_ctlVars => AloneInv'
  BY AloneNext DEF Places
<1>. QED
  BY <1>1, <1>2, AloneInit, PlacesInit, PlacesStep, PTL DEF CtlSpec
================================================================================
