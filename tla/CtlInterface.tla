----------------------------- MODULE CtlInterface -----------------------------
(***************************************************************************)
(* The control interface of niova-core (src/src/ctl_interface.c), the life *)
(* of one of its requests (src/src/ctl_interface_cmd.c) and the files it   *)
(* reads (src/src/file_util.c).                                            *)
(*                                                                         *)
(* A client puts a request in the directory input/; inotify tells the      *)
(* thread that serves the interface, which reads the file, scans the       *)
(* registry, writes a temporary file in output/ and renames it to the name *)
(* that the request gave.  The requests of init/ are processed by the      *)
(* thread that starts the process, which may do so again later, and which  *)
(* may take the interface over from the utility thread.  Nothing keeps the *)
(* two threads from being at requests at the same time.  What a request    *)
(* selects is the subject of CtlRequest.                                   *)
(*                                                                         *)
(* An action is one system call, one access to the buffer that all the     *)
(* requests share, or one half of the storing of a completed operation.    *)
(***************************************************************************)
EXTENDS Naturals, Sequences, FiniteSets

CONSTANTS
    Names,        \* names that the files in input/ may have
    InitFiles,    \* the regular files of init/, a sequence of contents
    Contents,     \* what a client may write: see Content
    Leftover,     \* what input/ holds before the process starts
    OPS,          \* CTL_INTERFACE_COMPLETED_OP_CNT
    MaxWrites,    \* bound: how often clients write a file
    MaxEvents,    \* events that inotify queues (fs.inotify.max_queued_events)
    MaxRescans,   \* bound: how often the process scans init/ after its start
    Uuid          \* system_info_uuid_is_present()

\* A request names its output file, or it is refused: it is too long, it does
\* not parse, it has more than CTLIC_MAX_TOKENS_PER_REQ tokens, or it has no
\* OUTFILE.
Refused == {"E2BIG", "EBADMSG", "TOOMANY", "NOOUTFILE"}
NoFile == [ver |-> 0, req |-> "ENOENT"]
Empty(v) == [ver |-> v, req |-> "ENODATA"]

Procs == {"util", "main"}

\* The request that a thread is at: the handle it was called with, and of the
\* struct ctlic_request on its stack what it has by now.  `fd` says which file
\* the descriptor of its temporary file refers to: after a rename by the other
\* thread it is the one with the final name, or one that has no name.  Two
\* fields are history: `want`, what the file held when it was read, and
\* `alone`, whether the other thread has been at no request meanwhile.
Handle(n, file) == [at |-> "read", name |-> n, file |-> file, want |-> "none", req |-> "none",
                    fd |-> "none", op_num |-> 0, alone |-> TRUE]
Idle == [Handle("none", "none") EXCEPT !.at = "idle"]
NoOp == [op_num |-> 0, op |-> 0]

ASSUME CtlAssumption == OPS \in Nat \ {0} /\ MaxRescans \in Nat /\ "init" \notin Names

VARIABLES
    stage,      \* how far main() is: "prepare", "scan", "run", "end"
    server,     \* the thread that is called when there are events
    files,      \* what input/ holds under each name
    writing,    \* names that a client has open for writing
    watch,      \* is there a watch on input/?
    events,     \* the queue of inotify
    serving,    \* threads that are inside the loop that reads the events
    unread,     \* events that a read() of each thread took and that are yet to be handled
    scan,       \* files of init/ that main() has yet to process
    rescans,    \* how often main() has scanned init/ again, for the bound
    proc,       \* what each thread does
    buffer,     \* ctlicBuffer[CTLIC_INPUT_FILE]
    tmp, out,   \* temporary and final files in output/: whose answers they hold
    op_cnt, cio,\* lctli_op_cnt and lctli_cio
    dirs,       \* do the subdirectories exist?
    completed,  \* history: operations stored so far
    torn,       \* history: did two threads store operations at the same time?
    overtaken,  \* history: was the interface taken from a thread in its loop?
    seen,       \* history: the last version of each file that a request read
    lost        \* history: names whose event inotify had no room for

clientVars == <<files, writing>>
queueVars == <<watch, events, lost>>
loopVars == <<serving, unread>>
serveVars == <<stage, server, loopVars, scan, rescans, dirs, overtaken>>
opVars == <<op_cnt, cio, completed, torn>>
outVars == <<tmp, out>>
ctlVars == <<clientVars, queueVars, serveVars, proc, buffer, outVars, opVars, seen>>

\* lctli_op_cnt is 0, so are the entries.
CtlInit ==
    /\ stage = "prepare" /\ server = "util"
    /\ files \in [Names -> Leftover] /\ writing = {}
    /\ watch = FALSE /\ events = <<>> /\ lost = {}
    /\ serving = {} /\ unread = [p \in Procs |-> <<>>]
    /\ scan = <<>> /\ rescans = 0 /\ overtaken = FALSE
    /\ proc = [p \in Procs |-> Idle]
    /\ buffer = "none" /\ tmp = <<>> /\ out = <<>>
    /\ op_cnt = 0 /\ cio = [i \in 0..OPS - 1 |-> NoOp] /\ completed = 0
    /\ torn = FALSE
    /\ dirs = {}
    /\ seen = [n \in Names |-> 0]
-------------------------------------------------------------------------------
(***************************************************************************)
(* The clients.  They write a file in place or move a complete one into    *)
(* input/; inotify reports the close and the move, and merges an event     *)
(* with an equal one at the end of its queue.                              *)
(***************************************************************************)
Writes(v) == Cardinality({n \in Names : files[n].ver >= v})
Version == 1 + (CHOOSE v \in 0..MaxWrites :
                   Writes(v) > 0 /\ \A w \in (v + 1)..MaxWrites : Writes(w) = 0)
MayWrite == stage \in {"scan", "run"}

\* What the watch on input/ is for.  Mutant: not for files written in place.
Watched_moves == {"IN_MOVED_TO"}
Watched == {"IN_CLOSE_WRITE", "IN_MOVED_TO"}

\* What happens to the queue when inotify reports name n.  An overflow is an
\* event that names no file.
Overflow == "overflow"
Report(n, mask) ==
    IF ~watch \/ mask \notin Watched \/ (events # <<>> /\ events[Len(events)] = n) THEN UNCHANGED queueVars
    ELSE IF Len(events) < MaxEvents
         THEN events' = Append(events, n) /\ UNCHANGED <<watch, lost>>
    ELSE /\ events' = IF events[Len(events)] = Overflow THEN events ELSE Append(events, Overflow)
         /\ lost' = lost \cup {n} /\ UNCHANGED watch

OpenForWrite(n) ==
    /\ MayWrite /\ n \notin writing /\ Version <= MaxWrites
    /\ files' = [files EXCEPT ![n] = Empty(Version)]
    /\ writing' = writing \cup {n}
    /\ UNCHANGED <<queueVars, serveVars, proc, buffer, outVars, opVars, seen>>

CloseWritten(n, c) ==
    /\ n \in writing
    /\ files' = [files EXCEPT ![n] = [@ EXCEPT !.req = c]]
    /\ writing' = writing \ {n}
    /\ Report(n, "IN_CLOSE_WRITE")
    /\ UNCHANGED <<serveVars, proc, buffer, outVars, opVars, seen>>

MoveIn(n, c) ==
    /\ MayWrite /\ n \notin writing /\ Version <= MaxWrites
    /\ files' = [files EXCEPT ![n] = [ver |-> Version, req |-> c]]
    /\ Report(n, "IN_MOVED_TO")
    /\ UNCHANGED <<writing, serveVars, proc, buffer, outVars, opVars, seen>>
-------------------------------------------------------------------------------
(***************************************************************************)
(* ctlic_process_request() by thread p.                                    *)
(***************************************************************************)
At(p, at) == proc[p].at = at
Step(p, at) == proc' = [proc EXCEPT ![p].at = at]

\* ctlic_request_done(): of the request only the name is still needed.
Freed(r) == [Handle(r.name, "none") EXCEPT !.at = "store", !.alone = r.alone]
Ends(p) == proc' = [proc EXCEPT ![p] = Freed(@)]

\* The files of a directory with contents v under name o.
Put(dir, o, v) == [x \in DOMAIN dir \cup {o} |-> IF x = o THEN v ELSE dir[x]]

\* file_util_open_and_read(): the file is looked up and its size checked, then
\* its contents are read into the buffer, which was cleared before.
\* What the lookup refuses leaves the cleared buffer.
Readable(c) == c \notin {"ENOENT", "ENODATA", "E2BIG"}

\* The contents of the file of request r: what a client has written so far.
FileOf(r) == IF r.name \in Names THEN files[r.name] ELSE [ver |-> 0, req |-> r.file]

open_and_read_input_file(p) ==
    /\ At(p, "read")
    /\ LET f == FileOf(proc[p])
       IN /\ buffer' = IF Readable(f.req) THEN f.req ELSE "none"
          /\ seen' = IF proc[p].name \in Names THEN [seen EXCEPT ![proc[p].name] = f.ver] ELSE seen
          /\ IF Readable(f.req)
             THEN proc' = [proc EXCEPT ![p] = [@ EXCEPT !.at = "parse", !.want = f.req]]
             ELSE Ends(p)
    /\ UNCHANGED <<clientVars, queueVars, serveVars, outVars, opVars>>

\* ctlic_parse_request() and the search for OUTFILE: the request is what the
\* shared buffer holds by now.
parse_request(p) ==
    /\ At(p, "parse")
    /\ IF buffer \in Refused \cup {"none"} THEN Ends(p)
       ELSE proc' = [proc EXCEPT ![p] = [@ EXCEPT !.at = "open", !.req = buffer]]
    /\ UNCHANGED <<clientVars, queueVars, serveVars, buffer, outVars, opVars, seen>>

\* A file of output/ with its temporary or its final name is the set of the
\* threads whose answers left something in it.  Under its final name it also
\* has, as history, whether the request that published it was alone, and if so
\* which thread that was and what the request's file held.
Published(p, answers) ==
    LET mine == proc[p].alone
    IN  [by |-> IF mine THEN p ELSE "none", want |-> IF mine THEN proc[p].want ELSE "none",
         alone |-> mine, answers |-> answers]

Opened(p, fd) == proc' = [proc EXCEPT ![p] = [@ EXCEPT !.at = "scan", !.fd = fd]]

\* Mutant: the answer is written under its final name.
open_output_file_final(p) ==
    /\ At(p, "open")
    /\ out' = Put(out, proc[p].req, Published(p, {}))
    /\ Opened(p, "out")
    /\ UNCHANGED <<clientVars, queueVars, serveVars, buffer, tmp, opVars, seen>>

\* ctlic_open_output_file(): O_CREAT | O_TRUNC of the temporary file, which
\* the other thread may have open.
open_output_file(p) ==
    /\ At(p, "open")
    /\ tmp' = Put(tmp, proc[p].req, {})
    /\ Opened(p, "tmp")
    /\ UNCHANGED <<clientVars, queueVars, serveVars, buffer, out, opVars, seen>>

\* What a file holds after p has written an answer into it from the beginning.
Written(p, old) == {{p}, old \cup {p}}

\* ctlic_scan_registry(): the answer is written through the descriptor.  (An
\* error of a write cuts it short and is not reported.)
scan_registry(p) ==
    /\ At(p, "scan")
    /\ LET o == proc[p].req
       IN \/ /\ proc[p].fd = "tmp"
             /\ \E w \in Written(p, tmp[o]) : tmp' = [tmp EXCEPT ![o] = w]
             /\ UNCHANGED out
          \/ /\ proc[p].fd = "out"
             /\ \E w \in Written(p, out[o].answers) : out' = [out EXCEPT ![o].answers = w]
             /\ UNCHANGED tmp
          \/ proc[p].fd = "gone" /\ UNCHANGED outVars
    /\ proc' = [proc EXCEPT ![p] = [@ EXCEPT !.at = "rename", !.fd = "none"]]
    /\ UNCHANGED <<clientVars, queueVars, serveVars, buffer, opVars, seen>>

\* Where descriptor fd of another request for name o points after the rename.
Renamed(q, o) ==
    IF proc[q].req # o THEN proc[q].fd
    ELSE IF proc[q].fd = "tmp" THEN "out"
    ELSE IF proc[q].fd = "out" THEN "gone" ELSE proc[q].fd

\* ctlic_rename_output_file().
rename_output_file(p) ==
    /\ At(p, "rename")
    /\ LET o == proc[p].req
       IN IF o \in DOMAIN tmp
          THEN /\ out' = Put(out, o, Published(p, tmp[o]))
               /\ tmp' = [x \in DOMAIN tmp \ {o} |-> tmp[x]]
               /\ proc' = [q \in Procs |->
                             IF q = p THEN Freed(proc[q])
                             ELSE [proc[q] EXCEPT !.fd = Renamed(q, o)]]
          ELSE Ends(p) /\ UNCHANGED outVars
    /\ UNCHANGED <<clientVars, queueVars, serveVars, buffer, opVars, seen>>

\* lctli_store_completed_op(): lctli_op_cnt++ reads the counter ...
count_completed_op(p) ==
    /\ At(p, "store")
    /\ proc' = [proc EXCEPT ![p] = [@ EXCEPT !.at = "stored", !.op_num = op_cnt]]
    /\ torn' = (torn \/ \E q \in Procs \ {p} : At(q, "stored"))
    /\ UNCHANGED <<clientVars, queueVars, serveVars, buffer, outVars, op_cnt, cio, completed, seen>>

\* ... and writes it, then the entry in a ring of OPS entries.  What it tells
\* of the operation is its number; `op` is the one that it should have.
CioIndex(op_num) == op_num % OPS
store_completed_op(p) ==
    /\ At(p, "stored")
    /\ LET op == proc[p].op_num
           entry == [op_num |-> op, op |-> completed]
       IN /\ op_cnt' = op + 1
          /\ cio' = [cio EXCEPT ![CioIndex(op)] = entry]
    /\ completed' = completed + 1
    /\ proc' = [proc EXCEPT ![p] = Idle]
    /\ UNCHANGED <<clientVars, queueVars, serveVars, buffer, outVars, torn, seen>>

process_request(p) ==
    \/ open_and_read_input_file(p) \/ parse_request(p) \/ open_output_file(p)
    \/ scan_registry(p) \/ rename_output_file(p)
    \/ count_completed_op(p) \/ store_completed_op(p)
-------------------------------------------------------------------------------
(***************************************************************************)
(* The threads that serve the interface.                                   *)
(***************************************************************************)
\* A thread begins a request; a request of the other one is no longer alone.
Begins(p, handle) ==
    proc' = [q \in Procs |->
               IF q = p THEN [handle EXCEPT !.alone = \A r \in Procs \ {p} : At(r, "idle")]
               ELSE IF At(q, "idle") THEN proc[q] ELSE [proc[q] EXCEPT !.alone = FALSE]]

\* lctli_epoll_mgr_cb(), called by the thread that polls the inotify descriptor.
epoll_mgr_cb(p) ==
    /\ stage \in {"scan", "run"}
    /\ p = server /\ p \notin serving /\ events # <<>>
    /\ At(p, "idle") /\ (p = "main" => scan = <<>>)
    /\ serving' = serving \cup {p}
    /\ UNCHANGED <<clientVars, queueVars, stage, server, unread, scan, rescans, dirs, overtaken,
                   proc, buffer, outVars, opVars, seen>>

\* lctli_inotify_thread_poll_handle_event(): a read() takes what is queued,
\* and the next one what was queued meanwhile, until there is nothing.
InLoop(p) == p \in serving /\ At(p, "idle") /\ unread[p] = <<>>
read_events(p) ==
    /\ InLoop(p) /\ events # <<>>
    /\ unread' = [unread EXCEPT ![p] = events] /\ events' = <<>>
    /\ UNCHANGED <<clientVars, watch, lost, stage, server, serving, scan, rescans, dirs, overtaken,
                   proc, buffer, outVars, opVars, seen>>

read_nothing(p) ==
    /\ InLoop(p) /\ events = <<>>
    /\ serving' = serving \ {p}
    /\ UNCHANGED <<clientVars, queueVars, stage, server, unread, scan, rescans, dirs, overtaken,
                   proc, buffer, outVars, opVars, seen>>

\* lctli_inotify_thread_poll_parse_buffer(): the next event is a request.
\* The name of an overflow is what follows it in the buffer: no file has it.
handle_event(p) ==
    /\ At(p, "idle") /\ unread[p] # <<>>
    /\ Begins(p, Handle(Head(unread[p]), "ENOENT"))
    /\ unread' = [unread EXCEPT ![p] = Tail(@)]
    /\ UNCHANGED <<clientVars, queueVars, stage, server, serving, scan, rescans, dirs, overtaken,
                   buffer, outVars, opVars, seen>>

\* lctli_util_thread_unregister(): the interface is taken from the utility
\* thread, wherever that is.  The handle has no reference callback, so its
\* delete does not wait for a callback.  From then on the caller reads the
\* events and calls lctli_inotify_parse_buffer().
util_thread_unregister ==
    /\ stage = "run" /\ server = "util" /\ At("main", "idle") /\ scan = <<>>
    /\ server' = "main"
    /\ overtaken' = ("util" \in serving)
    /\ UNCHANGED <<clientVars, queueVars, stage, loopVars, scan, rescans, dirs, proc, buffer,
                   outVars, opVars, seen>>
-------------------------------------------------------------------------------
(***************************************************************************)
(* The thread that starts and stops the process.                           *)
(***************************************************************************)
Subdirs == {"init", "input", "output"}

\* lctli_subsystem_init(): the directories, the descriptors, the watch.
lctli_prepare ==
    /\ stage = "prepare" /\ stage' = "scan"
    /\ dirs' = Subdirs
    /\ watch' = TRUE
    /\ scan' = InitFiles
    /\ UNCHANGED <<clientVars, events, lost, server, loopVars, rescans, overtaken, proc, buffer,
                   outVars, opVars, seen>>

\* lctli_process_init_subdir(): the next entry of the directory.
process_init_subdir ==
    /\ At("main", "idle") /\ scan # <<>>
    /\ Begins("main", Handle("init", Head(scan)))
    /\ scan' = Tail(scan)
    /\ UNCHANGED <<clientVars, queueVars, stage, server, loopVars, rescans, dirs, overtaken, buffer,
                   outVars, opVars, seen>>

lctli_enabled ==
    /\ stage = "scan" /\ At("main", "idle") /\ scan = <<>>
    /\ stage' = "run"
    /\ UNCHANGED <<clientVars, queueVars, server, loopVars, scan, rescans, dirs, overtaken, proc,
                   buffer, outVars, opVars, seen>>

\* lctli_init_subdir_rescan(), for a module that starts later.
init_subdir_rescan ==
    /\ stage = "run" /\ At("main", "idle") /\ scan = <<>> /\ "main" \notin serving
    /\ rescans < MaxRescans
    /\ rescans' = rescans + 1
    /\ scan' = InitFiles
    /\ UNCHANGED <<clientVars, queueVars, stage, server, loopVars, dirs, overtaken, proc, buffer,
                   outVars, opVars, seen>>

\* lctli_remove_subdirs(): rmdir() removes what is empty; the parent goes when
\* all the subdirectories did.
IsEmpty(d) ==
    CASE d = "init"   -> InitFiles = <<>>
      [] d = "input"  -> \A n \in Names : files[n].req = "ENOENT"
      [] d = "output" -> DOMAIN tmp = {} /\ DOMAIN out = {}
remove_subdirs == {d \in dirs : ~IsEmpty(d)}

\* lctli_subsystem_destroy(), after the utility thread was joined.
lctli_subsystem_destroy ==
    /\ stage = "run" /\ serving = {} /\ scan = <<>> /\ \A p \in Procs : At(p, "idle")
    /\ stage' = "end"
    /\ watch' = FALSE
    /\ dirs' = IF Uuid THEN dirs ELSE remove_subdirs
    /\ UNCHANGED <<clientVars, events, lost, server, loopVars, scan, rescans, overtaken, proc, buffer,
                   outVars, opVars, seen>>
-------------------------------------------------------------------------------
Serve(p) == epoll_mgr_cb(p) \/ read_events(p) \/ read_nothing(p) \/ handle_event(p)

CtlNext ==
    \/ \E n \in Names : \/ OpenForWrite(n)
                        \/ \E c \in Contents : CloseWritten(n, c) \/ MoveIn(n, c)
    \/ \E p \in Procs : process_request(p) \/ Serve(p)
    \/ util_thread_unregister \/ lctli_prepare \/ process_init_subdir \/ lctli_enabled
    \/ init_subdir_rescan \/ lctli_subsystem_destroy

Runs(p) == process_request(p) \/ Serve(p) \/ (p = "main" /\ process_init_subdir)

\* A thread that can run does.  Clients need not
\* write, nor the process scan init/ again or end.
CtlFairness ==
    \A p \in Procs : WF_ctlVars(Runs(p))

CtlSpec == CtlInit /\ [][CtlNext]_ctlVars /\ CtlFairness
-------------------------------------------------------------------------------
(***************************************************************************)
(* Properties.                                                             *)
(***************************************************************************)
\* lctli_lreg_op_history_lreg_cb(): the entry that index i of the varray
\* "recent-ops" shows.
\* Mutant: the oldest entry is looked for one place too far.
base_idx_next == IF op_cnt >= OPS THEN (op_cnt + 1) % OPS ELSE 0

base_idx == IF op_cnt >= OPS THEN op_cnt % OPS ELSE 0
op_hist_sz == IF op_cnt < OPS THEN op_cnt ELSE OPS
op_history(i) == cio[(base_idx + i) % OPS]

\* The history of operations shows the last ones, the oldest first, however
\* often the ring has wrapped (ctl_interface.c:147-165, 522-552, 625-631), until
\* two threads have stored operations at the same time.
HistoryExact ==
    ~torn =>
       /\ op_cnt = completed
       /\ \A i \in 0..(op_hist_sz - 1) :
             LET op == completed - op_hist_sz + i
             IN  op_history(i) = [op_num |-> op, op |-> op]

\* The thread that serves the interface is the only one that is at a request,
\* unless the other one is at a file of init/ or the utility thread was in its
\* loop when it lost the interface (ctl_interface.c:651-676, 730-760).
OneThread ==
    (\A p \in Procs : ~At(p, "idle")) => proc["main"].name = "init" \/ overtaken

\* What a client finds under the name it asked for is one answer, written from
\* the beginning to the end by the request that published it, for what its own
\* file held: not a part that is being written, nor the answers of two requests
\* (ctl_interface_cmd.c:203-269, 1562-1606), if no other request was processed
\* at the same time.  An error of a write is the one thing that cuts it short.
\* And there is another request only in the cases of OneThread.
AnswersPublished ==
    /\ \A o \in DOMAIN out :
          out[o].alone => out[o].want = o /\ out[o].answers = {out[o].by}
    /\ OneThread

\* A complete request in a watched input/ that inotify had room for and that
\* nobody has read in this version.
Unserved(n) == /\ watch /\ n \notin writing /\ n \notin lost
               /\ files[n].ver > seen[n] /\ files[n].req # "ENODATA"

\* A request that was written or moved into input/ after the watch was set is
\* read, in that version or a later one, whichever thread has the interface
\* (ctl_interface.c:176-203, 223-247): again and again none is unserved.
EveryRequestServed == \A n \in Names : []<>~Unserved(n)

\* "The entire ctl interface is single threaded, executed by the util_thread.
\* This means that only a single set of buffers are needed"
\* (ctl_interface_cmd.c:43-45): a request is parsed from what its own file
\* held.
BufferIsOurs ==
    \A p \in Procs : At(p, "parse") => buffer = proc[p].want
================================================================================
