------------------------------- MODULE EpollMgr -------------------------------
(***************************************************************************)
(* The epoll manager of niova-core (src/src/epoll_mgr.c).                  *)
(*                                                                         *)
(* One thread, Mgr, loops over epoll_mgr_wait_and_process_events().  Any   *)
(* thread may add and delete handles and queue "ctx" callbacks that Mgr    *)
(* must run.  A handle whose user gave a ref_cb is only ever deleted by    *)
(* Mgr: other threads put it on epm_destroy_list and wake Mgr through an   *)
(* eventfd.                                                                *)
(*                                                                         *)
(* A step is one critical section of epm_mutex, one system call, one       *)
(* unlocked test or one call of user code.  The lists are sets: nothing in *)
(* the code depends on their order, and a set lets Mgr pick any element.   *)
(* The flag bits of struct epoll_handle are the sets of handles that have  *)
(* the bit on.                                                             *)
(***************************************************************************)
EXTENDS Integers, FiniteSets

CONSTANTS
    Mgr,         \* the thread that calls epoll_mgr_wait_and_process_events()
    Users,       \* the application threads
    Owner,       \* the application thread that sets up and closes the manager
    Handles,     \* the struct epoll_handle of the application
    RefHandles,  \* those that were initialised with a ref_cb
    WakeHandle,  \* epm_wake_handle, the eventfd
    None,        \* "no handle" / "no thread"
    PeerDel,     \* an event callback may delete another handle
    HasTimeout,  \* epoll_wait() is called with a finite timeout
    CloseRaces,  \* the owner closes while other threads use the manager
    epollMgrNumEvents, \* the most events one epoll_wait() may return
    MaxOps,      \* bound: API calls of the application in a behaviour
    MaxSetups    \* bound: calls of epoll_mgr_setup()

Threads == Users \cup {Mgr}

ASSUME EpollMgrAssumption ==
    /\ Mgr \notin Users
    /\ Owner \in Users
    /\ IsFiniteSet(Users) /\ IsFiniteSet(Handles)
    /\ RefHandles \subseteq Handles
    /\ WakeHandle \notin Handles
    /\ None \notin Handles \cup Threads \cup {WakeHandle}
    /\ {PeerDel, HasTimeout, CloseRaces} \subseteq BOOLEAN
    /\ epollMgrNumEvents \in Nat
    /\ MaxOps \in Nat /\ MaxSetups \in Nat

VARIABLES
    \* struct epoll_mgr
    epm_ready, epm_epfd, epm_thread_id, epm_num_handles,
    epm_active_list, epm_destroy_list,
    epm_ctx_cb_list, epm_ctx_cb_num, epm_ctx_cb_running,
    \* struct epoll_handle: the handles that have the field set
    eph_fd, eph_installed, eph_installing, eph_destroying, eph_ctx_cb,
    \* the kernel: the interest list, and whether the eventfd is readable
    kset, wake,
    \* the references the manager holds on each handle's owner
    refs,
    \* epollMgrInstallLock: its holder, or None
    install_lock,
    \* threads: where each one is and the handle its call is about
    pc, arg,
    \* locals of Mgr: where a nested call returns to, the handle whose
    \* callback runs, the events still to dispatch and those among them that
    \* were given a reference, the ctx callbacks still to run, delay_list
    mret, cur, evs, held, tmp_head, delay_list,
    \* bounds, and the deletes that a queued ctx callback must precede
    ops, setups, owed

epmVars    == <<epm_ready, epm_epfd, epm_thread_id, epm_num_handles>>
listVars   == <<epm_active_list, epm_destroy_list>>
ctxVars    == <<epm_ctx_cb_list, epm_ctx_cb_num, epm_ctx_cb_running,
                eph_ctx_cb>>
flagVars   == <<eph_fd, eph_installed, eph_installing, eph_destroying>>
mgrVars    == <<mret, cur, evs, held, tmp_head, delay_list>>
boundVars  == <<ops, setups>>

vars == <<epmVars, listVars, ctxVars, flagVars, kset, wake, refs,
          install_lock, pc, arg, mgrVars, boundVars, owed>>

(***************************************************************************)
(* Threads.  An application thread calls the API when it is idle; Mgr      *)
(* calls it between two waits and from the callbacks it runs.              *)
(***************************************************************************)
MgrLabels == {"idle", "wait", "dispatch", "cb", "reap_ctx", "run_ctx",
              "ctxcb", "ctx_done", "ctx_put", "reap_destroy"}
ApiLabels == {"add_lock", "add_ctl", "add_ok", "add_fail", "del_lock",
              "del_ctl", "del_done", "del_wake", "ctx_lock", "put"}
CloseLabels == {"close_tally", "close_ready", "close_fd"}

Goto(t, l)  == pc' = [pc EXCEPT ![t] = l]
ReturnTo(t) == IF t = Mgr THEN mret ELSE "idle"
Return(t)   == Goto(t, ReturnTo(t))

\* An owner that does not race with the users of its manager closes it when
\* every other thread is idle, and they stay so until it is closed.
Closing == pc[Owner] \in CloseLabels
Quiet   == \A t \in Threads : pc[t] = "idle"

MayCall(t) ==
    /\ \/ pc[t] = "idle"
       \/ t = Mgr /\ pc[t] \in {"cb", "ctxcb"}
    /\ CloseRaces \/ ~Closing

\* Thread t enters an API function about handle h.
Call(t, h, l) ==
    /\ MayCall(t)
    /\ ops < MaxOps
    /\ ops' = ops + 1
    /\ arg' = [arg EXCEPT ![t] = h]
    /\ mret' = IF t = Mgr THEN pc[t] ELSE mret
    /\ Goto(t, l)
    /\ UNCHANGED <<setups, cur, evs, held, tmp_head, delay_list>>

\* A step inside a call leaves the locals of Mgr and the bounds alone.
InCall == UNCHANGED <<arg, mgrVars, boundVars>>

InApi(h) == \E t \in Threads : pc[t] \in ApiLabels /\ arg[t] = h

RefGet(h) == refs' = [refs EXCEPT ![h] = @ + 1]
RefPut(h) == refs' = [refs EXCEPT ![h] = @ - 1]

-------------------------------------------------------------------------------
(***************************************************************************)
(* epoll_mgr_setup() and epoll_mgr_close(), by the owner of the manager.   *)
(***************************************************************************)
Init ==
    /\ epm_ready = FALSE /\ epm_epfd = FALSE
    /\ epm_thread_id = None /\ epm_num_handles = 0
    /\ epm_active_list = {} /\ epm_destroy_list = {}
    /\ epm_ctx_cb_list = {} /\ epm_ctx_cb_num = 0
    /\ epm_ctx_cb_running = None
    /\ eph_fd = Handles
    /\ eph_installed = {} /\ eph_installing = {}
    /\ eph_destroying = {} /\ eph_ctx_cb = {}
    /\ kset = {} /\ wake = FALSE
    /\ refs = [h \in Handles |-> 0]
    /\ install_lock = None
    /\ pc = [t \in Threads |-> "idle"]
    /\ arg = [t \in Threads |-> None]
    /\ mret = "idle" /\ cur = None
    /\ evs = {} /\ held = {} /\ tmp_head = {} /\ delay_list = {}
    /\ ops = 0 /\ setups = 0 /\ owed = {}

\* The fresh manager that a successful setup leaves behind.
epoll_mgr_setup ==
    /\ pc[Owner] = "idle" /\ install_lock = None
    /\ ~epm_ready
    /\ setups < MaxSetups /\ setups' = setups + 1
    /\ epm_ready' = TRUE /\ epm_epfd' = TRUE
    /\ epm_thread_id' = None /\ epm_num_handles' = 0
    /\ epm_active_list' = {} /\ epm_destroy_list' = {}
    /\ epm_ctx_cb_list' = {} /\ epm_ctx_cb_num' = 0
    /\ epm_ctx_cb_running' = None
    /\ kset' = {} /\ wake' = FALSE
    /\ UNCHANGED <<eph_ctx_cb, flagVars, refs, install_lock, pc, arg,
                   mgrVars, ops, owed>>

\* epoll_create1(), eventfd() or epoll_ctl() of the wake handle fails: the
\* counters are reset already, and what was opened stays open.
epoll_mgr_setup_fails ==
    /\ pc[Owner] = "idle" /\ install_lock = None
    /\ ~epm_ready
    /\ setups < MaxSetups /\ setups' = setups + 1
    /\ epm_thread_id' = None /\ epm_num_handles' = 0
    /\ \E opened \in BOOLEAN : epm_epfd' = opened
    /\ UNCHANGED <<epm_ready, listVars, ctxVars, flagVars, kset, wake, refs,
                   install_lock, pc, arg, mgrVars, ops, owed>>

\* close: with the install lock, test epm_ready and the number of queued ctx
\* callbacks.  epm_mutex is not held.
epoll_mgr_close_check ==
    /\ pc[Owner] = "idle" /\ install_lock = None
    /\ CloseRaces \/ Quiet
    /\ ops < MaxOps /\ ops' = ops + 1
    /\ epm_ready /\ epm_ctx_cb_num = 0
    /\ install_lock' = Owner
    /\ Goto(Owner, "close_tally")
    /\ UNCHANGED <<epmVars, listVars, ctxVars, flagVars, kset, wake, refs,
                   arg, mgrVars, setups, owed>>

\* The handles that epoll_mgr_tally_handles() counts.
Tallied == epm_active_list \cup epm_destroy_list

\* -EBUSY when a handle is on a list.
epoll_mgr_tally_handles ==
    /\ pc[Owner] = "close_tally"
    /\ IF Tallied = {}
         THEN Goto(Owner, "close_ready") /\ UNCHANGED install_lock
         ELSE Goto(Owner, "idle") /\ install_lock' = None
    /\ UNCHANGED <<epmVars, listVars, ctxVars, flagVars, kset, wake, refs,
                   owed>>
    /\ InCall

epoll_mgr_close_ready ==
    /\ pc[Owner] = "close_ready"
    /\ epm_ready' = FALSE
    /\ install_lock' = None
    /\ Goto(Owner, "close_fd")
    /\ UNCHANGED <<epm_epfd, epm_thread_id, epm_num_handles, listVars,
                   ctxVars, flagVars, kset, wake, refs, owed>>
    /\ InCall

\* Both descriptors are closed, after the install lock was released.
epoll_mgr_close_fd ==
    /\ pc[Owner] = "close_fd"
    /\ epm_epfd' = FALSE
    /\ kset' = {} /\ wake' = FALSE
    /\ Goto(Owner, "idle")
    /\ UNCHANGED <<epm_ready, epm_thread_id, epm_num_handles, listVars,
                   ctxVars, flagVars, refs, install_lock, owed>>
    /\ InCall

CloseStep == epoll_mgr_tally_handles \/ epoll_mgr_close_ready
             \/ epoll_mgr_close_fd

epoll_mgr_close == epoll_mgr_close_check \/ CloseStep

-------------------------------------------------------------------------------
(***************************************************************************)
(* The API of a handle.                                                    *)
(***************************************************************************)

\* The user initialises a handle again with a new descriptor.  Its own duty:
\* nobody, the manager included, uses the handle any more.
epoll_handle_init(h) ==
    /\ ops < MaxOps /\ ops' = ops + 1
    /\ h \notin eph_fd
    /\ h \notin eph_installed \cup eph_installing \cup eph_ctx_cb \cup evs
    /\ ~InApi(h) /\ refs[h] = 0 /\ cur # h
    /\ eph_fd' = eph_fd \cup {h}
    /\ UNCHANGED <<epmVars, listVars, ctxVars, eph_installed, eph_installing,
                   eph_destroying, kset, wake, refs, install_lock, pc, arg,
                   mgrVars, setups, owed>>

\* The unlocked tests of epoll_handle_add(); the user's reference is taken
\* before the lock.  A user never adds a handle twice at the same time, and a
\* handle with a ref_cb is added by Mgr, as tcp_mgr.c does.
AddChecks(h) ==
    /\ epm_ready /\ epm_epfd /\ h \in eph_fd
    /\ h \notin eph_installed \cup eph_installing

epoll_handle_add(t, h) ==
    /\ AddChecks(h)
    /\ ~InApi(h)
    /\ t = Mgr \/ h \notin RefHandles
    /\ Call(t, h, "add_lock")
    /\ IF h \in RefHandles THEN RefGet(h) ELSE UNCHANGED refs
    /\ UNCHANGED <<epmVars, listVars, ctxVars, flagVars, kset, wake,
                   install_lock, owed>>

add_locked(t) ==
    LET h == arg[t] IN
    /\ pc[t] = "add_lock"
    /\ epm_active_list' = epm_active_list \cup {h}
    /\ eph_installing' = eph_installing \cup {h}
    /\ Goto(t, "add_ctl")
    /\ UNCHANGED <<epmVars, epm_destroy_list, ctxVars, eph_fd, eph_installed,
                   eph_destroying, kset, wake, refs, install_lock, owed>>
    /\ InCall

\* epoll_ctl(EPOLL_CTL_ADD): from here on Mgr may see events of the handle.
add_epoll_ctl(t) ==
    /\ pc[t] = "add_ctl"
    /\ \/ epm_epfd /\ kset' = kset \cup {arg[t]} /\ Goto(t, "add_ok")
       \/ UNCHANGED kset /\ Goto(t, "add_fail")
    /\ UNCHANGED <<epmVars, listVars, ctxVars, flagVars, wake, refs,
                   install_lock, owed>>
    /\ InCall

add_installed(t) ==
    LET h == arg[t] IN
    /\ pc[t] = "add_ok"
    /\ eph_installing' = eph_installing \ {h}
    /\ eph_installed' = eph_installed \cup {h}
    /\ epm_num_handles' = epm_num_handles + 1
    /\ Return(t)
    /\ UNCHANGED <<epm_ready, epm_epfd, epm_thread_id, listVars, ctxVars,
                   eph_fd, eph_destroying, kset, wake, refs, install_lock,
                   owed>>
    /\ InCall

add_failed(t) ==
    LET h == arg[t] IN
    /\ pc[t] = "add_fail"
    /\ eph_installing' = eph_installing \ {h}
    /\ epm_active_list' = epm_active_list \ {h}
    /\ IF h \in RefHandles THEN Goto(t, "put") ELSE Return(t)
    /\ UNCHANGED <<epmVars, epm_destroy_list, ctxVars, eph_fd, eph_installed,
                   eph_destroying, kset, wake, refs, install_lock, owed>>
    /\ InCall

\* The user's reference is given back as the last step of a call.
ref_put(t) ==
    /\ pc[t] = "put"
    /\ RefPut(arg[t])
    /\ Return(t)
    /\ UNCHANGED <<epmVars, listVars, ctxVars, flagVars, kset, wake,
                   install_lock, owed>>
    /\ InCall

\* The unlocked tests of epoll_handle_del().
epoll_handle_del(t, h) ==
    /\ epm_ready /\ epm_epfd
    /\ h \in eph_fd /\ h \in eph_installed
    /\ t = Mgr /\ pc[t] = "cb" /\ ~PeerDel => h = cur
    /\ Call(t, h, "del_lock")
    /\ UNCHANGED <<epmVars, listVars, ctxVars, flagVars, kset, wake, refs,
                   install_lock, owed>>

\* The search of the active list for the handle to delete.
Found_bit(h) == h \in eph_installed     \* mutant: trust the bit, not the list
Found(h) == h \in epm_active_list

CtxCbPending(h) == h \in eph_ctx_cb /\ epm_ctx_cb_running # h

\* mutant: whoever deletes releases
releases_anywhere(t, h) == TRUE \/ t = h
epoll_handle_releases_in_current_thread(t, h) ==
    h \notin RefHandles \/ epm_thread_id = t

CompleteHere(t, h) ==
    epoll_handle_releases_in_current_thread(t, h) /\ ~CtxCbPending(h)

\* -ENOENT when another thread has taken the handle off the active list;
\* otherwise delete it here, or leave it to Mgr.
del_locked(t) ==
    LET h == arg[t] IN
    /\ pc[t] = "del_lock"
    /\ \/ /\ ~Found(h)
          /\ Return(t)
          /\ UNCHANGED <<listVars, eph_destroying, owed>>
       \/ /\ Found(h)
          /\ epm_active_list' = epm_active_list \ {h}
          /\ eph_destroying' = eph_destroying \cup {h}
          /\ IF CompleteHere(t, h)
               THEN Goto(t, "del_ctl") /\ UNCHANGED epm_destroy_list
               ELSE /\ Goto(t, "del_wake")
                    /\ epm_destroy_list' = epm_destroy_list \cup {h}
          /\ owed' = owed \cup {x \in {h} : x \in eph_ctx_cb
                                             /\ epm_ctx_cb_running # x}
    /\ UNCHANGED <<epmVars, ctxVars, eph_fd, eph_installed, eph_installing,
                   kset, wake, refs, install_lock>>
    /\ InCall

epoll_mgr_wake == wake' = epm_epfd

del_wake(t) ==
    /\ pc[t] = "del_wake"
    /\ epoll_mgr_wake
    /\ Return(t)
    /\ UNCHANGED <<epmVars, listVars, ctxVars, flagVars, kset, refs,
                   install_lock, owed>>
    /\ InCall

\* epoll_handle_del_complete(): the unlocked tests, then EPOLL_CTL_DEL.
del_epoll_ctl(t) ==
    LET h == arg[t] IN
    /\ pc[t] = "del_ctl"
    /\ IF /\ epm_ready /\ epm_epfd /\ h \in eph_fd
          /\ h \in eph_installed /\ h \in eph_destroying
         THEN kset' = kset \ {h} /\ Goto(t, "del_done")
         ELSE UNCHANGED kset /\ Return(t)
    /\ UNCHANGED <<epmVars, listVars, ctxVars, flagVars, wake, refs,
                   install_lock, owed>>
    /\ InCall

del_completed(t) ==
    LET h == arg[t] IN
    /\ pc[t] = "del_done"
    /\ epm_num_handles' = epm_num_handles - 1
    /\ eph_installed' = eph_installed \ {h}
    /\ eph_fd' = eph_fd \ {h}
    /\ eph_destroying' = eph_destroying \ {h}
    /\ IF h \in RefHandles THEN Goto(t, "put") ELSE Return(t)
    /\ UNCHANGED <<epm_ready, epm_epfd, epm_thread_id, listVars, ctxVars,
                   eph_installing, kset, wake, refs, install_lock, owed>>
    /\ InCall

MayQueueCtxCb(t, h) == h \in RefHandles /\ epm_thread_id # t

\* On Mgr itself the callback runs inside the call, which changes no state of
\* the manager; on any other thread it is queued, with a reference.
epoll_mgr_ctx_cb_add(t, h) ==
    /\ epm_ready
    /\ MayQueueCtxCb(t, h)
    /\ Call(t, h, "ctx_lock")
    /\ RefGet(h)
    /\ UNCHANGED <<epmVars, listVars, ctxVars, flagVars, kset, wake,
                   install_lock, owed>>

CtxCbBusy(h) == h \in eph_ctx_cb

\* -EBUSY when the manager is closed, -EAGAIN when the handle has a callback
\* queued or running; epm_ctx_cb_num goes up and down again under the lock.
ctx_cb_add_locked(t) ==
    LET h == arg[t] IN
    /\ pc[t] = "ctx_lock"
    /\ \/ /\ ~epm_ready \/ CtxCbBusy(h)
          /\ Goto(t, "put")
          /\ UNCHANGED <<ctxVars, wake>>
       \/ /\ epm_ready /\ ~CtxCbBusy(h)
          /\ eph_ctx_cb' = eph_ctx_cb \cup {h}
          /\ epm_ctx_cb_list' = epm_ctx_cb_list \cup {h}
          /\ epm_ctx_cb_num' = epm_ctx_cb_num + 1
          /\ epoll_mgr_wake
          /\ Return(t)
          /\ UNCHANGED epm_ctx_cb_running
    /\ UNCHANGED <<epmVars, listVars, flagVars, kset, refs, install_lock,
                   owed>>
    /\ InCall

-------------------------------------------------------------------------------
(***************************************************************************)
(* epoll_mgr_wait_and_process_events(), on Mgr.                            *)
(***************************************************************************)
InLoop == UNCHANGED <<arg, mret, boundVars>>

enter_wait ==
    /\ pc[Mgr] = "idle"
    /\ CloseRaces \/ ~Closing
    /\ epm_ready
    /\ epm_thread_id' = Mgr
    /\ Goto(Mgr, "wait")
    /\ UNCHANGED <<epm_ready, epm_epfd, epm_num_handles, listVars, ctxVars,
                   flagVars, kset, wake, refs, install_lock, cur, evs, held,
                   tmp_head, delay_list, owed>>
    /\ InLoop

maxevents ==
    LET n == IF epm_num_handles < epollMgrNumEvents
               THEN epm_num_handles ELSE epollMgrNumEvents
    IN  IF n < 1 THEN 1 ELSE n

\* epoll_wait() returns, and the first loop takes a reference for each event
\* whose handle is installed at this moment.  The two are one step: only Mgr
\* removes a handle with a ref_cb from the kernel's set, so the events can as
\* well be collected when the loop looks at them.
epoll_wait ==
    /\ pc[Mgr] = "wait"
    /\ \E E \in SUBSET (kset \cup {WakeHandle}) :
         /\ Cardinality(E) <= maxevents
         /\ WakeHandle \in E => wake
         /\ E = {} => HasTimeout \/ ~epm_epfd
         /\ evs' = E
         /\ held' = E \cap eph_installed \cap RefHandles
    /\ refs' = [h \in Handles |-> IF h \in held' THEN refs[h] + 1
                                                 ELSE refs[h]]
    /\ Goto(Mgr, "dispatch")
    /\ UNCHANGED <<epmVars, listVars, ctxVars, flagVars, kset, wake,
                   install_lock, cur, tmp_head, delay_list, owed>>
    /\ InLoop

\* The second loop.  epoll_mgr_wake_cb() drains the eventfd.
dispatch_wake ==
    /\ pc[Mgr] = "dispatch"
    /\ WakeHandle \in evs
    /\ evs' = evs \ {WakeHandle}
    /\ wake' = FALSE
    /\ UNCHANGED <<epmVars, listVars, ctxVars, flagVars, kset, refs,
                   install_lock, pc, cur, held, tmp_head, delay_list, owed>>
    /\ InLoop

\* An event whose handle is no longer installed is skipped: no callback, and
\* no PUT.
dispatch_skip(h) ==
    /\ pc[Mgr] = "dispatch"
    /\ h \in evs \ eph_installed
    /\ evs' = evs \ {h}
    /\ UNCHANGED <<epmVars, listVars, ctxVars, flagVars, kset, wake, refs,
                   install_lock, pc, cur, held, tmp_head, delay_list, owed>>
    /\ InLoop

dispatch(h) ==
    /\ pc[Mgr] = "dispatch"
    /\ h \in evs \cap eph_installed
    /\ evs' = evs \ {h}
    /\ cur' = h
    /\ Goto(Mgr, "cb")
    /\ UNCHANGED <<epmVars, listVars, ctxVars, flagVars, kset, wake, refs,
                   install_lock, held, tmp_head, delay_list, owed>>
    /\ InLoop

\* The event callback returns; the PUT is done whether or not the first loop
\* did the GET.
dispatch_put ==
    /\ pc[Mgr] = "cb"
    /\ IF cur \in RefHandles THEN RefPut(cur) ELSE UNCHANGED refs
    /\ held' = held \ {cur}
    /\ cur' = None
    /\ Goto(Mgr, "dispatch")
    /\ UNCHANGED <<epmVars, listVars, ctxVars, flagVars, kset, wake,
                   install_lock, evs, tmp_head, delay_list, owed>>
    /\ InLoop

dispatch_end ==
    /\ pc[Mgr] = "dispatch" /\ evs = {}
    /\ held' = {}
    /\ Goto(Mgr, "reap_ctx")
    /\ UNCHANGED <<epmVars, listVars, ctxVars, flagVars, kset, wake, refs,
                   install_lock, cur, evs, tmp_head, delay_list, owed>>
    /\ InLoop

\* Take the whole list of ctx callbacks, if the manager is not closed.
epoll_mgr_reap_ctx_list ==
    /\ pc[Mgr] = "reap_ctx" /\ install_lock = None
    /\ IF epm_ready
         THEN /\ tmp_head' = epm_ctx_cb_list
              /\ epm_ctx_cb_list' = {}
              /\ Goto(Mgr, "run_ctx")
         ELSE /\ Goto(Mgr, "reap_destroy")
              /\ UNCHANGED <<tmp_head, epm_ctx_cb_list>>
    /\ UNCHANGED <<epmVars, listVars, epm_ctx_cb_num, epm_ctx_cb_running,
                   eph_ctx_cb, flagVars, kset, wake, refs, install_lock, cur,
                   evs, held, delay_list, owed>>
    /\ InLoop

epoll_mgr_ctx_cb_run(h) ==
    /\ pc[Mgr] = "run_ctx"
    /\ h \in tmp_head
    /\ tmp_head' = tmp_head \ {h}
    /\ epm_ctx_cb_running' = h
    /\ cur' = h
    /\ Goto(Mgr, "ctxcb")
    /\ UNCHANGED <<epmVars, listVars, epm_ctx_cb_list, epm_ctx_cb_num,
                   eph_ctx_cb, flagVars, kset, wake, refs, install_lock,
                   evs, held, delay_list, owed>>
    /\ InLoop

ctx_cb_returns ==
    /\ pc[Mgr] = "ctxcb"
    /\ epm_ctx_cb_running' = None
    /\ Goto(Mgr, "ctx_done")
    /\ UNCHANGED <<epmVars, listVars, epm_ctx_cb_list, epm_ctx_cb_num,
                   eph_ctx_cb, flagVars, kset, wake, refs, install_lock,
                   cur, evs, held, tmp_head, delay_list, owed>>
    /\ InLoop

ctx_cb_done ==
    /\ pc[Mgr] = "ctx_done"
    /\ eph_ctx_cb' = eph_ctx_cb \ {cur}
    /\ epm_ctx_cb_num' = epm_ctx_cb_num - 1
    /\ owed' = owed \ {cur}
    /\ Goto(Mgr, "ctx_put")
    /\ UNCHANGED <<epmVars, listVars, epm_ctx_cb_list, epm_ctx_cb_running,
                   flagVars, kset, wake, refs, install_lock, cur, evs, held,
                   tmp_head, delay_list>>
    /\ InLoop

ctx_cb_put ==
    /\ pc[Mgr] = "ctx_put"
    /\ RefPut(cur)
    /\ cur' = None
    /\ Goto(Mgr, "run_ctx")
    /\ UNCHANGED <<epmVars, listVars, ctxVars, flagVars, kset, wake,
                   install_lock, evs, held, tmp_head, delay_list, owed>>
    /\ InLoop

reap_ctx_end ==
    /\ pc[Mgr] = "run_ctx" /\ tmp_head = {}
    /\ Goto(Mgr, "reap_destroy")
    /\ UNCHANGED <<epmVars, listVars, ctxVars, flagVars, kset, wake, refs,
                   install_lock, cur, evs, held, tmp_head, delay_list, owed>>
    /\ InLoop

\* A ctx callback of the handle is still queued: the delete must wait.
DelayDestroy_never(h) == FALSE /\ h = h   \* mutant: the reaper does not look
DelayDestroy(h) == h \in eph_ctx_cb

epoll_mgr_reap_destroy_list(h) ==
    /\ pc[Mgr] = "reap_destroy"
    /\ h \in epm_destroy_list
    /\ epm_destroy_list' = epm_destroy_list \ {h}
    /\ IF DelayDestroy(h)
         THEN /\ delay_list' = delay_list \cup {h}
              /\ UNCHANGED <<pc, arg, mret>>
         ELSE /\ arg' = [arg EXCEPT ![Mgr] = h]
              /\ mret' = "reap_destroy"
              /\ Goto(Mgr, "del_ctl")
              /\ UNCHANGED delay_list
    /\ UNCHANGED <<epmVars, epm_active_list, ctxVars, flagVars, kset, wake,
                   refs, install_lock, cur, evs, held, tmp_head, boundVars,
                   owed>>

\* The delayed handles go back to the destroy list.
SpliceBack_dropped == epm_destroy_list' = {}     \* mutant: they are forgotten
SpliceBack == epm_destroy_list' = delay_list

reap_destroy_end ==
    /\ pc[Mgr] = "reap_destroy" /\ epm_destroy_list = {}
    /\ SpliceBack
    /\ delay_list' = {}
    /\ Goto(Mgr, "idle")
    /\ UNCHANGED <<epmVars, epm_active_list, ctxVars, flagVars, kset, wake,
                   refs, install_lock, cur, evs, held, tmp_head, owed>>
    /\ InLoop

-------------------------------------------------------------------------------
\* What a thread does once it is inside a call.
ApiStep(t) ==
    \/ add_locked(t) \/ add_epoll_ctl(t) \/ add_installed(t) \/ add_failed(t)
    \/ del_locked(t) \/ del_wake(t) \/ del_epoll_ctl(t) \/ del_completed(t)
    \/ ctx_cb_add_locked(t) \/ ref_put(t)

\* The calls that the application chooses to make.
ApiCall ==
    \E h \in Handles :
       \/ epoll_handle_init(h)
       \/ \E t \in Threads : \/ epoll_handle_add(t, h)
                             \/ epoll_handle_del(t, h)
                             \/ epoll_mgr_ctx_cb_add(t, h)

\* What Mgr does without waiting for anybody.
LoopStep ==
    \/ enter_wait \/ dispatch_wake \/ dispatch_put \/ dispatch_end
    \/ epoll_mgr_reap_ctx_list \/ ctx_cb_returns \/ ctx_cb_done \/ ctx_cb_put
    \/ reap_ctx_end \/ reap_destroy_end
    \/ \E h \in Handles : \/ dispatch_skip(h) \/ dispatch(h)
                          \/ epoll_mgr_ctx_cb_run(h)
                          \/ epoll_mgr_reap_destroy_list(h)

Next ==
    \/ epoll_mgr_setup \/ epoll_mgr_setup_fails \/ epoll_mgr_close
    \/ ApiCall
    \/ \E t \in Threads : ApiStep(t)
    \/ LoopStep
    \/ epoll_wait

Spec == Init /\ [][Next]_vars

\* A thread inside a call goes on, Mgr keeps calling
\* epoll_mgr_wait_and_process_events(), callbacks return, and epoll_wait()
\* returns once the eventfd is readable.  Nobody has to make a call, and no
\* event of a user's descriptor has to arrive.
Fairness ==
    /\ \A t \in Threads : WF_vars(ApiStep(t))
    /\ WF_vars(CloseStep)
    /\ WF_vars(LoopStep)
    /\ WF_vars(wake /\ epoll_wait)

FairSpec == Spec /\ Fairness

-------------------------------------------------------------------------------
(***************************************************************************)
(* Properties.                                                             *)
(***************************************************************************)

\* The type of every variable of the manager, its handles and its threads.
TypeOK ==
    /\ epm_ready \in BOOLEAN /\ epm_epfd \in BOOLEAN /\ wake \in BOOLEAN
    /\ epm_thread_id \in {None, Mgr}
    /\ epm_num_handles \in Int /\ epm_ctx_cb_num \in Int
    /\ epm_active_list \subseteq Handles /\ epm_destroy_list \subseteq Handles
    /\ epm_ctx_cb_list \subseteq RefHandles
    /\ epm_ctx_cb_running \in RefHandles \cup {None}
    /\ eph_fd \subseteq Handles /\ eph_installed \subseteq Handles
    /\ eph_installing \subseteq Handles /\ eph_destroying \subseteq Handles
    /\ eph_ctx_cb \subseteq RefHandles
    /\ kset \subseteq Handles
    /\ refs \in [Handles -> Int]
    /\ install_lock \in {None, Owner}
    /\ pc \in [Threads -> MgrLabels \cup ApiLabels \cup CloseLabels]
    /\ arg \in [Threads -> Handles \cup {None}]
    /\ mret \in {"idle", "cb", "ctxcb", "reap_destroy"}
    /\ cur \in Handles \cup {None}
    /\ evs \subseteq Handles \cup {WakeHandle}
    /\ held \subseteq RefHandles
    /\ tmp_head \subseteq RefHandles
    /\ delay_list \subseteq Handles
    /\ ops \in Nat /\ setups \in Nat
    /\ owed \subseteq RefHandles

\* The threads that are at one of the labels L in a call about handle h.
At(h, L) == {t \in Threads : pc[t] \in L /\ arg[t] = h}

AddingLabels     == {"add_ctl", "add_ok", "add_fail"}
CompletingLabels == {"del_ctl", "del_done"}

\* The bits of a handle agree with the list it is on, whatever adds, deletes
\* and reaps are in progress: installing means that one thread is adding it
\* and it is on the active list; an installed handle is on the active list,
\* or is being destroyed and is then on exactly one of epm_destroy_list,
\* Mgr's delay_list or in the hands of a single thread that completes the
\* delete.  This is what keeps a delete from being completed twice (epoll_mgr.c,
\* epoll_handle_del() racing with itself and with the reaper).
ListsMatchFlags ==
    \A h \in Handles :
       /\ h \in epm_active_list <=>
            h \in eph_installing \cup (eph_installed \ eph_destroying)
       /\ h \in eph_installing <=> At(h, AddingLabels) # {}
       /\ h \in eph_installing => h \notin eph_installed
       /\ h \in eph_destroying <=>
            \/ h \in epm_destroy_list \cup delay_list
            \/ At(h, CompletingLabels) # {}
       /\ h \in eph_destroying => h \in eph_installed
       /\ h \in eph_installed \cup eph_installing => h \in eph_fd
       /\ h \in epm_destroy_list \cup delay_list => At(h, CompletingLabels) = {}
       /\ h \notin epm_destroy_list \cap delay_list
       /\ \A t, u \in At(h, AddingLabels \cup CompletingLabels) : t = u

\* epm_num_handles, which sizes the event array of epoll_wait() and is
\* asserted to be positive in epoll_handle_del_complete(), is the number of
\* installed handles.
NumHandlesExact == epm_num_handles = Cardinality(eph_installed)

\* "A queued ctx cb runs before the delete" (epoll_handle_del()): a handle
\* whose delete was requested while a ctx callback of it was queued is not
\* removed before that callback has run.
CtxBeforeDelete ==
    \A t \in Threads : pc[t] \in CompletingLabels => arg[t] \notin owed

\* Mgr never sleeps in epoll_wait() on work that only it can do: if a ctx
\* callback or a deferred delete is queued, the eventfd is readable or the
\* thread that queued it is about to make it so.
NoLostWakeup ==
    /\ pc[Mgr] = "wait" /\ epm_epfd
    /\ epm_ctx_cb_list \cup epm_destroy_list # {}
    => wake \/ \E t \in Threads : pc[t] = "del_wake"

\* epm_ctx_cb_num, which epoll_mgr_close() tests without epm_mutex, counts the
\* queued callbacks and the one that runs; a queued handle has its callback
\* (the assertion of epoll_mgr_ctx_cb_run()) and is queued once.
CtxCbAccounted ==
    /\ epm_ctx_cb_num = Cardinality(eph_ctx_cb)
    /\ epm_ctx_cb_list \cap tmp_head = {}
    /\ eph_ctx_cb = epm_ctx_cb_list \cup tmp_head \cup
         {h \in RefHandles : cur = h /\ \/ epm_ctx_cb_running = h
                                        \/ pc[Mgr] = "ctx_done"}

\* Every reference that the manager holds on the owner of handle h.
RefsDue(h) ==
    Cardinality(At(h, {"add_lock", "del_ctl", "del_done", "put", "ctx_lock"}))
    + Cardinality({l \in {"list", "ctx", "event", "ran"} :
         \/ l = "list" /\ h \in epm_active_list \cup epm_destroy_list
                                 \cup delay_list
         \/ l = "ctx" /\ h \in eph_ctx_cb
         \/ l = "event" /\ h \in held
         \/ l = "ran" /\ pc[Mgr] = "ctx_put" /\ cur = h})

\* GETs and PUTs balance: the references held on a handle's owner are exactly
\* those of its installation, its queued ctx callback, the events being
\* dispatched and the calls in progress.  A surplus leaks the owner, a deficit
\* frees it under a running callback.
RefExact == \A h \in RefHandles : refs[h] = RefsDue(h)

\* A manager that is idle owes nothing to a handle that it has let go of (the
\* test's "ref leak on shared data").
NoRefLeak ==
    (Quiet /\ epm_ready) =>
       \A h \in RefHandles :
          h \in eph_installed \cup eph_ctx_cb \/ refs[h] <= 0

\* Once epoll_mgr_close() has succeeded nothing is attached to the manager: no
\* handle is installed or waits to be destroyed, no ctx callback is queued.
ClosedIsEmpty ==
    (Quiet /\ ~epm_ready) => eph_installed = {} /\ eph_ctx_cb = {}

\* A requested delete is completed, by the caller or by Mgr.
DeleteCompletes ==
    \A h \in Handles : h \in eph_destroying ~> h \notin eph_destroying

\* A queued ctx callback runs to its end.
CtxCbRuns == \A h \in RefHandles : h \in eph_ctx_cb ~> h \notin eph_ctx_cb

\* The manager's lists, bits and count of handles agree in every interleaving
\* of adds, deletes, events and the reaper (epoll_mgr.c:229-469).
HandlesExact == ListsMatchFlags /\ NumHandlesExact

\* A ctx callback that was accepted is counted, keeps the manager awake and
\* runs before the delete of its handle (epoll_mgr.c:389-416, 471-588).
CtxCbSafe == CtxBeforeDelete /\ CtxCbAccounted /\ NoLostWakeup

\* The manager owes nothing: references balance, and a close that succeeded
\* left nothing behind (epoll_mgr.c:125-203, 621-639).
NothingOwed == RefExact /\ ClosedIsEmpty

\* Whatever the manager accepted it carries out (epoll_mgr.c:422-469, 534-588).
CallsComplete == DeleteCompletes /\ CtxCbRuns
===============================================================================
