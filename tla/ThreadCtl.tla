------------------------------- MODULE ThreadCtl -------------------------------
(***************************************************************************)
(* Thread control of niova-core (src/src/thread.c), the watchdog           *)
(* (src/src/watchdog.c), the utility thread (src/src/util_thread.c) and    *)
(* the start-up and shutdown of the process that brings them up and down   *)
(* (src/src/init.c, src/src/include/ctor.h).                               *)
(*                                                                         *)
(* Three kinds of threads run THREAD_LOOP_WITH_CTL: the utility thread     *)
(* blocks in epoll_wait() with a time-out, the watchdog in a timed wait of *)
(* its condition, and a worker of the application waits without time-out   *)
(* on the condition it gave to thread_ctl_apply_cond_and_mutex().  The     *)
(* main thread creates, watches, halts and joins them.                     *)
(*                                                                         *)
(* An action is one access to the flags of a thread, one critical section  *)
(* or one system call.  The watchdog compares the counter of a thread's    *)
(* iterations with its copy and nothing else looks at them: the counter is *)
(* "zero" as the copy is at first, the "same" as the copy, or "ahead" of   *)
(* it.  glibc stores the identifier of a thread before the thread starts,  *)
(* so that creating one sets tc_thread_id in the same step.                *)
(***************************************************************************)
EXTENDS Naturals, Sequences, FiniteSets, SequencesExt

CONSTANTS
    Wd, Ut,      \* the watchdog's thread and the utility thread
    Workers,     \* threads of the application
    MaxLives,    \* bound: how often a worker's thread_ctl is used
    MaxStalls,   \* bound: stalls are counted up to here
    MAX_UT_EPOLL_HANDLES

ASSUME ThreadCtlAssumption ==
    /\ Wd # Ut /\ {Wd, Ut} \cap Workers = {}
    /\ MaxLives \in Nat /\ MaxStalls \in Nat /\ MAX_UT_EPOLL_HANDLES \in Nat

Watchable == {Ut} \cup Workers
Threads == {Wd} \cup Watchable

VARIABLES
    phase,       \* how far the constructors, main() and the destructors are
    call,        \* the call of the main thread that is under way
    flags,       \* tc_flags of each thread
    tid,         \* is tc_thread_id set?
    pc,          \* where each thread is
    lives,       \* how often each thread_ctl was used
    wdi_thread_list,
    cnt,         \* wdh_thread_exec_cnt against wdh_exec_cnt_tracker
    stalls,      \* wdh_current_stalls
    wdi_halt,
    slots,       \* the state of each entry of utilThreadEpollHandles
    ut_started,
    handler,     \* is the handler of SIGALRM installed?
    fatal        \* an assertion failed, or the process was killed

tcVars == <<flags, tid, lives>>
wdVars == <<wdi_thread_list, stalls>>
utVars == <<slots, ut_started>>
threadVars == <<phase, call, tcVars, pc, wdVars, cnt, wdi_halt, utVars, handler, fatal>>

NoCall == [op |-> "none", t |-> Wd]

ThreadInit ==
    /\ phase = "watchdog" /\ call = NoCall
    /\ flags = [t \in Threads |-> {}] /\ tid = [t \in Threads |-> FALSE]
    /\ pc = [t \in Threads |-> "none"] /\ lives = [t \in Threads |-> 0]
    /\ wdi_thread_list = <<>> /\ wdi_halt = FALSE
    /\ cnt = [t \in Watchable |-> "zero"]
    /\ stalls = [t \in Watchable |-> 0]
    /\ slots = <<>> /\ ut_started = FALSE
    /\ handler = FALSE /\ fatal = FALSE
-------------------------------------------------------------------------------
(***************************************************************************)
(* The loop of a thread.                                                   *)
(***************************************************************************)
has_flag(t, flag) == flag \in flags[t]
should_continue(t) == ~has_flag(t, "HALT")

ThreadAt(t, from, to) == pc[t] = from /\ pc' = [pc EXCEPT ![t] = to]
OnlyPc == UNCHANGED <<phase, call, tcVars, wdVars, cnt, wdi_halt, utVars, handler, fatal>>

\* The thread names itself, calls thread_ctl_set_self() and enters the loop;
\* the utility thread asserts that it is the one that is registered.
Start(t) ==
    /\ ThreadAt(t, "start", "test")
    /\ flags' = [flags EXCEPT ![t] = @ \cup {"REACHED_CTL_LOOP"}]
    /\ fatal' = (fatal \/ has_flag(t, "REACHED_CTL_LOOP")
                       \/ (t = Ut /\ ~(ut_started /\ tid[Ut])))
    /\ UNCHANGED <<phase, call, tid, lives, wdVars, cnt, wdi_halt, utVars, handler>>

\* thread_ctl_loop_test() with thread_ctl_pause_if_should(), which also ends
\* the iteration before: the iteration is counted, and the thread sleeps until
\* it is told to run or to halt.  These functions read the halt flag up to
\* four times in a row; it is never cleared, so that one read stands for all.
loop_test(t) ==
    /\ pc[t] = "test"
    /\ cnt' = IF t = Wd THEN cnt ELSE [cnt EXCEPT ![t] = "ahead"]
    /\ pc' = [pc EXCEPT ![t] = IF ~should_continue(t) THEN "done"
                              ELSE IF has_flag(t, "RUN") THEN "block" ELSE "sleep"]
    /\ UNCHANGED <<phase, call, tcVars, wdVars, wdi_halt, utVars, handler, fatal>>

\* usleep() in thread_ctl_pause() ends.
pause(t) == ThreadAt(t, "sleep", "test") /\ OnlyPc

\* The loop of the utility thread and of a worker blocks.  A worker holds its
\* mutex from the test of the halt flag until it waits.
Block(t) ==
    /\ t # Wd /\ pc[t] = "block"
    /\ pc' = [pc EXCEPT ![t] = IF t \in Workers /\ ~should_continue(t) THEN "work" ELSE "blocked"]
    /\ OnlyPc

\* epoll_mgr_wait_and_process_events(&ut->ut_epm, 1000) returns after a second.
TimedOut(t) == t = Ut /\ ThreadAt(t, "blocked", "test") /\ OnlyPc

\* An event, or work for a worker, arrives; what is done with it may take for
\* ever, and a worker may return from its start routine.
Work(t) == t # Wd /\ ThreadAt(t, "blocked", "work") /\ OnlyPc
Worked(t) == ThreadAt(t, "work", "test") /\ OnlyPc
Returns(t) == t \in Workers /\ ThreadAt(t, "work", "done") /\ OnlyPc
-------------------------------------------------------------------------------
(***************************************************************************)
(* The watchdog.                                                           *)
(***************************************************************************)
\* WDI_SIGNAL_LOCKED(): what pc becomes when the condition is signalled.
Woken == [pc EXCEPT ![Wd] = IF @ = "blocked" THEN "track" ELSE @]

\* watchdog_add_thread() and watchdog_remove_thread() of thread t, under the
\* lock of the watchdog.
watchdog_add_thread(t) ==
    /\ wdi_thread_list' = Append(wdi_thread_list, t)
    /\ cnt' = [cnt EXCEPT ![t] = IF @ = "zero" THEN "zero" ELSE "ahead"]
    /\ stalls' = [stalls EXCEPT ![t] = 0]
    /\ pc' = Woken

\* Mutant: the list is left to thread_ctl_unset_flag().
Without_kept(list, t) == list

Without(list, t) == RemoveFirst(list, t)
Listed(t) == \E i \in 1..Len(wdi_thread_list) : wdi_thread_list[i] = t

watchdog_remove_thread(t) ==
    /\ wdi_thread_list' = Without(wdi_thread_list, t)
    /\ pc' = Woken

\* The iteration of watchdog_svc_thread(): the wait, unless the watchdog is
\* halting; the time-out; the walk; the test of wdi_halt.
WdWait == ThreadAt(Wd, "block", IF wdi_halt THEN "track" ELSE "blocked") /\ OnlyPc
WdTimedOut == ThreadAt(Wd, "blocked", "track") /\ OnlyPc

\* Mutant: the watchdog looks only at threads that are not running.
Tracked_paused(t) == Listed(t) /\ has_flag(t, "WATCHDOG") /\ ~has_flag(t, "RUN")

Tracked(t) == Listed(t) /\ {"WATCHDOG", "RUN"} \subseteq flags[t] /\ should_continue(t)

watchdog_track_threads ==
    /\ ThreadAt(Wd, "track", "tracked")
    /\ stalls' = [t \in Watchable |->
                    IF Tracked(t) /\ cnt[t] # "ahead" /\ stalls[t] < MaxStalls
                    THEN stalls[t] + 1 ELSE stalls[t]]
    /\ cnt' = [t \in Watchable |-> IF Tracked(t) /\ cnt[t] = "ahead" THEN "same" ELSE cnt[t]]
    /\ UNCHANGED <<phase, call, tcVars, wdi_thread_list, wdi_halt, utVars, handler, fatal>>

WdNext == ThreadAt(Wd, "tracked", IF wdi_halt THEN "done" ELSE "test") /\ OnlyPc
-------------------------------------------------------------------------------
(***************************************************************************)
(* The calls of the main thread.  `call` holds the next step of the call   *)
(* and the thread it is about.                                             *)
(***************************************************************************)
Calling(op) == call.op = op
Go(op) == call' = [call EXCEPT !.op = op]
Done == call' = NoCall
UnlessCalled == call.op = "none"

\* thread_create_internal() up to pthread_create(): the thread_ctl is cleared
\* and the thread exists.  Only thread_create() installs the handler.
thread_create(t, watched) ==
    /\ flags' = [flags EXCEPT ![t] = {}] /\ tid' = [tid EXCEPT ![t] = TRUE]
    /\ pc' = [pc EXCEPT ![t] = "start"]
    /\ lives' = [lives EXCEPT ![t] = @ + 1]
    /\ IF t = Wd THEN UNCHANGED <<cnt, stalls>>
       ELSE cnt' = [cnt EXCEPT ![t] = "zero"] /\ stalls' = [stalls EXCEPT ![t] = 0]
    /\ call' = [op |-> IF watched THEN "watch" ELSE "run", t |-> t]
    /\ handler' = (handler \/ ~watched)
    /\ UNCHANGED <<wdi_thread_list, wdi_halt, fatal>>

\* thread_ctl_monitor_via_watchdog_internal(): the thread is added to the
\* list, then its flag is set.
Watch ==
    /\ Calling("watch")
    /\ watchdog_add_thread(call.t)
    /\ fatal' = (fatal \/ has_flag(call.t, "WATCHDOG"))
    /\ Go("flag")
    /\ UNCHANGED <<phase, tcVars, wdi_halt, utVars, handler>>

SetWatched ==
    /\ Calling("flag")
    /\ flags' = [flags EXCEPT ![call.t] = @ \cup {"WATCHDOG"}]
    /\ IF has_flag(call.t, "RUN") THEN Done ELSE Go("run")
    /\ UNCHANGED <<phase, tid, lives, pc, wdVars, cnt, wdi_halt, utVars, handler, fatal>>

\* thread_ctl_run().
thread_ctl_run ==
    /\ Calling("run")
    /\ flags' = [flags EXCEPT ![call.t] = @ \cup {"RUN"}]
    /\ fatal' = (fatal \/ has_flag(call.t, "RUN"))
    /\ IF call.t = Wd THEN Done ELSE Go("reach")
    /\ UNCHANGED <<phase, tid, lives, pc, wdVars, cnt, wdi_halt, utVars, handler>>

\* thread_creator_wait_until_ctl_loop_reached().
wait_until_ctl_loop_reached ==
    /\ Calling("reach") /\ has_flag(call.t, "REACHED_CTL_LOOP")
    /\ Done
    /\ UNCHANGED <<phase, tcVars, pc, wdVars, cnt, wdi_halt, utVars, handler, fatal>>

\* thread_halt_and_destroy(), step by step.
thread_ctl_halt ==
    /\ Calling("halt")
    /\ flags' = [flags EXCEPT ![call.t] = @ \cup {"HALT"}]
    /\ fatal' = (fatal \/ has_flag(call.t, "HALT"))
    /\ Go("unwatch")
    /\ UNCHANGED <<phase, tid, lives, pc, wdVars, cnt, wdi_halt, utVars, handler>>

remove_from_watchdog ==
    /\ Calling("unwatch")
    /\ IF has_flag(call.t, "WATCHDOG")
       THEN /\ watchdog_remove_thread(call.t)
            /\ fatal' = (fatal \/ ~Listed(call.t))  \* -EALREADY fails the assertion
            /\ Go("unflag")
       ELSE /\ Go("broadcast")
            /\ UNCHANGED <<wdi_thread_list, pc, fatal>>
    /\ UNCHANGED <<phase, tcVars, stalls, cnt, wdi_halt, utVars, handler>>

UnsetWatched ==
    /\ Calling("unflag")
    /\ flags' = [flags EXCEPT ![call.t] = @ \ {"WATCHDOG"}]
    /\ Go("broadcast")
    /\ UNCHANGED <<phase, tid, lives, pc, wdVars, cnt, wdi_halt, utVars, handler, fatal>>

\* Mutant: the condition of a thread that is told to halt is not broadcast.
BroadcastTo_none(t) == pc[t]

\* Whom the broadcast on tc_waiting_cond wakes, under tc_waiting_mutex.
BroadcastTo(t) == IF t \in Workers /\ pc[t] = "blocked" THEN "work" ELSE pc[t]
Broadcast ==
    /\ Calling("broadcast")
    /\ pc' = [pc EXCEPT ![call.t] = BroadcastTo(call.t)]
    /\ Go("kill")
    /\ UNCHANGED <<phase, tcVars, wdVars, cnt, wdi_halt, utVars, handler, fatal>>

\* thread_issue_sig_alarm_to_thread(): a thread in epoll_wait() or usleep() is
\* interrupted.  One that has yet to block, or that waits on a condition, only
\* counts the signal; without the handler the process is killed.
Interrupted(t) ==
    CASE pc[t] = "blocked" /\ t = Ut -> "test"
      [] pc[t] = "sleep"             -> "test"
      [] OTHER                       -> pc[t]
Kill ==
    /\ Calling("kill")
    /\ pc' = [pc EXCEPT ![call.t] = Interrupted(call.t)]
    /\ fatal' = (fatal \/ (pc[call.t] # "done" /\ ~handler))
    /\ Go("join")
    /\ UNCHANGED <<phase, tcVars, wdVars, cnt, wdi_halt, utVars, handler>>

\* pthread_join() returns once the thread has; then tc_thread_id is cleared.
Join ==
    /\ Calling("join")
    /\ ThreadAt(call.t, "done", "none")
    /\ tid' = [tid EXCEPT ![call.t] = FALSE]
    /\ Done
    /\ UNCHANGED <<phase, flags, lives, wdVars, cnt, wdi_halt, utVars, handler, fatal>>
-------------------------------------------------------------------------------
(***************************************************************************)
(* The event sources of the utility thread.  An entry of the table is      *)
(* "stored" until epoll knows it, then "installed" and at last "removed";  *)
(* its slot is not used again.                                             *)
(***************************************************************************)
\* util_thread_install_event_src(): before the utility thread is started the
\* handle is only stored; later epoll_handle_add() may fail, and then the slot
\* is left free.
util_thread_install_event_src ==
    /\ UnlessCalled /\ phase \in {"sources", "main"}
    /\ Len(slots) < MAX_UT_EPOLL_HANDLES
    /\ slots' = Append(slots, IF ut_started THEN "installed" ELSE "stored")
    /\ UNCHANGED <<phase, call, tcVars, pc, wdVars, cnt, wdi_halt, ut_started, handler, fatal>>

\* util_thread_remove_event_src().
util_thread_remove_event_src(i) ==
    /\ UnlessCalled /\ phase = "main" /\ slots[i] = "installed"
    /\ slots' = [slots EXCEPT ![i] = "removed"]
    /\ UNCHANGED <<phase, call, tcVars, pc, wdVars, cnt, wdi_halt, ut_started, handler, fatal>>

\* Mutant: the loop that adds the stored handles stops before the last one.
AllAdded_but_last == [i \in DOMAIN slots |-> IF i < Len(slots) THEN "installed" ELSE slots[i]]

\* The loop of util_thread_subsystem_init() that hands what was stored to
\* epoll, and the one of util_thread_subsystem_destroy().
AllAdded == [i \in DOMAIN slots |-> "installed"]
AllRemoved == [i \in DOMAIN slots |-> "removed"]
-------------------------------------------------------------------------------
(***************************************************************************)
(* The constructors in the order of their priorities, main(), and the      *)
(* destructors in the reverse order.                                       *)
(***************************************************************************)
Phase(from, to) == UnlessCalled /\ phase = from /\ phase' = to

watchdog_subsystem_init ==
    Phase("watchdog", "sources") /\ thread_create(Wd, FALSE) /\ UNCHANGED utVars

util_thread_subsystem_init ==
    /\ Phase("sources", "util")
    /\ ut_started' = TRUE /\ slots' = AllAdded
    /\ thread_create(Ut, TRUE)

init_complete ==
    /\ Phase("util", "main")
    /\ UNCHANGED <<call, tcVars, pc, wdVars, cnt, wdi_halt, utVars, handler, fatal>>

\* main(): a worker is created, watched or not, or watched later on; it is
\* halted, or joined when it returns by itself, in which case it must not be
\* on the list of the watchdog any more.
CreateWorker(t, watched) ==
    /\ UnlessCalled /\ phase = "main" /\ ~tid[t] /\ pc[t] = "none" /\ lives[t] < MaxLives
    /\ thread_create(t, watched)
    /\ UNCHANGED <<phase, utVars>>

Request(t, op, atPhase) ==
    /\ UnlessCalled /\ phase = atPhase /\ tid[t]
    /\ call' = [op |-> op, t |-> t]
    /\ UNCHANGED <<phase, tcVars, pc, wdVars, cnt, wdi_halt, utVars, handler, fatal>>

thread_ctl_monitor_via_watchdog(t) == ~has_flag(t, "WATCHDOG") /\ Request(t, "watch", "main")
HaltWorker(t) == Request(t, "halt", "main")
thread_join(t) ==
    /\ UnlessCalled /\ phase = "main" /\ ~has_flag(t, "WATCHDOG")
    /\ ThreadAt(t, "done", "none")
    /\ tid' = [tid EXCEPT ![t] = FALSE]   \* the caller does not use it again
    /\ UNCHANGED <<phase, call, flags, lives, wdVars, cnt, wdi_halt, utVars, handler, fatal>>

\* The application has destroyed its threads when main() returns.
destroy_start ==
    /\ Phase("main", "util_destroy")
    /\ \A t \in Workers : ~tid[t]
    /\ UNCHANGED <<call, tcVars, pc, wdVars, cnt, wdi_halt, utVars, handler, fatal>>

HaltUt == Request(Ut, "halt", "util_destroy")

\* What util_thread_subsystem_destroy() does once the thread is joined, and
\* watchdog_subsystem_destroy() before it halts its thread.
util_thread_subsystem_destroy ==
    /\ Phase("util_destroy", "watchdog_destroy") /\ ~tid[Ut]
    /\ slots' = AllRemoved
    /\ wdi_halt' = TRUE /\ pc' = Woken
    /\ UNCHANGED <<call, tcVars, wdVars, cnt, ut_started, handler, fatal>>

HaltWd == Request(Wd, "halt", "watchdog_destroy")

destroy_complete ==
    /\ Phase("watchdog_destroy", "end") /\ ~tid[Wd]
    /\ UNCHANGED <<call, tcVars, pc, wdVars, cnt, wdi_halt, utVars, handler, fatal>>
-------------------------------------------------------------------------------
LoopStep(t) ==
    \/ Start(t) \/ loop_test(t) \/ pause(t)
    \/ Block(t) \/ TimedOut(t)

WatchdogStep == WdWait \/ WdTimedOut \/ watchdog_track_threads \/ WdNext

CallStep ==
    \/ Watch \/ SetWatched \/ thread_ctl_run \/ wait_until_ctl_loop_reached
    \/ thread_ctl_halt \/ remove_from_watchdog \/ UnsetWatched \/ Broadcast \/ Kill \/ Join

MainStep ==
    \/ watchdog_subsystem_init \/ util_thread_subsystem_init \/ init_complete
    \/ \E t \in Workers : \/ \E watched \in BOOLEAN : CreateWorker(t, watched)
                          \/ thread_ctl_monitor_via_watchdog(t)
                          \/ HaltWorker(t) \/ thread_join(t)
    \/ util_thread_install_event_src
    \/ \E i \in DOMAIN slots : util_thread_remove_event_src(i)
    \/ destroy_start \/ HaltUt \/ util_thread_subsystem_destroy
    \/ HaltWd \/ destroy_complete

ThreadNext ==
    \/ \E t \in Threads : LoopStep(t) \/ Work(t) \/ Worked(t) \/ Returns(t)
    \/ WatchdogStep
    \/ CallStep
    \/ MainStep

\* A thread that can run does, a time-out expires, a call of the main thread
\* goes on; what a callback or main() does is up to the application.
ThreadFairness ==
    /\ \A t \in Threads : WF_threadVars(LoopStep(t))
    /\ WF_threadVars(WatchdogStep) /\ WF_threadVars(CallStep)
    /\ WF_threadVars(HaltUt \/ util_thread_subsystem_destroy \/ HaltWd)

ThreadSpec == ThreadInit /\ [][ThreadNext]_threadVars /\ ThreadFairness
-------------------------------------------------------------------------------
(***************************************************************************)
(* Properties.                                                             *)
(***************************************************************************)
Phases == {"watchdog", "sources", "util", "main", "util_destroy", "watchdog_destroy", "end"}

\* The watchdog walks a list of structures that their owners free: a thread
\* is on it only while its thread_ctl is in use, and its flag tells that it is
\* except while the calls that add and remove it are under way.  No assertion
\* of these calls fails (thread.c:57-71, 239-255; watchdog.c:68-131).
WatchedIsAlive ==
    /\ ~fatal /\ phase \in Phases
    /\ \A t \in Threads :
        /\ Listed(t) => tid[t] /\ Cardinality({i \in DOMAIN wdi_thread_list : wdi_thread_list[i] = t}) = 1
        /\ ~(call.t = t /\ call.op \in {"flag", "unflag"})
             => (has_flag(t, "WATCHDOG") <=> Listed(t))

\* What util_thread_install_event_src() accepted before the utility thread
\* existed and after is known to epoll as soon as that thread runs, until it
\* is removed; when the thread is gone nothing is left (util_thread.c:84-122,
\* 165-173, 199-213).
AcceptedIsPolled ==
    \A i \in DOMAIN slots :
        /\ pc[Ut] # "none" => slots[i] # "stored"
        /\ phase \in {"watchdog_destroy", "end"} => slots[i] = "removed"

\* thread_halt_and_destroy() returns, whichever step the thread is at when its
\* flag is set, when the condition is broadcast and when the signal arrives,
\* if what the thread does with its events ends (thread.c:295-334).
HaltJoins ==
    \A t \in Threads :
        []<>(pc[t] # "work") => ((Calling("halt") /\ call.t = t) ~> (pc[t] = "none" /\ ~tid[t]))

\* A watched thread that runs and never comes back to its loop is found by the
\* watchdog again and again (watchdog.c:160-186).
StallsCounted ==
    \A t \in Watchable :
        <>[](pc[t] = "work" /\ {"WATCHDOG", "RUN"} \subseteq flags[t] /\ should_continue(t))
            => <>(stalls[t] = MaxStalls)
================================================================================
