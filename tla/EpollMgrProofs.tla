---------------------------- MODULE EpollMgrProofs ----------------------------
(***************************************************************************)
(* Proofs about EpollMgr, for any threads, handles and bounds.             *)
(***************************************************************************)
EXTENDS EpollMgr, FiniteSetTheorems, TLAPS

\* Inside a call the thread has a handle, and one with a ref_cb if it queues
\* a ctx callback.
ArgOK ==
    \A t \in Threads : /\ pc[t] \in ApiLabels => arg[t] \in Handles
                       /\ pc[t] = "ctx_lock" => arg[t] \in RefHandles

TypeInv == TypeOK /\ ArgOK

(***************************************************************************)
(* The inductive strengthening of ListsMatchFlags and NumHandlesExact for  *)
(* an owner that closes a manager only when nobody uses it.                *)
(***************************************************************************)

\* Only the owner closes; meanwhile every other thread is idle, and a thread
\* inside the manager finds it open.
CloseInv ==
    /\ \A t \in Threads : pc[t] \in CloseLabels => t = Owner
    /\ Closing => \A t \in Threads \ {Owner} : pc[t] = "idle"
    /\ \A t \in Threads : pc[t] \notin CloseLabels \cup {"idle"}
                             => epm_ready /\ epm_epfd
    /\ pc[Owner] = "close_tally" => epm_ready
    /\ pc[Owner] = "close_fd" => ~epm_ready
    /\ epm_ready => epm_epfd

\* A manager that is not open, or about to be closed, has no handle.
EmptyInv ==
    ~epm_ready \/ pc[Owner] \in {"close_ready", "close_fd"}
       => eph_installed = {}

\* delay_list is a local of the reaper.
DelayInv ==
    delay_list # {} => \/ pc[Mgr] = "reap_destroy"
                       \/ pc[Mgr] \in ApiLabels /\ mret = "reap_destroy"

\* A thread that adds a handle is the only one to do so, and the handle stays
\* addable until the add is done.
AddInv ==
    \A t \in Threads : pc[t] \in {"add_lock"} \cup AddingLabels =>
       /\ arg[t] \in eph_fd /\ arg[t] \notin eph_installed
       /\ pc[t] = "add_lock" => arg[t] \notin eph_installing
       /\ \A u \in Threads : /\ pc[u] \in {"add_lock"} \cup AddingLabels
                             /\ arg[u] = arg[t]
                             => u = t

\* A handle that was installed when a delete looked at it is still, or it is
\* gone and has not been initialised again.
DelInv ==
    \A t \in Threads :
       pc[t] = "del_lock" => arg[t] \in eph_installed \/ arg[t] \notin eph_fd

ListInv ==
    /\ ListsMatchFlags
    /\ CloseInv /\ EmptyInv /\ DelayInv /\ AddInv /\ DelInv

-------------------------------------------------------------------------------
\* Control flow and frames: what every action is written with.
USE EpollMgrAssumption
    DEF Threads, MgrLabels, ApiLabels, CloseLabels, Goto, Return, ReturnTo,
        MayCall, Call, InCall, InLoop, epmVars, listVars, ctxVars, flagVars,
        mgrVars, boundVars

\* The initial state has the types.
LEMMA TypeInit == Init => TypeInv
  <1> SUFFICES ASSUME Init PROVE TypeInv
    OBVIOUS
  <1>1. TypeOK
    <2>1. epm_ready \in BOOLEAN /\ epm_epfd \in BOOLEAN /\ wake \in BOOLEAN
      BY Zenon DEF Init
    <2> QED
      BY <2>1 DEF Init, TypeOK
  <1>2. ArgOK
    BY DEF Init, ArgOK
  <1> QED
    BY <1>1, <1>2 DEF TypeInv

\* Every step keeps the types.
LEMMA TypeStep == TypeInv /\ [Next]_vars => TypeInv'
  <1> SUFFICES ASSUME TypeInv, [Next]_vars PROVE TypeInv'
    OBVIOUS
  <1> USE DEF TypeInv, TypeOK, ArgOK
  <1>1. CASE epoll_mgr_setup
    <2>1. epm_ready' \in BOOLEAN /\ epm_epfd' \in BOOLEAN /\ wake' \in BOOLEAN
      BY <1>1, Zenon DEF epoll_mgr_setup
    <2> QED
      BY <1>1, <2>1 DEF epoll_mgr_setup
  <1>2. CASE epoll_mgr_setup_fails
    BY <1>2 DEF epoll_mgr_setup_fails
  <1>3. CASE epoll_mgr_close_check
    BY <1>3 DEF epoll_mgr_close_check
  <1>4. CASE epoll_mgr_tally_handles
    BY <1>4 DEF epoll_mgr_tally_handles
  <1>5. CASE epoll_mgr_close_ready
    BY <1>5 DEF epoll_mgr_close_ready
  <1>6. CASE epoll_mgr_close_fd
    <2>1. epm_epfd' \in BOOLEAN /\ wake' \in BOOLEAN
      BY <1>6, Zenon DEF epoll_mgr_close_fd
    <2> QED
      BY <1>6, <2>1 DEF epoll_mgr_close_fd
  <1>7. ASSUME NEW h \in Handles, epoll_handle_init(h)
        PROVE  TypeInv'
    BY <1>7 DEF epoll_handle_init
  <1>8. ASSUME NEW t \in Threads, NEW h \in Handles, epoll_handle_add(t, h)
        PROVE  TypeInv'
    BY <1>8 DEF epoll_handle_add, RefGet
  <1>9. ASSUME NEW t \in Threads, NEW h \in Handles, epoll_handle_del(t, h)
        PROVE  TypeInv'
    BY <1>9 DEF epoll_handle_del
  <1>10. ASSUME NEW t \in Threads, NEW h \in Handles, epoll_mgr_ctx_cb_add(t,
                h)
         PROVE  TypeInv'
    BY <1>10 DEF epoll_mgr_ctx_cb_add, RefGet, MayQueueCtxCb
  <1>11. ASSUME NEW t \in Threads, add_locked(t)
         PROVE  TypeInv'
    BY <1>11 DEF add_locked
  <1>12. ASSUME NEW t \in Threads, add_epoll_ctl(t)
         PROVE  TypeInv'
    BY <1>12 DEF add_epoll_ctl
  <1>13. ASSUME NEW t \in Threads, add_installed(t)
         PROVE  TypeInv'
    BY <1>13 DEF add_installed
  <1>14. ASSUME NEW t \in Threads, add_failed(t)
         PROVE  TypeInv'
    BY <1>14 DEF add_failed
  <1>15. ASSUME NEW t \in Threads, del_locked(t)
         PROVE  TypeInv'
    BY <1>15 DEF del_locked, Found
  <1>16. ASSUME NEW t \in Threads, del_wake(t)
         PROVE  TypeInv'
    BY <1>16 DEF del_wake, epoll_mgr_wake
  <1>17. ASSUME NEW t \in Threads, del_epoll_ctl(t)
         PROVE  TypeInv'
    BY <1>17 DEF del_epoll_ctl
  <1>18. ASSUME NEW t \in Threads, del_completed(t)
         PROVE  TypeInv'
    BY <1>18 DEF del_completed
  <1>19. ASSUME NEW t \in Threads, ctx_cb_add_locked(t)
         PROVE  TypeInv'
    BY <1>19 DEF ctx_cb_add_locked, epoll_mgr_wake
  <1>20. ASSUME NEW t \in Threads, ref_put(t)
         PROVE  TypeInv'
    BY <1>20 DEF ref_put, RefPut
  <1>21. CASE enter_wait
    BY <1>21 DEF enter_wait
  <1>22. CASE dispatch_wake
    BY <1>22 DEF dispatch_wake
  <1>23. CASE dispatch_put
    BY <1>23 DEF dispatch_put, RefPut
  <1>24. CASE dispatch_end
    BY <1>24 DEF dispatch_end
  <1>25. CASE epoll_mgr_reap_ctx_list
    BY <1>25 DEF epoll_mgr_reap_ctx_list
  <1>26. CASE ctx_cb_returns
    BY <1>26 DEF ctx_cb_returns
  <1>27. CASE ctx_cb_done
    BY <1>27 DEF ctx_cb_done
  <1>28. CASE ctx_cb_put
    <2>1. CASE cur \in Handles
      BY <1>28, <2>1 DEF ctx_cb_put, RefPut
    <2>2. CASE cur \notin Handles
      <3>1. refs' = refs
        BY <1>28, <2>2 DEF ctx_cb_put, RefPut
      <3> QED
        BY <1>28, <3>1 DEF ctx_cb_put
    <2> QED
      BY <2>1, <2>2
  <1>29. CASE reap_ctx_end
    BY <1>29 DEF reap_ctx_end
  <1>30. CASE reap_destroy_end
    BY <1>30 DEF reap_destroy_end, SpliceBack
  <1>31. CASE epoll_wait
    BY <1>31 DEF epoll_wait
  <1>32. ASSUME NEW h \in Handles, dispatch_skip(h)
         PROVE  TypeInv'
    BY <1>32 DEF dispatch_skip
  <1>33. ASSUME NEW h \in Handles, dispatch(h)
         PROVE  TypeInv'
    BY <1>33 DEF dispatch
  <1>34. ASSUME NEW h \in Handles, epoll_mgr_ctx_cb_run(h)
         PROVE  TypeInv'
    BY <1>34 DEF epoll_mgr_ctx_cb_run
  <1>35. ASSUME NEW h \in Handles, epoll_mgr_reap_destroy_list(h)
         PROVE  TypeInv'
    BY <1>35 DEF epoll_mgr_reap_destroy_list
  <1>36. CASE UNCHANGED vars
    BY <1>36 DEF vars
  <1> QED
    BY <1>1, <1>2, <1>3, <1>4, <1>5, <1>6, <1>7, <1>8, <1>9, <1>10,
       <1>11, <1>12, <1>13, <1>14, <1>15, <1>16, <1>17, <1>18, <1>19,
       <1>20, <1>21, <1>22, <1>23, <1>24, <1>25, <1>26, <1>27, <1>28,
       <1>29, <1>30, <1>31, <1>32, <1>33, <1>34, <1>35, <1>36
    DEF Next, epoll_mgr_close, CloseStep, ApiCall, ApiStep, LoopStep

\* The types of the manager, its handles and its threads, for any number of
\* threads and handles and whatever the application does (epoll_mgr.c).
THEOREM TypeCorrect == Spec => []TypeOK
  <1>1. TypeInv => TypeOK
    BY DEF TypeInv
  <1> QED
    BY TypeInit, TypeStep, <1>1, PTL DEF Spec

-------------------------------------------------------------------------------
\* A manager that was never set up has empty lists.
LEMMA ListInit == Init => ListInv
  BY DEF Init, ListInv, ListsMatchFlags, CloseInv, EmptyInv, DelayInv, AddInv,
         DelInv, Closing, At, AddingLabels, CompletingLabels

\* Every step keeps the lists, the bits and the threads in agreement.
LEMMA ListStep ==
  ASSUME ~CloseRaces
  PROVE  TypeInv /\ ListInv /\ [Next]_vars => ListInv'
  <1> SUFFICES ASSUME TypeInv, ListInv, [Next]_vars PROVE ListInv'
    OBVIOUS
  <1> USE DEF TypeInv, TypeOK, ArgOK, ListInv, ListsMatchFlags, CloseInv,
              EmptyInv, DelayInv, AddInv, DelInv, Closing, At, AddingLabels,
              CompletingLabels
  <1>1. CASE epoll_mgr_setup
    BY <1>1 DEF epoll_mgr_setup
  <1>2. CASE epoll_mgr_setup_fails
    BY <1>2 DEF epoll_mgr_setup_fails
  <1>3. CASE epoll_mgr_close_check
    BY <1>3 DEF epoll_mgr_close_check, Quiet
  <1>4. CASE epoll_mgr_tally_handles
    BY <1>4 DEF epoll_mgr_tally_handles, Tallied
  <1>5. CASE epoll_mgr_close_ready
    BY <1>5 DEF epoll_mgr_close_ready
  <1>6. CASE epoll_mgr_close_fd
    BY <1>6 DEF epoll_mgr_close_fd
  <1>7. ASSUME NEW h \in Handles, epoll_handle_init(h)
        PROVE  ListInv'
    BY <1>7 DEF epoll_handle_init, InApi
  <1>8. ASSUME NEW t \in Threads, NEW h \in Handles, epoll_handle_add(t, h)
        PROVE  ListInv'
    BY <1>8 DEF epoll_handle_add, InApi, AddChecks
  <1>9. ASSUME NEW t \in Threads, NEW h \in Handles, epoll_handle_del(t, h)
        PROVE  ListInv'
    BY <1>9 DEF epoll_handle_del
  <1>10. ASSUME NEW t \in Threads, NEW h \in Handles, epoll_mgr_ctx_cb_add(t,
                h)
         PROVE  ListInv'
    BY <1>10 DEF epoll_mgr_ctx_cb_add, MayQueueCtxCb
  <1>11. ASSUME NEW t \in Threads, add_locked(t)
         PROVE  ListInv'
    BY <1>11 DEF add_locked
  <1>12. ASSUME NEW t \in Threads, add_epoll_ctl(t)
         PROVE  ListInv'
    BY <1>12 DEF add_epoll_ctl
  <1>13. ASSUME NEW t \in Threads, add_installed(t)
         PROVE  ListInv'
    BY <1>13 DEF add_installed
  <1>14. ASSUME NEW t \in Threads, add_failed(t)
         PROVE  ListInv'
    BY <1>14 DEF add_failed
  <1>15. ASSUME NEW t \in Threads, del_locked(t)
         PROVE  ListInv'
    <2> DEFINE x == arg[t]
    <2>1. CASE ~Found(x)
      BY <1>15, <2>1 DEF del_locked, Found
    <2>2. CASE Found(x)
      <3>1. /\ x \in eph_installed /\ x \notin eph_destroying
            /\ x \notin eph_installing /\ x \in eph_fd
        BY <1>15, <2>2 DEF del_locked, Found
      <3>2. /\ epm_active_list' = epm_active_list \ {x}
            /\ eph_destroying' = eph_destroying \cup {x}
            /\ UNCHANGED <<eph_fd, eph_installed, eph_installing, delay_list,
                           epm_ready, epm_epfd, arg, mret>>
        BY <1>15, <2>2 DEF del_locked
      <3>3. CASE CompleteHere(t, x)
        <4>1. /\ pc' = [pc EXCEPT ![t] = "del_ctl"]
              /\ epm_destroy_list' = epm_destroy_list
          BY <1>15, <2>2, <3>3 DEF del_locked
        <4> QED
          BY <1>15, <3>1, <3>2, <4>1 DEF del_locked
      <3>4. CASE ~CompleteHere(t, x)
        <4>1. /\ pc' = [pc EXCEPT ![t] = "del_wake"]
              /\ epm_destroy_list' = epm_destroy_list \cup {x}
          BY <1>15, <2>2, <3>4 DEF del_locked
        <4> QED
          BY <1>15, <3>1, <3>2, <4>1 DEF del_locked
      <3> QED
        BY <3>3, <3>4
    <2> QED
      BY <2>1, <2>2
  <1>16. ASSUME NEW t \in Threads, del_wake(t)
         PROVE  ListInv'
    BY <1>16 DEF del_wake
  <1>17. ASSUME NEW t \in Threads, del_epoll_ctl(t)
         PROVE  ListInv'
    BY <1>17 DEF del_epoll_ctl
  <1>18. ASSUME NEW t \in Threads, del_completed(t)
         PROVE  ListInv'
    BY <1>18 DEF del_completed
  <1>19. ASSUME NEW t \in Threads, ctx_cb_add_locked(t)
         PROVE  ListInv'
    BY <1>19 DEF ctx_cb_add_locked
  <1>20. ASSUME NEW t \in Threads, ref_put(t)
         PROVE  ListInv'
    BY <1>20 DEF ref_put
  <1>21. CASE enter_wait
    BY <1>21 DEF enter_wait
  <1>22. CASE dispatch_wake
    BY <1>22 DEF dispatch_wake
  <1>23. CASE dispatch_put
    BY <1>23 DEF dispatch_put
  <1>24. CASE dispatch_end
    BY <1>24 DEF dispatch_end
  <1>25. CASE epoll_mgr_reap_ctx_list
    BY <1>25 DEF epoll_mgr_reap_ctx_list
  <1>26. CASE ctx_cb_returns
    BY <1>26 DEF ctx_cb_returns
  <1>27. CASE ctx_cb_done
    BY <1>27 DEF ctx_cb_done
  <1>28. CASE ctx_cb_put
    BY <1>28 DEF ctx_cb_put
  <1>29. CASE reap_ctx_end
    BY <1>29 DEF reap_ctx_end
  <1>30. CASE reap_destroy_end
    BY <1>30 DEF reap_destroy_end, SpliceBack
  <1>31. CASE epoll_wait
    BY <1>31 DEF epoll_wait
  <1>32. ASSUME NEW h \in Handles, dispatch_skip(h)
         PROVE  ListInv'
    BY <1>32 DEF dispatch_skip
  <1>33. ASSUME NEW h \in Handles, dispatch(h)
         PROVE  ListInv'
    BY <1>33 DEF dispatch
  <1>34. ASSUME NEW h \in Handles, epoll_mgr_ctx_cb_run(h)
         PROVE  ListInv'
    BY <1>34 DEF epoll_mgr_ctx_cb_run
  <1>35. ASSUME NEW h \in Handles, epoll_mgr_reap_destroy_list(h)
         PROVE  ListInv'
    BY <1>35 DEF epoll_mgr_reap_destroy_list
  <1>36. CASE UNCHANGED vars
    BY <1>36 DEF vars
  <1> QED
    BY ZenonT(30), <1>1, <1>2, <1>3, <1>4, <1>5, <1>6, <1>7, <1>8, <1>9, <1>10,
       <1>11, <1>12, <1>13, <1>14, <1>15, <1>16, <1>17, <1>18, <1>19,
       <1>20, <1>21, <1>22, <1>23, <1>24, <1>25, <1>26, <1>27, <1>28,
       <1>29, <1>30, <1>31, <1>32, <1>33, <1>34, <1>35, <1>36
    DEF Next, epoll_mgr_close, CloseStep, ApiCall, ApiStep, LoopStep

\* epm_num_handles follows the installed handles.
LEMMA NumStep ==
  ASSUME ~CloseRaces
  PROVE  TypeInv /\ ListInv /\ NumHandlesExact /\ [Next]_vars
           => NumHandlesExact'
  <1> SUFFICES ASSUME TypeInv, ListInv, NumHandlesExact, [Next]_vars
               PROVE  NumHandlesExact'
    OBVIOUS
  <1> USE DEF NumHandlesExact
  <1>1. IsFiniteSet(eph_installed)
    BY FS_Subset DEF TypeInv, TypeOK
  <1>2. CASE epoll_mgr_setup \/ epoll_mgr_setup_fails
    BY <1>2, FS_EmptySet
    DEF epoll_mgr_setup, epoll_mgr_setup_fails, ListInv, EmptyInv
  <1>3. ASSUME NEW t \in Threads, add_installed(t)
        PROVE  NumHandlesExact'
    <2>1. arg[t] \notin eph_installed
      BY <1>3 DEF add_installed, ListInv, AddInv, AddingLabels
    <2> QED
      BY <1>1, <1>3, <2>1, FS_AddElement DEF add_installed
  <1>4. ASSUME NEW t \in Threads, del_completed(t)
        PROVE  NumHandlesExact'
    <2>1. arg[t] \in eph_installed
      BY <1>4 DEF del_completed, TypeInv, ArgOK, ListInv, ListsMatchFlags, At,
                  CompletingLabels
    <2> QED
      BY <1>1, <1>4, <2>1, FS_RemoveElement DEF del_completed
  <1>5. CASE UNCHANGED <<epm_num_handles, eph_installed>>
    BY <1>5
  <1>6. \/ epoll_mgr_setup \/ epoll_mgr_setup_fails
        \/ \E t \in Threads : add_installed(t) \/ del_completed(t)
        \/ UNCHANGED <<epm_num_handles, eph_installed>>
    BY DEF Next, vars, epoll_mgr_close, CloseStep, ApiCall, ApiStep, LoopStep,
           epoll_mgr_close_check, epoll_mgr_tally_handles,
           epoll_mgr_close_ready, epoll_mgr_close_fd, epoll_handle_init,
           epoll_handle_add, epoll_handle_del, epoll_mgr_ctx_cb_add,
           add_locked, add_epoll_ctl, add_failed, del_locked, del_wake,
           del_epoll_ctl, ctx_cb_add_locked, ref_put, enter_wait,
           dispatch_wake, dispatch_put, dispatch_end,
           epoll_mgr_reap_ctx_list, ctx_cb_returns, ctx_cb_done, ctx_cb_put,
           reap_ctx_end, reap_destroy_end, epoll_wait, dispatch_skip,
           dispatch, epoll_mgr_ctx_cb_run, epoll_mgr_reap_destroy_list
  <1> QED
    BY <1>2, <1>3, <1>4, <1>5, <1>6

\* Lists, bits and threads agree: in particular no delete is completed twice
\* (epoll_handle_del() and epoll_mgr_reap_destroy_list()).
THEOREM ListsCorrect ==
  ASSUME ~CloseRaces
  PROVE  Spec => []ListsMatchFlags
  <1>1. TypeInv /\ ListInv /\ [Next]_vars => (TypeInv /\ ListInv)'
    BY TypeStep, ListStep
  <1>2. Init => TypeInv /\ ListInv
    BY TypeInit, ListInit
  <1>3. ListInv => ListsMatchFlags
    BY DEF ListInv
  <1> QED
    BY <1>1, <1>2, <1>3, PTL DEF Spec

\* epm_num_handles counts the installed handles, so the assertions of
\* epoll_handle_add() and epoll_handle_del_complete() cannot fail.
THEOREM NumHandlesCorrect ==
  ASSUME ~CloseRaces
  PROVE  Spec => []NumHandlesExact
  <1> DEFINE I == TypeInv /\ ListInv /\ NumHandlesExact
  <1>1. I /\ [Next]_vars => I'
    BY TypeStep, ListStep, NumStep
  <1>2. Init => NumHandlesExact
    BY FS_EmptySet DEF Init, NumHandlesExact
  <1>3. Init => I
    BY TypeInit, ListInit, <1>2
  <1> QED
    BY <1>1, <1>3, PTL DEF Spec

-------------------------------------------------------------------------------
(***************************************************************************)
(* The inductive strengthening of CtxCbAccounted, CtxBeforeDelete and      *)
(* NoLostWakeup.                                                           *)
(***************************************************************************)
InNested(l) == pc[Mgr] \in ApiLabels /\ mret = l

\* Where Mgr is when a ctx callback runs, and while some are left to run.
Running   == pc[Mgr] = "ctxcb" \/ InNested("ctxcb")
InReapCtx == Running \/ pc[Mgr] \in {"run_ctx", "ctx_done", "ctx_put"}

\* Mgr has looked at the lists and goes to sleep; Mgr has taken the ctx list
\* and is still busy with what it took.
Sleeping  == pc[Mgr] \in {"idle", "wait"} \/ InNested("idle")
InReap    == \/ InReapCtx
             \/ pc[Mgr] = "reap_destroy" \/ InNested("reap_destroy")

Woken == wake \/ \E t \in Threads : pc[t] = "del_wake"

CtxInv ==
    /\ epm_ctx_cb_list \cap tmp_head = {}
    /\ eph_ctx_cb = epm_ctx_cb_list \cup tmp_head \cup
         {h \in RefHandles : cur = h /\ \/ epm_ctx_cb_running = h
                                        \/ pc[Mgr] = "ctx_done"}
    /\ Running => /\ epm_ctx_cb_running = cur /\ cur \in RefHandles
    /\ ~Running => epm_ctx_cb_running = None
    /\ pc[Mgr] = "ctx_done" => cur \in RefHandles
    /\ Running \/ pc[Mgr] = "ctx_done"
         => cur \notin epm_ctx_cb_list \cup tmp_head
    /\ tmp_head # {} => InReapCtx
    /\ ~epm_ready \/ Closing => eph_ctx_cb = {}

\* A delete that a ctx callback must precede waits on a list of the reaper.
OwedInv == owed \subseteq eph_ctx_cb \cap (epm_destroy_list \cup delay_list)

WakeInv ==
    /\ (Sleeping \/ InReap) /\ epm_ctx_cb_list # {} => Woken
    /\ Sleeping /\ epm_destroy_list # {} => Woken
    /\ delay_list \subseteq epm_ctx_cb_list

CtxNum == epm_ctx_cb_num = Cardinality(eph_ctx_cb)


\* ... and nothing is queued.
LEMMA CtxInit == Init => CtxInv /\ OwedInv /\ WakeInv
  BY DEF Init, CtxInv, OwedInv, WakeInv, InNested, Running, InReapCtx,
         Sleeping, InReap

\* Every step keeps the queues of ctx callbacks in order.
LEMMA CtxStep ==
  ASSUME ~CloseRaces
  PROVE  TypeInv /\ ListInv /\ CtxNum /\ CtxInv /\ [Next]_vars => CtxInv'
  <1> SUFFICES ASSUME TypeInv, ListInv, CtxNum, CtxInv, [Next]_vars
               PROVE  CtxInv'
    OBVIOUS
  <1> USE DEF TypeInv, TypeOK, ListInv, CloseInv, Closing, CtxInv, InNested,
              Running, InReapCtx
  <1>1. CASE epoll_mgr_setup
    BY <1>1 DEF epoll_mgr_setup
  <1>2. CASE epoll_mgr_setup_fails
    BY <1>2 DEF epoll_mgr_setup_fails
  <1>3. CASE epoll_mgr_close_check
    <2>1. IsFiniteSet(eph_ctx_cb) /\ epm_ctx_cb_num = 0
      BY <1>3, FS_Subset DEF epoll_mgr_close_check
    <2>2. eph_ctx_cb = {}
      BY <2>1, FS_EmptySet DEF CtxNum
    <2> QED
      BY <1>3, <2>2 DEF epoll_mgr_close_check, Quiet
  <1>4. CASE epoll_mgr_tally_handles
    BY <1>4 DEF epoll_mgr_tally_handles
  <1>5. CASE epoll_mgr_close_ready
    BY <1>5 DEF epoll_mgr_close_ready
  <1>6. CASE epoll_mgr_close_fd
    BY <1>6 DEF epoll_mgr_close_fd
  <1>7. ASSUME NEW h \in Handles, epoll_handle_init(h)
        PROVE  CtxInv'
    BY <1>7 DEF epoll_handle_init
  <1>8. ASSUME NEW t \in Threads, NEW h \in Handles, epoll_handle_add(t, h)
        PROVE  CtxInv'
    BY <1>8 DEF epoll_handle_add
  <1>9. ASSUME NEW t \in Threads, NEW h \in Handles, epoll_handle_del(t, h)
        PROVE  CtxInv'
    BY <1>9 DEF epoll_handle_del
  <1>10. ASSUME NEW t \in Threads, NEW h \in Handles, epoll_mgr_ctx_cb_add(t,
                h)
         PROVE  CtxInv'
    BY <1>10 DEF epoll_mgr_ctx_cb_add, MayQueueCtxCb
  <1>11. ASSUME NEW t \in Threads, add_locked(t)
         PROVE  CtxInv'
    BY <1>11 DEF add_locked
  <1>12. ASSUME NEW t \in Threads, add_epoll_ctl(t)
         PROVE  CtxInv'
    BY <1>12 DEF add_epoll_ctl
  <1>13. ASSUME NEW t \in Threads, add_installed(t)
         PROVE  CtxInv'
    BY <1>13 DEF add_installed
  <1>14. ASSUME NEW t \in Threads, add_failed(t)
         PROVE  CtxInv'
    BY <1>14 DEF add_failed
  <1>15. ASSUME NEW t \in Threads, del_locked(t)
         PROVE  CtxInv'
    BY <1>15 DEF del_locked
  <1>16. ASSUME NEW t \in Threads, del_wake(t)
         PROVE  CtxInv'
    BY <1>16 DEF del_wake
  <1>17. ASSUME NEW t \in Threads, del_epoll_ctl(t)
         PROVE  CtxInv'
    BY <1>17 DEF del_epoll_ctl
  <1>18. ASSUME NEW t \in Threads, del_completed(t)
         PROVE  CtxInv'
    BY <1>18 DEF del_completed
  <1>19. ASSUME NEW t \in Threads, ctx_cb_add_locked(t)
         PROVE  CtxInv'
    BY <1>19 DEF ctx_cb_add_locked, ArgOK, CtxCbBusy
  <1>20. ASSUME NEW t \in Threads, ref_put(t)
         PROVE  CtxInv'
    BY <1>20 DEF ref_put
  <1>21. CASE enter_wait
    BY <1>21 DEF enter_wait
  <1>22. CASE dispatch_wake
    BY <1>22 DEF dispatch_wake
  <1>23. CASE dispatch_put
    BY <1>23 DEF dispatch_put
  <1>24. CASE dispatch_end
    BY <1>24 DEF dispatch_end
  <1>25. CASE epoll_mgr_reap_ctx_list
    BY <1>25 DEF epoll_mgr_reap_ctx_list
  <1>26. CASE ctx_cb_returns
    BY <1>26 DEF ctx_cb_returns
  <1>27. CASE ctx_cb_done
    BY <1>27 DEF ctx_cb_done
  <1>28. CASE ctx_cb_put
    BY <1>28 DEF ctx_cb_put
  <1>29. CASE reap_ctx_end
    BY <1>29 DEF reap_ctx_end
  <1>30. CASE reap_destroy_end
    BY <1>30 DEF reap_destroy_end
  <1>31. CASE epoll_wait
    BY <1>31 DEF epoll_wait
  <1>32. ASSUME NEW h \in Handles, dispatch_skip(h)
         PROVE  CtxInv'
    BY <1>32 DEF dispatch_skip
  <1>33. ASSUME NEW h \in Handles, dispatch(h)
         PROVE  CtxInv'
    BY <1>33 DEF dispatch
  <1>34. ASSUME NEW h \in Handles, epoll_mgr_ctx_cb_run(h)
         PROVE  CtxInv'
    BY <1>34 DEF epoll_mgr_ctx_cb_run
  <1>35. ASSUME NEW h \in Handles, epoll_mgr_reap_destroy_list(h)
         PROVE  CtxInv'
    BY <1>35 DEF epoll_mgr_reap_destroy_list
  <1>36. CASE UNCHANGED vars
    BY <1>36 DEF vars
  <1> QED
    BY <1>1, <1>2, <1>3, <1>4, <1>5, <1>6, <1>7, <1>8, <1>9, <1>10,
       <1>11, <1>12, <1>13, <1>14, <1>15, <1>16, <1>17, <1>18, <1>19,
       <1>20, <1>21, <1>22, <1>23, <1>24, <1>25, <1>26, <1>27, <1>28,
       <1>29, <1>30, <1>31, <1>32, <1>33, <1>34, <1>35, <1>36
    DEF Next, epoll_mgr_close, CloseStep, ApiCall, ApiStep, LoopStep

\* A delete that must wait for a ctx callback stays with the reaper.
LEMMA OwedStep ==
  ASSUME ~CloseRaces
  PROVE  TypeInv /\ ListInv /\ CtxInv /\ OwedInv /\ [Next]_vars => OwedInv'
  <1> SUFFICES ASSUME TypeInv, ListInv, CtxInv, OwedInv, [Next]_vars
               PROVE  OwedInv'
    OBVIOUS
  <1> USE DEF OwedInv
  <1>1. CASE epoll_mgr_setup
    BY <1>1 DEF epoll_mgr_setup, CtxInv
  <1>2. CASE epoll_mgr_setup_fails
    BY <1>2 DEF epoll_mgr_setup_fails
  <1>3. CASE epoll_mgr_close_check
    BY <1>3 DEF epoll_mgr_close_check
  <1>4. CASE epoll_mgr_tally_handles
    BY <1>4 DEF epoll_mgr_tally_handles
  <1>5. CASE epoll_mgr_close_ready
    BY <1>5 DEF epoll_mgr_close_ready
  <1>6. CASE epoll_mgr_close_fd
    BY <1>6 DEF epoll_mgr_close_fd
  <1>7. ASSUME NEW h \in Handles, epoll_handle_init(h)
        PROVE  OwedInv'
    BY <1>7 DEF epoll_handle_init
  <1>8. ASSUME NEW t \in Threads, NEW h \in Handles, epoll_handle_add(t, h)
        PROVE  OwedInv'
    BY <1>8 DEF epoll_handle_add
  <1>9. ASSUME NEW t \in Threads, NEW h \in Handles, epoll_handle_del(t, h)
        PROVE  OwedInv'
    BY <1>9 DEF epoll_handle_del
  <1>10. ASSUME NEW t \in Threads, NEW h \in Handles, epoll_mgr_ctx_cb_add(t,
                h)
         PROVE  OwedInv'
    BY <1>10 DEF epoll_mgr_ctx_cb_add
  <1>11. ASSUME NEW t \in Threads, add_locked(t)
         PROVE  OwedInv'
    BY <1>11 DEF add_locked
  <1>12. ASSUME NEW t \in Threads, add_epoll_ctl(t)
         PROVE  OwedInv'
    BY <1>12 DEF add_epoll_ctl
  <1>13. ASSUME NEW t \in Threads, add_installed(t)
         PROVE  OwedInv'
    BY <1>13 DEF add_installed
  <1>14. ASSUME NEW t \in Threads, add_failed(t)
         PROVE  OwedInv'
    BY <1>14 DEF add_failed
  <1>15. ASSUME NEW t \in Threads, del_locked(t)
         PROVE  OwedInv'
    BY <1>15 DEF del_locked, Found, CompleteHere, CtxCbPending
  <1>16. ASSUME NEW t \in Threads, del_wake(t)
         PROVE  OwedInv'
    BY <1>16 DEF del_wake
  <1>17. ASSUME NEW t \in Threads, del_epoll_ctl(t)
         PROVE  OwedInv'
    BY <1>17 DEF del_epoll_ctl
  <1>18. ASSUME NEW t \in Threads, del_completed(t)
         PROVE  OwedInv'
    BY <1>18 DEF del_completed
  <1>19. ASSUME NEW t \in Threads, ctx_cb_add_locked(t)
         PROVE  OwedInv'
    BY <1>19 DEF ctx_cb_add_locked
  <1>20. ASSUME NEW t \in Threads, ref_put(t)
         PROVE  OwedInv'
    BY <1>20 DEF ref_put
  <1>21. CASE enter_wait
    BY <1>21 DEF enter_wait
  <1>22. CASE dispatch_wake
    BY <1>22 DEF dispatch_wake
  <1>23. CASE dispatch_put
    BY <1>23 DEF dispatch_put
  <1>24. CASE dispatch_end
    BY <1>24 DEF dispatch_end
  <1>25. CASE epoll_mgr_reap_ctx_list
    BY <1>25 DEF epoll_mgr_reap_ctx_list
  <1>26. CASE ctx_cb_returns
    BY <1>26 DEF ctx_cb_returns
  <1>27. CASE ctx_cb_done
    BY <1>27 DEF ctx_cb_done
  <1>28. CASE ctx_cb_put
    BY <1>28 DEF ctx_cb_put
  <1>29. CASE reap_ctx_end
    BY <1>29 DEF reap_ctx_end
  <1>30. CASE reap_destroy_end
    BY <1>30 DEF reap_destroy_end, SpliceBack
  <1>31. CASE epoll_wait
    BY <1>31 DEF epoll_wait
  <1>32. ASSUME NEW h \in Handles, dispatch_skip(h)
         PROVE  OwedInv'
    BY <1>32 DEF dispatch_skip
  <1>33. ASSUME NEW h \in Handles, dispatch(h)
         PROVE  OwedInv'
    BY <1>33 DEF dispatch
  <1>34. ASSUME NEW h \in Handles, epoll_mgr_ctx_cb_run(h)
         PROVE  OwedInv'
    BY <1>34 DEF epoll_mgr_ctx_cb_run
  <1>35. ASSUME NEW h \in Handles, epoll_mgr_reap_destroy_list(h)
         PROVE  OwedInv'
    BY <1>35 DEF epoll_mgr_reap_destroy_list, DelayDestroy
  <1>36. CASE UNCHANGED vars
    BY <1>36 DEF vars
  <1> QED
    BY <1>1, <1>2, <1>3, <1>4, <1>5, <1>6, <1>7, <1>8, <1>9, <1>10,
       <1>11, <1>12, <1>13, <1>14, <1>15, <1>16, <1>17, <1>18, <1>19,
       <1>20, <1>21, <1>22, <1>23, <1>24, <1>25, <1>26, <1>27, <1>28,
       <1>29, <1>30, <1>31, <1>32, <1>33, <1>34, <1>35, <1>36
    DEF Next, epoll_mgr_close, CloseStep, ApiCall, ApiStep, LoopStep

\* Every step that queues work wakes Mgr, and Mgr drains the eventfd before it
\* looks at the lists.
LEMMA WakeStep ==
  ASSUME ~CloseRaces
  PROVE  TypeInv /\ ListInv /\ CtxInv /\ WakeInv /\ [Next]_vars => WakeInv'
  <1> SUFFICES ASSUME TypeInv, ListInv, CtxInv, WakeInv, [Next]_vars
               PROVE  WakeInv'
    OBVIOUS
  <1> USE DEF TypeInv, TypeOK, ListInv, CloseInv, Closing, WakeInv, Woken,
              InNested, Running, InReapCtx, Sleeping, InReap
  <1>1. CASE epoll_mgr_setup
    BY <1>1 DEF epoll_mgr_setup, DelayInv
  <1>2. CASE epoll_mgr_setup_fails
    BY <1>2 DEF epoll_mgr_setup_fails, CtxInv
  <1>3. CASE epoll_mgr_close_check
    BY <1>3 DEF epoll_mgr_close_check
  <1>4. CASE epoll_mgr_tally_handles
    BY <1>4 DEF epoll_mgr_tally_handles
  <1>5. CASE epoll_mgr_close_ready
    BY <1>5 DEF epoll_mgr_close_ready
  <1>6. CASE epoll_mgr_close_fd
    BY <1>6 DEF epoll_mgr_close_fd, CtxInv, EmptyInv, ListsMatchFlags
  <1>7. ASSUME NEW h \in Handles, epoll_handle_init(h)
        PROVE  WakeInv'
    BY <1>7 DEF epoll_handle_init
  <1>8. ASSUME NEW t \in Threads, NEW h \in Handles, epoll_handle_add(t, h)
        PROVE  WakeInv'
    BY <1>8 DEF epoll_handle_add
  <1>9. ASSUME NEW t \in Threads, NEW h \in Handles, epoll_handle_del(t, h)
        PROVE  WakeInv'
    BY <1>9 DEF epoll_handle_del
  <1>10. ASSUME NEW t \in Threads, NEW h \in Handles, epoll_mgr_ctx_cb_add(t,
                h)
         PROVE  WakeInv'
    BY <1>10 DEF epoll_mgr_ctx_cb_add
  <1>11. ASSUME NEW t \in Threads, add_locked(t)
         PROVE  WakeInv'
    BY <1>11 DEF add_locked
  <1>12. ASSUME NEW t \in Threads, add_epoll_ctl(t)
         PROVE  WakeInv'
    BY <1>12 DEF add_epoll_ctl
  <1>13. ASSUME NEW t \in Threads, add_installed(t)
         PROVE  WakeInv'
    BY <1>13 DEF add_installed
  <1>14. ASSUME NEW t \in Threads, add_failed(t)
         PROVE  WakeInv'
    BY <1>14 DEF add_failed
  <1>15. ASSUME NEW t \in Threads, del_locked(t)
         PROVE  WakeInv'
    BY <1>15 DEF del_locked
  <1>16. ASSUME NEW t \in Threads, del_wake(t)
         PROVE  WakeInv'
    BY <1>16 DEF del_wake, epoll_mgr_wake
  <1>17. ASSUME NEW t \in Threads, del_epoll_ctl(t)
         PROVE  WakeInv'
    BY <1>17 DEF del_epoll_ctl
  <1>18. ASSUME NEW t \in Threads, del_completed(t)
         PROVE  WakeInv'
    BY <1>18 DEF del_completed
  <1>19. ASSUME NEW t \in Threads, ctx_cb_add_locked(t)
         PROVE  WakeInv'
    BY <1>19 DEF ctx_cb_add_locked, epoll_mgr_wake
  <1>20. ASSUME NEW t \in Threads, ref_put(t)
         PROVE  WakeInv'
    BY <1>20 DEF ref_put
  <1>21. CASE enter_wait
    BY <1>21 DEF enter_wait
  <1>22. CASE dispatch_wake
    BY <1>22 DEF dispatch_wake
  <1>23. CASE dispatch_put
    BY <1>23 DEF dispatch_put
  <1>24. CASE dispatch_end
    BY <1>24 DEF dispatch_end
  <1>25. CASE epoll_mgr_reap_ctx_list
    BY <1>25 DEF epoll_mgr_reap_ctx_list, DelayInv
  <1>26. CASE ctx_cb_returns
    BY <1>26 DEF ctx_cb_returns
  <1>27. CASE ctx_cb_done
    BY <1>27 DEF ctx_cb_done
  <1>28. CASE ctx_cb_put
    BY <1>28 DEF ctx_cb_put
  <1>29. CASE reap_ctx_end
    BY <1>29 DEF reap_ctx_end
  <1>30. CASE reap_destroy_end
    BY <1>30 DEF reap_destroy_end, SpliceBack
  <1>31. CASE epoll_wait
    BY <1>31 DEF epoll_wait
  <1>32. ASSUME NEW h \in Handles, dispatch_skip(h)
         PROVE  WakeInv'
    BY <1>32 DEF dispatch_skip
  <1>33. ASSUME NEW h \in Handles, dispatch(h)
         PROVE  WakeInv'
    BY <1>33 DEF dispatch
  <1>34. ASSUME NEW h \in Handles, epoll_mgr_ctx_cb_run(h)
         PROVE  WakeInv'
    BY <1>34 DEF epoll_mgr_ctx_cb_run
  <1>35. ASSUME NEW h \in Handles, epoll_mgr_reap_destroy_list(h)
         PROVE  WakeInv'
    BY <1>35 DEF epoll_mgr_reap_destroy_list, DelayDestroy, CtxInv
  <1>36. CASE UNCHANGED vars
    BY <1>36 DEF vars
  <1> QED
    BY <1>1, <1>2, <1>3, <1>4, <1>5, <1>6, <1>7, <1>8, <1>9, <1>10,
       <1>11, <1>12, <1>13, <1>14, <1>15, <1>16, <1>17, <1>18, <1>19,
       <1>20, <1>21, <1>22, <1>23, <1>24, <1>25, <1>26, <1>27, <1>28,
       <1>29, <1>30, <1>31, <1>32, <1>33, <1>34, <1>35, <1>36
    DEF Next, epoll_mgr_close, CloseStep, ApiCall, ApiStep, LoopStep

\* epm_ctx_cb_num follows the handles that have a ctx callback.
LEMMA CtxNumStep ==
  ASSUME ~CloseRaces
  PROVE  TypeInv /\ CtxInv /\ CtxNum /\ [Next]_vars => CtxNum'
  <1> SUFFICES ASSUME TypeInv, CtxInv, CtxNum, [Next]_vars PROVE CtxNum'
    OBVIOUS
  <1> USE DEF CtxNum
  <1>1. IsFiniteSet(eph_ctx_cb)
    BY FS_Subset DEF TypeInv, TypeOK
  <1>2. CASE epoll_mgr_setup
    BY <1>2, FS_EmptySet DEF epoll_mgr_setup, CtxInv
  <1>3. ASSUME NEW t \in Threads, ctx_cb_add_locked(t)
        PROVE  CtxNum'
    <2>1. CASE arg[t] \in eph_ctx_cb \/ ~epm_ready
      BY <1>3, <2>1 DEF ctx_cb_add_locked, CtxCbBusy
    <2>2. CASE arg[t] \notin eph_ctx_cb /\ epm_ready
      BY <1>1, <1>3, <2>2, FS_AddElement DEF ctx_cb_add_locked, CtxCbBusy
    <2> QED
      BY <2>1, <2>2
  <1>4. CASE ctx_cb_done
    <2>1. cur \in eph_ctx_cb
      BY <1>4 DEF ctx_cb_done, CtxInv
    <2> QED
      BY <1>1, <1>4, <2>1, FS_RemoveElement DEF ctx_cb_done
  <1>5. CASE UNCHANGED <<epm_ctx_cb_num, eph_ctx_cb>>
    BY <1>5
  <1>6. \/ epoll_mgr_setup \/ ctx_cb_done
        \/ \E t \in Threads : ctx_cb_add_locked(t)
        \/ UNCHANGED <<epm_ctx_cb_num, eph_ctx_cb>>
    BY DEF Next, vars, epoll_mgr_close, CloseStep, ApiCall, ApiStep, LoopStep,
           epoll_mgr_setup_fails, epoll_mgr_close_check,
           epoll_mgr_tally_handles, epoll_mgr_close_ready,
           epoll_mgr_close_fd, epoll_handle_init, epoll_handle_add,
           epoll_handle_del, epoll_mgr_ctx_cb_add, add_locked, add_epoll_ctl,
           add_installed, add_failed, del_locked, del_wake, del_epoll_ctl,
           del_completed, ref_put, enter_wait, dispatch_wake, dispatch_put,
           dispatch_end, epoll_mgr_reap_ctx_list, ctx_cb_returns, ctx_cb_put,
           reap_ctx_end, reap_destroy_end, epoll_wait, dispatch_skip,
           dispatch, epoll_mgr_ctx_cb_run, epoll_mgr_reap_destroy_list
  <1> QED
    BY <1>2, <1>3, <1>4, <1>5, <1>6

\* The whole inductive invariant.
QuietInv == /\ TypeInv /\ ListInv /\ CtxInv /\ CtxNum
            /\ OwedInv /\ WakeInv

\* All of the above together, for an owner that does not race.
LEMMA QuietInvariant ==
  ASSUME ~CloseRaces
  PROVE  Spec => []QuietInv
  <1>1. Init => CtxNum
    BY FS_EmptySet DEF Init, CtxNum
  <1>2. Init => QuietInv
    BY TypeInit, ListInit, CtxInit, <1>1 DEF QuietInv
  <1>3. QuietInv /\ [Next]_vars => QuietInv'
    BY TypeStep, ListStep, CtxStep, CtxNumStep, OwedStep, WakeStep
    DEF QuietInv
  <1> QED
    BY <1>2, <1>3, PTL DEF Spec

\* epm_ctx_cb_num and the ctx queues are exact, so the assertions of
\* epoll_mgr_ctx_cb_add() and epoll_mgr_ctx_cb_run() cannot fail.
THEOREM CtxCbCorrect ==
  ASSUME ~CloseRaces
  PROVE  Spec => []CtxCbAccounted
  <1>1. QuietInv => CtxCbAccounted
    BY DEF QuietInv, CtxInv, CtxNum, CtxCbAccounted
  <1> QED
    BY QuietInvariant, <1>1, PTL

\* A queued ctx callback runs before the delete (epoll_handle_del()).
THEOREM CtxBeforeDeleteCorrect ==
  ASSUME ~CloseRaces
  PROVE  Spec => []CtxBeforeDelete
  <1>1. QuietInv => CtxBeforeDelete
    BY DEF QuietInv, TypeInv, TypeOK, ListInv, ListsMatchFlags, OwedInv, At,
           CompletingLabels, CtxBeforeDelete
  <1> QED
    BY QuietInvariant, <1>1, PTL

\* No wakeup of the manager thread is lost (epoll_mgr_wake()).
THEOREM NoLostWakeupCorrect ==
  ASSUME ~CloseRaces
  PROVE  Spec => []NoLostWakeup
  <1>1. QuietInv => NoLostWakeup
    BY DEF QuietInv, WakeInv, Woken, Sleeping, NoLostWakeup
  <1> QED
    BY QuietInvariant, <1>1, PTL

\* Both facts about the handles together, as the model checker's run states them.
THEOREM HandlesExactCorrect ==
  ASSUME ~CloseRaces
  PROVE  Spec => []HandlesExact
  <1>1. ListsMatchFlags /\ NumHandlesExact => HandlesExact
    BY DEF HandlesExact
  <1>2. Spec => []ListsMatchFlags
    BY ListsCorrect
  <1>3. Spec => []NumHandlesExact
    BY NumHandlesCorrect
  <1> QED
    BY <1>1, <1>2, <1>3, PTL

\* The three facts about ctx callbacks together: an accepted one is counted,
\* keeps the manager awake and runs before the delete of its handle.
THEOREM CtxCbSafeCorrect ==
  ASSUME ~CloseRaces
  PROVE  Spec => []CtxCbSafe
  <1>1. CtxBeforeDelete /\ CtxCbAccounted /\ NoLostWakeup => CtxCbSafe
    BY DEF CtxCbSafe
  <1>2. Spec => []CtxBeforeDelete
    BY CtxBeforeDeleteCorrect
  <1>3. Spec => []CtxCbAccounted
    BY CtxCbCorrect
  <1>4. Spec => []NoLostWakeup
    BY NoLostWakeupCorrect
  <1> QED
    BY <1>1, <1>2, <1>3, <1>4, PTL
-------------------------------------------------------------------------------
(***************************************************************************)
(* The references.  Only Mgr adds and removes a handle with a ref_cb, so   *)
(* that a batch of events keeps its handles; an event callback that may    *)
(* delete another handle (PeerDel) breaks this.                            *)
(***************************************************************************)
InCb == pc[Mgr] = "cb" \/ InNested("cb")

\* Only Mgr is inside an add or a completion of a handle with a ref_cb.
MgrOnlyInv ==
    \A t \in Threads :
       /\ pc[t] \in {"add_lock"} \cup AddingLabels \cup CompletingLabels
       /\ arg[t] \in RefHandles
       => t = Mgr

\* The kernel knows no handle with a ref_cb that is not installed, but for the
\* one that Mgr is adding.
KernelInv ==
    /\ \A h \in RefHandles : h \in kset =>
          h \in eph_installed \/ (pc[Mgr] = "add_ok" /\ arg[Mgr] = h)
    /\ pc[Mgr] = "del_done" => arg[Mgr] \notin kset

\* The references of a batch: its events to come and the one in its callback.
EventInv ==
    /\ evs # {} => pc[Mgr] = "dispatch" \/ InCb
    /\ \A h \in RefHandles : h \in evs => h \in eph_installed
    /\ \A h \in RefHandles : h \in held <=> h \in evs \/ (InCb /\ cur = h)
    /\ InCb => cur \in Handles /\ cur \notin evs
    /\ InNested("cb") /\ pc[Mgr] \in {"del_lock", "del_ctl", "del_done"}
         => arg[Mgr] = cur

BatchInv == MgrOnlyInv /\ KernelInv /\ EventInv

\* ... and no event is being dispatched.
LEMMA BatchInit == Init => BatchInv
  BY DEF Init, BatchInv, MgrOnlyInv, KernelInv, EventInv, InCb, InNested,
         AddingLabels, CompletingLabels

\* Every step keeps the batch.
LEMMA BatchStep ==
  ASSUME ~CloseRaces, ~PeerDel
  PROVE  QuietInv /\ BatchInv /\ [Next]_vars => BatchInv'
  <1> SUFFICES ASSUME QuietInv, BatchInv, [Next]_vars PROVE BatchInv'
    OBVIOUS
  <1> USE DEF QuietInv, TypeInv, TypeOK, ArgOK, ListInv, ListsMatchFlags,
              CloseInv, Closing, BatchInv, MgrOnlyInv, KernelInv, EventInv,
              InCb, InNested, At, AddingLabels, CompletingLabels
  <1>1. CASE epoll_mgr_setup
    BY <1>1 DEF epoll_mgr_setup
  <1>2. CASE epoll_mgr_setup_fails
    BY <1>2 DEF epoll_mgr_setup_fails
  <1>3. CASE epoll_mgr_close_check
    BY <1>3 DEF epoll_mgr_close_check
  <1>4. CASE epoll_mgr_tally_handles
    BY <1>4 DEF epoll_mgr_tally_handles
  <1>5. CASE epoll_mgr_close_ready
    BY <1>5 DEF epoll_mgr_close_ready
  <1>6. CASE epoll_mgr_close_fd
    BY <1>6 DEF epoll_mgr_close_fd
  <1>7. ASSUME NEW h \in Handles, epoll_handle_init(h)
        PROVE  BatchInv'
    BY <1>7 DEF epoll_handle_init
  <1>8. ASSUME NEW t \in Threads, NEW h \in Handles, epoll_handle_add(t, h)
        PROVE  BatchInv'
    BY <1>8 DEF epoll_handle_add, AddChecks
  <1>9. ASSUME NEW t \in Threads, NEW h \in Handles, epoll_handle_del(t, h)
        PROVE  BatchInv'
    BY <1>9 DEF epoll_handle_del
  <1>10. ASSUME NEW t \in Threads, NEW h \in Handles, epoll_mgr_ctx_cb_add(t, h)
        PROVE  BatchInv'
    BY <1>10 DEF epoll_mgr_ctx_cb_add
  <1>11. ASSUME NEW t \in Threads, add_locked(t)
        PROVE  BatchInv'
    BY <1>11 DEF add_locked
  <1>12. ASSUME NEW t \in Threads, add_epoll_ctl(t)
        PROVE  BatchInv'
    BY <1>12 DEF add_epoll_ctl
  <1>13. ASSUME NEW t \in Threads, add_installed(t)
        PROVE  BatchInv'
    BY <1>13 DEF add_installed
  <1>14. ASSUME NEW t \in Threads, add_failed(t)
        PROVE  BatchInv'
    BY <1>14 DEF add_failed
  <1>15. ASSUME NEW t \in Threads, del_locked(t)
        PROVE  BatchInv'
    BY <1>15 DEF del_locked, Found, CompleteHere, epoll_handle_releases_in_current_thread
  <1>16. ASSUME NEW t \in Threads, del_wake(t)
        PROVE  BatchInv'
    BY <1>16 DEF del_wake
  <1>17. ASSUME NEW t \in Threads, del_epoll_ctl(t)
        PROVE  BatchInv'
    BY <1>17 DEF del_epoll_ctl
  <1>18. ASSUME NEW t \in Threads, del_completed(t)
        PROVE  BatchInv'
    BY <1>18 DEF del_completed
  <1>19. ASSUME NEW t \in Threads, ctx_cb_add_locked(t)
        PROVE  BatchInv'
    BY <1>19 DEF ctx_cb_add_locked
  <1>20. ASSUME NEW t \in Threads, ref_put(t)
        PROVE  BatchInv'
    BY <1>20 DEF ref_put
  <1>21. CASE enter_wait
    BY <1>21 DEF enter_wait
  <1>22. CASE dispatch_wake
    BY <1>22 DEF dispatch_wake
  <1>23. CASE dispatch_put
    BY <1>23 DEF dispatch_put
  <1>24. CASE dispatch_end
    BY <1>24 DEF dispatch_end
  <1>25. CASE epoll_mgr_reap_ctx_list
    BY <1>25 DEF epoll_mgr_reap_ctx_list
  <1>26. CASE ctx_cb_returns
    BY <1>26 DEF ctx_cb_returns
  <1>27. CASE ctx_cb_done
    BY <1>27 DEF ctx_cb_done
  <1>28. CASE ctx_cb_put
    BY <1>28 DEF ctx_cb_put
  <1>29. CASE reap_ctx_end
    BY <1>29 DEF reap_ctx_end
  <1>30. CASE reap_destroy_end
    BY <1>30 DEF reap_destroy_end
  <1>31. CASE epoll_wait
    BY <1>31 DEF epoll_wait
  <1>32. ASSUME NEW h \in Handles, dispatch_skip(h)
        PROVE  BatchInv'
    BY <1>32 DEF dispatch_skip
  <1>33. ASSUME NEW h \in Handles, dispatch(h)
        PROVE  BatchInv'
    BY <1>33 DEF dispatch
  <1>34. ASSUME NEW h \in Handles, epoll_mgr_ctx_cb_run(h)
        PROVE  BatchInv'
    BY <1>34 DEF epoll_mgr_ctx_cb_run
  <1>35. ASSUME NEW h \in Handles, epoll_mgr_reap_destroy_list(h)
        PROVE  BatchInv'
    BY <1>35 DEF epoll_mgr_reap_destroy_list
  <1>36. CASE UNCHANGED vars
    BY <1>36 DEF vars
  <1> QED
    BY <1>1, <1>2, <1>3, <1>4, <1>5, <1>6, <1>7, <1>8, <1>9, <1>10,
       <1>11, <1>12, <1>13, <1>14, <1>15, <1>16, <1>17, <1>18, <1>19,
       <1>20, <1>21, <1>22, <1>23, <1>24, <1>25, <1>26, <1>27, <1>28,
       <1>29, <1>30, <1>31, <1>32, <1>33, <1>34, <1>35, <1>36
    DEF Next, epoll_mgr_close, CloseStep, ApiCall, ApiStep, LoopStep

\* The calls that hold a reference on the owner of h, and the other references:
\* of the list it is on, of its ctx callback, of an event, of the callback that
\* has run.
RefLabels == {"add_lock", "del_ctl", "del_done", "put", "ctx_lock"}
RefCalls(h) == At(h, RefLabels)
Listed(h) == h \in epm_active_list \cup epm_destroy_list \cup delay_list
Ran(h) == pc[Mgr] = "ctx_put" /\ cur = h
RefsHeld(h) ==
    (IF Listed(h) THEN 1 ELSE 0) + (IF h \in eph_ctx_cb THEN 1 ELSE 0)
      + (IF h \in held THEN 1 ELSE 0) + (IF Ran(h) THEN 1 ELSE 0)
RefInv ==
    \A h \in RefHandles : refs[h] = Cardinality(RefCalls(h)) + RefsHeld(h)

\* One element more, or not.
LEMMA OneMore ==
  ASSUME NEW S, IsFiniteSet(S), NEW x, x \notin S, NEW T, T = S \cup {x} \/ T = S
  PROVE  /\ IsFiniteSet(T) /\ Cardinality(S) \in Nat
         /\ T = S \cup {x} => Cardinality(T) = Cardinality(S) + 1
  BY FS_AddElement, FS_CardinalityType

\* How many of the four references there are.
LEMMA FourRefs ==
  ASSUME NEW h
  PROVE  Cardinality({l \in {"list", "ctx", "event", "ran"} :
            \/ l = "list" /\ h \in epm_active_list \cup epm_destroy_list
                                    \cup delay_list
            \/ l = "ctx" /\ h \in eph_ctx_cb
            \/ l = "event" /\ h \in held
            \/ l = "ran" /\ pc[Mgr] = "ctx_put" /\ cur = h}) = RefsHeld(h)
  <1> DEFINE A == IF Listed(h) THEN {"list"} ELSE {}
             B == IF h \in eph_ctx_cb THEN A \cup {"ctx"} ELSE A
             C == IF h \in held THEN B \cup {"event"} ELSE B
             D == IF Ran(h) THEN C \cup {"ran"} ELSE C
  <1>0. {l \in {"list", "ctx", "event", "ran"} :
            \/ l = "list" /\ h \in epm_active_list \cup epm_destroy_list
                                    \cup delay_list
            \/ l = "ctx" /\ h \in eph_ctx_cb
            \/ l = "event" /\ h \in held
            \/ l = "ran" /\ pc[Mgr] = "ctx_put" /\ cur = h} = D
    BY DEF Listed, Ran
  <1>1. /\ IsFiniteSet(A) /\ Cardinality(A) = (IF Listed(h) THEN 1 ELSE 0)
        /\ A \subseteq {"list"}
    BY FS_EmptySet, FS_Singleton
  <1>2. "ctx" \notin A /\ "event" \notin B /\ "ran" \notin C
    OBVIOUS
  <1>3. /\ B = A \cup {"ctx"} \/ B = A
        /\ C = B \cup {"event"} \/ C = B
        /\ D = C \cup {"ran"} \/ D = C
    OBVIOUS
  <1>4. /\ IF h \in eph_ctx_cb THEN B = A \cup {"ctx"} ELSE B = A
        /\ IF h \in held THEN C = B \cup {"event"} ELSE C = B
        /\ IF Ran(h) THEN D = C \cup {"ran"} ELSE D = C
    OBVIOUS
  <1> HIDE DEF A, B, C, D
  <1>5. /\ IsFiniteSet(B) /\ Cardinality(A) \in Nat
        /\ Cardinality(B) = Cardinality(A) + (IF h \in eph_ctx_cb THEN 1 ELSE 0)
    BY <1>1, <1>2, <1>3, <1>4, OneMore
  <1>6. /\ IsFiniteSet(C) /\ Cardinality(B) \in Nat
        /\ Cardinality(C) = Cardinality(B) + (IF h \in held THEN 1 ELSE 0)
    BY <1>5, <1>2, <1>3, <1>4, OneMore
  <1>7. Cardinality(D) = Cardinality(C) + (IF Ran(h) THEN 1 ELSE 0)
    BY <1>6, <1>2, <1>3, <1>4, OneMore
  <1> QED
    BY <1>0, <1>1, <1>5, <1>6, <1>7 DEF RefsHeld

\* A call that begins or ends holds one reference more or less.
LEMMA RefCallsMove ==
  ASSUME NEW h \in Handles, NEW t \in Threads
  PROVE  /\ Cardinality(RefCalls(h)) \in Nat
         /\ t \notin RefCalls(h) /\ RefCalls(h)' = RefCalls(h) \cup {t}
              => Cardinality(RefCalls(h)') = Cardinality(RefCalls(h)) + 1
         /\ t \in RefCalls(h) /\ RefCalls(h)' = RefCalls(h) \ {t}
              => Cardinality(RefCalls(h)') = Cardinality(RefCalls(h)) - 1
  <1>1. IsFiniteSet(Users \cup {Mgr})
    BY FS_AddElement
  <1>2. IsFiniteSet(RefCalls(h))
    BY <1>1, FS_Subset DEF RefCalls, At
  <1> HIDE DEF RefCalls
  <1> QED
    BY <1>2, FS_AddElement, FS_RemoveElement, FS_CardinalityType

\* A step that neither takes nor gives back a reference on h.
SameRefs(h) ==
    /\ refs'[h] = refs[h]
    /\ RefCalls(h)' = RefCalls(h)
    /\ Listed(h)' <=> Listed(h)
    /\ h \in eph_ctx_cb' <=> h \in eph_ctx_cb
    /\ h \in held' <=> h \in held
    /\ Ran(h)' <=> Ran(h)
DueAfter(h) == refs'[h] = Cardinality(RefCalls(h)') + RefsHeld(h)'
LEMMA RefsSame ==
  ASSUME RefInv, NEW h \in RefHandles, SameRefs(h)
  PROVE  DueAfter(h)
  BY DEF RefInv, RefsHeld, SameRefs, DueAfter

\* The steps that move no reference: 22 of the actions.
LEMMA QuietRefs ==
  ASSUME ~CloseRaces, QuietInv, BatchInv, NEW g \in RefHandles,
         \/ epoll_mgr_setup \/ epoll_mgr_setup_fails \/ epoll_mgr_close
         \/ enter_wait \/ dispatch_wake \/ dispatch_end
         \/ epoll_mgr_reap_ctx_list \/ ctx_cb_returns \/ reap_ctx_end
         \/ reap_destroy_end
         \/ \E t \in Threads : \/ add_epoll_ctl(t) \/ add_installed(t)
                               \/ del_wake(t) \/ del_epoll_ctl(t)
         \/ \E h \in Handles :
               \/ epoll_handle_init(h)
               \/ \E t \in Threads : epoll_handle_del(t, h)
               \/ dispatch_skip(h) \/ dispatch(h) \/ epoll_mgr_ctx_cb_run(h)
  PROVE  SameRefs(g)
  <1> USE DEF QuietInv, TypeInv, TypeOK, ArgOK, ListInv, ListsMatchFlags,
              CloseInv, EmptyInv, Closing, BatchInv, EventInv, InCb, InNested, At,
              AddingLabels, CompletingLabels, SameRefs, RefCalls, RefLabels,
              Listed, Ran
  <1>1. CASE epoll_mgr_setup
    BY <1>1 DEF epoll_mgr_setup
  <1>2. CASE epoll_mgr_setup_fails
    BY <1>2 DEF epoll_mgr_setup_fails
  <1>3. CASE epoll_mgr_close_check
    BY <1>3 DEF epoll_mgr_close_check
  <1>4. CASE epoll_mgr_tally_handles
    BY <1>4 DEF epoll_mgr_tally_handles
  <1>5. CASE epoll_mgr_close_ready
    BY <1>5 DEF epoll_mgr_close_ready
  <1>6. CASE epoll_mgr_close_fd
    BY <1>6 DEF epoll_mgr_close_fd
  <1>7. ASSUME NEW h \in Handles, epoll_handle_init(h)
        PROVE  SameRefs(g)
    BY <1>7 DEF epoll_handle_init
  <1>8. ASSUME NEW t \in Threads, NEW h \in Handles, epoll_handle_del(t, h)
        PROVE  SameRefs(g)
    BY <1>8 DEF epoll_handle_del
  <1>9. ASSUME NEW t \in Threads, add_epoll_ctl(t)
        PROVE  SameRefs(g)
    BY <1>9 DEF add_epoll_ctl
  <1>10. ASSUME NEW t \in Threads, add_installed(t)
        PROVE  SameRefs(g)
    BY <1>10 DEF add_installed
  <1>11. ASSUME NEW t \in Threads, del_wake(t)
        PROVE  SameRefs(g)
    BY <1>11 DEF del_wake
  <1>12. ASSUME NEW t \in Threads, del_epoll_ctl(t)
        PROVE  SameRefs(g)
    BY <1>12 DEF del_epoll_ctl
  <1>13. CASE enter_wait
    BY <1>13 DEF enter_wait
  <1>14. CASE dispatch_wake
    BY <1>14 DEF dispatch_wake
  <1>15. CASE dispatch_end
    BY <1>15 DEF dispatch_end
  <1>16. CASE epoll_mgr_reap_ctx_list
    BY <1>16 DEF epoll_mgr_reap_ctx_list
  <1>17. CASE ctx_cb_returns
    BY <1>17 DEF ctx_cb_returns
  <1>18. CASE reap_ctx_end
    BY <1>18 DEF reap_ctx_end
  <1>19. CASE reap_destroy_end
    BY <1>19 DEF reap_destroy_end, SpliceBack
  <1>20. ASSUME NEW h \in Handles, dispatch_skip(h)
        PROVE  SameRefs(g)
    BY <1>20 DEF dispatch_skip
  <1>21. ASSUME NEW h \in Handles, dispatch(h)
        PROVE  SameRefs(g)
    BY <1>21 DEF dispatch
  <1>22. ASSUME NEW h \in Handles, epoll_mgr_ctx_cb_run(h)
        PROVE  SameRefs(g)
    BY <1>22 DEF epoll_mgr_ctx_cb_run
  <1> QED
    BY <1>1, <1>2, <1>3, <1>4, <1>5, <1>6, <1>7, <1>8, <1>9, <1>10,
       <1>11, <1>12, <1>13, <1>14, <1>15, <1>16, <1>17, <1>18, <1>19,
       <1>20, <1>21, <1>22
    DEF epoll_mgr_close, CloseStep

\* Every step takes and gives back the references that it should.
LEMMA RefStep ==
  ASSUME ~CloseRaces, ~PeerDel
  PROVE  QuietInv /\ BatchInv /\ RefInv /\ [Next]_vars => RefInv'
  <1> SUFFICES ASSUME QuietInv, BatchInv, RefInv, [Next]_vars,
                      NEW g \in RefHandles
               PROVE  DueAfter(g)
    BY DEF RefInv, DueAfter
  <1>0. /\ g \in Handles /\ refs[g] = Cardinality(RefCalls(g)) + RefsHeld(g)
        /\ Cardinality(RefCalls(g)) \in Nat
    BY RefCallsMove DEF RefInv
  <1> USE DEF QuietInv, TypeInv, TypeOK, ArgOK, ListInv, ListsMatchFlags,
              CloseInv, CtxInv, BatchInv, MgrOnlyInv, EventInv, AddInv, InCb,
              InNested, At, AddingLabels, CompletingLabels, RefLabels,
              Listed, Ran
  <1>1. ASSUME NEW t \in Threads, NEW h \in Handles, epoll_handle_add(t, h) PROVE DueAfter(g)
    <2>1. CASE g # h
      <3>1. SameRefs(g)
        BY <1>1, <2>1 DEF epoll_handle_add, RefGet, SameRefs, RefCalls
      <3> QED
        BY <3>1, RefsSame
    <2>2. CASE g = h
      <3>1. t \notin RefCalls(g) /\ RefCalls(g)' = RefCalls(g) \cup {t}
        BY <1>1, <2>2 DEF epoll_handle_add, RefGet, RefCalls
      <3>2. refs'[g] = refs[g] + 1
        BY <1>1, <2>2 DEF epoll_handle_add, RefGet
      <3>3. (Listed(g)' <=> Listed(g)) /\ (g \in eph_ctx_cb' <=> g \in eph_ctx_cb)
        BY <1>1, <2>2 DEF epoll_handle_add, RefGet
      <3>4. (g \in held' <=> g \in held) /\ (Ran(g)' <=> Ran(g))
        BY <1>1, <2>2 DEF epoll_handle_add, RefGet
      <3>5. Cardinality(RefCalls(g)') = Cardinality(RefCalls(g)) + 1
        BY <1>0, <3>1, RefCallsMove
      <3> HIDE DEF Listed, Ran
      <3> QED
        BY <1>0, <3>2, <3>3, <3>4, <3>5 DEF DueAfter, RefsHeld
    <2> QED
      BY <2>1, <2>2
  <1>2. ASSUME NEW t \in Threads, NEW h \in Handles, epoll_mgr_ctx_cb_add(t, h) PROVE DueAfter(g)
    <2>1. CASE g # h
      <3>1. SameRefs(g)
        BY <1>2, <2>1 DEF epoll_mgr_ctx_cb_add, RefGet, SameRefs, RefCalls
      <3> QED
        BY <3>1, RefsSame
    <2>2. CASE g = h
      <3>1. t \notin RefCalls(g) /\ RefCalls(g)' = RefCalls(g) \cup {t}
        BY <1>2, <2>2 DEF epoll_mgr_ctx_cb_add, RefGet, RefCalls
      <3>2. refs'[g] = refs[g] + 1
        BY <1>2, <2>2 DEF epoll_mgr_ctx_cb_add, RefGet
      <3>3. (Listed(g)' <=> Listed(g)) /\ (g \in eph_ctx_cb' <=> g \in eph_ctx_cb)
        BY <1>2, <2>2 DEF epoll_mgr_ctx_cb_add, RefGet
      <3>4. (g \in held' <=> g \in held) /\ (Ran(g)' <=> Ran(g))
        BY <1>2, <2>2 DEF epoll_mgr_ctx_cb_add, RefGet
      <3>5. Cardinality(RefCalls(g)') = Cardinality(RefCalls(g)) + 1
        BY <1>0, <3>1, RefCallsMove
      <3> HIDE DEF Listed, Ran
      <3> QED
        BY <1>0, <3>2, <3>3, <3>4, <3>5 DEF DueAfter, RefsHeld
    <2> QED
      BY <2>1, <2>2
  <1>3. ASSUME NEW t \in Threads, add_locked(t) PROVE DueAfter(g)
    <2>1. CASE g # arg[t]
      <3>1. SameRefs(g)
        BY <1>3, <2>1 DEF add_locked, SameRefs, RefCalls
      <3> QED
        BY <3>1, RefsSame
    <2>2. CASE g = arg[t]
      <3>1. t \in RefCalls(g) /\ RefCalls(g)' = RefCalls(g) \ {t}
        BY <1>3, <2>2 DEF add_locked, RefCalls
      <3>2. refs'[g] = refs[g]
        BY <1>3, <2>2 DEF add_locked
      <3>3. ~Listed(g) /\ Listed(g)' /\ (g \in eph_ctx_cb' <=> g \in eph_ctx_cb)
        BY <1>3, <2>2 DEF add_locked
      <3>4. (g \in held' <=> g \in held) /\ (Ran(g)' <=> Ran(g))
        BY <1>3, <2>2 DEF add_locked
      <3>5. Cardinality(RefCalls(g)') = Cardinality(RefCalls(g)) - 1
        BY <1>0, <3>1, RefCallsMove
      <3> HIDE DEF Listed, Ran
      <3> QED
        BY <1>0, <3>2, <3>3, <3>4, <3>5 DEF DueAfter, RefsHeld
    <2> QED
      BY <2>1, <2>2
  <1>4. ASSUME NEW t \in Threads, add_failed(t) PROVE DueAfter(g)
    <2>1. CASE g # arg[t]
      <3>1. SameRefs(g)
        BY <1>4, <2>1 DEF add_failed, SameRefs, RefCalls
      <3> QED
        BY <3>1, RefsSame
    <2>2. CASE g = arg[t]
      <3>1. t \notin RefCalls(g) /\ RefCalls(g)' = RefCalls(g) \cup {t}
        BY <1>4, <2>2 DEF add_failed, RefCalls
      <3>2. refs'[g] = refs[g]
        BY <1>4, <2>2 DEF add_failed
      <3>3. Listed(g) /\ ~Listed(g)' /\ (g \in eph_ctx_cb' <=> g \in eph_ctx_cb)
        BY <1>4, <2>2 DEF add_failed
      <3>4. (g \in held' <=> g \in held) /\ (Ran(g)' <=> Ran(g))
        BY <1>4, <2>2 DEF add_failed
      <3>5. Cardinality(RefCalls(g)') = Cardinality(RefCalls(g)) + 1
        BY <1>0, <3>1, RefCallsMove
      <3> HIDE DEF Listed, Ran
      <3> QED
        BY <1>0, <3>2, <3>3, <3>4, <3>5 DEF DueAfter, RefsHeld
    <2> QED
      BY <2>1, <2>2
  <1>5. ASSUME NEW t \in Threads, ref_put(t) PROVE DueAfter(g)
    <2>1. CASE g # arg[t]
      <3>1. SameRefs(g)
        BY <1>5, <2>1 DEF ref_put, RefPut, SameRefs, RefCalls
      <3> QED
        BY <3>1, RefsSame
    <2>2. CASE g = arg[t]
      <3>1. t \in RefCalls(g) /\ RefCalls(g)' = RefCalls(g) \ {t}
        BY <1>5, <2>2 DEF ref_put, RefPut, RefCalls
      <3>2. refs'[g] = refs[g] - 1
        BY <1>5, <2>2 DEF ref_put, RefPut
      <3>3. (Listed(g)' <=> Listed(g)) /\ (g \in eph_ctx_cb' <=> g \in eph_ctx_cb)
        BY <1>5, <2>2 DEF ref_put, RefPut
      <3>4. (g \in held' <=> g \in held) /\ (Ran(g)' <=> Ran(g))
        BY <1>5, <2>2 DEF ref_put, RefPut
      <3>5. Cardinality(RefCalls(g)') = Cardinality(RefCalls(g)) - 1
        BY <1>0, <3>1, RefCallsMove
      <3> HIDE DEF Listed, Ran
      <3> QED
        BY <1>0, <3>2, <3>3, <3>4, <3>5 DEF DueAfter, RefsHeld
    <2> QED
      BY <2>1, <2>2
  <1>6. ASSUME NEW t \in Threads, del_completed(t) PROVE DueAfter(g)
    <2>1. SameRefs(g)
      BY <1>6 DEF del_completed, SameRefs, RefCalls
    <2> QED
      BY <2>1, RefsSame
  <1>7. ASSUME NEW t \in Threads, del_locked(t) PROVE DueAfter(g)
    <2>1. CASE ~(g = arg[t] /\ Found(g) /\ CompleteHere(t, g))
      <3>1. SameRefs(g)
        BY <1>7, <2>1 DEF del_locked, Found, SameRefs, RefCalls
      <3> QED
        BY <3>1, RefsSame
    <2>2. CASE g = arg[t] /\ Found(g) /\ CompleteHere(t, g)
      <3>1. t \notin RefCalls(g) /\ RefCalls(g)' = RefCalls(g) \cup {t}
        BY <1>7, <2>2 DEF del_locked, RefCalls
      <3>2. refs'[g] = refs[g] /\ (g \in eph_ctx_cb' <=> g \in eph_ctx_cb)
        BY <1>7, <2>2 DEF del_locked
      <3>3. Listed(g) /\ ~Listed(g)'
        BY <1>7, <2>2 DEF del_locked, Found
      <3>4. (g \in held' <=> g \in held) /\ (Ran(g)' <=> Ran(g))
        BY <1>7, <2>2 DEF del_locked
      <3>5. Cardinality(RefCalls(g)') = Cardinality(RefCalls(g)) + 1
        BY <1>0, <3>1, RefCallsMove
      <3> HIDE DEF Listed, Ran
      <3> QED
        BY <1>0, <3>2, <3>3, <3>4, <3>5 DEF DueAfter, RefsHeld
    <2> QED
      BY <2>1, <2>2
  <1>8. ASSUME NEW t \in Threads, ctx_cb_add_locked(t) PROVE DueAfter(g)
    <2>1. CASE ~(g = arg[t] /\ epm_ready /\ ~CtxCbBusy(g))
      <3>1. SameRefs(g)
        BY <1>8, <2>1 DEF ctx_cb_add_locked, SameRefs, RefCalls
      <3> QED
        BY <3>1, RefsSame
    <2>2. CASE g = arg[t] /\ epm_ready /\ ~CtxCbBusy(g)
      <3>1. t \in RefCalls(g) /\ RefCalls(g)' = RefCalls(g) \ {t}
        BY <1>8, <2>2 DEF ctx_cb_add_locked, RefCalls
      <3>2. refs'[g] = refs[g] /\ g \notin eph_ctx_cb /\ g \in eph_ctx_cb'
        BY <1>8, <2>2 DEF ctx_cb_add_locked, CtxCbBusy
      <3>3. (Listed(g)' <=> Listed(g)) /\ (g \in held' <=> g \in held)
        BY <1>8, <2>2 DEF ctx_cb_add_locked
      <3>4. Ran(g)' <=> Ran(g)
        BY <1>8, <2>2 DEF ctx_cb_add_locked
      <3>5. Cardinality(RefCalls(g)') = Cardinality(RefCalls(g)) - 1
        BY <1>0, <3>1, RefCallsMove
      <3> HIDE DEF Listed, Ran
      <3> QED
        BY <1>0, <3>2, <3>3, <3>4, <3>5 DEF DueAfter, RefsHeld
    <2> QED
      BY <2>1, <2>2
  <1>9. CASE epoll_wait
    <2>1. RefCalls(g)' = RefCalls(g) /\ (Listed(g)' <=> Listed(g))
      BY <1>9 DEF epoll_wait, RefCalls
    <2>2. (g \in eph_ctx_cb' <=> g \in eph_ctx_cb) /\ ~Ran(g) /\ ~Ran(g)' /\ g \notin held
      BY <1>9 DEF epoll_wait
    <2>3. refs'[g] = IF g \in held' THEN refs[g] + 1 ELSE refs[g]
      BY <1>9 DEF epoll_wait
    <2> QED
      BY <1>0, <2>1, <2>2, <2>3 DEF DueAfter, RefsHeld
  <1>10. CASE dispatch_put
    <2>1. RefCalls(g)' = RefCalls(g) /\ (Listed(g)' <=> Listed(g))
      BY <1>10 DEF dispatch_put, RefCalls
    <2>2. (g \in eph_ctx_cb' <=> g \in eph_ctx_cb) /\ ~Ran(g) /\ ~Ran(g)'
      BY <1>10 DEF dispatch_put
    <2>3. CASE g = cur
      <3>1. g \in held /\ g \notin held' /\ refs'[g] = refs[g] - 1
        BY <1>10, <2>3 DEF dispatch_put, RefPut
      <3> QED
        BY <1>0, <2>1, <2>2, <3>1 DEF DueAfter, RefsHeld
    <2>4. CASE g # cur
      <3>1. (g \in held' <=> g \in held) /\ refs'[g] = refs[g]
        BY <1>10, <2>4 DEF dispatch_put, RefPut
      <3> QED
        BY <1>0, <2>1, <2>2, <3>1 DEF DueAfter, RefsHeld
    <2> QED
      BY <2>3, <2>4
  <1>11. CASE ctx_cb_done
    <2>1. RefCalls(g)' = RefCalls(g) /\ (Listed(g)' <=> Listed(g))
      BY <1>11 DEF ctx_cb_done, RefCalls
    <2>2. refs'[g] = refs[g] /\ (g \in held' <=> g \in held) /\ ~Ran(g)
      BY <1>11 DEF ctx_cb_done
    <2>3. CASE g = cur
      <3>1. g \in eph_ctx_cb /\ g \notin eph_ctx_cb' /\ Ran(g)'
        BY <1>11, <2>3 DEF ctx_cb_done
      <3> QED
        BY <1>0, <2>1, <2>2, <3>1 DEF DueAfter, RefsHeld
    <2>4. CASE g # cur
      <3>1. (g \in eph_ctx_cb' <=> g \in eph_ctx_cb) /\ ~Ran(g)'
        BY <1>11, <2>4 DEF ctx_cb_done
      <3> QED
        BY <1>0, <2>1, <2>2, <3>1 DEF DueAfter, RefsHeld
    <2> QED
      BY <2>3, <2>4
  <1>12. CASE ctx_cb_put
    <2>1. RefCalls(g)' = RefCalls(g) /\ (Listed(g)' <=> Listed(g))
      BY <1>12 DEF ctx_cb_put, RefCalls
    <2>2. /\ g \in held' <=> g \in held
          /\ g \in eph_ctx_cb' <=> g \in eph_ctx_cb
          /\ ~Ran(g)'
      BY <1>12 DEF ctx_cb_put
    <2>3. (Ran(g) <=> g = cur) /\ refs'[g] = IF g = cur THEN refs[g] - 1 ELSE refs[g]
      BY <1>12 DEF ctx_cb_put, RefPut
    <2> QED
      BY <1>0, <2>1, <2>2, <2>3 DEF DueAfter, RefsHeld
  <1>13. ASSUME NEW h \in Handles, epoll_mgr_reap_destroy_list(h) PROVE DueAfter(g)
    <2>1. CASE g # h \/ DelayDestroy(h)
      <3>1. SameRefs(g)
        BY <1>13, <2>1 DEF epoll_mgr_reap_destroy_list, SameRefs, RefCalls
      <3> QED
        BY <3>1, RefsSame
    <2>2. CASE g = h /\ ~DelayDestroy(h)
      <3>1. Mgr \notin RefCalls(g) /\ RefCalls(g)' = RefCalls(g) \cup {Mgr}
        BY <1>13, <2>2 DEF epoll_mgr_reap_destroy_list, RefCalls
      <3>2. refs'[g] = refs[g] /\ Listed(g) /\ ~Listed(g)'
        BY <1>13, <2>2 DEF epoll_mgr_reap_destroy_list
      <3>3. /\ g \in held' <=> g \in held
            /\ g \in eph_ctx_cb' <=> g \in eph_ctx_cb
            /\ Ran(g)' <=> Ran(g)
        BY <1>13, <2>2 DEF epoll_mgr_reap_destroy_list
      <3>4. Cardinality(RefCalls(g)') = Cardinality(RefCalls(g)) + 1
        BY <1>0, <3>1, RefCallsMove
      <3> HIDE DEF Listed, Ran
      <3> QED
        BY <1>0, <3>2, <3>3, <3>4 DEF DueAfter, RefsHeld
    <2> QED
      BY <2>1, <2>2
  <1>14. CASE UNCHANGED vars
    <2>1. SameRefs(g)
      BY <1>14 DEF vars, SameRefs, RefCalls
    <2> QED
      BY <2>1, RefsSame
  <1> HIDE DEF QuietInv, BatchInv
  <1>15. SameRefs(g) => DueAfter(g)
    BY RefsSame
  <1> QED
    BY <1>1, <1>2, <1>3, <1>4, <1>5, <1>6, <1>7, <1>8, <1>9, <1>10, <1>11,
       <1>12, <1>13, <1>14, <1>15, QuietRefs
    DEF Next, ApiCall, ApiStep, LoopStep

\* The references balance: at every moment the manager holds on the owner of a
\* handle exactly those of its installation, its queued ctx callback, the event
\* being dispatched and the calls in progress; and a close that succeeded left
\* nothing behind (epoll_mgr.c:125-203, 621-639).  An owner that closes while
\* others use the manager, and an event callback that deletes another handle,
\* are excluded: the latter is shown to break it by a run of its own.
THEOREM NothingOwedCorrect ==
  ASSUME ~CloseRaces, ~PeerDel
  PROVE  Spec => []NothingOwed
  <1> DEFINE I == QuietInv /\ BatchInv /\ RefInv
  <1>1. Init => RefInv
    <2> SUFFICES ASSUME Init, NEW h \in RefHandles
                 PROVE  refs[h] = Cardinality(RefCalls(h)) + RefsHeld(h)
      BY DEF RefInv
    <2>1. RefCalls(h) = {}
      BY DEF Init, RefCalls, At, RefLabels
    <2>2. refs[h] = 0 /\ RefsHeld(h) = 0
      BY DEF Init, RefsHeld, Listed, Ran
    <2> QED
      BY <2>1, <2>2, FS_EmptySet
  <1>2. I => NothingOwed
    <2> SUFFICES ASSUME I PROVE NothingOwed
      OBVIOUS
    <2>1. ASSUME NEW h \in RefHandles PROVE refs[h] = RefsDue(h)
      <3>1. RefsDue(h) = Cardinality(RefCalls(h)) + RefsHeld(h)
        BY FourRefs DEF RefsDue, RefCalls, RefLabels
      <3> QED
        BY <3>1 DEF RefInv
    <2>2. ClosedIsEmpty
      BY DEF ClosedIsEmpty, Quiet, QuietInv, ListInv, EmptyInv, CtxInv
    <2> QED
      BY <2>1, <2>2 DEF NothingOwed, RefExact
  <1>3. I /\ [Next]_vars => RefInv' /\ BatchInv'
    BY RefStep, BatchStep
  <1>4. Spec => []QuietInv
    BY QuietInvariant
  <1>5. Init => BatchInv
    BY BatchInit
  <1> QED
    BY <1>1, <1>2, <1>3, <1>4, <1>5, PTL DEF Spec
===============================================================================
