------------------------------ MODULE Registry ------------------------------
(* The local registry (registry.c): a tree of nodes which only one thread,   *)
(* the registry thread, may modify while the process runs.  Other threads    *)
(* put nodes on an install queue and a removal queue under lRegMutex, and    *)
(* wake the registry thread through an event fd.                             *)
(*                                                                           *)
(* A step of a caller or of the registry thread is what it does between two  *)
(* points at which another thread can see a difference.  Each node has one   *)
(* parent for life, as every caller in the tree does.                        *)
(*                                                                           *)
(* lrn_head, the list of children, shares its memory with                    *)
(* lrn_parent_for_remove_only (registry.h:333-338): kids[n] is what the list *)
(* holds, ptr[n] the pointer that was written over its first word.           *)
EXTENDS Naturals, Sequences, FiniteSets, SequencesExt

CONSTANTS
    Nodes,      \* the nodes that are installed and removed
    Root,       \* lRegRootNode
    None,       \* a null pointer
    ParentOf,   \* the parent each node is given
    Inlined,    \* nodes with lrn_inlined_member
    Static,     \* nodes with lrn_statically_allocated
    MayFail,    \* nodes whose install callback may fail, or may_destroy
    Awaited,    \* nodes whose removal is waited for
    QuietHandover, \* who takes over knows the utility thread to be idle
    Threads     \* threads that call lreg_node_install and lreg_node_remove

All == Nodes \union {Root}

\* A parent's lrn_inlined_children.
InlinedChildren == {ParentOf[n] : n \in Inlined}

ChildrenOf(p) == {n \in Nodes : ParentOf[n] = p}

ASSUME NodesAssumption ==
    /\ Root \notin Nodes /\ None \notin All
    /\ ParentOf \in [Nodes -> All]
    /\ \A n \in Nodes : ParentOf[n] # n
    /\ Inlined \subseteq Nodes /\ Static \subseteq Nodes /\ MayFail \subseteq Nodes
    /\ Awaited \subseteq Nodes
    /\ QuietHandover \in BOOLEAN

\* The parents that take both kinds of children refuse one of them with
\* -EINVAL (lreg_parent_may_accept_child): no caller asks for it.
ASSUME KindAssumption ==
    \A n \in Nodes : ParentOf[n] \in InlinedChildren => n \in Inlined

\* A node whose installation fails has had its destroy callback run: nothing
\* is installed below it.
ASSUME FailAssumption == \A n \in MayFail : ChildrenOf(n) = {}

\* The threads that may be the registry thread: the utility thread, and an
\* application thread that took over with lreg_set_thread_ctx().
Servers == {"util", "app"}

States == {"NOT_INSTALLED", "INSTALLING", "INSTALLED", "REMOVING", "REMOVED"}

CallerPcs == {"idle", "install", "remove", "capture", "notify"}

ServerPcs == {"poll", "process", "install", "install_internal", "complete",
              "remove", "remove_internal", "uninstalled", "destroy"}

VARIABLES
    phase,          \* init_ctx(), neither, destroy_ctx()
    state,          \* lrn_install_state
    kids,           \* lrn_head as a list, first child first
    ptr,            \* lrn_parent_for_remove_only
    installQ,       \* lRegInstallQueue
    removeQ,        \* lRegDestroyQueue
    eventfd,        \* lRegEventFD is readable
    lRegThreadCtx,  \* which server is the registry thread
    src,            \* whether the utility thread polls lRegEventFD
    pc,             \* where each caller is
    arg,            \* the node each caller works on
    spc,            \* where each server is
    cur,            \* the node each server works on
    destroyed,      \* nodes whose destroy callback ran
    waited          \* nodes whose removal somebody waited for

callerVars == <<pc, arg, waited>>
serverVars == <<spc, cur>>
handVars   == <<phase, lRegThreadCtx, src>>
treeVars   == <<state, kids, ptr, destroyed>>
queueVars  == <<installQ, removeQ, eventfd>>
vars == <<callerVars, serverVars, handVars, treeVars, queueVars>>

TypeOK ==
    /\ phase \in {"init", "run", "destroy"}
    /\ state \in [All -> States]
    /\ kids \in [All -> Seq(Nodes)]
    /\ ptr \in [All -> All \union {None}]
    /\ installQ \in Seq(Nodes) /\ removeQ \in Seq(Nodes)
    /\ eventfd \in BOOLEAN
    /\ lRegThreadCtx \in Servers /\ src \in {"polled", "leaving", "removed"}
    /\ pc \in [Threads -> CallerPcs]
    /\ arg \in [Threads -> Nodes \union {None}]
    /\ spc \in [Servers -> ServerPcs]
    /\ cur \in [Servers -> Nodes \union {None}]
    /\ destroyed \subseteq Nodes /\ waited \subseteq Nodes

\* lreg_subsystem_init, and util_thread_subsystem_init's lreg_set_thread_ctx.
Init ==
    /\ phase = "init"
    /\ state = [n \in All |-> IF n = Root THEN "INSTALLED" ELSE "NOT_INSTALLED"]
    /\ kids = [n \in All |-> <<>>]
    /\ ptr = [n \in All |-> None]
    /\ installQ = <<>> /\ removeQ = <<>> /\ eventfd = FALSE
    /\ lRegThreadCtx = "util" /\ src = "polled"
    /\ pc = [t \in Threads |-> "idle"] /\ arg = [t \in Threads |-> None]
    /\ spc = [s \in Servers |-> "poll"] /\ cur = [s \in Servers |-> None]
    /\ destroyed = {} /\ waited = {}

-----------------------------------------------------------------------------
(* Nodes and lists.                                                          *)

Elems(q) == {q[i] : i \in DOMAIN q}

Without(q, n) == RemoveFirst(q, n)

lreg_node_needs_installation(n) == state[n] = "NOT_INSTALLED"

lreg_node_is_installed(n) == state[n] = "INSTALLED"

\* A captured parent pointer reads as a first child.
lreg_node_has_children(n) == kids[n] # <<>> \/ ptr[n] # None

\* Inlined children go down with their parent.
RefusedBusy(n) == lreg_node_has_children(n) /\ n \notin InlinedChildren

\* What lreg_node_install_internal asserts.
InstallAsserts(n) == ~lreg_node_needs_installation(ParentOf[n]) \/ n \in Inlined

\* What lreg_node_remove_internal asserts; the membership test starts at the
\* first word of the parent's list.
RemoveAsserts(n) ==
    /\ lreg_node_is_installed(n)
    /\ ptr[n] # None
    /\ ~lreg_node_needs_installation(ptr[n])
    /\ ptr[ptr[n]] = None
    /\ n \in Elems(kids[ptr[n]])

\* CIRCLEQ_INIT of a statically allocated child.
StaticInit(n, f, none) == IF n \in Static THEN [f EXCEPT ![n] = none] ELSE f

\* CIRCLEQ_INSERT_HEAD into a parent's list writes the list's first word.
Link(n) ==
    LET p == ParentOf[n]
        k == StaticInit(n, kids, <<>>)
        q == StaticInit(n, ptr, None)
    IN  /\ kids' = [k EXCEPT ![p] = <<n>> \o @]
        /\ ptr' = [q EXCEPT ![p] = IF @ = None THEN None ELSE n]

Unlink(n, p) == kids' = [kids EXCEPT ![p] = Without(@, n)]

-----------------------------------------------------------------------------
(* Rules that callers keep; the code does not enforce them.                  *)

\* The installation of n was requested and has not been decided.
InstallInFlight(n) ==
    \/ \E t \in Threads : pc[t] = "install" /\ arg[t] = n
    \/ n \in Elems(installQ)
    \/ \E s \in Servers : cur[s] = n /\ spc[s] \in {"install_internal", "complete"}

\* The removal of n was requested.
RemovalInFlight(n) ==
    \/ \E t \in Threads : pc[t] \in {"remove", "capture"} /\ arg[t] = n
    \/ ptr[n] # None

\* A node is installed below one that was installed, or that was queued
\* before it (LREG_ROOT_OBJECT_ENTRY_INSTALL); an inlined member also before
\* its parent is.  Nobody installs below a node being removed.
MayInstallBelow(p) ==
    /\ lreg_node_is_installed(p) \/ p \in Elems(installQ)
    /\ ~RemovalInFlight(p)

\* The owner removes a node once, when none of its children is on its way in.
MayRemove(n) ==
    /\ n \notin Inlined
    /\ ~RemovalInFlight(n)
    /\ \A k \in ChildrenOf(n) : ~InstallInFlight(k)

-----------------------------------------------------------------------------
(* lreg_node_install.                                                        *)

InPlace == phase = "init" \/ (phase = "run" /\ spc[lRegThreadCtx] = "poll")

\* During initialization, or called on the registry thread, or for an inlined
\* member of a parent that was not installed: all of it in this thread.
InstallHere(n) ==
    /\ phase # "destroy"
    /\ lreg_node_needs_installation(n)
    /\ \/ InPlace /\ lreg_node_is_installed(ParentOf[n]) /\ ~RemovalInFlight(ParentOf[n])
       \/ n \in Inlined /\ lreg_node_needs_installation(ParentOf[n])
    /\ InstallAsserts(n)
    /\ \/ /\ Link(n)
          /\ state' = [state EXCEPT ![n] = "INSTALLED"]
       \/ /\ n \in MayFail
          /\ kids' = StaticInit(n, kids, <<>>)
          /\ ptr' = StaticInit(n, ptr, None)
          /\ state' = [state EXCEPT ![n] = "INSTALLING"]
    /\ UNCHANGED <<callerVars, serverVars, handVars, queueVars, destroyed>>

\* Mutant: a node already INSTALLING is prepared again.
lreg_node_install_prep_ok_twice(n) == state[n] \in {"NOT_INSTALLED", "INSTALLING"}

\* The compare-and-swap; who loses it is told -EALREADY or -EAGAIN.
lreg_node_install_prep_ok(n) == state[n] = "NOT_INSTALLED"

Install_prep(t, n) ==
    /\ phase = "run"
    /\ pc[t] = "idle"
    /\ ~(n \in Inlined /\ lreg_node_needs_installation(ParentOf[n]))
    /\ MayInstallBelow(ParentOf[n])
    /\ lreg_node_install_prep_ok(n)
    /\ state' = [state EXCEPT ![n] = "INSTALLING"]
    /\ pc' = [pc EXCEPT ![t] = "install"]
    /\ arg' = [arg EXCEPT ![t] = n]
    /\ UNCHANGED <<waited, serverVars, handVars, kids, ptr, destroyed, queueVars>>

\* lreg_node_install_queue up to the unlock.
Install_queue(t) ==
    /\ pc[t] = "install"
    /\ installQ' = Append(installQ, arg[t])
    /\ pc' = [pc EXCEPT ![t] = "notify"]
    /\ UNCHANGED <<arg, waited, serverVars, handVars, treeVars, removeQ, eventfd>>

\* lreg_notify, the last step of either queueing function.
Notify(t) ==
    /\ pc[t] = "notify"
    /\ eventfd' = TRUE
    /\ pc' = [pc EXCEPT ![t] = "idle"]
    /\ arg' = [arg EXCEPT ![t] = None]
    /\ UNCHANGED <<waited, serverVars, handVars, treeVars, installQ, removeQ>>

-----------------------------------------------------------------------------
(* lreg_node_remove.                                                         *)

\* The conditions under which it does not return an error.
RemoveChecks(n) ==
    /\ lreg_node_has_children(ParentOf[n])
    /\ lreg_node_is_installed(n) /\ lreg_node_is_installed(ParentOf[n])
    /\ ~RefusedBusy(n)

\* During initialization or destruction, or called on the registry thread.
RemoveHere(n) ==
    /\ InPlace \/ phase = "destroy"
    /\ MayRemove(n)
    /\ RemoveChecks(n)
    /\ n \in Elems(kids[ParentOf[n]])
    /\ Unlink(n, ParentOf[n])
    /\ ptr' = [ptr EXCEPT ![n] = ParentOf[n]]
    /\ state' = [state EXCEPT ![n] = "REMOVED"]
    /\ destroyed' = destroyed \union {n}
    /\ UNCHANGED <<callerVars, serverVars, handVars, queueVars>>

Remove_check(t, n) ==
    /\ phase = "run"
    /\ pc[t] = "idle"
    /\ MayRemove(n)
    /\ RemoveChecks(n)
    /\ pc' = [pc EXCEPT ![t] = "remove"]
    /\ arg' = [arg EXCEPT ![t] = n]
    /\ UNCHANGED <<waited, serverVars, handVars, treeVars, queueVars>>

\* The parent pointer is captured before the lock is taken.
Remove_capture(t) ==
    /\ pc[t] = "remove"
    /\ ptr' = [ptr EXCEPT ![arg[t]] = ParentOf[arg[t]]]
    /\ pc' = [pc EXCEPT ![t] = "capture"]
    /\ UNCHANGED <<arg, waited, serverVars, handVars, state, kids, destroyed, queueVars>>

Remove_queue(t) ==
    /\ pc[t] = "capture"
    /\ removeQ' = Append(removeQ, arg[t])
    /\ pc' = [pc EXCEPT ![t] = "notify"]
    /\ UNCHANGED <<arg, waited, serverVars, handVars, treeVars, installQ, eventfd>>

\* lreg_node_wait_for_completion of a removal sees it complete.
Wait_removed(t, n) ==
    /\ pc[t] = "idle"
    /\ state[n] = "REMOVED"
    /\ n \in Awaited \ waited
    /\ waited' = waited \union {n}
    /\ UNCHANGED <<pc, arg, serverVars, handVars, treeVars, queueVars>>

-----------------------------------------------------------------------------
(* The registry thread.                                                      *)

Goto(s, here, there) == spc[s] = here /\ spc' = [spc EXCEPT ![s] = there]

\* The event fd is read before the queues are.
ReadEvent(s) ==
    /\ eventfd
    /\ IF s = "util" THEN src # "removed" ELSE lRegThreadCtx = "app"
    /\ Goto(s, "poll", "process")
    /\ eventfd' = FALSE
    /\ UNCHANGED <<callerVars, cur, handVars, treeVars, installQ, removeQ>>

\* lreg_util_processor, or -EXDEV and the event is passed on.
Process(s) ==
    /\ lRegThreadCtx = s
    /\ Goto(s, "process", "install")
    /\ UNCHANGED <<callerVars, cur, handVars, treeVars, queueVars>>

PassOnEvent(s) ==
    /\ lRegThreadCtx # s
    /\ Goto(s, "process", "poll")
    /\ eventfd' = TRUE
    /\ UNCHANGED <<callerVars, cur, handVars, treeVars, installQ, removeQ>>

lreg_install_get_queued_node(s) ==
    /\ installQ # <<>>
    /\ Goto(s, "install", "install_internal")
    /\ cur' = [cur EXCEPT ![s] = Head(installQ)]
    /\ installQ' = Tail(installQ)
    /\ UNCHANGED <<callerVars, handVars, treeVars, removeQ, eventfd>>

InstallsDone(s) ==
    /\ installQ = <<>>
    /\ Goto(s, "install", "remove")
    /\ UNCHANGED <<callerVars, cur, handVars, treeVars, queueVars>>

\* lreg_node_install_internal: the callback accepts and the node is linked...
InstallInternal(s) ==
    /\ Goto(s, "install_internal", "complete")
    /\ InstallAsserts(cur[s])
    /\ Link(cur[s])
    /\ UNCHANGED <<callerVars, cur, handVars, state, destroyed, queueVars>>

\* ...and its state says so.
InstallComplete(s) ==
    /\ Goto(s, "complete", "install")
    /\ state' = [state EXCEPT ![cur[s]] = "INSTALLED"]
    /\ cur' = [cur EXCEPT ![s] = None]
    /\ UNCHANGED <<callerVars, handVars, kids, ptr, destroyed, queueVars>>

\* The callback refuses: the node is destroyed and stays INSTALLING for good.
InstallFails(s) ==
    /\ Goto(s, "install_internal", "install")
    /\ InstallAsserts(cur[s]) /\ cur[s] \in MayFail
    /\ kids' = StaticInit(cur[s], kids, <<>>)
    /\ ptr' = StaticInit(cur[s], ptr, None)
    /\ destroyed' = destroyed \union {cur[s]}
    /\ cur' = [cur EXCEPT ![s] = None]
    /\ UNCHANGED <<callerVars, handVars, state, queueVars>>

lreg_remove_get_queued_node(s) ==
    /\ removeQ # <<>>
    /\ Goto(s, "remove", "remove_internal")
    /\ cur' = [cur EXCEPT ![s] = Head(removeQ)]
    /\ removeQ' = Tail(removeQ)
    /\ UNCHANGED <<callerVars, handVars, treeVars, installQ, eventfd>>

\* Mutant: the event fd is read after the queues were processed.
RemovesDone_reap(s) ==
    /\ removeQ = <<>>
    /\ Goto(s, "remove", "poll")
    /\ eventfd' = FALSE
    /\ UNCHANGED <<callerVars, cur, handVars, treeVars, installQ, removeQ>>

RemovesDone(s) ==
    /\ removeQ = <<>>
    /\ Goto(s, "remove", "poll")
    /\ UNCHANGED <<callerVars, cur, handVars, treeVars, queueVars>>

\* lreg_node_remove_internal: unlinked while REMOVING...
RemoveInternal(s) ==
    /\ Goto(s, "remove_internal", "uninstalled")
    /\ RemoveAsserts(cur[s])
    /\ state' = [state EXCEPT ![cur[s]] = "REMOVING"]
    /\ Unlink(cur[s], ptr[cur[s]])
    /\ UNCHANGED <<callerVars, cur, handVars, ptr, destroyed, queueVars>>

\* ...then REMOVED...
Uninstalled(s) ==
    /\ Goto(s, "uninstalled", "destroy")
    /\ state' = [state EXCEPT ![cur[s]] = "REMOVED"]
    /\ UNCHANGED <<callerVars, cur, handVars, kids, ptr, destroyed, queueVars>>

\* Mutant: the destroy callback is left out.
DestroyCb_none(s) ==
    /\ Goto(s, "destroy", "remove")
    /\ cur' = [cur EXCEPT ![s] = None]
    /\ UNCHANGED <<callerVars, handVars, treeVars, queueVars>>

\* ...and only then is the destroy callback run.
DestroyCb(s) ==
    /\ Goto(s, "destroy", "remove")
    /\ destroyed' = destroyed \union {cur[s]}
    /\ cur' = [cur EXCEPT ![s] = None]
    /\ UNCHANGED <<callerVars, handVars, state, kids, ptr, queueVars>>

-----------------------------------------------------------------------------
(* The process, and handing the registry to another thread.                  *)

\* init_complete().
InitComplete ==
    /\ phase = "init"
    /\ phase' = "run"
    /\ UNCHANGED <<callerVars, serverVars, lRegThreadCtx, src, treeVars, queueVars>>

\* main() returns when it has waited for everything it queued.
DestroyStart ==
    /\ phase = "run"
    /\ \A t \in Threads : pc[t] = "idle"
    /\ \A s \in Servers : spc[s] = "poll"
    /\ installQ = <<>> /\ removeQ = <<>>
    /\ phase' = "destroy"
    /\ UNCHANGED <<callerVars, serverVars, lRegThreadCtx, src, treeVars, queueVars>>

\* lctli_util_thread_unregister first writes the event fd...
Unregister_notify ==
    /\ phase = "run" /\ src = "polled"
    /\ src' = "leaving"
    /\ eventfd' = TRUE
    /\ UNCHANGED <<callerVars, serverVars, phase, lRegThreadCtx, treeVars, installQ, removeQ>>

\* ...then deletes the handle, which has no ref_cb: epoll_handle_del does it
\* in the calling thread, wherever the utility thread is.
lreg_remove_event_src ==
    /\ phase = "run" /\ src = "leaving"
    /\ src' = "removed"
    /\ UNCHANGED <<callerVars, serverVars, phase, lRegThreadCtx, treeVars, queueVars>>

\* The new thread takes over, before or after the event source is removed.
lreg_set_thread_ctx ==
    /\ phase = "run" /\ lRegThreadCtx = "util"
    /\ QuietHandover => spc["util"] \in {"poll", "process"}
    /\ lRegThreadCtx' = "app"
    /\ UNCHANGED <<callerVars, serverVars, phase, src, treeVars, queueVars>>

-----------------------------------------------------------------------------
CallerStep(t) ==
    Install_queue(t) \/ Notify(t) \/ Remove_capture(t) \/ Remove_queue(t)

ServerStep(s) ==
    \/ ReadEvent(s) \/ Process(s) \/ PassOnEvent(s)
    \/ lreg_install_get_queued_node(s) \/ InstallsDone(s)
    \/ InstallInternal(s) \/ InstallComplete(s) \/ InstallFails(s)
    \/ lreg_remove_get_queued_node(s) \/ RemovesDone(s)
    \/ RemoveInternal(s) \/ Uninstalled(s) \/ DestroyCb(s)

Next ==
    \/ \E n \in Nodes : InstallHere(n) \/ RemoveHere(n)
    \/ \E t \in Threads :
          \/ CallerStep(t)
          \/ \E n \in Nodes : Install_prep(t, n) \/ Remove_check(t, n) \/ Wait_removed(t, n)
    \/ \E s \in Servers : ServerStep(s)
    \/ InitComplete \/ DestroyStart
    \/ Unregister_notify \/ lreg_remove_event_src \/ lreg_set_thread_ctx

Spec == Init /\ [][Next]_vars

\* A caller that began finishes; a server whose fd is readable is scheduled.
\* A handover that began is completed: who unregisters the event source also
\* sets the thread, and who sets the thread also unregisters the source.
FairSpec ==
    /\ Spec
    /\ \A t \in Threads : WF_vars(CallerStep(t))
    /\ \A s \in Servers : WF_vars(ServerStep(s))
    /\ WF_vars(src = "removed" /\ lreg_set_thread_ctx)
    /\ WF_vars(lRegThreadCtx = "app" /\ Unregister_notify)
    /\ WF_vars(lreg_remove_event_src)

-----------------------------------------------------------------------------
(* Properties.                                                               *)

\* A queued node is never forgotten: while a queue holds one, the event fd is
\* readable, or whoever queued it is about to write it, or a server is at a
\* point from which it still looks at that queue or passes the event on.
NoLostEvent ==
    LET Coming == eventfd \/ \E t \in Threads : pc[t] = "notify"
    IN  /\ installQ # <<>> =>
              Coming \/ \E s \in Servers :
                 spc[s] \in {"process", "install", "install_internal", "complete"}
        /\ removeQ # <<>> =>
              Coming \/ \E s \in Servers : spc[s] # "poll"

\* One thread at a time works on the tree: a handover that finds the utility
\* thread between its event and the queues never leaves two.
OneRegistryThread ==
    \A s \in Servers : spc[s] \notin {"poll", "process"} => lRegThreadCtx = s

\* Installing a statically allocated node initializes its list and forgets the
\* inlined members that were linked before it (registry.c:174-175): log.h does
\* so with the first message of every file.
MayBeForgotten(n) == n \in Inlined /\ ParentOf[n] \in Static

\* lrn_lentry links a node into the install queue or into its parent's list,
\* never both and never twice, and its state tells which; a node whose destroy
\* callback has run is on no list and in no queue.
LinkedOnce ==
    \A n \in Nodes :
       LET places == {i \in DOMAIN installQ : installQ[i] = n}
           links  == {pi \in UNION {{p} \X DOMAIN kids[p] : p \in All} :
                        kids[pi[1]][pi[2]] = n}
       IN  /\ Cardinality(places) + Cardinality(links) <= 1
           /\ places # {} => state[n] = "INSTALLING"
           /\ state[n] = "INSTALLED" /\ ~MayBeForgotten(n) => n \in Elems(kids[ParentOf[n]])
           /\ state[n] \in {"NOT_INSTALLED", "REMOVING", "REMOVED"} => links = {}
           /\ n \in destroyed => places \union links = {} /\ n \notin Elems(removeQ)

\* No assertion of lreg_node_install_internal and lreg_node_remove_internal
\* fails on a node taken from a queue, however long ago it was checked.
NoAssert ==
    \A s \in Servers :
       /\ spc[s] = "install_internal" => InstallAsserts(cur[s])
       /\ spc[s] = "remove_internal" => RemoveAsserts(cur[s])

\* What lreg_node_has_children() is there for: the parent of a node whose
\* removal was requested is itself not removed before it.
ParentOutlives ==
    \A n \in Nodes :
       state[n] \in {"INSTALLED", "REMOVING"} /\ n \notin Inlined =>
          lreg_node_is_installed(ParentOf[n])

\* buffer_set_destroy waits for the removal of its node so as to return only
\* when the registry is done with it.
WaitedIsDone == \A n \in waited, s \in Servers : cur[s] # n

\* Every accepted installation is decided: installed, or refused and destroyed.
InstallDecided ==
    \A n \in Nodes : InstallInFlight(n) ~>
                        (state[n] \in {"INSTALLED", "REMOVING", "REMOVED"} \/ n \in destroyed)

\* Every accepted removal completes, its destroy callback included.
RemovalCompletes == \A n \in Nodes : ptr[n] # None ~> n \in destroyed

\* Requests reach the one thread that works on the tree, also while another
\* thread takes its place (registry.c:239-299, 536-633).
EventsServed == NoLostEvent /\ OneRegistryThread

\* The registry stays a tree: a node is linked once, below a parent that
\* outlives it, and what a check established holds when the node is taken
\* from its queue (registry.c:157-233, 352-422).
TreeSound == LinkedOnce /\ ParentOutlives /\ NoAssert

\* Every accepted request comes to its end.
RequestsServed == InstallDecided /\ RemovalCompletes
=============================================================================
