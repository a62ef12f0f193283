--------------------------- MODULE RegistryProofs ---------------------------
(* No queued node is forgotten, only one thread works on the tree and the    *)
(* tree stays a tree, for any nodes and any number of calling threads.       *)
EXTENDS Registry, FiniteSetTheorems, SequenceTheorems, TLAPS

\* The part of the type invariant that the control flow needs.
CtlTypeOK ==
    /\ pc \in [Threads -> CallerPcs]
    /\ spc \in [Servers -> ServerPcs]
    /\ eventfd \in BOOLEAN
    /\ lRegThreadCtx \in Servers

\* NoLostEvent is inductive once the program counters are known to be
\* functions; the handover part holds when the application keeps to a quiet
\* handover.
IInv ==
    /\ CtlTypeOK
    /\ NoLostEvent
    /\ QuietHandover => OneRegistryThread

LEMMA InitIInv == Init => IInv
  BY DEF Init, IInv, CtlTypeOK, NoLostEvent, OneRegistryThread, CallerPcs,
         ServerPcs, Servers

\* A caller's step: what it queues it announces before it is idle again.
LEMMA CallerKeeps ==
  ASSUME IInv, NEW t \in Threads,
         \/ CallerStep(t)
         \/ \E n \in Nodes : Install_prep(t, n) \/ Remove_check(t, n) \/ Wait_removed(t, n)
  PROVE  IInv'
<1> USE DEF IInv, CtlTypeOK, NoLostEvent, OneRegistryThread, CallerPcs,
            callerVars, serverVars, handVars, treeVars, queueVars
<1>1. CASE Install_queue(t)
  BY <1>1 DEF Install_queue
<1>2. CASE Notify(t)
  BY <1>2 DEF Notify
<1>3. CASE Remove_capture(t)
  BY <1>3 DEF Remove_capture
<1>4. CASE Remove_queue(t)
  BY <1>4 DEF Remove_queue
<1>5. CASE \E n \in Nodes : Install_prep(t, n)
  BY <1>5 DEF Install_prep
<1>6. CASE \E n \in Nodes : Remove_check(t, n)
  BY <1>6 DEF Remove_check
<1>7. CASE \E n \in Nodes : Wait_removed(t, n)
  BY <1>7 DEF Wait_removed
<1> QED
  BY <1>1, <1>2, <1>3, <1>4, <1>5, <1>6, <1>7 DEF CallerStep

\* A server's step: it leaves a queue only when it found it empty, and takes
\* the event only to look at both queues or to pass it on.
LEMMA ServerKeeps ==
  ASSUME IInv, NEW s \in Servers, ServerStep(s)
  PROVE  IInv'
<1> USE DEF IInv, CtlTypeOK, NoLostEvent, OneRegistryThread, ServerPcs, Goto,
            callerVars, serverVars, handVars, treeVars, queueVars
<1>1. CASE ReadEvent(s)
  BY <1>1 DEF ReadEvent
<1>2. CASE Process(s)
  BY <1>2 DEF Process
<1>3. CASE PassOnEvent(s)
  BY <1>3 DEF PassOnEvent
<1>4. CASE lreg_install_get_queued_node(s)
  BY <1>4 DEF lreg_install_get_queued_node
<1>5. CASE InstallsDone(s)
  BY <1>5 DEF InstallsDone
<1>6. CASE InstallInternal(s)
  BY <1>6 DEF InstallInternal
<1>7. CASE InstallComplete(s)
  BY <1>7 DEF InstallComplete
<1>8. CASE InstallFails(s)
  BY <1>8 DEF InstallFails
<1>9. CASE lreg_remove_get_queued_node(s)
  BY <1>9 DEF lreg_remove_get_queued_node
<1>10. CASE RemovesDone(s)
  BY <1>10 DEF RemovesDone
<1>11. CASE RemoveInternal(s)
  BY <1>11 DEF RemoveInternal
<1>12. CASE Uninstalled(s)
  BY <1>12 DEF Uninstalled
<1>13. CASE DestroyCb(s)
  BY <1>13 DEF DestroyCb
<1> QED
  BY <1>1, <1>2, <1>3, <1>4, <1>5, <1>6, <1>7, <1>8, <1>9, <1>10, <1>11,
     <1>12, <1>13 DEF ServerStep

\* What happens in place, and the handover.
LEMMA OthersKeep ==
  ASSUME IInv,
         \/ \E n \in Nodes : InstallHere(n) \/ RemoveHere(n)
         \/ InitComplete \/ DestroyStart
         \/ Unregister_notify \/ lreg_remove_event_src \/ lreg_set_thread_ctx
  PROVE  IInv'
<1> USE DEF IInv, CtlTypeOK, NoLostEvent, OneRegistryThread,
            callerVars, serverVars, handVars, treeVars, queueVars
<1>1. CASE \E n \in Nodes : InstallHere(n)
  BY <1>1 DEF InstallHere
<1>2. CASE \E n \in Nodes : RemoveHere(n)
  BY <1>2 DEF RemoveHere
<1>3. CASE InitComplete
  BY <1>3 DEF InitComplete
<1>4. CASE DestroyStart
  BY <1>4 DEF DestroyStart
<1>5. CASE Unregister_notify
  BY <1>5 DEF Unregister_notify
<1>6. CASE lreg_remove_event_src
  BY <1>6 DEF lreg_remove_event_src
<1>7. CASE lreg_set_thread_ctx
  BY <1>7 DEF lreg_set_thread_ctx, Servers
<1> QED
  BY <1>1, <1>2, <1>3, <1>4, <1>5, <1>6, <1>7

LEMMA StepIInv == IInv /\ [Next]_vars => IInv'
<1> SUFFICES ASSUME IInv, [Next]_vars PROVE IInv'
  OBVIOUS
<1>1. CASE UNCHANGED vars
  BY <1>1 DEF IInv, CtlTypeOK, NoLostEvent, OneRegistryThread, vars,
              callerVars, serverVars, handVars, treeVars, queueVars
<1>2. CASE Next
  BY <1>2, CallerKeeps, ServerKeeps, OthersKeep DEF Next
<1> QED
  BY <1>1, <1>2

\* While a node is queued, an event is pending or somebody is on the way who
\* will look at its queue: registration requests are never forgotten.
THEOREM NoLostEventCorrect == Spec => []NoLostEvent
<1>1. IInv => NoLostEvent
  BY DEF IInv
<1> QED
  BY <1>1, InitIInv, StepIInv, PTL DEF Spec

\* The -EXDEV test is enough to keep two threads off the tree, provided the
\* application hands the registry over while the utility thread is not
\* serving the queues.
THEOREM OneRegistryThreadCorrect ==
  ASSUME QuietHandover
  PROVE  Spec => []OneRegistryThread
<1>1. IInv => OneRegistryThread
  BY DEF IInv
<1> QED
  BY <1>1, InitIInv, StepIInv, PTL DEF Spec

\* Both together, as the model checker's run states them: no queued node is
\* forgotten, and one thread at a time works on the tree.
THEOREM EventsServedCorrect ==
  ASSUME QuietHandover
  PROVE  Spec => []EventsServed
<1>1. NoLostEvent /\ OneRegistryThread => EventsServed
  BY DEF EventsServed
<1>2. Spec => []NoLostEvent
  BY NoLostEventCorrect
<1>3. Spec => []OneRegistryThread
  BY OneRegistryThreadCorrect
<1> QED
  BY <1>1, <1>2, <1>3, PTL

-----------------------------------------------------------------------------
(* The tree.  TreeSound is not inductive: what was checked when a node was   *)
(* queued has to be carried to the moment at which it is taken from the      *)
(* queue.                                                                    *)

\* Where a server has a node in its hands.
Serving == {"install_internal", "complete", "remove_internal", "uninstalled", "destroy"}

\* Where a node is: about to be queued for installation, or to be removed,
\* by a caller...
CallerHas(n, places) == \E t \in Threads : arg[t] = n /\ pc[t] \in places
Asked(n)    == CallerHas(n, {"install"})
Checked(n)  == CallerHas(n, {"remove"})
Captured(n) == CallerHas(n, {"capture"})

\* ...or in the hands of a server.
ServerHas(n, places) == \E s \in Servers : cur[s] = n /\ spc[s] \in places
AtInstall(n)  == ServerHas(n, {"install_internal"})
AtComplete(n) == ServerHas(n, {"complete"})
AtRemove(n)   == ServerHas(n, {"remove_internal"})
AtRemoving(n) == ServerHas(n, {"uninstalled"})
AtDestroy(n)  == ServerHas(n, {"destroy"})

\* Who holds a node: no two callers the same; before and after the process
\* runs nobody does.
Holding ==
    /\ OneRegistryThread
    /\ \A t \in Threads : pc[t] \in {"install", "remove", "capture"} => arg[t] \in Nodes
    /\ \A t, u \in Threads : arg[t] = arg[u] /\ t # u =>
         /\ ~(pc[t] = "install" /\ pc[u] = "install")
         /\ ~(pc[t] \in {"remove", "capture"} /\ pc[u] \in {"remove", "capture"})
    /\ \A s \in Servers : cur[s] \in Nodes <=> spc[s] \in Serving
    /\ phase # "run" =>
         /\ installQ = <<>> /\ removeQ = <<>>
         /\ \A t \in Threads : pc[t] = "idle"
         /\ \A s \in Servers : spc[s] \notin Serving

\* No list has a node twice, and a node is on no list but its parent's.
Lists ==
    /\ IsInjective(installQ) /\ IsInjective(removeQ)
    /\ \A p \in All : IsInjective(kids[p]) /\ \A n \in Elems(kids[p]) : ParentOf[n] = p

\* For a node n and its parent p.  A node is on its parent's list from the first
\* of the last two steps of its installation to the first step of its removal.
Links(p, n) ==
    /\ n \in Elems(kids[p]) => state[n] = "INSTALLED" \/ AtComplete(n)
    /\ (state[n] = "INSTALLED" \/ AtComplete(n)) /\ ~MayBeForgotten(n) => n \in Elems(kids[p])

\* A node that is being installed is in one place only, and its parent stays.
ComingIn(p, n) ==
    /\ Asked(n) \/ n \in Elems(installQ) \/ AtInstall(n) \/ AtComplete(n) =>
         /\ state[n] = "INSTALLING" /\ n \notin destroyed
         /\ ~Checked(p) /\ ~Captured(p) /\ ptr[p] = None
    /\ Asked(n) => n \notin Elems(installQ) /\ ~AtInstall(n) /\ ~AtComplete(n)
    /\ n \in Elems(installQ) => ~AtInstall(n) /\ ~AtComplete(n)

\* The parent of a node that is being installed is installed, or is served
\* before it.
Ready(p, n) ==
    /\ Asked(n) =>
         state[p] = "INSTALLED" \/ p \in Elems(installQ) \/ AtInstall(p) \/ AtComplete(p)
    /\ AtInstall(n) \/ AtComplete(n) => state[p] = "INSTALLED"

\* A node that is being removed is in one place only, and its state tells how
\* far its removal is.
GoingOut(n) ==
    /\ Checked(n) => state[n] = "INSTALLED" /\ n \notin Inlined /\ ptr[n] = None
    /\ Captured(n) => n \notin Elems(removeQ) /\ ~AtRemove(n)
    /\ n \in Elems(removeQ) => ~AtRemove(n)
    /\ Captured(n) \/ n \in Elems(removeQ) \/ AtRemove(n) =>
         state[n] = "INSTALLED" /\ n \notin Inlined /\ ptr[n] # None
    /\ state[n] = "REMOVING" <=> AtRemoving(n)
    /\ AtDestroy(n) => state[n] = "REMOVED"

\* The pointer that shares its memory with the list of children.
Pointers(p, n) ==
    /\ ptr[n] = None \/ ptr[n] = p
    /\ ptr[n] # None => n \notin Inlined /\ state[n] \in {"INSTALLED", "REMOVING", "REMOVED"}
    /\ state[n] \in {"REMOVING", "REMOVED"} => ptr[n] # None

\* A parent is removed after its children, and only asked to when they are
\* gone.  An inlined member goes down with its parent.
Parents(p, n) ==
    n \notin Inlined =>
       /\ state[n] \in {"INSTALLED", "REMOVING"} => state[p] = "INSTALLED"
       /\ Checked(p) \/ Captured(p) \/ ptr[p] # None => state[n] # "INSTALLED"

\* Whose destroy callback ran is out of the tree for good.
Gone(n) == n \in destroyed => state[n] \in {"INSTALLING", "REMOVED"}

NodeInv(p, n) ==
    /\ Links(p, n) /\ ComingIn(p, n) /\ Ready(p, n) /\ GoingOut(n) /\ Pointers(p, n)
    /\ Parents(p, n) /\ Gone(n)

\* A queued node's parent is installed, or is served before it.
QueueReady ==
    \A p \in All : \A n \in ChildrenOf(p) : \A i \in DOMAIN installQ : installQ[i] = n =>
       \/ state[p] = "INSTALLED" \/ AtInstall(p) \/ AtComplete(p)
       \/ \E j \in DOMAIN installQ : j < i /\ installQ[j] = p

\* The root is always there.
RootIn == state[Root] = "INSTALLED" /\ ptr[Root] = None

TreeInv ==
    /\ TypeOK /\ Holding /\ Lists /\ QueueReady /\ RootIn
    /\ \A p \in All : \A n \in ChildrenOf(p) : NodeInv(p, n)

-----------------------------------------------------------------------------
(* Lists.                                                                    *)

\* CIRCLEQ_INSERT_TAIL of a node that is not on the queue.
LEMMA Queued ==
    ASSUME NEW q \in Seq(Nodes), NEW n \in Nodes, IsInjective(q), n \notin Elems(q)
    PROVE  /\ Append(q, n) \in Seq(Nodes) /\ IsInjective(Append(q, n))
           /\ Elems(Append(q, n)) = Elems(q) \union {n}
           /\ DOMAIN q \subseteq DOMAIN Append(q, n)
           /\ \A i \in DOMAIN q : Append(q, n)[i] = q[i]
           /\ \A i \in DOMAIN Append(q, n) \ DOMAIN q :
                Append(q, n)[i] = n /\ \A j \in DOMAIN q : j < i
<1>1. Len(q) \in Nat /\ DOMAIN q = 1..Len(q)
  BY LenProperties
<1> DEFINE l == Append(q, n)
<1>2. /\ l \in Seq(Nodes) /\ Len(l) = Len(q) + 1
      /\ l[Len(q) + 1] = n /\ \A i \in 1..Len(q) : l[i] = q[i]
  BY <1>1
<1>3. DOMAIN l = 1..Len(l)
  BY <1>2, LenProperties
<1> HIDE DEF l
<1>4. DOMAIN q \subseteq DOMAIN l /\ Len(q) + 1 \in DOMAIN l
  BY <1>1, <1>2, <1>3
<1>5. \A i \in DOMAIN l \ DOMAIN q : i = Len(q) + 1 /\ \A j \in DOMAIN q : j < i
  BY <1>1, <1>2, <1>3
<1>6. IsInjective(l)
  BY <1>1, <1>2, <1>4, <1>5 DEF IsInjective, Elems
<1>7. Elems(l) = Elems(q) \union {n}
  BY <1>1, <1>2, <1>4, <1>5 DEF Elems
<1>. QED
  BY <1>1, <1>2, <1>4, <1>5, <1>6, <1>7 DEF l

\* Taking the first node of a queue moves the others one place to the front.
LEMMA Dequeued ==
    ASSUME NEW q \in Seq(Nodes), IsInjective(q), q # <<>>
    PROVE  /\ Head(q) \in Nodes /\ Tail(q) \in Seq(Nodes) /\ IsInjective(Tail(q))
           /\ Elems(Tail(q)) = Elems(q) \ {Head(q)} /\ Head(q) \in Elems(q)
           /\ 1 \in DOMAIN q /\ q[1] = Head(q) /\ \A j \in DOMAIN q : ~(j < 1)
           /\ \A i \in DOMAIN Tail(q) : i + 1 \in DOMAIN q /\ Tail(q)[i] = q[i + 1]
           /\ \A i \in DOMAIN Tail(q) : \A j \in DOMAIN q :
                j < i + 1 => j = 1 \/ (j - 1 \in DOMAIN Tail(q) /\ j - 1 < i /\ Tail(q)[j - 1] = q[j])
<1>1. Len(q) \in Nat \ {0} /\ DOMAIN q = 1..Len(q)
  BY LenProperties, EmptySeq
<1> DEFINE l == Tail(q)
<1>2. /\ Head(q) = q[1] /\ Head(q) \in Nodes
      /\ l \in Seq(Nodes) /\ Len(l) = Len(q) - 1 /\ \A i \in 1..Len(l) : l[i] = q[i + 1]
  BY <1>1, HeadTailProperties
<1>3. DOMAIN l = 1..Len(l)
  BY <1>2, LenProperties
<1> HIDE DEF l
<1>4. \A i \in DOMAIN l : i \in Int /\ i + 1 \in DOMAIN q /\ l[i] = q[i + 1] /\ i + 1 # 1
  BY <1>1, <1>2, <1>3
<1>5. \A j \in DOMAIN q : j # 1 => j \in Int /\ j - 1 \in DOMAIN l /\ (j - 1) + 1 = j
  BY <1>1, <1>2, <1>3
<1>6. 1 \in DOMAIN q /\ \A j \in DOMAIN q : j \in Int /\ ~(j < 1)
  BY <1>1
<1>7. IsInjective(l)
  <2>1. \A i, j \in DOMAIN l : i + 1 = j + 1 => i = j
    BY <1>4
  <2>. QED
    BY <1>4, <2>1 DEF IsInjective
<1>8. Elems(l) = Elems(q) \ {Head(q)}
  <2>1. \A i \in DOMAIN q : q[i] = q[1] => i = 1
    BY <1>6 DEF IsInjective
  <2>2. Elems(l) \subseteq Elems(q) \ {Head(q)}
    BY <1>2, <1>4, <2>1 DEF Elems
  <2>3. ASSUME NEW x \in Elems(q) \ {Head(q)} PROVE x \in Elems(l)
    <3>1. PICK j \in DOMAIN q : q[j] = x
      BY DEF Elems
    <3>2. j # 1
      BY <1>2, <3>1, <2>3
    <3>3. j - 1 \in DOMAIN l /\ l[j - 1] = x
      BY <1>4, <1>5, <3>1, <3>2
    <3>. QED
      BY <3>3 DEF Elems
  <2>. QED
    BY <2>2, <2>3
<1>9. ASSUME NEW i \in DOMAIN l, NEW j \in DOMAIN q, j < i + 1, j # 1
      PROVE  j - 1 \in DOMAIN l /\ j - 1 < i /\ l[j - 1] = q[j]
  BY <1>4, <1>5, <1>9
<1>. QED
  BY <1>1, <1>2, <1>4, <1>6, <1>7, <1>8, <1>9 DEF l, Elems

\* CIRCLEQ_INSERT_HEAD of a node that is not on the list.
LEMMA Linked ==
    ASSUME NEW q \in Seq(Nodes), NEW n \in Nodes, IsInjective(q), n \notin Elems(q)
    PROVE  /\ <<n>> \o q \in Seq(Nodes) /\ IsInjective(<<n>> \o q)
           /\ Elems(<<n>> \o q) = Elems(q) \union {n}
<1>1. Len(q) \in Nat /\ DOMAIN q = 1..Len(q)
  BY LenProperties
<1> DEFINE l == <<n>> \o q
<1>2. <<n>> \in Seq(Nodes) /\ Len(<<n>>) = 1 /\ <<n>>[1] = n
  OBVIOUS
<1>3. /\ l \in Seq(Nodes) /\ Len(l) = 1 + Len(q)
      /\ \A i \in 1..(1 + Len(q)) : l[i] = IF i <= 1 THEN <<n>>[i] ELSE q[i - 1]
  BY <1>2, ConcatProperties
<1>4. DOMAIN l = 1..(1 + Len(q))
  BY <1>3, LenProperties
<1> HIDE DEF l
<1>5. 1 \in DOMAIN l /\ l[1] = n
  BY <1>1, <1>2, <1>3, <1>4
<1>6. \A i \in DOMAIN l : i # 1 => i \in Int /\ i - 1 \in DOMAIN q /\ l[i] = q[i - 1]
  BY <1>1, <1>3, <1>4
<1>7. \A i \in DOMAIN q : i + 1 \in DOMAIN l /\ l[i + 1] = q[i]
  BY <1>1, <1>3, <1>4
<1>8. IsInjective(l)
  <2>1. \A i, j \in DOMAIN l : i # 1 /\ j # 1 /\ i - 1 = j - 1 => i = j
    BY <1>6
  <2>. QED
    BY <1>5, <1>6, <2>1 DEF IsInjective, Elems
<1>9. Elems(l) = Elems(q) \union {n}
  <2>1. Elems(l) \subseteq Elems(q) \union {n}
    BY <1>5, <1>6 DEF Elems
  <2>2. n \in Elems(l)
    BY <1>5 DEF Elems
  <2>3. Elems(q) \subseteq Elems(l)
    BY <1>7 DEF Elems
  <2>. QED
    BY <2>1, <2>2, <2>3
<1>. QED
  BY <1>3, <1>8, <1>9 DEF l

\* CIRCLEQ_REMOVE takes a node off the list that it is on once.
LEMMA Unlinked ==
    ASSUME NEW list \in Seq(Nodes), NEW t \in Nodes, IsInjective(list),
           NEW k \in 1..Len(list), list[k] = t
    PROVE  /\ Without(list, t) \in Seq(Nodes) /\ IsInjective(Without(list, t))
           /\ \A u : (\E i \in 1..Len(Without(list, t)) : Without(list, t)[i] = u)
                       <=> (u # t /\ \E i \in 1..Len(list) : list[i] = u)
<1> DEFINE n == Len(list)
           A == SubSeq(list, 1, k - 1)
           B == SubSeq(list, k + 1, n)
           l == A \o B
<1>1. n \in Nat /\ DOMAIN list = 1..n /\ \A i \in 1..n : list[i] \in Nodes
  BY LenProperties, ElementOfSeq
<1>2. {i \in 1..n : list[i] = t} = {k}
  BY <1>1 DEF IsInjective
<1>3. Min({k}) = k
  BY <1>1 DEF Min
<1>4. Without(list, t) = l
  BY <1>2, <1>3 DEF Without, RemoveFirst, RemoveAt, SelectInSeq
<1>5. A \in Seq(Nodes) /\ Len(A) = k - 1 /\ \A i \in 1..(k - 1) : A[i] = list[i]
  <2>1. \A i \in 1..(k - 1) : list[i] \in Nodes
    BY <1>1
  <2>. QED
    BY <1>1, <2>1, SubSeqProperties
<1>6. B \in Seq(Nodes) /\ Len(B) = n - k /\ \A i \in 1..(n - k) : B[i] = list[k + i]
  <2>1. \A i \in (k + 1)..n : list[i] \in Nodes
    BY <1>1
  <2>2. /\ B \in Seq(Nodes) /\ Len(B) = IF k + 1 <= n THEN n - (k + 1) + 1 ELSE 0
        /\ \A i \in 1..(n - (k + 1) + 1) : B[i] = list[(k + 1) + i - 1]
    BY <1>1, <2>1, SubSeqProperties
  <2> HIDE DEF B
  <2>3. n - (k + 1) + 1 = n - k /\ \A i \in 1..(n - k) : (k + 1) + i - 1 = k + i
    BY <1>1
  <2>4. Len(B) = n - k
    <3> HIDE DEF n
    <3>1. k \in Nat /\ n \in Nat /\ k <= n
      BY <1>1 DEF n
    <3>. QED
      BY <2>2, <3>1
  <2>. QED
    BY <2>2, <2>3, <2>4
<1> HIDE DEF A, B
<1>7. /\ l \in Seq(Nodes) /\ Len(l) = n - 1
      /\ \A i \in 1..(n - 1) : l[i] = IF i <= k - 1 THEN A[i] ELSE B[i - (k - 1)]
  <2>1. /\ l \in Seq(Nodes) /\ Len(l) = Len(A) + Len(B)
        /\ \A i \in 1..(Len(A) + Len(B)) : l[i] = IF i <= Len(A) THEN A[i] ELSE B[i - Len(A)]
    BY <1>5, <1>6, ConcatProperties
  <2>2. Len(A) + Len(B) = n - 1
    BY <1>1, <1>5, <1>6
  <2>. QED
    BY <1>5, <2>1, <2>2
<1>8. \A i \in 1..(n - 1) : l[i] = IF i <= k - 1 THEN list[i] ELSE list[i + 1]
  <2> HIDE DEF l
  <2>1. ASSUME NEW i \in 1..(n - 1), i <= k - 1 PROVE l[i] = list[i]
    BY <1>1, <1>5, <1>7, <2>1
  <2>2. ASSUME NEW i \in 1..(n - 1), ~(i <= k - 1) PROVE l[i] = list[i + 1]
    <3>1. i - (k - 1) \in 1..(n - k) /\ k + (i - (k - 1)) = i + 1
      BY <1>1, <2>2
    <3>. QED
      BY <1>6, <1>7, <2>2, <3>1
  <2>. QED
    BY <2>1, <2>2
<1>9. DOMAIN l = 1..(n - 1)
  BY <1>7, LenProperties
<1> HIDE DEF l, n
<1>10. IsInjective(l)
  <2> SUFFICES ASSUME NEW i \in 1..(n - 1), NEW j \in 1..(n - 1), l[i] = l[j] PROVE i = j
    BY <1>9 DEF IsInjective
  <2>1. i \in 1..n /\ i + 1 \in 1..n /\ j \in 1..n /\ j + 1 \in 1..n
    BY <1>1
  <2>2. \A x, y \in 1..n : list[x] = list[y] => x = y
    BY <1>1 DEF IsInjective
  <2>3. l[i] = (IF i <= k - 1 THEN list[i] ELSE list[i + 1]) /\ l[j] = IF j <= k - 1 THEN list[j] ELSE list[j + 1]
    BY <1>8
  <2>4. k \in Int /\ i \in Int /\ j \in Int
    BY <1>1
  <2>5. (IF i <= k - 1 THEN i ELSE i + 1) = IF j <= k - 1 THEN j ELSE j + 1
    BY <2>1, <2>2, <2>3
  <2>. QED
    BY <2>4, <2>5
<1>11. ASSUME NEW u
       PROVE  (\E i \in 1..(n - 1) : l[i] = u) <=> (u # t /\ \E i \in 1..n : list[i] = u)
  <2>1. ASSUME NEW i \in 1..(n - 1), l[i] = u
        PROVE  u # t /\ \E j \in 1..n : list[j] = u
    <3>1. i \in 1..n /\ i + 1 \in 1..n
      BY <1>1
    <3>2. \A j \in 1..n : list[j] = t => j = k
      BY <1>1 DEF IsInjective
    <3>. QED
      BY <1>1, <1>8, <2>1, <3>1, <3>2
  <2>2. ASSUME NEW j \in 1..n, list[j] = u, u # t
        PROVE  \E i \in 1..(n - 1) : l[i] = u
    <3>1. CASE j < k
      <4>1. j \in 1..(n - 1) /\ j <= k - 1
        BY <1>1, <3>1 DEF n
      <4>. QED
        BY <1>8, <2>2, <4>1
    <3>2. CASE j > k
      <4>1. j - 1 \in 1..(n - 1) /\ ~(j - 1 <= k - 1) /\ (j - 1) + 1 = j
        BY <1>1, <3>2
      <4>. QED
        BY <1>8, <2>2, <4>1
    <3>. QED
      BY <1>1, <2>2, <3>1, <3>2
  <2>. QED
    BY <2>1, <2>2
<1>. QED
  BY <1>4, <1>7, <1>10, <1>11 DEF n

-----------------------------------------------------------------------------
(* The steps that touch the tree or its queues.                             *)

\* A step that leaves the nodes in the hands of callers, or of servers, alone.
SameCallers ==
    \A n \in All : /\ Asked(n)' <=> Asked(n)
                   /\ Checked(n)' <=> Checked(n)
                   /\ Captured(n)' <=> Captured(n)
SameServers ==
    \A n \in All : /\ AtInstall(n)' <=> AtInstall(n)
                   /\ AtComplete(n)' <=> AtComplete(n)
                   /\ AtRemove(n)' <=> AtRemove(n)
                   /\ AtRemoving(n)' <=> AtRemoving(n)
                   /\ AtDestroy(n)' <=> AtDestroy(n)

\* A step that moves no node from one place to another.
LEMMA QuietStep ==
  ASSUME TreeInv, TypeOK', Holding', UNCHANGED <<state, kids, ptr, destroyed, installQ, removeQ>>,
         SameCallers, SameServers
  PROVE  TreeInv'
<1>1. Lists' /\ RootIn'
  BY DEF TreeInv, Lists, RootIn
<1>2. ASSUME NEW p \in All, NEW n \in ChildrenOf(p) PROVE NodeInv(p, n)'
  <2>1. n \in All
    BY DEF ChildrenOf, All
  <2>2. NodeInv(p, n)
    BY DEF TreeInv
  <2>. QED
    BY <2>1, <2>2 DEF SameCallers, SameServers, NodeInv, Links, ComingIn, Ready, GoingOut, Pointers,
                      Parents, Gone, MayBeForgotten
<1>3. QueueReady'
  BY DEF TreeInv, QueueReady, SameServers
<1>. QED
  BY <1>1, <1>2, <1>3 DEF TreeInv, ChildrenOf

\* lreg_node_install() up to the queue: the node is in nobody's hands yet.
LEMMA InstallPrepKeeps ==
  ASSUME TreeInv, NEW t \in Threads, NEW m \in Nodes, Install_prep(t, m)
  PROVE  TreeInv'
<1>30. /\ state[m] = "NOT_INSTALLED" /\ ~Asked(m) /\ ~AtInstall(m) /\ ~AtComplete(m) /\ m \notin Elems(installQ)
       /\ m \notin destroyed
  BY NodesAssumption
     DEF TreeInv, NodeInv, ComingIn, ChildrenOf, Gone, Install_prep, lreg_node_install_prep_ok
<1>31. /\ state[ParentOf[m]] = "INSTALLED" \/ ParentOf[m] \in Elems(installQ)
       /\ ~Checked(ParentOf[m]) /\ ~Captured(ParentOf[m]) /\ ptr[ParentOf[m]] = None
  BY
     DEF Install_prep, MayInstallBelow, lreg_node_is_installed, RemovalInFlight, Checked, Captured,
         CallerHas
<1>20. /\ \A n \in All : Asked(n)' <=> Asked(n) \/ n = m
       /\ \A n \in All : Checked(n)' <=> Checked(n)
       /\ \A n \in All : Captured(n)' <=> Captured(n)
  BY <1>30, <1>31, NodesAssumption
     DEF TreeInv, TypeOK, Holding, Asked, Checked, Captured, CallerHas, SameCallers, Install_prep,
         lreg_node_install_prep_ok, MayInstallBelow, lreg_node_is_installed, RemovalInFlight,
         callerVars, serverVars, handVars, treeVars, queueVars, All
<1>21. SameServers
  BY <1>30, <1>31, NodesAssumption
     DEF TreeInv, TypeOK, Holding, OneRegistryThread, Serving, AtInstall, AtComplete, AtRemove,
         AtRemoving, AtDestroy, ServerHas, SameServers, Goto, Install_prep,
         lreg_node_install_prep_ok, MayInstallBelow, lreg_node_is_installed, RemovalInFlight,
         callerVars, serverVars, handVars, treeVars, queueVars, All
<1>22. /\ \A n \in All : state'[n] = IF n = m THEN "INSTALLING" ELSE state[n]
       /\ \A n \in All : ptr'[n] = ptr[n]
       /\ \A n \in All : n \in destroyed' <=> n \in destroyed
  BY <1>30, <1>31, NodesAssumption
     DEF TreeInv, TypeOK, Install_prep, lreg_node_install_prep_ok, MayInstallBelow,
         lreg_node_is_installed, RemovalInFlight, callerVars, serverVars, handVars, treeVars,
         queueVars, All
<1>23. /\ \A n \in All : n \in Elems(installQ') <=> n \in Elems(installQ)
       /\ \A n \in All : n \in Elems(removeQ') <=> n \in Elems(removeQ)
       /\ \A p \in All : \A n \in ChildrenOf(p) : n \in Elems(kids'[p]) <=> n \in Elems(kids[p])
  BY <1>30, <1>31, NodesAssumption
     DEF TreeInv, TypeOK, Install_prep, lreg_node_install_prep_ok, MayInstallBelow,
         lreg_node_is_installed, RemovalInFlight, callerVars, serverVars, handVars, treeVars,
         queueVars
<1>1. TypeOK'
  BY <1>30, <1>31, NodesAssumption
     DEF TreeInv, TypeOK, Goto, States, CallerPcs, ServerPcs, Install_prep,
         lreg_node_install_prep_ok, MayInstallBelow, lreg_node_is_installed, RemovalInFlight,
         callerVars, serverVars, handVars, treeVars, queueVars, All
<1>2. Holding'
  BY <1>30, <1>31, NodesAssumption
     DEF TreeInv, TypeOK, Holding, OneRegistryThread, Serving, Goto, Asked, Checked, Captured,
         CallerHas, Install_prep, lreg_node_install_prep_ok, MayInstallBelow,
         lreg_node_is_installed, RemovalInFlight, callerVars, serverVars, handVars, treeVars,
         queueVars, All
<1>3. Lists'
  BY <1>30, <1>31, NodesAssumption
     DEF TreeInv, Lists, Install_prep, lreg_node_install_prep_ok, MayInstallBelow,
         lreg_node_is_installed, RemovalInFlight, callerVars, serverVars, handVars, treeVars,
         queueVars
<1>4. RootIn'
  BY <1>30, <1>31, <1>22, NodesAssumption DEF TreeInv, RootIn, All
<1>5. ASSUME NEW p \in All, NEW n \in ChildrenOf(p) PROVE NodeInv(p, n)'
  <2>1. n \in All /\ n \in Nodes /\ ParentOf[n] = p /\ n # p
    BY NodesAssumption DEF ChildrenOf, All
  <2>2. NodeInv(p, n)
    BY DEF TreeInv
  <2>3. Links(p, n)' /\ ComingIn(p, n)'
    BY <1>30, <1>31, <1>20, <1>21, <1>22, <1>23, <2>1, <2>2
       DEF NodeInv, Links, ComingIn, Ready, GoingOut, Pointers, Parents, Gone, MayBeForgotten,
           SameCallers, SameServers
  <2>4. Ready(p, n)' /\ GoingOut(n)'
    BY <1>30, <1>31, <1>20, <1>21, <1>22, <1>23, <2>1, <2>2
       DEF NodeInv, Links, ComingIn, Ready, GoingOut, Pointers, Parents, Gone, SameCallers,
           SameServers
  <2>5. Pointers(p, n)' /\ Parents(p, n)' /\ Gone(n)'
    BY <1>30, <1>31, <1>20, <1>21, <1>22, <1>23, <2>1, <2>2
       DEF NodeInv, Links, ComingIn, Ready, GoingOut, Pointers, Parents, Gone, MayBeForgotten,
           SameCallers, SameServers
  <2>. QED
    BY <2>3, <2>4, <2>5 DEF NodeInv
<1>6. QueueReady'
  BY <1>30, <1>31, <1>20, <1>21, <1>22, <1>23, NodesAssumption
     DEF TreeInv, QueueReady, SameServers, Install_prep, lreg_node_install_prep_ok, MayInstallBelow,
         lreg_node_is_installed, RemovalInFlight, callerVars, serverVars, handVars, treeVars,
         queueVars
<1>. QED
  BY <1>1, <1>2, <1>3, <1>4, <1>5, <1>6 DEF TreeInv, ChildrenOf

\* lreg_node_install_queue(): from the caller to the end of the queue.
LEMMA InstallQueueKeeps ==
  ASSUME TreeInv, NEW t \in Threads, Install_queue(t), NEW m, m = arg[t]
  PROVE  TreeInv'
<1>30. m \in Nodes /\ Asked(m) /\ m \notin Elems(installQ) /\ installQ' = Append(installQ, m) /\ installQ \in Seq(Nodes) /\ IsInjective(installQ)
  BY NodesAssumption
     DEF TreeInv, TypeOK, Holding, Lists, NodeInv, ComingIn, ChildrenOf, Install_queue, Asked,
         CallerHas
<1>31. /\ installQ' \in Seq(Nodes) /\ IsInjective(installQ')
       /\ Elems(installQ') = Elems(installQ) \union {m}
       /\ DOMAIN installQ \subseteq DOMAIN installQ'
       /\ \A i \in DOMAIN installQ : installQ'[i] = installQ[i]
       /\ \A i \in DOMAIN installQ' \ DOMAIN installQ : installQ'[i] = m /\ \A j \in DOMAIN installQ : j < i
  BY <1>30, Queued
<1>20. /\ \A n \in All : Asked(n)' <=> Asked(n) /\ n # m
       /\ \A n \in All : Checked(n)' <=> Checked(n)
       /\ \A n \in All : Captured(n)' <=> Captured(n)
  BY <1>30, <1>31, NodesAssumption
     DEF TreeInv, TypeOK, Holding, Asked, Checked, Captured, CallerHas, SameCallers, Install_queue,
         callerVars, serverVars, handVars, treeVars, queueVars, All
<1>21. SameServers
  BY <1>30, <1>31, NodesAssumption
     DEF TreeInv, TypeOK, Holding, OneRegistryThread, Serving, AtInstall, AtComplete, AtRemove,
         AtRemoving, AtDestroy, ServerHas, SameServers, Goto, Install_queue, callerVars, serverVars,
         handVars, treeVars, queueVars, All
<1>22. /\ \A n \in All : state'[n] = state[n]
       /\ \A n \in All : ptr'[n] = ptr[n]
       /\ \A n \in All : n \in destroyed' <=> n \in destroyed
  BY <1>30, <1>31, NodesAssumption
     DEF TreeInv, TypeOK, Install_queue, callerVars, serverVars, handVars, treeVars, queueVars, All
<1>23. /\ \A n \in All : n \in Elems(installQ') <=> n \in Elems(installQ) \/ n = m
       /\ \A n \in All : n \in Elems(removeQ') <=> n \in Elems(removeQ)
       /\ \A p \in All : \A n \in ChildrenOf(p) : n \in Elems(kids'[p]) <=> n \in Elems(kids[p])
  BY <1>30, <1>31, NodesAssumption
     DEF TreeInv, TypeOK, Install_queue, callerVars, serverVars, handVars, treeVars, queueVars
<1>1. TypeOK'
  BY <1>30, <1>31, NodesAssumption
     DEF TreeInv, TypeOK, Goto, States, CallerPcs, ServerPcs, Install_queue, callerVars, serverVars,
         handVars, treeVars, queueVars, All
<1>2. Holding'
  BY <1>30, <1>31, NodesAssumption
     DEF TreeInv, TypeOK, Holding, OneRegistryThread, Serving, Goto, Asked, Checked, Captured,
         CallerHas, Install_queue, callerVars, serverVars, handVars, treeVars, queueVars, All
<1>3. Lists'
  BY <1>30, <1>31, NodesAssumption
     DEF TreeInv, Lists, Install_queue, callerVars, serverVars, handVars, treeVars, queueVars
<1>4. RootIn'
  BY <1>30, <1>31, <1>22, NodesAssumption DEF TreeInv, RootIn, All
<1>5. ASSUME NEW p \in All, NEW n \in ChildrenOf(p) PROVE NodeInv(p, n)'
  <2>1. n \in All /\ n \in Nodes /\ ParentOf[n] = p /\ n # p
    BY NodesAssumption DEF ChildrenOf, All
  <2>2. NodeInv(p, n)
    BY DEF TreeInv
  <2>3. Links(p, n)' /\ ComingIn(p, n)'
    BY <1>30, <1>31, <1>20, <1>21, <1>22, <1>23, <2>1, <2>2
       DEF NodeInv, Links, ComingIn, Ready, GoingOut, Pointers, Parents, Gone, MayBeForgotten,
           SameCallers, SameServers
  <2>4. Ready(p, n)' /\ GoingOut(n)'
    BY <1>30, <1>31, <1>20, <1>21, <1>22, <1>23, <2>1, <2>2
       DEF NodeInv, Links, ComingIn, Ready, GoingOut, Pointers, Parents, Gone, SameCallers,
           SameServers
  <2>5. Pointers(p, n)' /\ Parents(p, n)' /\ Gone(n)'
    BY <1>30, <1>31, <1>20, <1>21, <1>22, <1>23, <2>1, <2>2
       DEF NodeInv, Links, ComingIn, Ready, GoingOut, Pointers, Parents, Gone, MayBeForgotten,
           SameCallers, SameServers
  <2>. QED
    BY <2>3, <2>4, <2>5 DEF NodeInv
<1>6. QueueReady'
  <2> SUFFICES ASSUME NEW p \in All, NEW n \in ChildrenOf(p), NEW i \in DOMAIN installQ', installQ'[i] = n
               PROVE  \/ state'[p] = "INSTALLED" \/ AtInstall(p)' \/ AtComplete(p)'
                      \/ \E j \in DOMAIN installQ' : j < i /\ installQ'[j] = p
    BY DEF QueueReady
  <2>1. CASE i \in DOMAIN installQ
    <3>1. \/ state[p] = "INSTALLED" \/ AtInstall(p) \/ AtComplete(p)
          \/ \E j \in DOMAIN installQ : j < i /\ installQ[j] = p
      BY <1>31, <2>1 DEF TreeInv, QueueReady
    <3>. QED
      BY <1>31, <1>21, <1>22, <3>1 DEF SameServers
  <2>2. CASE i \notin DOMAIN installQ
    <3>1. n = m /\ NodeInv(p, n) /\ Asked(n) /\ \A j \in DOMAIN installQ : j < i
      BY <1>30, <1>31, <2>2 DEF TreeInv
    <3>2. state[p] = "INSTALLED" \/ p \in Elems(installQ) \/ AtInstall(p) \/ AtComplete(p)
      BY <3>1 DEF NodeInv, Ready
    <3>3. p \in Elems(installQ) => \E j \in DOMAIN installQ' : j < i /\ installQ'[j] = p
      BY <1>31, <3>1 DEF Elems
    <3>. QED
      BY <1>21, <1>22, <3>2, <3>3 DEF SameServers
  <2>. QED
    BY <2>1, <2>2
<1>. QED
  BY <1>1, <1>2, <1>3, <1>4, <1>5, <1>6 DEF TreeInv, ChildrenOf

\* lreg_node_remove() up to the capture of the parent: nothing is below the node
\* or on the way there.
LEMMA RemoveCheckKeeps ==
  ASSUME TreeInv, NEW t \in Threads, NEW m \in Nodes, Remove_check(t, m)
  PROVE  TreeInv'
<1>30. /\ m \in All /\ state[m] = "INSTALLED" /\ ptr[m] = None /\ m \notin Inlined /\ ~Checked(m) /\ ~Captured(m)
       /\ state[ParentOf[m]] = "INSTALLED"
  BY
     DEF Remove_check, MayRemove, RemoveChecks, lreg_node_is_installed, RemovalInFlight, Checked,
         Captured, CallerHas, All
<1>31. ASSUME NEW k \in ChildrenOf(m)
       PROVE  /\ ~Asked(k) /\ k \notin Elems(installQ) /\ ~AtInstall(k) /\ ~AtComplete(k)
              /\ k \notin Inlined => state[k] # "INSTALLED"
  <2>1. NodeInv(m, k) /\ k \in Nodes /\ ParentOf[k] = m
    BY DEF TreeInv, ChildrenOf, All
  <2>2. ~InstallInFlight(k) /\ (kids[m] = <<>> \/ m \in InlinedChildren)
    BY DEF Remove_check, MayRemove, RemoveChecks, RefusedBusy, lreg_node_has_children
  <2>3. ~Asked(k) /\ k \notin Elems(installQ) /\ ~AtInstall(k) /\ ~AtComplete(k)
    BY <2>2 DEF InstallInFlight, Asked, AtInstall, AtComplete, CallerHas, ServerHas
  <2>4. kids[m] = <<>> => k \notin Elems(kids[m])
    BY DEF Elems
  <2>5. k \notin Inlined => state[k] # "INSTALLED"
    BY <2>1, <2>2, <2>4, KindAssumption DEF NodeInv, Links, MayBeForgotten
  <2>. QED
    BY <2>3, <2>5
<1>20. /\ \A n \in All : Asked(n)' <=> Asked(n)
       /\ \A n \in All : Checked(n)' <=> Checked(n) \/ n = m
       /\ \A n \in All : Captured(n)' <=> Captured(n)
  BY <1>30, <1>31, NodesAssumption
     DEF TreeInv, TypeOK, Holding, Asked, Checked, Captured, CallerHas, SameCallers, Remove_check,
         callerVars, serverVars, handVars, treeVars, queueVars, All
<1>21. SameServers
  BY <1>30, <1>31, NodesAssumption
     DEF TreeInv, TypeOK, Holding, OneRegistryThread, Serving, AtInstall, AtComplete, AtRemove,
         AtRemoving, AtDestroy, ServerHas, SameServers, Goto, Remove_check, callerVars, serverVars,
         handVars, treeVars, queueVars, All
<1>22. /\ \A n \in All : state'[n] = state[n]
       /\ \A n \in All : ptr'[n] = ptr[n]
       /\ \A n \in All : n \in destroyed' <=> n \in destroyed
  BY <1>30, <1>31, NodesAssumption
     DEF TreeInv, TypeOK, Remove_check, callerVars, serverVars, handVars, treeVars, queueVars, All
<1>23. /\ \A n \in All : n \in Elems(installQ') <=> n \in Elems(installQ)
       /\ \A n \in All : n \in Elems(removeQ') <=> n \in Elems(removeQ)
       /\ \A p \in All : \A n \in ChildrenOf(p) : n \in Elems(kids'[p]) <=> n \in Elems(kids[p])
  BY <1>30, <1>31, NodesAssumption
     DEF TreeInv, TypeOK, Remove_check, callerVars, serverVars, handVars, treeVars, queueVars
<1>1. TypeOK'
  BY <1>30, <1>31, NodesAssumption
     DEF TreeInv, TypeOK, Goto, States, CallerPcs, ServerPcs, Remove_check, callerVars, serverVars,
         handVars, treeVars, queueVars, All
<1>2. Holding'
  BY <1>30, <1>31, NodesAssumption
     DEF TreeInv, TypeOK, Holding, OneRegistryThread, Serving, Goto, Asked, Checked, Captured,
         CallerHas, Remove_check, callerVars, serverVars, handVars, treeVars, queueVars, All
<1>3. Lists'
  BY <1>30, <1>31, NodesAssumption
     DEF TreeInv, Lists, Remove_check, callerVars, serverVars, handVars, treeVars, queueVars
<1>4. RootIn'
  BY <1>30, <1>31, <1>22, NodesAssumption DEF TreeInv, RootIn, All
<1>5. ASSUME NEW p \in All, NEW n \in ChildrenOf(p) PROVE NodeInv(p, n)'
  <2>1. n \in All /\ n \in Nodes /\ ParentOf[n] = p /\ n # p
    BY NodesAssumption DEF ChildrenOf, All
  <2>2. NodeInv(p, n)
    BY DEF TreeInv
  <2>3. Links(p, n)' /\ ComingIn(p, n)'
    BY <1>30, <1>31, <1>20, <1>21, <1>22, <1>23, <2>1, <2>2
       DEF NodeInv, Links, ComingIn, Ready, GoingOut, Pointers, Parents, Gone, MayBeForgotten,
           SameCallers, SameServers
  <2>4. Ready(p, n)' /\ GoingOut(n)'
    BY <1>30, <1>31, <1>20, <1>21, <1>22, <1>23, <2>1, <2>2
       DEF NodeInv, Links, ComingIn, Ready, GoingOut, Pointers, Parents, Gone, SameCallers,
           SameServers
  <2>5. Pointers(p, n)' /\ Parents(p, n)' /\ Gone(n)'
    BY <1>30, <1>31, <1>20, <1>21, <1>22, <1>23, <2>1, <2>2
       DEF NodeInv, Links, ComingIn, Ready, GoingOut, Pointers, Parents, Gone, MayBeForgotten,
           SameCallers, SameServers
  <2>. QED
    BY <2>3, <2>4, <2>5 DEF NodeInv
<1>6. QueueReady'
  BY <1>30, <1>31, <1>20, <1>21, <1>22, <1>23, NodesAssumption
     DEF TreeInv, QueueReady, SameServers, Remove_check, callerVars, serverVars, handVars, treeVars,
         queueVars
<1>. QED
  BY <1>1, <1>2, <1>3, <1>4, <1>5, <1>6 DEF TreeInv, ChildrenOf

\* The pointer to the parent is written over the list of children, which is empty
\* or holds inlined members.
LEMMA RemoveCaptureKeeps ==
  ASSUME TreeInv, NEW t \in Threads, Remove_capture(t), NEW m, m = arg[t]
  PROVE  TreeInv'
<1>30. m \in Nodes /\ m \in All /\ Checked(m) /\ ParentOf[m] \in All /\ ParentOf[m] # None
  BY NodesAssumption DEF TreeInv, TypeOK, Holding, Remove_capture, Checked, CallerHas, All
<1>20. /\ \A n \in All : Asked(n)' <=> Asked(n)
       /\ \A n \in All : Checked(n)' <=> Checked(n) /\ n # m
       /\ \A n \in All : Captured(n)' <=> Captured(n) \/ n = m
  BY <1>30, NodesAssumption
     DEF TreeInv, TypeOK, Holding, Asked, Checked, Captured, CallerHas, SameCallers, Remove_capture,
         callerVars, serverVars, handVars, treeVars, queueVars, All
<1>21. SameServers
  BY <1>30, NodesAssumption
     DEF TreeInv, TypeOK, Holding, OneRegistryThread, Serving, AtInstall, AtComplete, AtRemove,
         AtRemoving, AtDestroy, ServerHas, SameServers, Goto, Remove_capture, callerVars,
         serverVars, handVars, treeVars, queueVars, All
<1>22. /\ \A n \in All : state'[n] = state[n]
       /\ \A n \in All : ptr'[n] = IF n = m THEN ParentOf[m] ELSE ptr[n]
       /\ \A n \in All : n \in destroyed' <=> n \in destroyed
  BY <1>30, NodesAssumption
     DEF TreeInv, TypeOK, Remove_capture, callerVars, serverVars, handVars, treeVars, queueVars, All
<1>23. /\ \A n \in All : n \in Elems(installQ') <=> n \in Elems(installQ)
       /\ \A n \in All : n \in Elems(removeQ') <=> n \in Elems(removeQ)
       /\ \A p \in All : \A n \in ChildrenOf(p) : n \in Elems(kids'[p]) <=> n \in Elems(kids[p])
  BY <1>30, NodesAssumption
     DEF TreeInv, TypeOK, Remove_capture, callerVars, serverVars, handVars, treeVars, queueVars
<1>1. TypeOK'
  BY <1>30, NodesAssumption
     DEF TreeInv, TypeOK, Goto, States, CallerPcs, ServerPcs, Remove_capture, callerVars,
         serverVars, handVars, treeVars, queueVars, All
<1>2. Holding'
  BY <1>30, NodesAssumption
     DEF TreeInv, TypeOK, Holding, OneRegistryThread, Serving, Goto, Asked, Checked, Captured,
         CallerHas, Remove_capture, callerVars, serverVars, handVars, treeVars, queueVars, All
<1>3. Lists'
  BY <1>30, NodesAssumption
     DEF TreeInv, Lists, Remove_capture, callerVars, serverVars, handVars, treeVars, queueVars
<1>4. RootIn'
  BY <1>30, <1>22, NodesAssumption DEF TreeInv, RootIn, All
<1>5. ASSUME NEW p \in All, NEW n \in ChildrenOf(p) PROVE NodeInv(p, n)'
  <2>1. n \in All /\ n \in Nodes /\ ParentOf[n] = p /\ n # p
    BY NodesAssumption DEF ChildrenOf, All
  <2>2. NodeInv(p, n)
    BY DEF TreeInv
  <2>3. Links(p, n)' /\ ComingIn(p, n)'
    BY <1>30, <1>20, <1>21, <1>22, <1>23, <2>1, <2>2
       DEF NodeInv, Links, ComingIn, Ready, GoingOut, Pointers, Parents, Gone, MayBeForgotten,
           SameCallers, SameServers
  <2>4. Ready(p, n)' /\ GoingOut(n)'
    BY <1>30, <1>20, <1>21, <1>22, <1>23, <2>1, <2>2
       DEF NodeInv, Links, ComingIn, Ready, GoingOut, Pointers, Parents, Gone, SameCallers,
           SameServers
  <2>5. Pointers(p, n)' /\ Parents(p, n)' /\ Gone(n)'
    BY <1>30, <1>20, <1>21, <1>22, <1>23, <2>1, <2>2
       DEF NodeInv, Links, ComingIn, Ready, GoingOut, Pointers, Parents, Gone, MayBeForgotten,
           SameCallers, SameServers
  <2>. QED
    BY <2>3, <2>4, <2>5 DEF NodeInv
<1>6. QueueReady'
  BY <1>30, <1>20, <1>21, <1>22, <1>23, NodesAssumption
     DEF TreeInv, QueueReady, SameServers, Remove_capture, callerVars, serverVars, handVars,
         treeVars, queueVars
<1>. QED
  BY <1>1, <1>2, <1>3, <1>4, <1>5, <1>6 DEF TreeInv, ChildrenOf

\* lreg_node_remove_queue(): from the caller to the end of the queue.
LEMMA RemoveQueueKeeps ==
  ASSUME TreeInv, NEW t \in Threads, Remove_queue(t), NEW m, m = arg[t]
  PROVE  TreeInv'
<1>30. m \in Nodes /\ Captured(m) /\ m \notin Elems(removeQ) /\ removeQ' = Append(removeQ, m) /\ removeQ \in Seq(Nodes) /\ IsInjective(removeQ)
  BY NodesAssumption
     DEF TreeInv, TypeOK, Holding, Lists, NodeInv, GoingOut, ChildrenOf, Remove_queue, Captured,
         CallerHas
<1>31. /\ removeQ' \in Seq(Nodes) /\ IsInjective(removeQ')
       /\ Elems(removeQ') = Elems(removeQ) \union {m}
  BY <1>30, Queued
<1>20. /\ \A n \in All : Asked(n)' <=> Asked(n)
       /\ \A n \in All : Checked(n)' <=> Checked(n)
       /\ \A n \in All : Captured(n)' <=> Captured(n) /\ n # m
  BY <1>30, <1>31, NodesAssumption
     DEF TreeInv, TypeOK, Holding, Asked, Checked, Captured, CallerHas, SameCallers, Remove_queue,
         callerVars, serverVars, handVars, treeVars, queueVars, All
<1>21. SameServers
  BY <1>30, <1>31, NodesAssumption
     DEF TreeInv, TypeOK, Holding, OneRegistryThread, Serving, AtInstall, AtComplete, AtRemove,
         AtRemoving, AtDestroy, ServerHas, SameServers, Goto, Remove_queue, callerVars, serverVars,
         handVars, treeVars, queueVars, All
<1>22. /\ \A n \in All : state'[n] = state[n]
       /\ \A n \in All : ptr'[n] = ptr[n]
       /\ \A n \in All : n \in destroyed' <=> n \in destroyed
  BY <1>30, <1>31, NodesAssumption
     DEF TreeInv, TypeOK, Remove_queue, callerVars, serverVars, handVars, treeVars, queueVars, All
<1>23. /\ \A n \in All : n \in Elems(installQ') <=> n \in Elems(installQ)
       /\ \A n \in All : n \in Elems(removeQ') <=> n \in Elems(removeQ) \/ n = m
       /\ \A p \in All : \A n \in ChildrenOf(p) : n \in Elems(kids'[p]) <=> n \in Elems(kids[p])
  BY <1>30, <1>31, NodesAssumption
     DEF TreeInv, TypeOK, Remove_queue, callerVars, serverVars, handVars, treeVars, queueVars
<1>1. TypeOK'
  BY <1>30, <1>31, NodesAssumption
     DEF TreeInv, TypeOK, Goto, States, CallerPcs, ServerPcs, Remove_queue, callerVars, serverVars,
         handVars, treeVars, queueVars, All
<1>2. Holding'
  BY <1>30, <1>31, NodesAssumption
     DEF TreeInv, TypeOK, Holding, OneRegistryThread, Serving, Goto, Asked, Checked, Captured,
         CallerHas, Remove_queue, callerVars, serverVars, handVars, treeVars, queueVars, All
<1>3. Lists'
  BY <1>30, <1>31, NodesAssumption
     DEF TreeInv, Lists, Remove_queue, callerVars, serverVars, handVars, treeVars, queueVars
<1>4. RootIn'
  BY <1>30, <1>31, <1>22, NodesAssumption DEF TreeInv, RootIn, All
<1>5. ASSUME NEW p \in All, NEW n \in ChildrenOf(p) PROVE NodeInv(p, n)'
  <2>1. n \in All /\ n \in Nodes /\ ParentOf[n] = p /\ n # p
    BY NodesAssumption DEF ChildrenOf, All
  <2>2. NodeInv(p, n)
    BY DEF TreeInv
  <2>3. Links(p, n)' /\ ComingIn(p, n)'
    BY <1>30, <1>31, <1>20, <1>21, <1>22, <1>23, <2>1, <2>2
       DEF NodeInv, Links, ComingIn, Ready, GoingOut, Pointers, Parents, Gone, MayBeForgotten,
           SameCallers, SameServers
  <2>4. Ready(p, n)' /\ GoingOut(n)'
    BY <1>30, <1>31, <1>20, <1>21, <1>22, <1>23, <2>1, <2>2
       DEF NodeInv, Links, ComingIn, Ready, GoingOut, Pointers, Parents, Gone, SameCallers,
           SameServers
  <2>5. Pointers(p, n)' /\ Parents(p, n)' /\ Gone(n)'
    BY <1>30, <1>31, <1>20, <1>21, <1>22, <1>23, <2>1, <2>2
       DEF NodeInv, Links, ComingIn, Ready, GoingOut, Pointers, Parents, Gone, MayBeForgotten,
           SameCallers, SameServers
  <2>. QED
    BY <2>3, <2>4, <2>5 DEF NodeInv
<1>6. QueueReady'
  BY <1>30, <1>31, <1>20, <1>21, <1>22, <1>23, NodesAssumption
     DEF TreeInv, QueueReady, SameServers, Remove_queue, callerVars, serverVars, handVars, treeVars,
         queueVars
<1>. QED
  BY <1>1, <1>2, <1>3, <1>4, <1>5, <1>6 DEF TreeInv, ChildrenOf

\* lreg_node_install_internal() on the lists: the node's own is initialized if
\* it is statically allocated, and the node becomes its parent's first child.
LEMMA LinkStep ==
  ASSUME TypeOK, Lists, NEW m \in Nodes, Link(m),
         ptr[ParentOf[m]] = None, ptr[m] = None, m \notin Elems(kids[ParentOf[m]])
  PROVE  /\ ptr' = ptr /\ kids' \in [All -> Seq(Nodes)]
         /\ \A p \in All : IsInjective(kids'[p]) /\ \A n \in Elems(kids'[p]) : ParentOf[n] = p
         /\ \A p \in All : \A n \in ChildrenOf(p) :
              n \in Elems(kids'[p]) <=> (n \in Elems(kids[p]) /\ ~(p = m /\ m \in Static)) \/ n = m
<1>1. /\ ParentOf[m] \in All /\ m \in All /\ ParentOf[m] # m
      /\ kids \in [All -> Seq(Nodes)] /\ ptr \in [All -> All \union {None}]
  BY NodesAssumption DEF TypeOK, All
<1>2. ptr' = ptr
  BY <1>1 DEF Link, StaticInit
<1>3. /\ kids' \in [All -> Seq(Nodes)]
      /\ kids'[ParentOf[m]] = <<m>> \o kids[ParentOf[m]]
      /\ \A p \in All : p # ParentOf[m] =>
           kids'[p] = IF p = m /\ m \in Static THEN <<>> ELSE kids[p]
  <2>1. <<m>> \o kids[ParentOf[m]] \in Seq(Nodes) /\ <<>> \in Seq(Nodes)
    BY <1>1, Linked DEF Lists
  <2>. QED
    BY <1>1, <2>1 DEF Link, StaticInit
<1>4. /\ IsInjective(kids'[ParentOf[m]])
      /\ Elems(kids'[ParentOf[m]]) = Elems(kids[ParentOf[m]]) \union {m}
  BY <1>1, <1>3, Linked DEF Lists
<1>5. IsInjective(<<>>) /\ Elems(<<>>) = {}
  BY DEF IsInjective, Elems
<1>6. ASSUME NEW p \in All
      PROVE  /\ IsInjective(kids'[p]) /\ \A n \in Elems(kids'[p]) : ParentOf[n] = p
             /\ \A n \in ChildrenOf(p) :
                  n \in Elems(kids'[p]) <=> (n \in Elems(kids[p]) /\ ~(p = m /\ m \in Static)) \/ n = m
  BY <1>1, <1>3, <1>4, <1>5 DEF Lists, ChildrenOf
<1>. QED
  BY <1>2, <1>3, <1>6

\* The same when the callback refuses the node.
LEMMA ResetStep ==
  ASSUME TypeOK, Lists, NEW m \in Nodes, ptr[m] = None,
         kids' = StaticInit(m, kids, <<>>), ptr' = StaticInit(m, ptr, None)
  PROVE  /\ ptr' = ptr /\ kids' \in [All -> Seq(Nodes)]
         /\ \A p \in All : IsInjective(kids'[p]) /\ \A n \in Elems(kids'[p]) : ParentOf[n] = p
         /\ \A p \in All : \A n \in ChildrenOf(p) :
              n \in Elems(kids'[p]) <=> n \in Elems(kids[p]) /\ ~(p = m /\ m \in Static)
<1>1. m \in All /\ kids \in [All -> Seq(Nodes)] /\ ptr \in [All -> All \union {None}]
  BY DEF TypeOK, All
<1>2. ptr' = ptr
  BY <1>1 DEF StaticInit
<1>3. /\ kids' \in [All -> Seq(Nodes)]
      /\ \A p \in All : kids'[p] = IF p = m /\ m \in Static THEN <<>> ELSE kids[p]
  <2>1. <<>> \in Seq(Nodes)
    OBVIOUS
  <2>. QED
    BY <1>1, <2>1 DEF StaticInit
<1>4. IsInjective(<<>>) /\ Elems(<<>>) = {}
  BY DEF IsInjective, Elems
<1>. QED
  BY <1>2, <1>3, <1>4 DEF Lists

\* lreg_node_remove_internal() on the lists.
LEMMA UnlinkStep ==
  ASSUME TypeOK, Lists, NEW m \in Nodes, m \in Elems(kids[ParentOf[m]]), Unlink(m, ParentOf[m])
  PROVE  /\ kids' \in [All -> Seq(Nodes)]
         /\ \A p \in All : IsInjective(kids'[p]) /\ \A n \in Elems(kids'[p]) : ParentOf[n] = p
         /\ \A p \in All : \A n \in ChildrenOf(p) :
              n \in Elems(kids'[p]) <=> n \in Elems(kids[p]) /\ n # m
<1> DEFINE l == kids[ParentOf[m]]
<1>1. /\ ParentOf[m] \in All /\ kids \in [All -> Seq(Nodes)] /\ l \in Seq(Nodes) /\ IsInjective(l)
      /\ DOMAIN l = 1..Len(l)
  BY NodesAssumption, LenProperties DEF TypeOK, Lists
<1> HIDE DEF l
<1>2. PICK k \in 1..Len(l) : l[k] = m
  BY <1>1 DEF Elems, l
<1>3. /\ Without(l, m) \in Seq(Nodes) /\ IsInjective(Without(l, m))
      /\ \A u : (\E i \in 1..Len(Without(l, m)) : Without(l, m)[i] = u)
                  <=> (u # m /\ \E i \in 1..Len(l) : l[i] = u)
  BY <1>1, <1>2, Unlinked
<1>4. Elems(Without(l, m)) = Elems(l) \ {m}
  <2>1. DOMAIN Without(l, m) = 1..Len(Without(l, m))
    BY <1>3, LenProperties
  <2>2. ASSUME NEW u PROVE u \in Elems(Without(l, m)) <=> u \in Elems(l) /\ u # m
    <3>1. u \in Elems(Without(l, m)) <=> \E i \in 1..Len(Without(l, m)) : Without(l, m)[i] = u
      BY <2>1 DEF Elems
    <3>2. u \in Elems(l) <=> \E i \in 1..Len(l) : l[i] = u
      BY <1>1 DEF Elems
    <3>. QED
      BY <1>3, <3>1, <3>2
  <2>. QED
    BY <2>2
<1>5. /\ kids' \in [All -> Seq(Nodes)] /\ kids'[ParentOf[m]] = Without(l, m)
      /\ \A p \in All : p # ParentOf[m] => kids'[p] = kids[p]
  BY <1>1, <1>3 DEF Unlink, l
<1>6. ASSUME NEW p \in All
      PROVE  /\ IsInjective(kids'[p]) /\ \A n \in Elems(kids'[p]) : ParentOf[n] = p
             /\ \A n \in ChildrenOf(p) : n \in Elems(kids'[p]) <=> n \in Elems(kids[p]) /\ n # m
  BY <1>3, <1>4, <1>5 DEF Lists, ChildrenOf, l
<1>. QED
  BY <1>5, <1>6

\* lreg_install_get_queued_node(): the first node of the queue has its parent
\* installed, since nobody is before it.
LEMMA GetInstallKeeps ==
  ASSUME TreeInv, NEW s \in Servers, lreg_install_get_queued_node(s), NEW m, m = Head(installQ)
  PROVE  TreeInv'
<1>30. \A u \in Servers : u # s => spc[u] \notin Serving
  BY DEF TreeInv, TypeOK, Holding, OneRegistryThread, Serving, Goto, lreg_install_get_queued_node
<1>31. /\ m \in Nodes /\ installQ' = Tail(installQ) /\ m \in Elems(installQ)
       /\ installQ' \in Seq(Nodes) /\ IsInjective(installQ')
       /\ Elems(installQ') = Elems(installQ) \ {m}
       /\ 1 \in DOMAIN installQ /\ installQ[1] = m /\ \A j \in DOMAIN installQ : ~(j < 1)
       /\ \A i \in DOMAIN installQ' : i + 1 \in DOMAIN installQ /\ installQ'[i] = installQ[i + 1]
       /\ \A i \in DOMAIN installQ' : \A j \in DOMAIN installQ :
            j < i + 1 => j = 1 \/ (j - 1 \in DOMAIN installQ' /\ j - 1 < i /\ installQ'[j - 1] = installQ[j])
  BY Dequeued DEF TreeInv, TypeOK, Lists, lreg_install_get_queued_node
<1>32. \A n \in All : ~AtInstall(n) /\ ~AtComplete(n)
  BY <1>30 DEF AtInstall, AtComplete, ServerHas, Serving, Goto, lreg_install_get_queued_node
<1>33. /\ state[ParentOf[m]] = "INSTALLED" /\ state[m] = "INSTALLING" /\ m \notin destroyed /\ ~Asked(m)
       /\ ~Checked(ParentOf[m]) /\ ~Captured(ParentOf[m]) /\ ptr[ParentOf[m]] = None
  <2>1. ParentOf[m] \in All /\ m \in ChildrenOf(ParentOf[m])
    BY <1>31, NodesAssumption DEF ChildrenOf
  <2>2. state[ParentOf[m]] = "INSTALLED"
    BY <1>31, <1>32, <2>1 DEF TreeInv, QueueReady
  <2>3. NodeInv(ParentOf[m], m)
    BY <2>1 DEF TreeInv
  <2>. QED
    BY <1>31, <2>2, <2>3 DEF NodeInv, ComingIn
<1>20. SameCallers
  BY <1>30, <1>31, <1>32, <1>33, NodesAssumption
     DEF TreeInv, TypeOK, Holding, Asked, Checked, Captured, CallerHas, SameCallers,
         lreg_install_get_queued_node, callerVars, serverVars, handVars, treeVars, queueVars, All
<1>21. /\ \A n \in All : AtInstall(n)' <=> AtInstall(n) \/ n = m
       /\ \A n \in All : AtComplete(n)' <=> AtComplete(n)
       /\ \A n \in All : AtRemove(n)' <=> AtRemove(n)
       /\ \A n \in All : AtRemoving(n)' <=> AtRemoving(n)
       /\ \A n \in All : AtDestroy(n)' <=> AtDestroy(n)
  BY <1>30, <1>31, <1>32, <1>33, NodesAssumption
     DEF TreeInv, TypeOK, Holding, OneRegistryThread, Serving, AtInstall, AtComplete, AtRemove,
         AtRemoving, AtDestroy, ServerHas, SameServers, Goto, lreg_install_get_queued_node,
         callerVars, serverVars, handVars, treeVars, queueVars, All
<1>22. /\ \A n \in All : state'[n] = state[n]
       /\ \A n \in All : ptr'[n] = ptr[n]
       /\ \A n \in All : n \in destroyed' <=> n \in destroyed
  BY <1>30, <1>31, <1>32, <1>33, NodesAssumption
     DEF TreeInv, TypeOK, lreg_install_get_queued_node, callerVars, serverVars, handVars, treeVars,
         queueVars, All
<1>23. /\ \A n \in All : n \in Elems(installQ') <=> n \in Elems(installQ) /\ n # m
       /\ \A n \in All : n \in Elems(removeQ') <=> n \in Elems(removeQ)
       /\ \A p \in All : \A n \in ChildrenOf(p) : n \in Elems(kids'[p]) <=> n \in Elems(kids[p])
  BY <1>30, <1>31, <1>32, <1>33, NodesAssumption
     DEF TreeInv, TypeOK, lreg_install_get_queued_node, callerVars, serverVars, handVars, treeVars,
         queueVars
<1>1. TypeOK'
  BY <1>30, <1>31, <1>32, <1>33, NodesAssumption
     DEF TreeInv, TypeOK, Goto, States, CallerPcs, ServerPcs, lreg_install_get_queued_node,
         callerVars, serverVars, handVars, treeVars, queueVars, All
<1>2. Holding'
  BY <1>30, <1>31, <1>32, <1>33, NodesAssumption
     DEF TreeInv, TypeOK, Holding, OneRegistryThread, Serving, Goto, Asked, Checked, Captured,
         CallerHas, lreg_install_get_queued_node, callerVars, serverVars, handVars, treeVars,
         queueVars, All
<1>3. Lists'
  BY <1>30, <1>31, <1>32, <1>33, NodesAssumption
     DEF TreeInv, Lists, lreg_install_get_queued_node, callerVars, serverVars, handVars, treeVars,
         queueVars
<1>4. RootIn'
  BY <1>30, <1>31, <1>32, <1>33, <1>22, NodesAssumption DEF TreeInv, RootIn, All
<1>5. ASSUME NEW p \in All, NEW n \in ChildrenOf(p) PROVE NodeInv(p, n)'
  <2>1. n \in All /\ n \in Nodes /\ ParentOf[n] = p /\ n # p
    BY NodesAssumption DEF ChildrenOf, All
  <2>2. NodeInv(p, n)
    BY DEF TreeInv
  <2>3. Links(p, n)' /\ ComingIn(p, n)'
    BY <1>30, <1>31, <1>32, <1>33, <1>20, <1>21, <1>22, <1>23, <2>1, <2>2
       DEF NodeInv, Links, ComingIn, Ready, GoingOut, Pointers, Parents, Gone, MayBeForgotten,
           SameCallers, SameServers
  <2>4. Ready(p, n)' /\ GoingOut(n)'
    BY <1>30, <1>31, <1>32, <1>33, <1>20, <1>21, <1>22, <1>23, <2>1, <2>2
       DEF NodeInv, Links, ComingIn, Ready, GoingOut, Pointers, Parents, Gone, SameCallers,
           SameServers
  <2>5. Pointers(p, n)' /\ Parents(p, n)' /\ Gone(n)'
    BY <1>30, <1>31, <1>32, <1>33, <1>20, <1>21, <1>22, <1>23, <2>1, <2>2
       DEF NodeInv, Links, ComingIn, Ready, GoingOut, Pointers, Parents, Gone, MayBeForgotten,
           SameCallers, SameServers
  <2>. QED
    BY <2>3, <2>4, <2>5 DEF NodeInv
<1>6. QueueReady'
  <2> SUFFICES ASSUME NEW p \in All, NEW n \in ChildrenOf(p), NEW i \in DOMAIN installQ', installQ'[i] = n
               PROVE  \/ state'[p] = "INSTALLED" \/ AtInstall(p)' \/ AtComplete(p)'
                      \/ \E j \in DOMAIN installQ' : j < i /\ installQ'[j] = p
    BY DEF QueueReady
  <2>1. \/ state[p] = "INSTALLED" \/ AtInstall(p) \/ AtComplete(p)
        \/ \E j \in DOMAIN installQ : j < i + 1 /\ installQ[j] = p
    BY <1>31 DEF TreeInv, QueueReady
  <2>2. ASSUME NEW j \in DOMAIN installQ, j < i + 1, installQ[j] = p
        PROVE  p = m \/ \E k \in DOMAIN installQ' : k < i /\ installQ'[k] = p
    BY <1>31, <2>2
  <2>. QED
    BY <1>21, <1>22, <2>1, <2>2
<1>. QED
  BY <1>1, <1>2, <1>3, <1>4, <1>5, <1>6 DEF TreeInv, ChildrenOf

\* The node is linked, below a parent that is installed and stays.
LEMMA InstallInternalKeeps ==
  ASSUME TreeInv, NEW s \in Servers, InstallInternal(s), NEW m, m = cur[s]
  PROVE  TreeInv'
<1>30. \A u \in Servers : u # s => spc[u] \notin Serving
  BY DEF TreeInv, TypeOK, Holding, OneRegistryThread, Serving, Goto, InstallInternal
<1>31. m \in Nodes /\ m \in All /\ AtInstall(m) /\ NodeInv(ParentOf[m], m)
  BY NodesAssumption
     DEF TreeInv, TypeOK, Holding, Serving, Goto, ChildrenOf, InstallInternal, AtInstall, ServerHas,
         All
<1>32. /\ state[m] = "INSTALLING" /\ state[ParentOf[m]] = "INSTALLED" /\ ptr[ParentOf[m]] = None /\ ptr[m] = None
       /\ ~AtComplete(m) /\ m \notin Elems(kids[ParentOf[m]])
  <2>1. ~AtComplete(m)
    BY <1>30 DEF AtComplete, ServerHas, Serving, Goto, InstallInternal
  <2>. QED
    BY <1>31, <2>1 DEF NodeInv, ComingIn, Ready, Pointers, Links
<1>33. /\ ptr' = ptr /\ kids' \in [All -> Seq(Nodes)]
       /\ \A p \in All : IsInjective(kids'[p]) /\ \A n \in Elems(kids'[p]) : ParentOf[n] = p
       /\ \A p \in All : \A n \in ChildrenOf(p) : n \in Elems(kids'[p]) <=> (n \in Elems(kids[p]) /\ ~(p = m /\ m \in Static)) \/ n = m
  BY <1>31, <1>32, LinkStep DEF TreeInv, InstallInternal
<1>20. SameCallers
  BY <1>30, <1>31, <1>32, <1>33, NodesAssumption
     DEF TreeInv, TypeOK, Holding, Asked, Checked, Captured, CallerHas, SameCallers,
         InstallInternal, callerVars, serverVars, handVars, treeVars, queueVars, All
<1>21. /\ \A n \in All : AtInstall(n)' <=> AtInstall(n) /\ n # m
       /\ \A n \in All : AtComplete(n)' <=> AtComplete(n) \/ n = m
       /\ \A n \in All : AtRemove(n)' <=> AtRemove(n)
       /\ \A n \in All : AtRemoving(n)' <=> AtRemoving(n)
       /\ \A n \in All : AtDestroy(n)' <=> AtDestroy(n)
  BY SMTT(30), <1>30, <1>31, <1>32, <1>33, NodesAssumption
     DEF TreeInv, TypeOK, Holding, OneRegistryThread, Serving, AtInstall, AtComplete, AtRemove,
         AtRemoving, AtDestroy, ServerHas, SameServers, Goto, InstallInternal, callerVars,
         serverVars, handVars, treeVars, queueVars, All
<1>22. /\ \A n \in All : state'[n] = state[n]
       /\ \A n \in All : ptr'[n] = ptr[n]
       /\ \A n \in All : n \in destroyed' <=> n \in destroyed
  BY <1>31, <1>33, NodesAssumption
     DEF TreeInv, TypeOK, InstallInternal, callerVars, serverVars, handVars, treeVars, queueVars,
         All
<1>23. /\ \A n \in All : n \in Elems(installQ') <=> n \in Elems(installQ)
       /\ \A n \in All : n \in Elems(removeQ') <=> n \in Elems(removeQ)
       /\ \A p \in All : \A n \in ChildrenOf(p) : n \in Elems(kids'[p]) <=> (n \in Elems(kids[p]) /\ ~(p = m /\ m \in Static)) \/ n = m
  BY <1>33 DEF InstallInternal, callerVars, serverVars, handVars, treeVars, queueVars
<1>1. TypeOK'
  BY <1>31, <1>33, NodesAssumption
     DEF TreeInv, TypeOK, Goto, States, CallerPcs, ServerPcs, InstallInternal, callerVars,
         serverVars, handVars, treeVars, queueVars, All
<1>2. Holding'
  BY <1>30, <1>31, <1>32, <1>33, NodesAssumption
     DEF TreeInv, TypeOK, Holding, OneRegistryThread, Serving, Goto, Asked, Checked, Captured,
         CallerHas, InstallInternal, callerVars, serverVars, handVars, treeVars, queueVars, All
<1>3. Lists'
  BY <1>33, NodesAssumption
     DEF TreeInv, Lists, InstallInternal, callerVars, serverVars, handVars, treeVars, queueVars
<1>4. RootIn'
  BY <1>30, <1>31, <1>32, <1>33, <1>22, NodesAssumption DEF TreeInv, RootIn, All
<1>5. ASSUME NEW p \in All, NEW n \in ChildrenOf(p) PROVE NodeInv(p, n)'
  <2>1. n \in All /\ n \in Nodes /\ ParentOf[n] = p /\ n # p
    BY NodesAssumption DEF ChildrenOf, All
  <2>2. NodeInv(p, n)
    BY DEF TreeInv
  <2>3. Links(p, n)' /\ ComingIn(p, n)'
    BY <1>30, <1>31, <1>32, <1>33, <1>20, <1>21, <1>22, <1>23, <2>1, <2>2
       DEF NodeInv, Links, ComingIn, Ready, GoingOut, Pointers, Parents, Gone, MayBeForgotten,
           SameCallers, SameServers
  <2>4. Ready(p, n)' /\ GoingOut(n)'
    BY <1>30, <1>31, <1>32, <1>33, <1>20, <1>21, <1>22, <1>23, <2>1, <2>2
       DEF NodeInv, Links, ComingIn, Ready, GoingOut, Pointers, Parents, Gone, SameCallers,
           SameServers
  <2>5. Pointers(p, n)' /\ Parents(p, n)' /\ Gone(n)'
    BY <1>30, <1>31, <1>32, <1>33, <1>20, <1>21, <1>22, <1>23, <2>1, <2>2
       DEF NodeInv, Links, ComingIn, Ready, GoingOut, Pointers, Parents, Gone, MayBeForgotten,
           SameCallers, SameServers
  <2>. QED
    BY <2>3, <2>4, <2>5 DEF NodeInv
<1>6. QueueReady'
  BY <1>30, <1>31, <1>32, <1>33, <1>20, <1>21, <1>22, <1>23, NodesAssumption
     DEF TreeInv, QueueReady, SameServers, InstallInternal, callerVars, serverVars, handVars,
         treeVars, queueVars
<1>. QED
  BY <1>1, <1>2, <1>3, <1>4, <1>5, <1>6 DEF TreeInv, ChildrenOf

\* The node's state says that it is linked.
LEMMA InstallCompleteKeeps ==
  ASSUME TreeInv, NEW s \in Servers, InstallComplete(s), NEW m, m = cur[s]
  PROVE  TreeInv'
<1>30. \A u \in Servers : u # s => spc[u] \notin Serving
  BY DEF TreeInv, TypeOK, Holding, OneRegistryThread, Serving, Goto, InstallComplete
<1>31. m \in Nodes /\ m \in All /\ AtComplete(m) /\ NodeInv(ParentOf[m], m)
  BY NodesAssumption
     DEF TreeInv, TypeOK, Holding, Serving, Goto, ChildrenOf, InstallComplete, AtComplete,
         ServerHas, All
<1>32. ~AtInstall(m)
  BY <1>30 DEF AtInstall, ServerHas, Serving, Goto, InstallComplete
<1>20. SameCallers
  BY <1>30, <1>31, <1>32, NodesAssumption
     DEF TreeInv, TypeOK, Holding, Asked, Checked, Captured, CallerHas, SameCallers,
         InstallComplete, callerVars, serverVars, handVars, treeVars, queueVars, All
<1>21. /\ \A n \in All : AtInstall(n)' <=> AtInstall(n)
       /\ \A n \in All : AtComplete(n)' <=> AtComplete(n) /\ n # m
       /\ \A n \in All : AtRemove(n)' <=> AtRemove(n)
       /\ \A n \in All : AtRemoving(n)' <=> AtRemoving(n)
       /\ \A n \in All : AtDestroy(n)' <=> AtDestroy(n)
  BY <1>30, <1>31, <1>32, NodesAssumption
     DEF TreeInv, TypeOK, Holding, OneRegistryThread, Serving, AtInstall, AtComplete, AtRemove,
         AtRemoving, AtDestroy, ServerHas, SameServers, Goto, InstallComplete, callerVars,
         serverVars, handVars, treeVars, queueVars, All
<1>22. /\ \A n \in All : state'[n] = IF n = m THEN "INSTALLED" ELSE state[n]
       /\ \A n \in All : ptr'[n] = ptr[n]
       /\ \A n \in All : n \in destroyed' <=> n \in destroyed
  BY <1>30, <1>31, <1>32, NodesAssumption
     DEF TreeInv, TypeOK, InstallComplete, callerVars, serverVars, handVars, treeVars, queueVars,
         All
<1>23. /\ \A n \in All : n \in Elems(installQ') <=> n \in Elems(installQ)
       /\ \A n \in All : n \in Elems(removeQ') <=> n \in Elems(removeQ)
       /\ \A p \in All : \A n \in ChildrenOf(p) : n \in Elems(kids'[p]) <=> n \in Elems(kids[p])
  BY <1>30, <1>31, <1>32, NodesAssumption
     DEF TreeInv, TypeOK, InstallComplete, callerVars, serverVars, handVars, treeVars, queueVars
<1>1. TypeOK'
  BY <1>30, <1>31, <1>32, NodesAssumption
     DEF TreeInv, TypeOK, Goto, States, CallerPcs, ServerPcs, InstallComplete, callerVars,
         serverVars, handVars, treeVars, queueVars, All
<1>2. Holding'
  BY <1>30, <1>31, <1>32, NodesAssumption
     DEF TreeInv, TypeOK, Holding, OneRegistryThread, Serving, Goto, Asked, Checked, Captured,
         CallerHas, InstallComplete, callerVars, serverVars, handVars, treeVars, queueVars, All
<1>3. Lists'
  BY <1>30, <1>31, <1>32, NodesAssumption
     DEF TreeInv, Lists, InstallComplete, callerVars, serverVars, handVars, treeVars, queueVars
<1>4. RootIn'
  BY <1>30, <1>31, <1>32, <1>22, NodesAssumption DEF TreeInv, RootIn, All
<1>5. ASSUME NEW p \in All, NEW n \in ChildrenOf(p) PROVE NodeInv(p, n)'
  <2>1. n \in All /\ n \in Nodes /\ ParentOf[n] = p /\ n # p
    BY NodesAssumption DEF ChildrenOf, All
  <2>2. NodeInv(p, n)
    BY DEF TreeInv
  <2>3. Links(p, n)' /\ ComingIn(p, n)'
    BY <1>30, <1>31, <1>32, <1>20, <1>21, <1>22, <1>23, <2>1, <2>2
       DEF NodeInv, Links, ComingIn, Ready, GoingOut, Pointers, Parents, Gone, MayBeForgotten,
           SameCallers, SameServers
  <2>4. Ready(p, n)' /\ GoingOut(n)'
    BY <1>30, <1>31, <1>32, <1>20, <1>21, <1>22, <1>23, <2>1, <2>2
       DEF NodeInv, Links, ComingIn, Ready, GoingOut, Pointers, Parents, Gone, SameCallers,
           SameServers
  <2>5. Pointers(p, n)' /\ Parents(p, n)' /\ Gone(n)'
    BY <1>30, <1>31, <1>32, <1>20, <1>21, <1>22, <1>23, <2>1, <2>2
       DEF NodeInv, Links, ComingIn, Ready, GoingOut, Pointers, Parents, Gone, MayBeForgotten,
           SameCallers, SameServers
  <2>. QED
    BY <2>3, <2>4, <2>5 DEF NodeInv
<1>6. QueueReady'
  BY <1>30, <1>31, <1>32, <1>20, <1>21, <1>22, <1>23, NodesAssumption
     DEF TreeInv, QueueReady, SameServers, InstallComplete, callerVars, serverVars, handVars,
         treeVars, queueVars
<1>. QED
  BY <1>1, <1>2, <1>3, <1>4, <1>5, <1>6 DEF TreeInv, ChildrenOf

\* The callback refuses the node: it is destroyed, and nothing waits for it as a
\* parent.
LEMMA InstallFailsKeeps ==
  ASSUME TreeInv, NEW s \in Servers, InstallFails(s), NEW m, m = cur[s]
  PROVE  TreeInv'
<1>30. \A u \in Servers : u # s => spc[u] \notin Serving
  BY DEF TreeInv, TypeOK, Holding, OneRegistryThread, Serving, Goto, InstallFails
<1>31. m \in Nodes /\ m \in All /\ AtInstall(m) /\ NodeInv(ParentOf[m], m)
  BY NodesAssumption
     DEF TreeInv, TypeOK, Holding, Serving, Goto, ChildrenOf, InstallFails, AtInstall, ServerHas,
         All
<1>34. ~AtComplete(m)
  BY <1>30 DEF AtComplete, ServerHas, Serving, Goto, InstallFails
<1>32. ptr[m] = None /\ state[m] = "INSTALLING" /\ ChildrenOf(m) = {}
  BY <1>31, FailAssumption DEF InstallFails, NodeInv, ComingIn, Pointers
<1>33. /\ ptr' = ptr /\ kids' \in [All -> Seq(Nodes)]
       /\ \A p \in All : IsInjective(kids'[p]) /\ \A n \in Elems(kids'[p]) : ParentOf[n] = p
       /\ \A p \in All : \A n \in ChildrenOf(p) : n \in Elems(kids'[p]) <=> n \in Elems(kids[p]) /\ ~(p = m /\ m \in Static)
  BY <1>31, <1>32, ResetStep DEF TreeInv, InstallFails
<1>20. SameCallers
  BY <1>30, <1>31, <1>34, <1>32, <1>33, NodesAssumption
     DEF TreeInv, TypeOK, Holding, Asked, Checked, Captured, CallerHas, SameCallers, InstallFails,
         callerVars, serverVars, handVars, treeVars, queueVars, All
<1>21. /\ \A n \in All : AtInstall(n)' <=> AtInstall(n) /\ n # m
       /\ \A n \in All : AtComplete(n)' <=> AtComplete(n)
       /\ \A n \in All : AtRemove(n)' <=> AtRemove(n)
       /\ \A n \in All : AtRemoving(n)' <=> AtRemoving(n)
       /\ \A n \in All : AtDestroy(n)' <=> AtDestroy(n)
  BY <1>30, <1>31, <1>34, <1>32, <1>33, NodesAssumption
     DEF TreeInv, TypeOK, Holding, OneRegistryThread, Serving, AtInstall, AtComplete, AtRemove,
         AtRemoving, AtDestroy, ServerHas, SameServers, Goto, InstallFails, callerVars, serverVars,
         handVars, treeVars, queueVars, All
<1>22. /\ \A n \in All : state'[n] = state[n]
       /\ \A n \in All : ptr'[n] = ptr[n]
       /\ \A n \in All : n \in destroyed' <=> n \in destroyed \/ n = m
  BY <1>31, <1>33, NodesAssumption
     DEF TreeInv, TypeOK, InstallFails, callerVars, serverVars, handVars, treeVars, queueVars, All
<1>23. /\ \A n \in All : n \in Elems(installQ') <=> n \in Elems(installQ)
       /\ \A n \in All : n \in Elems(removeQ') <=> n \in Elems(removeQ)
       /\ \A p \in All : \A n \in ChildrenOf(p) : n \in Elems(kids'[p]) <=> n \in Elems(kids[p]) /\ ~(p = m /\ m \in Static)
  BY <1>33 DEF InstallFails, callerVars, serverVars, handVars, treeVars, queueVars
<1>1. TypeOK'
  BY <1>31, <1>33, NodesAssumption
     DEF TreeInv, TypeOK, Goto, States, CallerPcs, ServerPcs, InstallFails, callerVars, serverVars,
         handVars, treeVars, queueVars, All
<1>2. Holding'
  BY <1>30, <1>31, <1>34, <1>32, <1>33, NodesAssumption
     DEF TreeInv, TypeOK, Holding, OneRegistryThread, Serving, Goto, Asked, Checked, Captured,
         CallerHas, InstallFails, callerVars, serverVars, handVars, treeVars, queueVars, All
<1>3. Lists'
  BY <1>33, NodesAssumption
     DEF TreeInv, Lists, InstallFails, callerVars, serverVars, handVars, treeVars, queueVars
<1>4. RootIn'
  BY <1>30, <1>31, <1>34, <1>32, <1>33, <1>22, NodesAssumption DEF TreeInv, RootIn, All
<1>5. ASSUME NEW p \in All, NEW n \in ChildrenOf(p) PROVE NodeInv(p, n)'
  <2>1. n \in All /\ n \in Nodes /\ ParentOf[n] = p /\ n # p
    BY NodesAssumption DEF ChildrenOf, All
  <2>2. NodeInv(p, n)
    BY DEF TreeInv
  <2>3. Links(p, n)' /\ ComingIn(p, n)'
    BY <1>30, <1>31, <1>34, <1>32, <1>33, <1>20, <1>21, <1>22, <1>23, <2>1, <2>2
       DEF NodeInv, Links, ComingIn, Ready, GoingOut, Pointers, Parents, Gone, MayBeForgotten,
           SameCallers, SameServers
  <2>4. Ready(p, n)' /\ GoingOut(n)'
    BY <1>30, <1>31, <1>34, <1>32, <1>33, <1>20, <1>21, <1>22, <1>23, <2>1, <2>2
       DEF NodeInv, Links, ComingIn, Ready, GoingOut, Pointers, Parents, Gone, SameCallers,
           SameServers
  <2>5. Pointers(p, n)' /\ Parents(p, n)' /\ Gone(n)'
    BY <1>30, <1>31, <1>34, <1>32, <1>33, <1>20, <1>21, <1>22, <1>23, <2>1, <2>2
       DEF NodeInv, Links, ComingIn, Ready, GoingOut, Pointers, Parents, Gone, MayBeForgotten,
           SameCallers, SameServers
  <2>. QED
    BY <2>3, <2>4, <2>5 DEF NodeInv
<1>6. QueueReady'
  BY <1>30, <1>31, <1>34, <1>32, <1>33, <1>20, <1>21, <1>22, <1>23, NodesAssumption
     DEF TreeInv, QueueReady, SameServers, InstallFails, callerVars, serverVars, handVars, treeVars,
         queueVars
<1>. QED
  BY <1>1, <1>2, <1>3, <1>4, <1>5, <1>6 DEF TreeInv, ChildrenOf

\* lreg_remove_get_queued_node().
LEMMA GetRemoveKeeps ==
  ASSUME TreeInv, NEW s \in Servers, lreg_remove_get_queued_node(s), NEW m, m = Head(removeQ)
  PROVE  TreeInv'
<1>30. \A u \in Servers : u # s => spc[u] \notin Serving
  BY DEF TreeInv, TypeOK, Holding, OneRegistryThread, Serving, Goto, lreg_remove_get_queued_node
<1>31. /\ m \in Nodes /\ removeQ' = Tail(removeQ) /\ m \in Elems(removeQ)
       /\ removeQ' \in Seq(Nodes) /\ IsInjective(removeQ') /\ Elems(removeQ') = Elems(removeQ) \ {m}
  BY Dequeued DEF TreeInv, TypeOK, Lists, lreg_remove_get_queued_node
<1>20. SameCallers
  BY <1>30, <1>31, NodesAssumption
     DEF TreeInv, TypeOK, Holding, Asked, Checked, Captured, CallerHas, SameCallers,
         lreg_remove_get_queued_node, callerVars, serverVars, handVars, treeVars, queueVars, All
<1>21. /\ \A n \in All : AtInstall(n)' <=> AtInstall(n)
       /\ \A n \in All : AtComplete(n)' <=> AtComplete(n)
       /\ \A n \in All : AtRemove(n)' <=> AtRemove(n) \/ n = m
       /\ \A n \in All : AtRemoving(n)' <=> AtRemoving(n)
       /\ \A n \in All : AtDestroy(n)' <=> AtDestroy(n)
  BY <1>30, <1>31, NodesAssumption
     DEF TreeInv, TypeOK, Holding, OneRegistryThread, Serving, AtInstall, AtComplete, AtRemove,
         AtRemoving, AtDestroy, ServerHas, SameServers, Goto, lreg_remove_get_queued_node,
         callerVars, serverVars, handVars, treeVars, queueVars, All
<1>22. /\ \A n \in All : state'[n] = state[n]
       /\ \A n \in All : ptr'[n] = ptr[n]
       /\ \A n \in All : n \in destroyed' <=> n \in destroyed
  BY <1>30, <1>31, NodesAssumption
     DEF TreeInv, TypeOK, lreg_remove_get_queued_node, callerVars, serverVars, handVars, treeVars,
         queueVars, All
<1>23. /\ \A n \in All : n \in Elems(installQ') <=> n \in Elems(installQ)
       /\ \A n \in All : n \in Elems(removeQ') <=> n \in Elems(removeQ) /\ n # m
       /\ \A p \in All : \A n \in ChildrenOf(p) : n \in Elems(kids'[p]) <=> n \in Elems(kids[p])
  BY <1>30, <1>31, NodesAssumption
     DEF TreeInv, TypeOK, lreg_remove_get_queued_node, callerVars, serverVars, handVars, treeVars,
         queueVars
<1>1. TypeOK'
  BY <1>30, <1>31, NodesAssumption
     DEF TreeInv, TypeOK, Goto, States, CallerPcs, ServerPcs, lreg_remove_get_queued_node,
         callerVars, serverVars, handVars, treeVars, queueVars, All
<1>2. Holding'
  BY <1>30, <1>31, NodesAssumption
     DEF TreeInv, TypeOK, Holding, OneRegistryThread, Serving, Goto, Asked, Checked, Captured,
         CallerHas, lreg_remove_get_queued_node, callerVars, serverVars, handVars, treeVars,
         queueVars, All
<1>3. Lists'
  BY <1>30, <1>31, NodesAssumption
     DEF TreeInv, Lists, lreg_remove_get_queued_node, callerVars, serverVars, handVars, treeVars,
         queueVars
<1>4. RootIn'
  BY <1>30, <1>31, <1>22, NodesAssumption DEF TreeInv, RootIn, All
<1>5. ASSUME NEW p \in All, NEW n \in ChildrenOf(p) PROVE NodeInv(p, n)'
  <2>1. n \in All /\ n \in Nodes /\ ParentOf[n] = p /\ n # p
    BY NodesAssumption DEF ChildrenOf, All
  <2>2. NodeInv(p, n)
    BY DEF TreeInv
  <2>3. Links(p, n)' /\ ComingIn(p, n)'
    BY <1>30, <1>31, <1>20, <1>21, <1>22, <1>23, <2>1, <2>2
       DEF NodeInv, Links, ComingIn, Ready, GoingOut, Pointers, Parents, Gone, MayBeForgotten,
           SameCallers, SameServers
  <2>4. Ready(p, n)' /\ GoingOut(n)'
    BY <1>30, <1>31, <1>20, <1>21, <1>22, <1>23, <2>1, <2>2
       DEF NodeInv, Links, ComingIn, Ready, GoingOut, Pointers, Parents, Gone, SameCallers,
           SameServers
  <2>5. Pointers(p, n)' /\ Parents(p, n)' /\ Gone(n)'
    BY <1>30, <1>31, <1>20, <1>21, <1>22, <1>23, <2>1, <2>2
       DEF NodeInv, Links, ComingIn, Ready, GoingOut, Pointers, Parents, Gone, MayBeForgotten,
           SameCallers, SameServers
  <2>. QED
    BY <2>3, <2>4, <2>5 DEF NodeInv
<1>6. QueueReady'
  BY <1>30, <1>31, <1>20, <1>21, <1>22, <1>23, NodesAssumption
     DEF TreeInv, QueueReady, SameServers, lreg_remove_get_queued_node, callerVars, serverVars,
         handVars, treeVars, queueVars
<1>. QED
  BY <1>1, <1>2, <1>3, <1>4, <1>5, <1>6 DEF TreeInv, ChildrenOf

\* The node is unlinked; its children are gone, or inlined.
LEMMA RemoveInternalKeeps ==
  ASSUME TreeInv, NEW s \in Servers, RemoveInternal(s), NEW m, m = cur[s]
  PROVE  TreeInv'
<1>30. \A u \in Servers : u # s => spc[u] \notin Serving
  BY DEF TreeInv, TypeOK, Holding, OneRegistryThread, Serving, Goto, RemoveInternal
<1>31. m \in Nodes /\ m \in All /\ AtRemove(m) /\ NodeInv(ParentOf[m], m)
  BY NodesAssumption
     DEF TreeInv, TypeOK, Holding, Serving, Goto, ChildrenOf, RemoveInternal, AtRemove, ServerHas,
         All
<1>32. \A n \in All : ~AtRemoving(n)
  BY <1>30 DEF AtRemoving, ServerHas, Serving, Goto, RemoveInternal
<1>34. ptr[m] = ParentOf[m] /\ m \in Elems(kids[ParentOf[m]]) /\ Unlink(m, ParentOf[m]) /\ ptr' = ptr
  BY <1>31 DEF NodeInv, GoingOut, Pointers, RemoveInternal, RemoveAsserts
<1>39. ptr[m] # None
  BY <1>31 DEF NodeInv, GoingOut
<1>33. /\ ptr' = ptr /\ kids' \in [All -> Seq(Nodes)]
       /\ \A p \in All : IsInjective(kids'[p]) /\ \A n \in Elems(kids'[p]) : ParentOf[n] = p
       /\ \A p \in All : \A n \in ChildrenOf(p) : n \in Elems(kids'[p]) <=> n \in Elems(kids[p]) /\ n # m
  BY <1>31, <1>34, UnlinkStep DEF TreeInv
<1>20. SameCallers
  BY <1>30, <1>31, <1>32, <1>34, <1>39, <1>33, NodesAssumption
     DEF TreeInv, TypeOK, Holding, Asked, Checked, Captured, CallerHas, SameCallers, RemoveInternal,
         callerVars, serverVars, handVars, treeVars, queueVars, All
<1>21. /\ \A n \in All : AtInstall(n)' <=> AtInstall(n)
       /\ \A n \in All : AtComplete(n)' <=> AtComplete(n)
       /\ \A n \in All : AtRemove(n)' <=> AtRemove(n) /\ n # m
       /\ \A n \in All : AtRemoving(n)' <=> AtRemoving(n) \/ n = m
       /\ \A n \in All : AtDestroy(n)' <=> AtDestroy(n)
  BY <1>30, <1>31, <1>32, <1>34, <1>39, <1>33, NodesAssumption
     DEF TreeInv, TypeOK, Holding, OneRegistryThread, Serving, AtInstall, AtComplete, AtRemove,
         AtRemoving, AtDestroy, ServerHas, SameServers, Goto, RemoveInternal, callerVars,
         serverVars, handVars, treeVars, queueVars, All
<1>22. /\ \A n \in All : state'[n] = IF n = m THEN "REMOVING" ELSE state[n]
       /\ \A n \in All : ptr'[n] = ptr[n]
       /\ \A n \in All : n \in destroyed' <=> n \in destroyed
  BY <1>31, <1>33, NodesAssumption
     DEF TreeInv, TypeOK, RemoveInternal, callerVars, serverVars, handVars, treeVars, queueVars, All
<1>23. /\ \A n \in All : n \in Elems(installQ') <=> n \in Elems(installQ)
       /\ \A n \in All : n \in Elems(removeQ') <=> n \in Elems(removeQ)
       /\ \A p \in All : \A n \in ChildrenOf(p) : n \in Elems(kids'[p]) <=> n \in Elems(kids[p]) /\ n # m
  BY <1>33 DEF RemoveInternal, callerVars, serverVars, handVars, treeVars, queueVars
<1>1. TypeOK'
  BY <1>31, <1>33, NodesAssumption
     DEF TreeInv, TypeOK, Goto, States, CallerPcs, ServerPcs, RemoveInternal, callerVars,
         serverVars, handVars, treeVars, queueVars, All
<1>2. Holding'
  BY <1>30, <1>31, <1>32, <1>34, <1>39, <1>33, NodesAssumption
     DEF TreeInv, TypeOK, Holding, OneRegistryThread, Serving, Goto, Asked, Checked, Captured,
         CallerHas, RemoveInternal, callerVars, serverVars, handVars, treeVars, queueVars, All
<1>3. Lists'
  BY <1>33, NodesAssumption
     DEF TreeInv, Lists, RemoveInternal, callerVars, serverVars, handVars, treeVars, queueVars
<1>4. RootIn'
  BY <1>30, <1>31, <1>32, <1>34, <1>39, <1>33, <1>22, NodesAssumption DEF TreeInv, RootIn, All
<1>5. ASSUME NEW p \in All, NEW n \in ChildrenOf(p) PROVE NodeInv(p, n)'
  <2>1. n \in All /\ n \in Nodes /\ ParentOf[n] = p /\ n # p
    BY NodesAssumption DEF ChildrenOf, All
  <2>2. NodeInv(p, n)
    BY DEF TreeInv
  <2>3. Links(p, n)' /\ ComingIn(p, n)'
    BY <1>30, <1>31, <1>32, <1>34, <1>39, <1>33, <1>20, <1>21, <1>22, <1>23, <2>1, <2>2
       DEF NodeInv, Links, ComingIn, Ready, GoingOut, Pointers, Parents, Gone, MayBeForgotten,
           SameCallers, SameServers
  <2>4. Ready(p, n)' /\ GoingOut(n)'
    BY <1>30, <1>31, <1>32, <1>34, <1>39, <1>33, <1>20, <1>21, <1>22, <1>23, <2>1, <2>2
       DEF NodeInv, Links, ComingIn, Ready, GoingOut, Pointers, Parents, Gone, SameCallers,
           SameServers
  <2>5. Pointers(p, n)' /\ Parents(p, n)' /\ Gone(n)'
    BY <1>30, <1>31, <1>32, <1>34, <1>39, <1>33, <1>20, <1>21, <1>22, <1>23, <2>1, <2>2
       DEF NodeInv, Links, ComingIn, Ready, GoingOut, Pointers, Parents, Gone, MayBeForgotten,
           SameCallers, SameServers
  <2>. QED
    BY <2>3, <2>4, <2>5 DEF NodeInv
<1>6. QueueReady'
  <2> SUFFICES ASSUME NEW p \in All, NEW n \in ChildrenOf(p), NEW i \in DOMAIN installQ', installQ'[i] = n
               PROVE  \/ state'[p] = "INSTALLED" \/ AtInstall(p)' \/ AtComplete(p)'
                      \/ \E j \in DOMAIN installQ' : j < i /\ installQ'[j] = p
    BY DEF QueueReady
  <2>1. installQ' = installQ
    BY DEF RemoveInternal, queueVars
  <2>2. p # m
    <3>1. n \in Elems(installQ) /\ NodeInv(p, n)
      BY <2>1 DEF TreeInv, Elems
    <3>. QED
      BY <1>39, <3>1 DEF NodeInv, ComingIn
  <2>3. \/ state[p] = "INSTALLED" \/ AtInstall(p) \/ AtComplete(p)
        \/ \E j \in DOMAIN installQ : j < i /\ installQ[j] = p
    BY <2>1 DEF TreeInv, QueueReady
  <2>. QED
    BY <1>21, <1>22, <2>1, <2>2, <2>3 DEF SameServers
<1>. QED
  BY <1>1, <1>2, <1>3, <1>4, <1>5, <1>6 DEF TreeInv, ChildrenOf

\* The node's state says that it is unlinked.
LEMMA UninstalledKeeps ==
  ASSUME TreeInv, NEW s \in Servers, Uninstalled(s), NEW m, m = cur[s]
  PROVE  TreeInv'
<1>30. \A u \in Servers : u # s => spc[u] \notin Serving
  BY DEF TreeInv, TypeOK, Holding, OneRegistryThread, Serving, Goto, Uninstalled
<1>31. m \in Nodes /\ m \in All /\ AtRemoving(m) /\ NodeInv(ParentOf[m], m)
  BY NodesAssumption
     DEF TreeInv, TypeOK, Holding, Serving, Goto, ChildrenOf, Uninstalled, AtRemoving, ServerHas,
         All
<1>39. ptr[m] # None
  BY <1>31 DEF NodeInv, GoingOut, Pointers
<1>20. SameCallers
  BY <1>30, <1>31, <1>39, NodesAssumption
     DEF TreeInv, TypeOK, Holding, Asked, Checked, Captured, CallerHas, SameCallers, Uninstalled,
         callerVars, serverVars, handVars, treeVars, queueVars, All
<1>21. /\ \A n \in All : AtInstall(n)' <=> AtInstall(n)
       /\ \A n \in All : AtComplete(n)' <=> AtComplete(n)
       /\ \A n \in All : AtRemove(n)' <=> AtRemove(n)
       /\ \A n \in All : AtRemoving(n)' <=> AtRemoving(n) /\ n # m
       /\ \A n \in All : AtDestroy(n)' <=> AtDestroy(n) \/ n = m
  BY <1>30, <1>31, <1>39, NodesAssumption
     DEF TreeInv, TypeOK, Holding, OneRegistryThread, Serving, AtInstall, AtComplete, AtRemove,
         AtRemoving, AtDestroy, ServerHas, SameServers, Goto, Uninstalled, callerVars, serverVars,
         handVars, treeVars, queueVars, All
<1>22. /\ \A n \in All : state'[n] = IF n = m THEN "REMOVED" ELSE state[n]
       /\ \A n \in All : ptr'[n] = ptr[n]
       /\ \A n \in All : n \in destroyed' <=> n \in destroyed
  BY <1>30, <1>31, <1>39, NodesAssumption
     DEF TreeInv, TypeOK, Uninstalled, callerVars, serverVars, handVars, treeVars, queueVars, All
<1>23. /\ \A n \in All : n \in Elems(installQ') <=> n \in Elems(installQ)
       /\ \A n \in All : n \in Elems(removeQ') <=> n \in Elems(removeQ)
       /\ \A p \in All : \A n \in ChildrenOf(p) : n \in Elems(kids'[p]) <=> n \in Elems(kids[p])
  BY <1>30, <1>31, <1>39, NodesAssumption
     DEF TreeInv, TypeOK, Uninstalled, callerVars, serverVars, handVars, treeVars, queueVars
<1>1. TypeOK'
  BY <1>30, <1>31, <1>39, NodesAssumption
     DEF TreeInv, TypeOK, Goto, States, CallerPcs, ServerPcs, Uninstalled, callerVars, serverVars,
         handVars, treeVars, queueVars, All
<1>2. Holding'
  BY <1>30, <1>31, <1>39, NodesAssumption
     DEF TreeInv, TypeOK, Holding, OneRegistryThread, Serving, Goto, Asked, Checked, Captured,
         CallerHas, Uninstalled, callerVars, serverVars, handVars, treeVars, queueVars, All
<1>3. Lists'
  BY <1>30, <1>31, <1>39, NodesAssumption
     DEF TreeInv, Lists, Uninstalled, callerVars, serverVars, handVars, treeVars, queueVars
<1>4. RootIn'
  BY <1>30, <1>31, <1>39, <1>22, NodesAssumption DEF TreeInv, RootIn, All
<1>5. ASSUME NEW p \in All, NEW n \in ChildrenOf(p) PROVE NodeInv(p, n)'
  <2>1. n \in All /\ n \in Nodes /\ ParentOf[n] = p /\ n # p
    BY NodesAssumption DEF ChildrenOf, All
  <2>2. NodeInv(p, n)
    BY DEF TreeInv
  <2>3. Links(p, n)' /\ ComingIn(p, n)'
    BY <1>30, <1>31, <1>39, <1>20, <1>21, <1>22, <1>23, <2>1, <2>2
       DEF NodeInv, Links, ComingIn, Ready, GoingOut, Pointers, Parents, Gone, MayBeForgotten,
           SameCallers, SameServers
  <2>4. Ready(p, n)' /\ GoingOut(n)'
    BY <1>30, <1>31, <1>39, <1>20, <1>21, <1>22, <1>23, <2>1, <2>2
       DEF NodeInv, Links, ComingIn, Ready, GoingOut, Pointers, Parents, Gone, SameCallers,
           SameServers
  <2>5. Pointers(p, n)' /\ Parents(p, n)' /\ Gone(n)'
    BY <1>30, <1>31, <1>39, <1>20, <1>21, <1>22, <1>23, <2>1, <2>2
       DEF NodeInv, Links, ComingIn, Ready, GoingOut, Pointers, Parents, Gone, MayBeForgotten,
           SameCallers, SameServers
  <2>. QED
    BY <2>3, <2>4, <2>5 DEF NodeInv
<1>6. QueueReady'
  <2> SUFFICES ASSUME NEW p \in All, NEW n \in ChildrenOf(p), NEW i \in DOMAIN installQ', installQ'[i] = n
               PROVE  \/ state'[p] = "INSTALLED" \/ AtInstall(p)' \/ AtComplete(p)'
                      \/ \E j \in DOMAIN installQ' : j < i /\ installQ'[j] = p
    BY DEF QueueReady
  <2>1. installQ' = installQ
    BY DEF Uninstalled, queueVars
  <2>2. p # m
    <3>1. n \in Elems(installQ) /\ NodeInv(p, n)
      BY <2>1 DEF TreeInv, Elems
    <3>. QED
      BY <1>39, <3>1 DEF NodeInv, ComingIn
  <2>3. \/ state[p] = "INSTALLED" \/ AtInstall(p) \/ AtComplete(p)
        \/ \E j \in DOMAIN installQ : j < i /\ installQ[j] = p
    BY <2>1 DEF TreeInv, QueueReady
  <2>. QED
    BY <1>21, <1>22, <2>1, <2>2, <2>3 DEF SameServers
<1>. QED
  BY <1>1, <1>2, <1>3, <1>4, <1>5, <1>6 DEF TreeInv, ChildrenOf

\* The destroy callback runs.
LEMMA DestroyCbKeeps ==
  ASSUME TreeInv, NEW s \in Servers, DestroyCb(s), NEW m, m = cur[s]
  PROVE  TreeInv'
<1>30. \A u \in Servers : u # s => spc[u] \notin Serving
  BY DEF TreeInv, TypeOK, Holding, OneRegistryThread, Serving, Goto, DestroyCb
<1>31. m \in Nodes /\ m \in All /\ AtDestroy(m) /\ NodeInv(ParentOf[m], m)
  BY NodesAssumption
     DEF TreeInv, TypeOK, Holding, Serving, Goto, ChildrenOf, DestroyCb, AtDestroy, ServerHas, All
<1>20. SameCallers
  BY <1>30, <1>31, NodesAssumption
     DEF TreeInv, TypeOK, Holding, Asked, Checked, Captured, CallerHas, SameCallers, DestroyCb,
         callerVars, serverVars, handVars, treeVars, queueVars, All
<1>21. /\ \A n \in All : AtInstall(n)' <=> AtInstall(n)
       /\ \A n \in All : AtComplete(n)' <=> AtComplete(n)
       /\ \A n \in All : AtRemove(n)' <=> AtRemove(n)
       /\ \A n \in All : AtRemoving(n)' <=> AtRemoving(n)
       /\ \A n \in All : AtDestroy(n)' <=> AtDestroy(n) /\ n # m
  BY <1>30, <1>31, NodesAssumption
     DEF TreeInv, TypeOK, Holding, OneRegistryThread, Serving, AtInstall, AtComplete, AtRemove,
         AtRemoving, AtDestroy, ServerHas, SameServers, Goto, DestroyCb, callerVars, serverVars,
         handVars, treeVars, queueVars, All
<1>22. /\ \A n \in All : state'[n] = state[n]
       /\ \A n \in All : ptr'[n] = ptr[n]
       /\ \A n \in All : n \in destroyed' <=> n \in destroyed \/ n = m
  BY <1>30, <1>31, NodesAssumption
     DEF TreeInv, TypeOK, DestroyCb, callerVars, serverVars, handVars, treeVars, queueVars, All
<1>23. /\ \A n \in All : n \in Elems(installQ') <=> n \in Elems(installQ)
       /\ \A n \in All : n \in Elems(removeQ') <=> n \in Elems(removeQ)
       /\ \A p \in All : \A n \in ChildrenOf(p) : n \in Elems(kids'[p]) <=> n \in Elems(kids[p])
  BY <1>30, <1>31, NodesAssumption
     DEF TreeInv, TypeOK, DestroyCb, callerVars, serverVars, handVars, treeVars, queueVars
<1>1. TypeOK'
  BY <1>30, <1>31, NodesAssumption
     DEF TreeInv, TypeOK, Goto, States, CallerPcs, ServerPcs, DestroyCb, callerVars, serverVars,
         handVars, treeVars, queueVars, All
<1>2. Holding'
  BY <1>30, <1>31, NodesAssumption
     DEF TreeInv, TypeOK, Holding, OneRegistryThread, Serving, Goto, Asked, Checked, Captured,
         CallerHas, DestroyCb, callerVars, serverVars, handVars, treeVars, queueVars, All
<1>3. Lists'
  BY <1>30, <1>31, NodesAssumption
     DEF TreeInv, Lists, DestroyCb, callerVars, serverVars, handVars, treeVars, queueVars
<1>4. RootIn'
  BY <1>30, <1>31, <1>22, NodesAssumption DEF TreeInv, RootIn, All
<1>5. ASSUME NEW p \in All, NEW n \in ChildrenOf(p) PROVE NodeInv(p, n)'
  <2>1. n \in All /\ n \in Nodes /\ ParentOf[n] = p /\ n # p
    BY NodesAssumption DEF ChildrenOf, All
  <2>2. NodeInv(p, n)
    BY DEF TreeInv
  <2>3. Links(p, n)' /\ ComingIn(p, n)'
    BY <1>30, <1>31, <1>20, <1>21, <1>22, <1>23, <2>1, <2>2
       DEF NodeInv, Links, ComingIn, Ready, GoingOut, Pointers, Parents, Gone, MayBeForgotten,
           SameCallers, SameServers
  <2>4. Ready(p, n)' /\ GoingOut(n)'
    BY <1>30, <1>31, <1>20, <1>21, <1>22, <1>23, <2>1, <2>2
       DEF NodeInv, Links, ComingIn, Ready, GoingOut, Pointers, Parents, Gone, SameCallers,
           SameServers
  <2>5. Pointers(p, n)' /\ Parents(p, n)' /\ Gone(n)'
    BY <1>30, <1>31, <1>20, <1>21, <1>22, <1>23, <2>1, <2>2
       DEF NodeInv, Links, ComingIn, Ready, GoingOut, Pointers, Parents, Gone, MayBeForgotten,
           SameCallers, SameServers
  <2>. QED
    BY <2>3, <2>4, <2>5 DEF NodeInv
<1>6. QueueReady'
  BY <1>30, <1>31, <1>20, <1>21, <1>22, <1>23, NodesAssumption
     DEF TreeInv, QueueReady, SameServers, DestroyCb, callerVars, serverVars, handVars, treeVars,
         queueVars
<1>. QED
  BY <1>1, <1>2, <1>3, <1>4, <1>5, <1>6 DEF TreeInv, ChildrenOf

\* lreg_node_install() in place: the parent is installed, or has the node inlined.
LEMMA InstallHereKeeps ==
  ASSUME TreeInv, NEW m \in Nodes, InstallHere(m), Link(m), state' = [state EXCEPT ![m] = "INSTALLED"]
  PROVE  TreeInv'
<1>30. /\ state[m] = "NOT_INSTALLED" /\ ~Asked(m) /\ ~AtInstall(m) /\ ~AtComplete(m) /\ m \notin Elems(installQ)
       /\ m \notin destroyed /\ ptr[m] = None /\ m \notin Elems(kids[ParentOf[m]]) /\ m \in All
  BY NodesAssumption
     DEF TreeInv, NodeInv, ComingIn, Links, Pointers, ChildrenOf, Gone, InstallHere,
         lreg_node_needs_installation, All
<1>31. /\ ptr[ParentOf[m]] = None /\ ~Checked(ParentOf[m]) /\ ~Captured(ParentOf[m])
       /\ state[ParentOf[m]] = "INSTALLED" \/ m \in Inlined
  <2>1. CASE lreg_node_is_installed(ParentOf[m]) /\ ~RemovalInFlight(ParentOf[m])
    BY <2>1 DEF lreg_node_is_installed, RemovalInFlight, Checked, Captured, CallerHas
  <2>2. CASE m \in Inlined /\ lreg_node_needs_installation(ParentOf[m])
    <3>1. state[ParentOf[m]] = "NOT_INSTALLED" /\ ParentOf[m] \in Nodes
      BY <2>2, NodesAssumption DEF TreeInv, RootIn, lreg_node_needs_installation, All
    <3>2. NodeInv(ParentOf[ParentOf[m]], ParentOf[m])
      BY <3>1, NodesAssumption DEF TreeInv, ChildrenOf
    <3>. QED
      BY <2>2, <3>1, <3>2 DEF NodeInv, GoingOut, Pointers
  <2>. QED
    BY <2>1, <2>2 DEF InstallHere
<1>33. /\ ptr' = ptr /\ kids' \in [All -> Seq(Nodes)]
       /\ \A p \in All : IsInjective(kids'[p]) /\ \A n \in Elems(kids'[p]) : ParentOf[n] = p
       /\ \A p \in All : \A n \in ChildrenOf(p) : n \in Elems(kids'[p]) <=> (n \in Elems(kids[p]) /\ ~(p = m /\ m \in Static)) \/ n = m
  BY <1>30, <1>31, LinkStep DEF TreeInv
<1>34. UNCHANGED <<callerVars, serverVars, handVars, queueVars, destroyed>>
  BY DEF InstallHere
<1>20. SameCallers
  BY <1>34 DEF SameCallers, Asked, Checked, Captured, CallerHas, callerVars
<1>21. SameServers
  BY <1>34 DEF SameServers, AtInstall, AtComplete, AtRemove, AtRemoving, AtDestroy, ServerHas, serverVars
<1>22. /\ \A n \in All : state'[n] = IF n = m THEN "INSTALLED" ELSE state[n]
       /\ \A n \in All : ptr'[n] = ptr[n]
       /\ \A n \in All : n \in destroyed' <=> n \in destroyed
  BY <1>30, <1>33, <1>34 DEF TreeInv, TypeOK, All
<1>23. /\ \A n \in All : n \in Elems(installQ') <=> n \in Elems(installQ)
       /\ \A n \in All : n \in Elems(removeQ') <=> n \in Elems(removeQ)
       /\ \A p \in All : \A n \in ChildrenOf(p) : n \in Elems(kids'[p]) <=> (n \in Elems(kids[p]) /\ ~(p = m /\ m \in Static)) \/ n = m
  BY <1>33, <1>34 DEF queueVars
<1>1. TypeOK'
  BY <1>30, <1>33, <1>34
     DEF TreeInv, TypeOK, callerVars, serverVars, handVars, treeVars, queueVars, States
<1>2. Holding'
  BY <1>34 DEF TreeInv, Holding, OneRegistryThread, callerVars, serverVars, handVars, treeVars, queueVars
<1>3. Lists'
  BY <1>33, <1>34 DEF TreeInv, Lists, queueVars
<1>4. RootIn'
  BY <1>30, <1>31, <1>33, <1>34, <1>22, NodesAssumption DEF TreeInv, RootIn, All
<1>5. ASSUME NEW p \in All, NEW n \in ChildrenOf(p) PROVE NodeInv(p, n)'
  <2>1. n \in All /\ n \in Nodes /\ ParentOf[n] = p /\ n # p
    BY NodesAssumption DEF ChildrenOf, All
  <2>2. NodeInv(p, n)
    BY DEF TreeInv
  <2>3. Links(p, n)' /\ ComingIn(p, n)'
    BY <1>30, <1>31, <1>33, <1>34, <1>20, <1>21, <1>22, <1>23, <2>1, <2>2
       DEF NodeInv, Links, ComingIn, Ready, GoingOut, Pointers, Parents, Gone, MayBeForgotten,
           SameCallers, SameServers
  <2>4. Ready(p, n)' /\ GoingOut(n)'
    BY <1>30, <1>31, <1>33, <1>34, <1>20, <1>21, <1>22, <1>23, <2>1, <2>2
       DEF NodeInv, Links, ComingIn, Ready, GoingOut, Pointers, Parents, Gone, SameCallers,
           SameServers
  <2>5. Pointers(p, n)' /\ Parents(p, n)' /\ Gone(n)'
    BY <1>30, <1>31, <1>33, <1>34, <1>20, <1>21, <1>22, <1>23, <2>1, <2>2
       DEF NodeInv, Links, ComingIn, Ready, GoingOut, Pointers, Parents, Gone, MayBeForgotten,
           SameCallers, SameServers
  <2>. QED
    BY <2>3, <2>4, <2>5 DEF NodeInv
<1>6. QueueReady'
  BY <1>30, <1>31, <1>33, <1>34, <1>20, <1>21, <1>22, <1>23, NodesAssumption
     DEF TreeInv, QueueReady, SameServers, InstallHere, callerVars, serverVars, handVars, treeVars,
         queueVars
<1>. QED
  BY <1>1, <1>2, <1>3, <1>4, <1>5, <1>6 DEF TreeInv, ChildrenOf

\* The same when the callback refuses the node.
LEMMA RefusedHereKeeps ==
  ASSUME TreeInv, NEW m \in Nodes, InstallHere(m), m \in MayFail, kids' = StaticInit(m, kids, <<>>),
         ptr' = StaticInit(m, ptr, None), state' = [state EXCEPT ![m] = "INSTALLING"]
  PROVE  TreeInv'
<1>30. /\ state[m] = "NOT_INSTALLED" /\ ~Asked(m) /\ ~AtInstall(m) /\ ~AtComplete(m) /\ m \notin Elems(installQ)
       /\ m \notin destroyed /\ ptr[m] = None /\ m \notin Elems(kids[ParentOf[m]]) /\ m \in All
  BY NodesAssumption
     DEF TreeInv, NodeInv, ComingIn, Links, Pointers, ChildrenOf, Gone, InstallHere,
         lreg_node_needs_installation, All
<1>31. ChildrenOf(m) = {}
  BY FailAssumption
<1>33. /\ ptr' = ptr /\ kids' \in [All -> Seq(Nodes)]
       /\ \A p \in All : IsInjective(kids'[p]) /\ \A n \in Elems(kids'[p]) : ParentOf[n] = p
       /\ \A p \in All : \A n \in ChildrenOf(p) : n \in Elems(kids'[p]) <=> n \in Elems(kids[p]) /\ ~(p = m /\ m \in Static)
  BY <1>30, ResetStep DEF TreeInv
<1>34. UNCHANGED <<callerVars, serverVars, handVars, queueVars, destroyed>>
  BY DEF InstallHere
<1>20. SameCallers
  BY <1>34 DEF SameCallers, Asked, Checked, Captured, CallerHas, callerVars
<1>21. SameServers
  BY <1>34 DEF SameServers, AtInstall, AtComplete, AtRemove, AtRemoving, AtDestroy, ServerHas, serverVars
<1>22. /\ \A n \in All : state'[n] = IF n = m THEN "INSTALLING" ELSE state[n]
       /\ \A n \in All : ptr'[n] = ptr[n]
       /\ \A n \in All : n \in destroyed' <=> n \in destroyed
  BY <1>30, <1>33, <1>34 DEF TreeInv, TypeOK, All
<1>23. /\ \A n \in All : n \in Elems(installQ') <=> n \in Elems(installQ)
       /\ \A n \in All : n \in Elems(removeQ') <=> n \in Elems(removeQ)
       /\ \A p \in All : \A n \in ChildrenOf(p) : n \in Elems(kids'[p]) <=> n \in Elems(kids[p]) /\ ~(p = m /\ m \in Static)
  BY <1>33, <1>34 DEF queueVars
<1>1. TypeOK'
  BY <1>30, <1>33, <1>34
     DEF TreeInv, TypeOK, callerVars, serverVars, handVars, treeVars, queueVars, States
<1>2. Holding'
  BY <1>34 DEF TreeInv, Holding, OneRegistryThread, callerVars, serverVars, handVars, treeVars, queueVars
<1>3. Lists'
  BY <1>33, <1>34 DEF TreeInv, Lists, queueVars
<1>4. RootIn'
  BY <1>30, <1>31, <1>33, <1>34, <1>22, NodesAssumption DEF TreeInv, RootIn, All
<1>5. ASSUME NEW p \in All, NEW n \in ChildrenOf(p) PROVE NodeInv(p, n)'
  <2>1. n \in All /\ n \in Nodes /\ ParentOf[n] = p /\ n # p
    BY NodesAssumption DEF ChildrenOf, All
  <2>2. NodeInv(p, n)
    BY DEF TreeInv
  <2>3. Links(p, n)' /\ ComingIn(p, n)'
    BY <1>30, <1>31, <1>33, <1>34, <1>20, <1>21, <1>22, <1>23, <2>1, <2>2
       DEF NodeInv, Links, ComingIn, Ready, GoingOut, Pointers, Parents, Gone, MayBeForgotten,
           SameCallers, SameServers
  <2>4. Ready(p, n)' /\ GoingOut(n)'
    BY <1>30, <1>31, <1>33, <1>34, <1>20, <1>21, <1>22, <1>23, <2>1, <2>2
       DEF NodeInv, Links, ComingIn, Ready, GoingOut, Pointers, Parents, Gone, SameCallers,
           SameServers
  <2>5. Pointers(p, n)' /\ Parents(p, n)' /\ Gone(n)'
    BY <1>30, <1>31, <1>33, <1>34, <1>20, <1>21, <1>22, <1>23, <2>1, <2>2
       DEF NodeInv, Links, ComingIn, Ready, GoingOut, Pointers, Parents, Gone, MayBeForgotten,
           SameCallers, SameServers
  <2>. QED
    BY <2>3, <2>4, <2>5 DEF NodeInv
<1>6. QueueReady'
  BY <1>30, <1>31, <1>33, <1>34, <1>20, <1>21, <1>22, <1>23, NodesAssumption
     DEF TreeInv, QueueReady, SameServers, InstallHere, callerVars, serverVars, handVars, treeVars,
         queueVars
<1>. QED
  BY <1>1, <1>2, <1>3, <1>4, <1>5, <1>6 DEF TreeInv, ChildrenOf

\* lreg_node_remove() in place, while no server has a node in its hands.
LEMMA RemoveHereKeeps ==
  ASSUME TreeInv, NEW m \in Nodes, RemoveHere(m)
  PROVE  TreeInv'
<1>30. /\ m \in All /\ state[m] = "INSTALLED" /\ ptr[m] = None /\ m \notin Inlined /\ ~Checked(m) /\ ~Captured(m)
       /\ state[ParentOf[m]] = "INSTALLED"
  BY
     DEF RemoveHere, MayRemove, RemoveChecks, lreg_node_is_installed, RemovalInFlight, Checked,
         Captured, CallerHas, All
<1>31. ASSUME NEW k \in ChildrenOf(m)
       PROVE  /\ ~Asked(k) /\ k \notin Elems(installQ) /\ ~AtInstall(k) /\ ~AtComplete(k)
              /\ k \notin Inlined => state[k] # "INSTALLED"
  <2>1. NodeInv(m, k) /\ k \in Nodes /\ ParentOf[k] = m
    BY DEF TreeInv, ChildrenOf, All
  <2>2. ~InstallInFlight(k) /\ (kids[m] = <<>> \/ m \in InlinedChildren)
    BY DEF RemoveHere, MayRemove, RemoveChecks, RefusedBusy, lreg_node_has_children
  <2>3. ~Asked(k) /\ k \notin Elems(installQ) /\ ~AtInstall(k) /\ ~AtComplete(k)
    BY <2>2 DEF InstallInFlight, Asked, AtInstall, AtComplete, CallerHas, ServerHas
  <2>4. kids[m] = <<>> => k \notin Elems(kids[m])
    BY DEF Elems
  <2>5. k \notin Inlined => state[k] # "INSTALLED"
    BY <2>1, <2>2, <2>4, KindAssumption DEF NodeInv, Links, MayBeForgotten
  <2>. QED
    BY <2>3, <2>5
<1>32. \A n \in All : ~AtInstall(n) /\ ~AtComplete(n) /\ ~AtRemove(n) /\ ~AtRemoving(n) /\ ~AtDestroy(n)
  <2>1. \A s \in Servers : spc[s] \notin Serving
    BY DEF TreeInv, TypeOK, Holding, OneRegistryThread, Serving, RemoveHere, InPlace
  <2>. QED
    BY <2>1 DEF AtInstall, AtComplete, AtRemove, AtRemoving, AtDestroy, ServerHas, Serving
<1>33. /\ kids' \in [All -> Seq(Nodes)]
       /\ \A p \in All : IsInjective(kids'[p]) /\ \A n \in Elems(kids'[p]) : ParentOf[n] = p
       /\ \A p \in All : \A n \in ChildrenOf(p) : n \in Elems(kids'[p]) <=> n \in Elems(kids[p]) /\ n # m
  BY UnlinkStep DEF TreeInv, RemoveHere
<1>34. NodeInv(ParentOf[m], m) /\ ParentOf[m] # None /\ ParentOf[m] \in All
  BY NodesAssumption DEF TreeInv, ChildrenOf
<1>20. SameCallers
  BY DEF SameCallers, Asked, Checked, Captured, CallerHas, RemoveHere, callerVars
<1>21. SameServers
  BY
     DEF SameServers, AtInstall, AtComplete, AtRemove, AtRemoving, AtDestroy, ServerHas, RemoveHere,
         serverVars
<1>22. /\ \A n \in All : state'[n] = IF n = m THEN "REMOVED" ELSE state[n]
       /\ \A n \in All : ptr'[n] = IF n = m THEN ParentOf[m] ELSE ptr[n]
       /\ \A n \in All : n \in destroyed' <=> n \in destroyed \/ n = m
  BY <1>30, <1>34 DEF TreeInv, TypeOK, RemoveHere
<1>23. /\ \A n \in All : n \in Elems(installQ') <=> n \in Elems(installQ)
       /\ \A n \in All : n \in Elems(removeQ') <=> n \in Elems(removeQ)
       /\ \A p \in All : \A n \in ChildrenOf(p) : n \in Elems(kids'[p]) <=> n \in Elems(kids[p]) /\ n # m
  BY <1>33 DEF RemoveHere, queueVars
<1>1. TypeOK'
  BY <1>30, <1>33, <1>34
     DEF TreeInv, TypeOK, RemoveHere, callerVars, serverVars, handVars, treeVars, queueVars, States,
         All
<1>2. Holding'
  BY
     DEF TreeInv, Holding, OneRegistryThread, RemoveHere, callerVars, serverVars, handVars,
         treeVars, queueVars
<1>3. Lists'
  BY <1>33 DEF TreeInv, Lists, RemoveHere, queueVars
<1>4. RootIn'
  BY <1>30, <1>31, <1>32, <1>33, <1>34, <1>22, NodesAssumption DEF TreeInv, RootIn, All
<1>5. ASSUME NEW p \in All, NEW n \in ChildrenOf(p) PROVE NodeInv(p, n)'
  <2>1. n \in All /\ n \in Nodes /\ ParentOf[n] = p /\ n # p
    BY NodesAssumption DEF ChildrenOf, All
  <2>2. NodeInv(p, n)
    BY DEF TreeInv
  <2>3. Links(p, n)' /\ ComingIn(p, n)'
    BY <1>30, <1>31, <1>32, <1>33, <1>34, <1>20, <1>21, <1>22, <1>23, <2>1, <2>2
       DEF NodeInv, Links, ComingIn, Ready, GoingOut, Pointers, Parents, Gone, MayBeForgotten,
           SameCallers, SameServers
  <2>4. Ready(p, n)' /\ GoingOut(n)'
    BY <1>30, <1>31, <1>32, <1>33, <1>34, <1>20, <1>21, <1>22, <1>23, <2>1, <2>2
       DEF NodeInv, Links, ComingIn, Ready, GoingOut, Pointers, Parents, Gone, SameCallers,
           SameServers
  <2>5. Pointers(p, n)' /\ Parents(p, n)' /\ Gone(n)'
    BY <1>30, <1>31, <1>32, <1>33, <1>34, <1>20, <1>21, <1>22, <1>23, <2>1, <2>2
       DEF NodeInv, Links, ComingIn, Ready, GoingOut, Pointers, Parents, Gone, MayBeForgotten,
           SameCallers, SameServers
  <2>. QED
    BY <2>3, <2>4, <2>5 DEF NodeInv
<1>6. QueueReady'
  <2> SUFFICES ASSUME NEW p \in All, NEW n \in ChildrenOf(p), NEW i \in DOMAIN installQ', installQ'[i] = n
               PROVE  \/ state'[p] = "INSTALLED" \/ AtInstall(p)' \/ AtComplete(p)'
                      \/ \E j \in DOMAIN installQ' : j < i /\ installQ'[j] = p
    BY DEF QueueReady
  <2>1. installQ' = installQ
    BY DEF RemoveHere, queueVars
  <2>2. p # m
    BY <1>31, <2>1 DEF Elems
  <2>3. \/ state[p] = "INSTALLED" \/ AtInstall(p) \/ AtComplete(p)
        \/ \E j \in DOMAIN installQ : j < i /\ installQ[j] = p
    BY <2>1 DEF TreeInv, QueueReady
  <2>. QED
    BY <1>21, <1>22, <2>1, <2>2, <2>3 DEF SameServers
<1>. QED
  BY <1>1, <1>2, <1>3, <1>4, <1>5, <1>6 DEF TreeInv, ChildrenOf

-----------------------------------------------------------------------------
\* What holds nobody's node: events, the phases and the handover.
LEMMA OtherStepsKeep ==
  ASSUME QuietHandover, TreeInv,
         \/ \E t \in Threads : Notify(t) \/ \E n \in Nodes : Wait_removed(t, n)
         \/ \E s \in Servers : ReadEvent(s) \/ Process(s) \/ PassOnEvent(s) \/ InstallsDone(s) \/ RemovesDone(s)
         \/ InitComplete \/ DestroyStart
         \/ Unregister_notify \/ lreg_remove_event_src \/ lreg_set_thread_ctx
  PROVE  TreeInv'
<1> USE DEF callerVars, serverVars, handVars, treeVars, queueVars
<1>1. UNCHANGED <<state, kids, ptr, destroyed, installQ, removeQ, cur>>
  BY DEF Notify, Wait_removed, ReadEvent, Process, PassOnEvent, InstallsDone, RemovesDone, InitComplete,
         DestroyStart, Unregister_notify, lreg_remove_event_src, lreg_set_thread_ctx
<1>2. \A s \in Servers : spc'[s] = spc[s] \/ (spc[s] \notin Serving /\ spc'[s] \notin Serving)
  BY
     DEF TreeInv, TypeOK, Serving, Goto, Notify, Wait_removed, ReadEvent, Process, PassOnEvent,
         InstallsDone,
         RemovesDone, InitComplete, DestroyStart, Unregister_notify, lreg_remove_event_src, lreg_set_thread_ctx
<1>3. \A t \in Threads : \/ pc'[t] = pc[t] /\ arg'[t] = arg[t]
                         \/ pc[t] \in {"idle", "notify"} /\ pc'[t] \in {"idle", "notify"}
  BY
     DEF TreeInv, TypeOK, Notify, Wait_removed, ReadEvent, Process, PassOnEvent, InstallsDone,
         RemovesDone,
         InitComplete, DestroyStart, Unregister_notify, lreg_remove_event_src, lreg_set_thread_ctx
<1>4. SameCallers
  BY <1>3 DEF SameCallers, Asked, Checked, Captured, CallerHas
<1>5. SameServers
  BY <1>1, <1>2
     DEF SameServers, AtInstall, AtComplete, AtRemove, AtRemoving, AtDestroy, ServerHas, Serving
<1>6. TypeOK'
  <2> USE DEF TreeInv, TypeOK, CallerPcs, ServerPcs, Servers
  <2>1. CASE \E t \in Threads : Notify(t) \/ \E n \in Nodes : Wait_removed(t, n)
    BY <2>1 DEF Notify, Wait_removed
  <2>2. ASSUME NEW s \in Servers,
               ReadEvent(s) \/ Process(s) \/ PassOnEvent(s) \/ InstallsDone(s) \/ RemovesDone(s)
        PROVE  TypeOK'
    <3>1. PICK to \in ServerPcs : spc' = [spc EXCEPT ![s] = to] \/ spc' = spc
      BY <2>2 DEF Goto, ReadEvent, Process, PassOnEvent, InstallsDone, RemovesDone
    <3>2. spc' \in [Servers -> ServerPcs]
      BY <3>1
    <3>3. CASE ReadEvent(s) \/ Process(s)
      BY <3>2, <3>3 DEF ReadEvent, Process
    <3>4. CASE PassOnEvent(s)
      BY <3>2, <3>4 DEF PassOnEvent
    <3>5. CASE InstallsDone(s) \/ RemovesDone(s)
      BY <3>2, <3>5 DEF InstallsDone, RemovesDone
    <3>. QED
      BY <2>2, <3>3, <3>4, <3>5
  <2>3. CASE InitComplete \/ DestroyStart \/ Unregister_notify \/ lreg_remove_event_src \/ lreg_set_thread_ctx
    BY <2>3 DEF InitComplete, DestroyStart, Unregister_notify, lreg_remove_event_src, lreg_set_thread_ctx
  <2>. QED
    BY <2>1, <2>2, <2>3
<1>7. OneRegistryThread'
  <2> USE DEF TreeInv, Holding, TypeOK, OneRegistryThread
  <2>1. CASE \E t \in Threads : Notify(t) \/ \E n \in Nodes : Wait_removed(t, n)
    BY <2>1 DEF Notify, Wait_removed
  <2>2. CASE \E s \in Servers : ReadEvent(s) \/ Process(s) \/ PassOnEvent(s) \/ InstallsDone(s) \/ RemovesDone(s)
    BY <2>2 DEF Goto, ReadEvent, Process, PassOnEvent, InstallsDone, RemovesDone
  <2>3. CASE InitComplete \/ DestroyStart \/ Unregister_notify \/ lreg_remove_event_src
    BY <2>3 DEF InitComplete, DestroyStart, Unregister_notify, lreg_remove_event_src
  <2>4. CASE lreg_set_thread_ctx
    BY <2>4 DEF lreg_set_thread_ctx, Servers
  <2>. QED
    BY <2>1, <2>2, <2>3, <2>4
<1>8. /\ \A t \in Threads : pc'[t] \in {"install", "remove", "capture"} => arg'[t] \in Nodes
      /\ \A t, u \in Threads : arg'[t] = arg'[u] /\ t # u =>
           /\ ~(pc'[t] = "install" /\ pc'[u] = "install")
           /\ ~(pc'[t] \in {"remove", "capture"} /\ pc'[u] \in {"remove", "capture"})
      /\ \A s \in Servers : cur'[s] \in Nodes <=> spc'[s] \in Serving
  BY <1>1, <1>2, <1>3 DEF TreeInv, Holding
<1>9. phase' # "run" =>
         /\ installQ' = <<>> /\ removeQ' = <<>>
         /\ \A t \in Threads : pc'[t] = "idle"
         /\ \A s \in Servers : spc'[s] \notin Serving
  <2> USE DEF TreeInv, Holding, TypeOK
  <2>1. CASE \E t \in Threads : Notify(t) \/ \E n \in Nodes : Wait_removed(t, n)
    BY <1>2, <2>1 DEF Notify, Wait_removed
  <2>2. CASE \E s \in Servers : ReadEvent(s) \/ Process(s) \/ PassOnEvent(s) \/ InstallsDone(s) \/ RemovesDone(s)
    BY <1>1, <1>2, <2>2 DEF ReadEvent, Process, PassOnEvent, InstallsDone, RemovesDone
  <2>3. CASE InitComplete \/ DestroyStart \/ Unregister_notify \/ lreg_remove_event_src \/ lreg_set_thread_ctx
    BY <2>3
       DEF InitComplete, DestroyStart, Unregister_notify, lreg_remove_event_src,
           lreg_set_thread_ctx, Serving
  <2>. QED
    BY <2>1, <2>2, <2>3
<1>10. Holding'
  BY <1>7, <1>8, <1>9 DEF Holding
<1>. QED
  BY <1>1, <1>4, <1>5, <1>6, <1>10, QuietStep

LEMMA TreeInvInit == Init => TreeInv
<1> SUFFICES ASSUME Init PROVE TreeInv
  OBVIOUS
<1>1. TypeOK
  <2>1. <<>> \in Seq(Nodes)
    OBVIOUS
  <2>. QED
    BY <2>1 DEF Init, TypeOK, All, States, Servers, CallerPcs, ServerPcs
<1>2. IsInjective(<<>>) /\ Elems(<<>>) = {}
  BY DEF IsInjective, Elems
<1>3. Holding
  BY NodesAssumption DEF Init, Holding, OneRegistryThread, Serving, All
<1>4. Lists /\ RootIn
  BY <1>2, NodesAssumption DEF Init, Lists, RootIn, All
<1>5. QueueReady
  <2>1. DOMAIN installQ = {}
    BY DEF Init
  <2>. QED
    BY <2>1 DEF QueueReady
<1>6. \A n \in All : /\ ~Asked(n) /\ ~Checked(n) /\ ~Captured(n)
                     /\ ~AtInstall(n) /\ ~AtComplete(n) /\ ~AtRemove(n) /\ ~AtRemoving(n) /\ ~AtDestroy(n)
  BY
     DEF Init, Asked, Checked, Captured, CallerHas, AtInstall, AtComplete, AtRemove, AtRemoving,
         AtDestroy, ServerHas
<1>7. ASSUME NEW p \in All, NEW n \in ChildrenOf(p) PROVE NodeInv(p, n)
  <2>1. n \in All /\ state[n] = "NOT_INSTALLED" /\ ptr[n] = None /\ kids[p] = <<>> /\ ptr[p] = None
    BY NodesAssumption DEF Init, ChildrenOf, All
  <2>2. n \notin Elems(installQ) /\ n \notin Elems(removeQ) /\ n \notin Elems(kids[p]) /\ n \notin destroyed
    BY <1>2, <2>1 DEF Init
  <2>. QED
    BY <1>6, <2>1, <2>2 DEF NodeInv, Links, ComingIn, Ready, GoingOut, Pointers, Parents, Gone
<1>. QED
  BY <1>1, <1>3, <1>4, <1>5, <1>7 DEF TreeInv

LEMMA TreeInvStep ==
  ASSUME QuietHandover, TreeInv, [Next]_vars
  PROVE  TreeInv'
<1>1. CASE UNCHANGED vars
  <2> USE <1>1 DEF vars, callerVars, serverVars, handVars, treeVars, queueVars
  <2>1. TypeOK' /\ Holding'
    BY DEF TreeInv, TypeOK, Holding, OneRegistryThread
  <2>2. SameCallers /\ SameServers
    BY DEF SameCallers, SameServers, Asked, Checked, Captured, CallerHas, AtInstall, AtComplete,
           AtRemove, AtRemoving, AtDestroy, ServerHas
  <2>. QED
    BY <2>1, <2>2, QuietStep
<1>2. CASE \E n \in Nodes : InstallHere(n) \/ RemoveHere(n)
  <2>1. PICK m \in Nodes : InstallHere(m) \/ RemoveHere(m)
    BY <1>2
  <2>2. CASE InstallHere(m)
    <3>1. \/ Link(m) /\ state' = [state EXCEPT ![m] = "INSTALLED"]
          \/ /\ m \in MayFail /\ kids' = StaticInit(m, kids, <<>>) /\ ptr' = StaticInit(m, ptr, None)
             /\ state' = [state EXCEPT ![m] = "INSTALLING"]
      BY <2>2 DEF InstallHere
    <3>. QED
      BY <2>2, <3>1, InstallHereKeeps, RefusedHereKeeps
  <2>. QED
    BY <2>1, <2>2, RemoveHereKeeps
<1>3. CASE \E t \in Threads : CallerStep(t)
  <2>1. PICK t \in Threads : CallerStep(t)
    BY <1>3
  <2>. QED
    BY <2>1, InstallQueueKeeps, RemoveCaptureKeeps, RemoveQueueKeeps, OtherStepsKeep DEF CallerStep
<1>4. CASE \E t \in Threads, n \in Nodes : Install_prep(t, n) \/ Remove_check(t, n) \/ Wait_removed(t, n)
  BY <1>4, InstallPrepKeeps, RemoveCheckKeeps, OtherStepsKeep
<1>5. CASE \E s \in Servers : ServerStep(s)
  <2>1. PICK s \in Servers : ServerStep(s)
    BY <1>5
  <2>2. CASE ReadEvent(s) \/ Process(s) \/ PassOnEvent(s) \/ InstallsDone(s) \/ RemovesDone(s)
    BY <2>2, OtherStepsKeep
  <2>3. CASE \/ lreg_install_get_queued_node(s) \/ InstallInternal(s) \/ InstallComplete(s) \/ InstallFails(s)
    BY <2>3, GetInstallKeeps, InstallInternalKeeps, InstallCompleteKeeps, InstallFailsKeeps
  <2>4. CASE \/ lreg_remove_get_queued_node(s) \/ RemoveInternal(s) \/ Uninstalled(s) \/ DestroyCb(s)
    BY <2>4, GetRemoveKeeps, RemoveInternalKeeps, UninstalledKeeps, DestroyCbKeeps
  <2>. QED
    BY <2>1, <2>2, <2>3, <2>4 DEF ServerStep
<1>6. CASE InitComplete \/ DestroyStart \/ Unregister_notify \/ lreg_remove_event_src \/ lreg_set_thread_ctx
  BY <1>6, OtherStepsKeep
<1>. QED
  BY <1>1, <1>2, <1>3, <1>4, <1>5, <1>6 DEF Next

LEMMA AtMostOne ==
  ASSUME NEW S, \A x, y \in S : x = y
  PROVE  (Cardinality(S) = 0 \/ Cardinality(S) = 1) /\ (S = {} => Cardinality(S) = 0)
<1>1. S = {} \/ \E x : S = {x}
  OBVIOUS
<1>. QED
  BY <1>1, FS_EmptySet, FS_Singleton

\* What the invariant says of one node is what the run checks of it.
LEMMA TreeInvSound == TreeInv => TreeSound
<1> SUFFICES ASSUME TreeInv PROVE TreeSound
  OBVIOUS
<1>1. ASSUME NEW n \in Nodes
      PROVE  /\ ParentOf[n] \in All /\ n \in All /\ ParentOf[n] # n /\ ParentOf[n] # None
             /\ NodeInv(ParentOf[n], n)
  BY NodesAssumption DEF TreeInv, ChildrenOf, All
<1>2. ParentOutlives
  BY <1>1 DEF ParentOutlives, NodeInv, Parents, lreg_node_is_installed
<1>3. NoAssert
  <2>1. ASSUME NEW s \in Servers, spc[s] = "install_internal" PROVE InstallAsserts(cur[s])
    <3>1. cur[s] \in Nodes /\ AtInstall(cur[s])
      BY <2>1 DEF TreeInv, Holding, Serving, AtInstall, ServerHas
    <3>. QED
      BY <1>1, <3>1 DEF NodeInv, Ready, InstallAsserts, lreg_node_needs_installation
  <2>2. ASSUME NEW s \in Servers, spc[s] = "remove_internal" PROVE RemoveAsserts(cur[s])
    <3>1. PICK m \in Nodes : m = cur[s] /\ AtRemove(m)
      BY <2>2 DEF TreeInv, Holding, Serving, AtRemove, ServerHas
    <3>2. /\ state[m] = "INSTALLED" /\ m \notin Inlined /\ ptr[m] = ParentOf[m] /\ ParentOf[m] # None
          /\ state[ParentOf[m]] = "INSTALLED" /\ ptr[ParentOf[m]] = None
          /\ m \in Elems(kids[ParentOf[m]])
      BY <1>1, <3>1 DEF NodeInv, GoingOut, Pointers, Parents, Links, MayBeForgotten
    <3>. QED
      BY <3>1, <3>2 DEF RemoveAsserts, lreg_node_is_installed, lreg_node_needs_installation
  <2>. QED
    BY <2>1, <2>2 DEF NoAssert
<1>4. LinkedOnce
  <2> SUFFICES ASSUME NEW n \in Nodes,
                      NEW places, places = {i \in DOMAIN installQ : installQ[i] = n},
                      NEW links, links = {pi \in UNION {{p} \X DOMAIN kids[p] : p \in All} : kids[pi[1]][pi[2]] = n}
               PROVE  /\ Cardinality(places) + Cardinality(links) <= 1
                      /\ places # {} => state[n] = "INSTALLING"
                      /\ state[n] = "INSTALLED" /\ ~MayBeForgotten(n) => n \in Elems(kids[ParentOf[n]])
                      /\ state[n] \in {"NOT_INSTALLED", "REMOVING", "REMOVED"} => links = {}
                      /\ n \in destroyed => places \union links = {} /\ n \notin Elems(removeQ)
    BY DEF LinkedOnce
  <2>1. (places # {} <=> n \in Elems(installQ)) /\ \A i, j \in places : i = j
    BY DEF TreeInv, Lists, IsInjective, Elems
  <2>2. \A pi \in links : pi = <<ParentOf[n], pi[2]>> /\ pi[2] \in DOMAIN kids[ParentOf[n]] /\ kids[ParentOf[n]][pi[2]] = n
    BY DEF TreeInv, Lists, Elems
  <2>3. \A pi, pj \in links : pi = pj
    <3>1. IsInjective(kids[ParentOf[n]])
      BY <1>1 DEF TreeInv, Lists
    <3>2. \A pi, pj \in links : pi[2] = pj[2]
      BY <2>2, <3>1 DEF IsInjective
    <3>. QED
      BY <2>2, <3>2
  <2>4. links # {} => n \in Elems(kids[ParentOf[n]])
    BY <2>2 DEF Elems
  <2>5. /\ places = {} \/ links = {}
        /\ places # {} => state[n] = "INSTALLING" /\ n \notin destroyed
        /\ state[n] = "INSTALLED" /\ ~MayBeForgotten(n) => n \in Elems(kids[ParentOf[n]])
        /\ links # {} => n \notin destroyed /\ state[n] \notin {"NOT_INSTALLED", "REMOVING", "REMOVED"}
        /\ n \in Elems(removeQ) => n \notin destroyed
    BY <1>1, <2>1, <2>4 DEF NodeInv, Links, ComingIn, GoingOut, Gone
  <2>6. (Cardinality(places) = 0 \/ Cardinality(places) = 1) /\ (places = {} => Cardinality(places) = 0)
    BY <2>1, AtMostOne
  <2>7. (Cardinality(links) = 0 \/ Cardinality(links) = 1) /\ (links = {} => Cardinality(links) = 0)
    BY <2>3, AtMostOne
  <2>8. Cardinality(places) + Cardinality(links) <= 1
    BY <2>5, <2>6, <2>7
  <2>. QED
    BY <2>5, <2>8
<1>. QED
  BY <1>2, <1>3, <1>4 DEF TreeSound

\* The registry stays a tree, whatever callers ask for and in whichever order
\* their requests are served: every node is linked once, below a parent that
\* outlives it, and no assertion of the registry thread fails.
THEOREM TreeSoundCorrect ==
  ASSUME QuietHandover
  PROVE  Spec => []TreeSound
<1>1. TreeInv /\ [Next]_vars => TreeInv'
  BY TreeInvStep
<1>. QED
  BY <1>1, TreeInvInit, TreeInvSound, PTL DEF Spec
=============================================================================
