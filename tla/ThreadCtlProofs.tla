---------------------------- MODULE ThreadCtlProofs ----------------------------
(***************************************************************************)
(* Thread control for any number of workers: the list that the watchdog    *)
(* walks holds threads that exist, no assertion of thread.c, watchdog.c    *)
(* and util_thread.c fails, and what the utility thread accepted is        *)
(* polled.                                                                 *)
(***************************************************************************)
EXTENDS ThreadCtl, FiniteSetTheorems, SequenceTheorems, TLAPS

Ops == {"none", "watch", "flag", "run", "reach", "halt", "unwatch", "unflag",
        "broadcast", "kill", "join"}
Flags == {"REACHED_CTL_LOOP", "WATCHDOG", "RUN", "HALT"}
Places == {"none", "start", "test", "sleep", "block", "blocked", "work", "track",
           "tracked", "done"}

\* The types of the variables.
ThreadTypes ==
    /\ phase \in Phases /\ call \in [op : Ops, t : Threads]
    /\ flags \in [Threads -> SUBSET Flags] /\ tid \in [Threads -> BOOLEAN]
    /\ pc \in [Threads -> Places] /\ lives \in [Threads -> Nat]
    /\ wdi_thread_list \in Seq(Threads) /\ wdi_halt \in BOOLEAN
    /\ cnt \in [Watchable -> {"zero", "same", "ahead"}] /\ stalls \in [Watchable -> Nat]
    /\ slots \in Seq({"stored", "installed", "removed"}) /\ ut_started \in BOOLEAN
    /\ handler \in BOOLEAN

\* A thread_ctl has an identifier exactly while its thread exists; a call is
\* about such a thread; the watchdog's thread and the utility thread exist no
\* earlier than their constructors make them.
Lifetimes ==
    /\ \A t \in Threads : tid[t] <=> pc[t] # "none"
    /\ call.op # "none" => tid[call.t]
    /\ phase = "watchdog" => ~tid[Wd] /\ call.op = "none"
    /\ phase # "watchdog" => handler
    /\ phase \in {"watchdog", "sources"} => ~tid[Ut]
    /\ ut_started <=> phase \notin {"watchdog", "sources"}

\* What the flags of a thread are when a call that asserts something about
\* them, or that relies on them, is about to look.
FlagsOfCall ==
    /\ \A t \in Threads : pc[t] = "start" => "REACHED_CTL_LOOP" \notin flags[t]
    /\ Calling("watch") => "WATCHDOG" \notin flags[call.t]
    /\ Calling("run") => "RUN" \notin flags[call.t]
    /\ call.op \in {"broadcast", "kill", "join"} => "WATCHDOG" \notin flags[call.t]
    /\ \A t \in Threads : tid[t] /\ "HALT" \in flags[t] =>
         call.t = t /\ call.op \in {"unwatch", "unflag", "broadcast", "kill", "join"}

\* The list of the watchdog: each thread once, only threads that exist, and the
\* flag as the list has it, except between the two steps of a call.
ListOfWatched ==
    /\ IsInjective(wdi_thread_list)
    /\ \A t \in Threads : Listed(t) => tid[t]
    /\ \A t \in Threads : ~(call.t = t /\ call.op \in {"flag", "unflag"})
                            => ("WATCHDOG" \in flags[t] <=> Listed(t))
    /\ Calling("flag") => Listed(call.t)
    /\ Calling("unflag") => ~Listed(call.t)

\* The table of event sources against the life of the utility thread.
SlotsKnown ==
    \A i \in DOMAIN slots :
        /\ ut_started => slots[i] # "stored"
        /\ phase \in {"watchdog_destroy", "end"} => slots[i] = "removed"

ThreadInv == ThreadTypes /\ fatal = FALSE /\ Lifetimes /\ FlagsOfCall /\ ListOfWatched /\ SlotsKnown

-------------------------------------------------------------------------------
\* watchdog_add_thread() puts a thread on the list that was not on it.
LEMMA Added ==
    ASSUME NEW list \in Seq(Threads), NEW t \in Threads, IsInjective(list),
           \A i \in 1..Len(list) : list[i] # t
    PROVE  /\ Append(list, t) \in Seq(Threads) /\ IsInjective(Append(list, t))
           /\ \A u : (\E i \in 1..Len(Append(list, t)) : Append(list, t)[i] = u)
                       <=> (u = t \/ \E i \in 1..Len(list) : list[i] = u)
<1> DEFINE l == Append(list, t)
<1>1. Len(list) \in Nat /\ DOMAIN list = 1..Len(list)
  BY LenProperties
<1>2. /\ l \in Seq(Threads) /\ Len(l) = Len(list) + 1
      /\ l[Len(list) + 1] = t /\ \A i \in 1..Len(list) : l[i] = list[i]
  BY <1>1
<1>3. DOMAIN l = 1..Len(l)
  BY <1>2, LenProperties
<1> HIDE DEF l
<1>4. \A i \in 1..Len(l) : i = Len(list) + 1 \/ i \in 1..Len(list)
  BY <1>1, <1>2
<1>5. 1..Len(list) \subseteq 1..Len(l) /\ Len(list) + 1 \in 1..Len(l)
  BY <1>1, <1>2
<1>6. IsInjective(l)
  BY <1>1, <1>2, <1>3, <1>4 DEF IsInjective
<1>7. ASSUME NEW u
      PROVE  (\E i \in 1..Len(l) : l[i] = u) <=> (u = t \/ \E i \in 1..Len(list) : list[i] = u)
  BY <1>2, <1>4, <1>5
<1>. QED
  BY <1>2, <1>6, <1>7 DEF l

\* watchdog_remove_thread() takes a thread off the list it is on once.
LEMMA Removed ==
    ASSUME NEW list \in Seq(Threads), NEW t \in Threads, IsInjective(list),
           NEW k \in 1..Len(list), list[k] = t
    PROVE  /\ Without(list, t) \in Seq(Threads) /\ IsInjective(Without(list, t))
           /\ \A u : (\E i \in 1..Len(Without(list, t)) : Without(list, t)[i] = u)
                       <=> (u # t /\ \E i \in 1..Len(list) : list[i] = u)
<1> DEFINE n == Len(list)
           A == SubSeq(list, 1, k - 1)
           B == SubSeq(list, k + 1, n)
           l == A \o B
<1>1. n \in Nat /\ DOMAIN list = 1..n /\ \A i \in 1..n : list[i] \in Threads
  BY LenProperties, ElementOfSeq
<1>2. {i \in 1..n : list[i] = t} = {k}
  BY <1>1 DEF IsInjective
<1>3. Min({k}) = k
  BY <1>1 DEF Min
<1>4. Without(list, t) = l
  BY <1>2, <1>3 DEF Without, RemoveFirst, RemoveAt, SelectInSeq
<1>5. A \in Seq(Threads) /\ Len(A) = k - 1 /\ \A i \in 1..(k - 1) : A[i] = list[i]
  <2>1. \A i \in 1..(k - 1) : list[i] \in Threads
    BY <1>1
  <2>. QED
    BY <1>1, <2>1, SubSeqProperties
<1>6. B \in Seq(Threads) /\ Len(B) = n - k /\ \A i \in 1..(n - k) : B[i] = list[k + i]
  <2>1. \A i \in (k + 1)..n : list[i] \in Threads
    BY <1>1
  <2>2. /\ B \in Seq(Threads) /\ Len(B) = IF k + 1 <= n THEN n - (k + 1) + 1 ELSE 0
        /\ \A i \in 1..(n - (k + 1) + 1) : B[i] = list[(k + 1) + i - 1]
    BY <1>1, <2>1, SubSeqProperties
  <2> HIDE DEF B
  <2>3. n - (k + 1) + 1 = n - k /\ \A i \in 1..(n - k) : (k + 1) + i - 1 = k + i
    BY <1>1
  <2>4. Len(B) = n - k
    <3> HIDE DEF n
    <3>1. k \in Nat /\ n \in Nat /\ k <= n
      BY <1>1 DEF n
    <3>. QED
      BY <2>2, <3>1
  <2>. QED
    BY <2>2, <2>3, <2>4
<1> HIDE DEF A, B
<1>7. /\ l \in Seq(Threads) /\ Len(l) = n - 1
      /\ \A i \in 1..(n - 1) : l[i] = IF i <= k - 1 THEN A[i] ELSE B[i - (k - 1)]
  <2>1. /\ l \in Seq(Threads) /\ Len(l) = Len(A) + Len(B)
        /\ \A i \in 1..(Len(A) + Len(B)) : l[i] = IF i <= Len(A) THEN A[i] ELSE B[i - Len(A)]
    BY <1>5, <1>6, ConcatProperties
  <2>2. Len(A) + Len(B) = n - 1
    BY <1>1, <1>5, <1>6
  <2>. QED
    BY <1>5, <2>1, <2>2
<1>8. \A i \in 1..(n - 1) : l[i] = IF i <= k - 1 THEN list[i] ELSE list[i + 1]
  <2> HIDE DEF l
  <2>1. ASSUME NEW i \in 1..(n - 1), i <= k - 1 PROVE l[i] = list[i]
    BY <1>1, <1>5, <1>7, <2>1
  <2>2. ASSUME NEW i \in 1..(n - 1), ~(i <= k - 1) PROVE l[i] = list[i + 1]
    <3>1. i - (k - 1) \in 1..(n - k) /\ k + (i - (k - 1)) = i + 1
      BY <1>1, <2>2
    <3>. QED
      BY <1>6, <1>7, <2>2, <3>1
  <2>. QED
    BY <2>1, <2>2
<1>9. DOMAIN l = 1..(n - 1)
  BY <1>7, LenProperties
<1> HIDE DEF l, n
<1>10. IsInjective(l)
  <2>1. \A i \in 1..(n - 1) : i \in 1..n /\ i + 1 \in 1..n
    BY <1>1
  <2> DEFINE at(i) == IF i <= k - 1 THEN i ELSE i + 1
  <2>2. \A i \in 1..(n - 1) : at(i) \in 1..n /\ l[i] = list[at(i)]
    BY <1>8, <2>1
  <2>3. \A i, j \in 1..n : list[i] = list[j] => i = j
    BY <1>1 DEF IsInjective
  <2>4. \A i, j \in 1..(n - 1) : at(i) = at(j) => i = j
    BY <1>1
  <2> HIDE DEF at
  <2>5. \A i, j \in 1..(n - 1) : l[i] = l[j] => i = j
    BY <2>2, <2>3, <2>4
  <2>. QED
    BY <1>9, <2>5 DEF IsInjective
<1>11. ASSUME NEW u
       PROVE  (\E i \in 1..(n - 1) : l[i] = u) <=> (u # t /\ \E i \in 1..n : list[i] = u)
  <2>1. ASSUME NEW i \in 1..(n - 1), l[i] = u
        PROVE  u # t /\ \E j \in 1..n : list[j] = u
    <3>1. i \in 1..n /\ i + 1 \in 1..n
      BY <1>1
    <3>2. \A j \in 1..n : list[j] = t => j = k
      BY <1>1 DEF IsInjective
    <3>. QED
      BY <1>1, <1>8, <2>1, <3>1, <3>2
  <2>2. ASSUME NEW j \in 1..n, list[j] = u, u # t
        PROVE  \E i \in 1..(n - 1) : l[i] = u
    <3>1. CASE j < k
      <4>1. j \in 1..(n - 1) /\ j <= k - 1
        BY <1>1, <3>1 DEF n
      <4>. QED
        BY <1>8, <2>2, <4>1
    <3>2. CASE j > k
      <4>1. j - 1 \in 1..(n - 1) /\ ~(j - 1 <= k - 1) /\ (j - 1) + 1 = j
        BY <1>1, <3>2
      <4>. QED
        BY <1>8, <2>2, <4>1
    <3>. QED
      BY <1>1, <2>2, <3>1, <3>2
  <2>. QED
    BY <2>1, <2>2
<1>. QED
  BY <1>4, <1>7, <1>10, <1>11 DEF n

-------------------------------------------------------------------------------
(***************************************************************************)
(* The steps.                                                              *)
(***************************************************************************)
\* A thread that moves from one place of its loop to another disturbs nothing.
LEMMA MoveKeeps ==
    ASSUME ThreadInv, NEW t \in Threads, NEW p \in Places \ {"none", "start"}, pc[t] # "none",
           pc' = [pc EXCEPT ![t] = p], OnlyPc
    PROVE  ThreadInv'
<1>1. ThreadTypes'
  BY DEF ThreadInv, ThreadTypes, OnlyPc, tcVars, wdVars, utVars
<1>2. \A u \in Threads : pc'[u] = IF u = t THEN p ELSE pc[u]
  BY DEF ThreadInv, ThreadTypes
<1>3. Lifetimes'
  BY <1>2 DEF ThreadInv, Lifetimes, OnlyPc, tcVars, wdVars, utVars
<1>4. FlagsOfCall'
  BY <1>2 DEF ThreadInv, FlagsOfCall, Calling, OnlyPc, tcVars, wdVars, utVars
<1>5. ListOfWatched' /\ SlotsKnown'
  BY DEF ThreadInv, ListOfWatched, SlotsKnown, Calling, Listed, OnlyPc, tcVars, wdVars, utVars
<1>. QED
  BY <1>1, <1>3, <1>4, <1>5 DEF ThreadInv, OnlyPc

\* The loops of the threads.
LEMMA LoopKeeps ==
    ASSUME ThreadInv, NEW t \in Threads,
           LoopStep(t) \/ Work(t) \/ Worked(t) \/ Returns(t)
    PROVE  ThreadInv'
<1>1. CASE Start(t)
  <2>1. /\ pc[t] = "start" /\ pc' = [pc EXCEPT ![t] = "test"]
        /\ flags' = [flags EXCEPT ![t] = @ \cup {"REACHED_CTL_LOOP"}]
        /\ UNCHANGED <<phase, call, tid, lives, wdVars, cnt, wdi_halt, utVars, handler>>
    BY <1>1 DEF Start, ThreadAt
  <2>2. fatal' = FALSE
    <3>1. "REACHED_CTL_LOOP" \notin flags[t]
      BY <2>1 DEF ThreadInv, FlagsOfCall
    <3>2. t = Ut => ut_started /\ tid[Ut]
      BY <2>1 DEF ThreadInv, Lifetimes
    <3>. QED
      BY <1>1, <3>1, <3>2 DEF Start, has_flag, ThreadInv
  <2>3. ThreadTypes'
    BY <2>1 DEF ThreadInv, ThreadTypes, wdVars, utVars, Places, Flags
  <2>4. \A u \in Threads : /\ pc'[u] = IF u = t THEN "test" ELSE pc[u]
                           /\ flags'[u] = IF u = t THEN flags[u] \cup {"REACHED_CTL_LOOP"} ELSE flags[u]
    BY <2>1 DEF ThreadInv, ThreadTypes
  <2>5. Lifetimes'
    BY <2>1, <2>4 DEF ThreadInv, Lifetimes, wdVars, utVars
  <2>6. call.t \in Threads
    BY DEF ThreadInv, ThreadTypes
  <2>7. FlagsOfCall'
    BY <2>1, <2>4, <2>6 DEF ThreadInv, FlagsOfCall, Calling
  <2>8. ListOfWatched'
    BY <2>1, <2>4 DEF ThreadInv, ListOfWatched, Calling, Listed, wdVars
  <2>9. SlotsKnown'
    BY <2>1 DEF ThreadInv, SlotsKnown, utVars
  <2>. QED
    BY <2>2, <2>3, <2>5, <2>7, <2>8, <2>9 DEF ThreadInv
<1>2. CASE loop_test(t)
  <2> DEFINE p == IF ~should_continue(t) THEN "done"
                  ELSE IF has_flag(t, "RUN") THEN "block" ELSE "sleep"
  <2>1. /\ pc[t] = "test" /\ pc' = [pc EXCEPT ![t] = p] /\ p \in Places \ {"none", "start"}
        /\ UNCHANGED <<phase, call, tcVars, wdVars, wdi_halt, utVars, handler, fatal>>
    BY <1>2 DEF loop_test, Places
  <2> HIDE DEF p
  <2>2. cnt' \in [Watchable -> {"zero", "same", "ahead"}]
    BY <1>2 DEF loop_test, ThreadInv, ThreadTypes
  <2>3. ThreadTypes'
    BY <2>1, <2>2 DEF ThreadInv, ThreadTypes, tcVars, wdVars, utVars
  <2>4. \A u \in Threads : pc'[u] = IF u = t THEN p ELSE pc[u]
    BY <2>1 DEF ThreadInv, ThreadTypes
  <2>5. Lifetimes'
    BY <2>1, <2>4 DEF ThreadInv, Lifetimes, tcVars, utVars
  <2>6. FlagsOfCall'
    BY <2>1, <2>4 DEF ThreadInv, FlagsOfCall, Calling, tcVars
  <2>7. ListOfWatched' /\ SlotsKnown'
    BY <2>1 DEF ThreadInv, ListOfWatched, SlotsKnown, Calling, Listed, tcVars, wdVars, utVars
  <2>. QED
    BY <2>1, <2>3, <2>5, <2>6, <2>7 DEF ThreadInv
<1>3. CASE pause(t)
  BY <1>3, MoveKeeps DEF pause, ThreadAt, Places
<1>4. CASE Block(t)
  BY <1>4, MoveKeeps DEF Block, Places
<1>5. CASE TimedOut(t)
  BY <1>5, MoveKeeps DEF TimedOut, ThreadAt, Places
<1>6. CASE Work(t)
  BY <1>6, MoveKeeps DEF Work, ThreadAt, Places
<1>7. CASE Worked(t)
  BY <1>7, MoveKeeps DEF Worked, ThreadAt, Places
<1>8. CASE Returns(t)
  BY <1>8, MoveKeeps DEF Returns, ThreadAt, Places
<1>. QED
  BY <1>1, <1>2, <1>3, <1>4, <1>5, <1>6, <1>7, <1>8 DEF LoopStep

\* The iteration of the watchdog.
LEMMA WatchdogKeeps ==
    ASSUME ThreadInv, WatchdogStep
    PROVE  ThreadInv'
<1>1. Wd \in Threads
  BY DEF Threads
<1>2. CASE WdWait
  BY <1>1, <1>2, MoveKeeps DEF WdWait, ThreadAt, Places
<1>3. CASE WdTimedOut
  BY <1>1, <1>3, MoveKeeps DEF WdTimedOut, ThreadAt, Places
<1>4. CASE watchdog_track_threads
  <2>1. /\ pc[Wd] = "track" /\ pc' = [pc EXCEPT ![Wd] = "tracked"]
        /\ UNCHANGED <<phase, call, tcVars, wdi_thread_list, wdi_halt, utVars, handler, fatal>>
    BY <1>4 DEF watchdog_track_threads, ThreadAt
  <2>2. /\ stalls' \in [Watchable -> Nat]
        /\ cnt' \in [Watchable -> {"zero", "same", "ahead"}]
    BY <1>4 DEF watchdog_track_threads, ThreadInv, ThreadTypes
  <2>3. ThreadTypes'
    BY <1>1, <2>1, <2>2 DEF ThreadInv, ThreadTypes, tcVars, utVars, Places
  <2>4. \A u \in Threads : pc'[u] = IF u = Wd THEN "tracked" ELSE pc[u]
    BY <1>1, <2>1 DEF ThreadInv, ThreadTypes
  <2>5. Lifetimes'
    BY <2>1, <2>4 DEF ThreadInv, Lifetimes, tcVars, utVars
  <2>6. FlagsOfCall'
    BY <2>1, <2>4 DEF ThreadInv, FlagsOfCall, Calling, tcVars
  <2>7. ListOfWatched' /\ SlotsKnown'
    BY <2>1 DEF ThreadInv, ListOfWatched, SlotsKnown, Calling, Listed, tcVars, utVars
  <2>. QED
    BY <2>1, <2>3, <2>5, <2>6, <2>7 DEF ThreadInv
<1>5. CASE WdNext
  BY <1>1, <1>5, MoveKeeps DEF WdNext, ThreadAt, Places
<1>. QED
  BY <1>2, <1>3, <1>4, <1>5 DEF WatchdogStep

\* The signal to the watchdog moves nobody into or out of existence.
LEMMA WokenKeeps ==
    ASSUME ThreadTypes, pc' = Woken
    PROVE  /\ pc' \in [Threads -> Places]
           /\ \A u \in Threads : /\ pc'[u] = "none" <=> pc[u] = "none"
                                 /\ pc'[u] = "start" <=> pc[u] = "start"
BY DEF ThreadTypes, Woken, Places

\* The steps of the calls that the main thread makes.
LEMMA CallKeeps ==
    ASSUME ThreadInv, CallStep
    PROVE  ThreadInv'
<1> DEFINE t == call.t
<1>1. /\ ThreadTypes /\ Lifetimes /\ FlagsOfCall /\ ListOfWatched /\ SlotsKnown /\ fatal = FALSE
      /\ t \in Threads /\ call.op \in Ops /\ call = [op |-> call.op, t |-> t]
  BY DEF ThreadInv, ThreadTypes
<1>2. \A op : [call EXCEPT !.op = op] = [op |-> op, t |-> t]
  BY <1>1 DEF ThreadTypes
<1>3. NoCall \in [op : Ops, t : Threads] /\ NoCall.op = "none"
  BY DEF NoCall, Ops, Threads
<1>4. CASE Watch
  <2>1. /\ call.op = "watch" /\ call' = [op |-> "flag", t |-> t]
        /\ wdi_thread_list' = Append(wdi_thread_list, t)
        /\ cnt' = [cnt EXCEPT ![t] = IF @ = "zero" THEN "zero" ELSE "ahead"]
        /\ stalls' = [stalls EXCEPT ![t] = 0]
        /\ pc' = Woken
        /\ UNCHANGED <<phase, tcVars, wdi_halt, utVars, handler>>
    BY <1>2, <1>4 DEF Watch, Calling, Go, watchdog_add_thread
  <2>2. "WATCHDOG" \notin flags[t] /\ ~Listed(t)
    BY <1>1, <2>1 DEF FlagsOfCall, ListOfWatched, Calling
  <2>3. /\ wdi_thread_list' \in Seq(Threads) /\ IsInjective(wdi_thread_list')
        /\ \A u : Listed(u)' <=> u = t \/ Listed(u)
    <3>1. \A i \in 1..Len(wdi_thread_list) : wdi_thread_list[i] # t
      BY <2>2 DEF Listed
    <3>2. wdi_thread_list \in Seq(Threads) /\ IsInjective(wdi_thread_list)
      BY <1>1 DEF ThreadTypes, ListOfWatched
    <3> HIDE DEF t
    <3>. QED
      BY <1>1, <2>1, <3>1, <3>2, Added DEF Listed
  <2>4. fatal' = FALSE
    BY <1>1, <1>4, <2>2 DEF Watch, has_flag
  <2>5. call' \in [op : Ops, t : Threads] /\ call'.op = "flag" /\ call'.t = t
    BY <1>1, <2>1 DEF Ops
  <2>6. /\ cnt' \in [Watchable -> {"zero", "same", "ahead"}] /\ stalls' \in [Watchable -> Nat]
    BY <1>1, <2>1 DEF ThreadTypes
  <2>7. ThreadTypes'
    BY <1>1, <2>1, <2>3, <2>5, <2>6, WokenKeeps DEF ThreadTypes, tcVars, utVars
  <2>8. Lifetimes'
    BY <1>1, <2>1, <2>5, WokenKeeps DEF Lifetimes, tcVars, utVars
  <2>9. FlagsOfCall'
    BY <1>1, <2>1, <2>5, WokenKeeps DEF FlagsOfCall, Calling, tcVars
  <2>10. ListOfWatched'
    BY <1>1, <2>1, <2>3, <2>5 DEF ListOfWatched, Calling, Lifetimes, tcVars
  <2>11. SlotsKnown'
    BY <1>1, <2>1 DEF SlotsKnown, utVars
  <2>. QED
    BY <2>4, <2>7, <2>8, <2>9, <2>10, <2>11 DEF ThreadInv
<1>5. CASE SetWatched
  <2>1. /\ call.op = "flag" /\ flags' = [flags EXCEPT ![t] = @ \cup {"WATCHDOG"}]
        /\ \/ "RUN" \in flags[t] /\ call' = NoCall
           \/ "RUN" \notin flags[t] /\ call' = [op |-> "run", t |-> t]
        /\ UNCHANGED <<phase, tid, lives, pc, wdVars, cnt, wdi_halt, utVars, handler, fatal>>
    BY <1>2, <1>5 DEF SetWatched, Calling, Go, Done, has_flag
  <2>2. /\ call' \in [op : Ops, t : Threads] /\ call'.op \in {"none", "run"}
        /\ call'.op = "run" => call'.t = t /\ "RUN" \notin flags[t]
    BY <1>1, <1>3, <2>1 DEF Ops
  <2>3. \A u \in Threads : flags'[u] = IF u = t THEN flags[u] \cup {"WATCHDOG"} ELSE flags[u]
    BY <1>1, <2>1 DEF ThreadTypes
  <2>4. ThreadTypes'
    BY <1>1, <2>1, <2>2 DEF ThreadTypes, wdVars, utVars, Flags
  <2>5. Lifetimes'
    BY <1>1, <2>1, <2>2 DEF Lifetimes, utVars
  <2>6. FlagsOfCall'
    BY <1>1, <2>1, <2>2, <2>3 DEF FlagsOfCall, Calling
  <2>7. ListOfWatched'
    <3>1. \A u : Listed(u)' <=> Listed(u)
      BY <2>1 DEF Listed, wdVars
    <3>2. IsInjective(wdi_thread_list') /\ \A u \in Threads : Listed(u) => tid'[u]
      BY <1>1, <2>1 DEF ListOfWatched, wdVars
    <3>3. \A u \in Threads : "WATCHDOG" \in flags'[u] <=> Listed(u)
      BY <1>1, <2>1, <2>3 DEF ListOfWatched, Calling
    <3>. QED
      BY <2>2, <3>1, <3>2, <3>3 DEF ListOfWatched, Calling
  <2>8. SlotsKnown'
    BY <1>1, <2>1 DEF SlotsKnown, utVars
  <2>. QED
    BY <1>1, <2>1, <2>4, <2>5, <2>6, <2>7, <2>8 DEF ThreadInv
<1>6. CASE thread_ctl_run
  <2>1. /\ call.op = "run" /\ flags' = [flags EXCEPT ![t] = @ \cup {"RUN"}]
        /\ call' = NoCall \/ call' = [op |-> "reach", t |-> t]
        /\ fatal' = (fatal \/ "RUN" \in flags[t])
        /\ UNCHANGED <<phase, tid, lives, pc, wdVars, cnt, wdi_halt, utVars, handler>>
    BY <1>2, <1>6 DEF thread_ctl_run, Calling, Go, Done, has_flag
  <2>2. /\ call' \in [op : Ops, t : Threads] /\ call'.op \in {"none", "reach"}
        /\ call'.op = "reach" => call'.t = t
    BY <1>1, <1>3, <2>1 DEF Ops
  <2>3. \A u \in Threads : flags'[u] = IF u = t THEN flags[u] \cup {"RUN"} ELSE flags[u]
    BY <1>1, <2>1 DEF ThreadTypes
  <2>4. fatal' = FALSE
    BY <1>1, <2>1 DEF FlagsOfCall, Calling
  <2>5. ThreadTypes'
    BY <1>1, <2>1, <2>2 DEF ThreadTypes, wdVars, utVars, Flags
  <2>6. Lifetimes'
    BY <1>1, <2>1, <2>2 DEF Lifetimes, utVars
  <2>7. FlagsOfCall'
    BY <1>1, <2>1, <2>2, <2>3 DEF FlagsOfCall, Calling
  <2>8. ListOfWatched'
    BY <1>1, <2>1, <2>2, <2>3 DEF ListOfWatched, Calling, Listed, wdVars
  <2>9. SlotsKnown'
    BY <1>1, <2>1 DEF SlotsKnown, utVars
  <2>. QED
    BY <2>4, <2>5, <2>6, <2>7, <2>8, <2>9 DEF ThreadInv
<1>7. CASE wait_until_ctl_loop_reached
  <2>1. /\ call.op = "reach" /\ call' = NoCall
        /\ UNCHANGED <<phase, tcVars, pc, wdVars, cnt, wdi_halt, utVars, handler, fatal>>
    BY <1>7 DEF wait_until_ctl_loop_reached, Calling, Done
  <2>2. call' \in [op : Ops, t : Threads] /\ call'.op = "none"
    BY <1>3, <2>1
  <2>3. ThreadTypes'
    BY <1>1, <2>1, <2>2 DEF ThreadTypes, tcVars, wdVars, utVars
  <2>4. Lifetimes' /\ FlagsOfCall'
    BY <1>1, <2>1, <2>2 DEF Lifetimes, FlagsOfCall, Calling, tcVars, utVars
  <2>5. ListOfWatched' /\ SlotsKnown'
    BY <1>1, <2>1, <2>2 DEF ListOfWatched, SlotsKnown, Calling, Listed, tcVars, wdVars, utVars
  <2>. QED
    BY <1>1, <2>1, <2>3, <2>4, <2>5 DEF ThreadInv
<1>8. CASE thread_ctl_halt
  <2>1. /\ call.op = "halt" /\ flags' = [flags EXCEPT ![t] = @ \cup {"HALT"}]
        /\ call' = [op |-> "unwatch", t |-> t]
        /\ fatal' = (fatal \/ "HALT" \in flags[t])
        /\ UNCHANGED <<phase, tid, lives, pc, wdVars, cnt, wdi_halt, utVars, handler>>
    BY <1>2, <1>8 DEF thread_ctl_halt, Calling, Go, has_flag
  <2>2. call' \in [op : Ops, t : Threads] /\ call'.op = "unwatch" /\ call'.t = t
    BY <1>1, <2>1 DEF Ops
  <2>3. \A u \in Threads : flags'[u] = IF u = t THEN flags[u] \cup {"HALT"} ELSE flags[u]
    BY <1>1, <2>1 DEF ThreadTypes
  <2>4. fatal' = FALSE
    BY <1>1, <2>1 DEF FlagsOfCall, Lifetimes
  <2>5. ThreadTypes'
    BY <1>1, <2>1, <2>2 DEF ThreadTypes, wdVars, utVars, Flags
  <2>6. Lifetimes'
    BY <1>1, <2>1, <2>2 DEF Lifetimes, utVars
  <2>7. FlagsOfCall'
    BY <1>1, <2>1, <2>2, <2>3 DEF FlagsOfCall, Calling
  <2>8. ListOfWatched'
    BY <1>1, <2>1, <2>2, <2>3 DEF ListOfWatched, Calling, Listed, wdVars
  <2>9. SlotsKnown'
    BY <1>1, <2>1 DEF SlotsKnown, utVars
  <2>. QED
    BY <2>4, <2>5, <2>6, <2>7, <2>8, <2>9 DEF ThreadInv
<1>9. CASE remove_from_watchdog
  <2>1. /\ call.op = "unwatch"
        /\ UNCHANGED <<phase, tcVars, stalls, cnt, wdi_halt, utVars, handler>>
    BY <1>9 DEF remove_from_watchdog, Calling
  <2>2. "WATCHDOG" \in flags[t] <=> Listed(t)
    BY <1>1, <2>1 DEF ListOfWatched
  <2>3. CASE "WATCHDOG" \in flags[t]
    <3>1. /\ wdi_thread_list' = Without(wdi_thread_list, t) /\ pc' = Woken
          /\ fatal' = (fatal \/ ~Listed(t)) /\ call' = [op |-> "unflag", t |-> t]
      BY <1>2, <1>9, <2>3 DEF remove_from_watchdog, watchdog_remove_thread, Go, has_flag
    <3>2. call' \in [op : Ops, t : Threads] /\ call'.op = "unflag" /\ call'.t = t
      BY <1>1, <3>1 DEF Ops
    <3>3. /\ wdi_thread_list' \in Seq(Threads) /\ IsInjective(wdi_thread_list')
          /\ \A u : Listed(u)' <=> u # t /\ Listed(u)
      <4>1. PICK k \in 1..Len(wdi_thread_list) : wdi_thread_list[k] = t
        BY <2>2, <2>3 DEF Listed
      <4>2. wdi_thread_list \in Seq(Threads) /\ IsInjective(wdi_thread_list)
        BY <1>1 DEF ThreadTypes, ListOfWatched
      <4> HIDE DEF t
      <4>3. /\ Without(wdi_thread_list, t) \in Seq(Threads)
            /\ IsInjective(Without(wdi_thread_list, t))
            /\ \A u : (\E i \in 1..Len(Without(wdi_thread_list, t)) :
                         Without(wdi_thread_list, t)[i] = u)
                       <=> (u # t /\ Listed(u))
        BY <1>1, <4>1, <4>2, Removed DEF Listed
      <4>. QED
        BY <3>1, <4>3 DEF Listed
    <3>4. fatal' = FALSE
      BY <1>1, <2>2, <2>3, <3>1
    <3>5. ThreadTypes'
      BY <1>1, <2>1, <3>1, <3>2, <3>3, WokenKeeps DEF ThreadTypes, tcVars, utVars
    <3>6. Lifetimes'
      BY <1>1, <2>1, <3>1, <3>2, WokenKeeps DEF Lifetimes, tcVars, utVars
    <3>7. FlagsOfCall'
      BY <1>1, <2>1, <3>1, <3>2, WokenKeeps DEF FlagsOfCall, Calling, tcVars
    <3>8. ListOfWatched'
      BY <1>1, <2>1, <3>2, <3>3 DEF ListOfWatched, Calling, tcVars
    <3>9. SlotsKnown'
      BY <1>1, <2>1 DEF SlotsKnown, utVars
    <3>. QED
      BY <3>4, <3>5, <3>6, <3>7, <3>8, <3>9 DEF ThreadInv
  <2>4. CASE "WATCHDOG" \notin flags[t]
    <3>1. call' = [op |-> "broadcast", t |-> t] /\ UNCHANGED <<wdi_thread_list, pc, fatal>>
      BY <1>2, <1>9, <2>4 DEF remove_from_watchdog, Go, has_flag
    <3>2. call' \in [op : Ops, t : Threads] /\ call'.op = "broadcast" /\ call'.t = t
      BY <1>1, <3>1 DEF Ops
    <3>3. ThreadTypes'
      BY <1>1, <2>1, <3>1, <3>2 DEF ThreadTypes, tcVars, utVars
    <3>4. Lifetimes' /\ FlagsOfCall'
      BY <1>1, <2>1, <2>4, <3>1, <3>2 DEF Lifetimes, FlagsOfCall, Calling, tcVars, utVars
    <3>5. ListOfWatched' /\ SlotsKnown'
      BY <1>1, <2>1, <3>1, <3>2 DEF ListOfWatched, SlotsKnown, Calling, Listed, tcVars, utVars
    <3>. QED
      BY <1>1, <3>1, <3>3, <3>4, <3>5 DEF ThreadInv
  <2>. QED
    BY <2>3, <2>4
<1>10. CASE UnsetWatched
  <2>1. /\ call.op = "unflag" /\ flags' = [flags EXCEPT ![t] = @ \ {"WATCHDOG"}]
        /\ call' = [op |-> "broadcast", t |-> t]
        /\ UNCHANGED <<phase, tid, lives, pc, wdVars, cnt, wdi_halt, utVars, handler, fatal>>
    BY <1>2, <1>10 DEF UnsetWatched, Calling, Go
  <2>2. call' \in [op : Ops, t : Threads] /\ call'.op = "broadcast" /\ call'.t = t
    BY <1>1, <2>1 DEF Ops
  <2>3. \A u \in Threads : flags'[u] = IF u = t THEN flags[u] \ {"WATCHDOG"} ELSE flags[u]
    BY <1>1, <2>1 DEF ThreadTypes
  <2>4. ThreadTypes'
    BY <1>1, <2>1, <2>2 DEF ThreadTypes, wdVars, utVars
  <2>5. Lifetimes'
    BY <1>1, <2>1, <2>2 DEF Lifetimes, utVars
  <2>6. FlagsOfCall'
    BY <1>1, <2>1, <2>2, <2>3 DEF FlagsOfCall, Calling
  <2>7. ListOfWatched'
    BY SMTT(30), <1>1, <2>1, <2>2, <2>3 DEF ListOfWatched, Calling, Listed, wdVars
  <2>8. SlotsKnown'
    BY <1>1, <2>1 DEF SlotsKnown, utVars
  <2>. QED
    BY <1>1, <2>1, <2>4, <2>5, <2>6, <2>7, <2>8 DEF ThreadInv
<1>11. CASE Broadcast \/ Kill
  <2>1. PICK p : pc' = [pc EXCEPT ![t] = p] /\ (p = BroadcastTo(t) \/ p = Interrupted(t))
    BY <1>11 DEF Broadcast, Kill
  <2>2. /\ call.op \in {"broadcast", "kill"}
        /\ call' = [op |-> "kill", t |-> t] \/ call' = [op |-> "join", t |-> t]
        /\ UNCHANGED <<phase, tcVars, wdVars, cnt, wdi_halt, utVars, handler>>
    BY <1>2, <1>11 DEF Broadcast, Kill, Calling, Go
  <2>3. call' \in [op : Ops, t : Threads] /\ call'.op \in {"kill", "join"} /\ call'.t = t
    BY <1>1, <2>2 DEF Ops
  <2>4. pc[t] # "none" /\ handler
    BY <1>1, <2>2 DEF Lifetimes
  <2>5. fatal' = FALSE
    BY <1>1, <1>11, <2>4 DEF Broadcast, Kill
  <2>6. p \in Places /\ p # "none" /\ (p = "start" <=> pc[t] = "start")
    BY <1>1, <2>1, <2>4 DEF BroadcastTo, Interrupted, ThreadTypes, Places
  <2>7. \A u \in Threads : pc'[u] = IF u = t THEN p ELSE pc[u]
    BY <1>1, <2>1 DEF ThreadTypes
  <2>8. ThreadTypes'
    BY <1>1, <2>1, <2>2, <2>3, <2>6 DEF ThreadTypes, tcVars, wdVars, utVars
  <2>9. Lifetimes'
    BY <1>1, <2>2, <2>3, <2>4, <2>6, <2>7 DEF Lifetimes, tcVars, utVars
  <2>10. FlagsOfCall'
    BY <1>1, <2>2, <2>3, <2>6, <2>7 DEF FlagsOfCall, Calling, tcVars
  <2>11. ListOfWatched' /\ SlotsKnown'
    BY <1>1, <2>2, <2>3 DEF ListOfWatched, SlotsKnown, Calling, Listed, tcVars, wdVars, utVars
  <2>. QED
    BY <2>5, <2>8, <2>9, <2>10, <2>11 DEF ThreadInv
<1>12. CASE Join
  <2>1. /\ call.op = "join" /\ pc[t] = "done" /\ pc' = [pc EXCEPT ![t] = "none"]
        /\ tid' = [tid EXCEPT ![t] = FALSE] /\ call' = NoCall
        /\ UNCHANGED <<phase, flags, lives, wdVars, cnt, wdi_halt, utVars, handler, fatal>>
    BY <1>12 DEF Join, Calling, ThreadAt, Done
  <2>2. call' \in [op : Ops, t : Threads] /\ call'.op = "none"
    BY <1>3, <2>1
  <2>3. ~Listed(t)
    BY <1>1, <2>1 DEF FlagsOfCall, ListOfWatched
  <2>4. /\ pc'[t] = "none" /\ ~tid'[t]
        /\ \A u \in Threads : u # t => pc'[u] = pc[u] /\ tid'[u] = tid[u]
    BY <1>1, <2>1 DEF ThreadTypes
  <2>5. ThreadTypes'
    BY <1>1, <2>1, <2>2 DEF ThreadTypes, wdVars, utVars, Places
  <2>6. Lifetimes'
    <3>1. Wd \in Threads /\ Ut \in Threads
      BY DEF Threads, Watchable
    <3>. QED
      BY <1>1, <2>1, <2>2, <2>4, <3>1 DEF Lifetimes, utVars
  <2>7. FlagsOfCall'
    BY <1>1, <2>1, <2>2, <2>4 DEF FlagsOfCall, Calling
  <2>8. ListOfWatched'
    BY <1>1, <2>1, <2>2, <2>3, <2>4 DEF ListOfWatched, Calling, Listed, wdVars
  <2>9. SlotsKnown'
    BY <1>1, <2>1 DEF SlotsKnown, utVars
  <2>. QED
    BY <1>1, <2>1, <2>5, <2>6, <2>7, <2>8, <2>9 DEF ThreadInv
<1>. QED
  BY <1>4, <1>5, <1>6, <1>7, <1>8, <1>9, <1>10, <1>11, <1>12 DEF CallStep

\* thread_create() of a thread that does not exist.
LEMMA CreateKeeps ==
    ASSUME ThreadInv, NEW t \in Threads, NEW watched \in BOOLEAN, ~tid[t], call.op = "none",
           phase' \in Phases, phase' # "watchdog", phase = "watchdog" => ~watched,
           t = Wd \/ phase # "watchdog",
           t = Ut => phase' \notin {"watchdog", "sources"},
           phase' \in {"watchdog", "sources"} => phase \in {"watchdog", "sources"},
           ut_started' \in BOOLEAN, ut_started' <=> phase' \notin {"watchdog", "sources"},
           slots' \in Seq({"stored", "installed", "removed"}), SlotsKnown',
           thread_create(t, watched)
    PROVE  ThreadInv'
<1>1. /\ ThreadTypes /\ Lifetimes /\ FlagsOfCall /\ ListOfWatched /\ SlotsKnown /\ fatal = FALSE
  BY DEF ThreadInv
<1>2. /\ flags' = [flags EXCEPT ![t] = {}] /\ tid' = [tid EXCEPT ![t] = TRUE]
      /\ pc' = [pc EXCEPT ![t] = "start"] /\ lives' = [lives EXCEPT ![t] = @ + 1]
      /\ call' = [op |-> IF watched THEN "watch" ELSE "run", t |-> t]
      /\ handler' = (handler \/ ~watched)
      /\ UNCHANGED <<wdi_thread_list, wdi_halt, fatal>>
  BY DEF thread_create
<1>3. cnt' \in [Watchable -> {"zero", "same", "ahead"}] /\ stalls' \in [Watchable -> Nat]
  <2>1. /\ cnt' = cnt \/ cnt' = [cnt EXCEPT ![t] = "zero"]
        /\ stalls' = stalls \/ stalls' = [stalls EXCEPT ![t] = 0]
    BY DEF thread_create
  <2>2. cnt \in [Watchable -> {"zero", "same", "ahead"}] /\ stalls \in [Watchable -> Nat]
    BY <1>1 DEF ThreadTypes
  <2>3. cnt' \in [Watchable -> {"zero", "same", "ahead"}]
    BY <2>1, <2>2
  <2>4. stalls' \in [Watchable -> Nat]
    BY <2>1, <2>2
  <2>. QED
    BY <2>3, <2>4
<1>4. call' \in [op : Ops, t : Threads] /\ call'.op \in {"watch", "run"} /\ call'.t = t
  BY <1>2 DEF Ops
<1>5. /\ flags'[t] = {} /\ tid'[t] = TRUE /\ pc'[t] = "start"
      /\ \A u \in Threads : u # t => flags'[u] = flags[u] /\ tid'[u] = tid[u] /\ pc'[u] = pc[u]
  BY <1>1, <1>2 DEF ThreadTypes
<1>6. /\ flags' \in [Threads -> SUBSET Flags] /\ tid' \in [Threads -> BOOLEAN]
      /\ pc' \in [Threads -> Places] /\ lives' \in [Threads -> Nat]
  BY <1>1, <1>2 DEF ThreadTypes, Places
<1>7. handler' = TRUE
  BY <1>1, <1>2 DEF Lifetimes, ThreadTypes
<1>8. ThreadTypes'
  BY <1>1, <1>2, <1>3, <1>4, <1>6, <1>7 DEF ThreadTypes
<1>9. Lifetimes'
  <2>1. \A u \in Threads : tid'[u] <=> pc'[u] # "none"
    BY <1>1, <1>5 DEF Lifetimes
  <2>2. phase' \in {"watchdog", "sources"} => ~tid'[Ut]
    <3>1. Ut \in Threads
      BY DEF Threads, Watchable
    <3>. QED
      BY <1>1, <1>5, <3>1 DEF Lifetimes
  <2>. QED
    BY <1>4, <1>5, <1>7, <2>1, <2>2 DEF Lifetimes
<1>10. FlagsOfCall'
  <2>1. \A u \in Threads : pc'[u] = "start" => "REACHED_CTL_LOOP" \notin flags'[u]
    BY <1>1, <1>5 DEF FlagsOfCall
  <2>2. \A u \in Threads : tid'[u] => "HALT" \notin flags'[u]
    BY <1>1, <1>5 DEF FlagsOfCall
  <2>. QED
    BY <1>4, <1>5, <2>1, <2>2 DEF FlagsOfCall, Calling
<1>11. ListOfWatched'
  <2>1. \A u : Listed(u)' <=> Listed(u)
    BY <1>2 DEF Listed
  <2>2. ~Listed(t)
    BY <1>1 DEF ListOfWatched
  <2>3. IsInjective(wdi_thread_list') /\ \A u \in Threads : Listed(u) => tid'[u]
    BY <1>1, <1>2, <1>5 DEF ListOfWatched
  <2>4. \A u \in Threads : "WATCHDOG" \in flags'[u] <=> Listed(u)
    BY <1>1, <1>5, <2>2 DEF ListOfWatched
  <2>. QED
    BY <1>4, <2>1, <2>3, <2>4 DEF ListOfWatched, Calling
<1>. QED
  BY <1>1, <1>2, <1>8, <1>9, <1>10, <1>11 DEF ThreadInv

\* A call of the main thread begins.
LEMMA RequestKeeps ==
    ASSUME ThreadInv, NEW t \in Threads, NEW atPhase \in Phases \ {"watchdog"},
           NEW op \in {"watch", "halt"}, op = "watch" => "WATCHDOG" \notin flags[t],
           Request(t, op, atPhase)
    PROVE  ThreadInv'
<1>1. /\ ThreadTypes /\ Lifetimes /\ FlagsOfCall /\ ListOfWatched /\ SlotsKnown /\ fatal = FALSE
  BY DEF ThreadInv
<1>2. /\ call.op = "none" /\ phase = atPhase /\ tid[t] /\ call' = [op |-> op, t |-> t]
      /\ UNCHANGED <<phase, tcVars, pc, wdVars, cnt, wdi_halt, utVars, handler, fatal>>
  BY DEF Request, UnlessCalled
<1>3. call' \in [op : Ops, t : Threads] /\ call'.op = op /\ call'.t = t
  BY <1>2 DEF Ops
<1>4. ThreadTypes'
  BY <1>1, <1>2, <1>3 DEF ThreadTypes, tcVars, wdVars, utVars
<1>5. Lifetimes'
  BY <1>1, <1>2, <1>3 DEF Lifetimes, tcVars, utVars
<1>6. FlagsOfCall'
  BY <1>1, <1>2, <1>3 DEF FlagsOfCall, Calling, tcVars
<1>7. ListOfWatched' /\ SlotsKnown'
  BY <1>1, <1>2, <1>3 DEF ListOfWatched, SlotsKnown, Calling, Listed, tcVars, wdVars, utVars
<1>. QED
  BY <1>1, <1>2, <1>4, <1>5, <1>6, <1>7 DEF ThreadInv

\* The constructors, main() and the destructors.
LEMMA MainKeeps ==
    ASSUME ThreadInv, MainStep
    PROVE  ThreadInv'
<1>1. /\ ThreadTypes /\ Lifetimes /\ FlagsOfCall /\ ListOfWatched /\ SlotsKnown /\ fatal = FALSE
      /\ Wd \in Threads /\ Ut \in Threads /\ Workers \subseteq Threads
      /\ Wd # Ut /\ Wd \notin Workers /\ Ut \notin Workers
  BY ThreadCtlAssumption DEF ThreadInv, Threads, Watchable
<1>2. CASE watchdog_subsystem_init
  <2>1. /\ call.op = "none" /\ phase = "watchdog" /\ phase' = "sources"
        /\ thread_create(Wd, FALSE) /\ UNCHANGED <<slots, ut_started>>
    BY <1>2 DEF watchdog_subsystem_init, Phase, UnlessCalled, utVars
  <2>2. SlotsKnown'
    BY <1>1, <2>1 DEF SlotsKnown
  <2>. QED
    BY <1>1, <2>1, <2>2, CreateKeeps DEF Phases, ThreadTypes, Lifetimes
<1>3. CASE util_thread_subsystem_init
  <2>1. /\ call.op = "none" /\ phase = "sources" /\ phase' = "util"
        /\ thread_create(Ut, TRUE) /\ ut_started' = TRUE /\ slots' = AllAdded
    BY <1>3 DEF util_thread_subsystem_init, Phase, UnlessCalled
  <2>2. /\ slots' \in Seq({"stored", "installed", "removed"})
        /\ \A i \in DOMAIN slots' : slots'[i] = "installed"
    BY <1>1, <2>1, LenProperties DEF AllAdded, ThreadTypes
  <2>3. SlotsKnown'
    BY <2>1, <2>2 DEF SlotsKnown
  <2>. QED
    BY <1>1, <2>1, <2>2, <2>3, CreateKeeps DEF Phases, ThreadTypes, Lifetimes
<1>4. CASE init_complete \/ destroy_start \/ destroy_complete
  <2>1. /\ call.op = "none" /\ phase \in {"util", "main", "watchdog_destroy"}
        /\ \/ phase = "util" /\ phase' = "main"
           \/ phase = "main" /\ phase' = "util_destroy"
           \/ phase = "watchdog_destroy" /\ phase' = "end"
        /\ UNCHANGED <<call, tcVars, pc, wdVars, cnt, wdi_halt, utVars, handler, fatal>>
    BY <1>4 DEF init_complete, destroy_start, destroy_complete, Phase, UnlessCalled
  <2>2. ThreadTypes'
    BY <1>1, <2>1 DEF ThreadTypes, Phases, tcVars, wdVars, utVars
  <2>3. Lifetimes' /\ FlagsOfCall'
    BY <1>1, <2>1 DEF Lifetimes, FlagsOfCall, Calling, tcVars, utVars
  <2>4. ListOfWatched' /\ SlotsKnown'
    BY <1>1, <2>1 DEF ListOfWatched, SlotsKnown, Calling, Listed, tcVars, wdVars, utVars
  <2>. QED
    BY <1>1, <2>1, <2>2, <2>3, <2>4 DEF ThreadInv
<1>5. ASSUME NEW t \in Workers, NEW watched \in BOOLEAN, CreateWorker(t, watched) PROVE ThreadInv'
  <2>1. /\ call.op = "none" /\ phase = "main" /\ ~tid[t] /\ thread_create(t, watched)
        /\ UNCHANGED <<phase, slots, ut_started>>
    BY <1>5 DEF CreateWorker, UnlessCalled, utVars
  <2>2. SlotsKnown'
    BY <1>1, <2>1 DEF SlotsKnown
  <2>. QED
    BY <1>1, <2>1, <2>2, CreateKeeps DEF Phases, ThreadTypes, Lifetimes
<1>6. ASSUME NEW t \in Workers, thread_ctl_monitor_via_watchdog(t) PROVE ThreadInv'
  BY <1>1, <1>6, RequestKeeps DEF thread_ctl_monitor_via_watchdog, has_flag, Phases
<1>7. ASSUME NEW t \in Workers, HaltWorker(t) PROVE ThreadInv'
  BY <1>1, <1>7, RequestKeeps DEF HaltWorker, Phases
<1>8. ASSUME NEW t \in Workers, thread_join(t) PROVE ThreadInv'
  <2>1. /\ call.op = "none" /\ phase = "main" /\ "WATCHDOG" \notin flags[t]
        /\ pc[t] = "done" /\ pc' = [pc EXCEPT ![t] = "none"] /\ tid' = [tid EXCEPT ![t] = FALSE]
        /\ UNCHANGED <<phase, call, flags, lives, wdVars, cnt, wdi_halt, utVars, handler, fatal>>
    BY <1>8 DEF thread_join, UnlessCalled, has_flag, ThreadAt
  <2>2. t \in Threads /\ ~Listed(t)
    BY <1>1, <2>1 DEF ListOfWatched
  <2>3. /\ pc'[t] = "none" /\ ~tid'[t]
        /\ \A u \in Threads : u # t => pc'[u] = pc[u] /\ tid'[u] = tid[u]
    BY <1>1, <2>1, <2>2 DEF ThreadTypes
  <2>4. ThreadTypes'
    BY <1>1, <2>1, <2>2 DEF ThreadTypes, wdVars, utVars, Places
  <2>5. Lifetimes'
    BY <1>1, <2>1, <2>3 DEF Lifetimes, utVars
  <2>6. FlagsOfCall'
    BY <1>1, <2>1, <2>3 DEF FlagsOfCall, Calling
  <2>7. ListOfWatched'
    BY <1>1, <2>1, <2>2, <2>3 DEF ListOfWatched, Calling, Listed, wdVars
  <2>8. SlotsKnown'
    BY <1>1, <2>1 DEF SlotsKnown, utVars
  <2>. QED
    BY <1>1, <2>1, <2>4, <2>5, <2>6, <2>7, <2>8 DEF ThreadInv
<1>9. ASSUME slots' \in Seq({"stored", "installed", "removed"}), SlotsKnown',
             UNCHANGED <<phase, call, tcVars, pc, wdVars, cnt, wdi_halt, ut_started, handler, fatal>>
      PROVE  ThreadInv'
  <2>1. ThreadTypes'
    BY <1>1, <1>9 DEF ThreadTypes, tcVars, wdVars
  <2>2. Lifetimes' /\ FlagsOfCall'
    BY <1>1, <1>9 DEF Lifetimes, FlagsOfCall, Calling, tcVars
  <2>3. ListOfWatched'
    BY <1>1, <1>9 DEF ListOfWatched, Calling, Listed, tcVars, wdVars
  <2>. QED
    BY <1>1, <1>9, <2>1, <2>2, <2>3 DEF ThreadInv
<1>10. CASE util_thread_install_event_src
  <2> DEFINE e == IF ut_started THEN "installed" ELSE "stored"
  <2>1. phase \in {"sources", "main"} /\ slots' = Append(slots, e)
    BY <1>10 DEF util_thread_install_event_src
  <2>2. e \in {"stored", "installed", "removed"} /\ (ut_started => e # "stored")
    OBVIOUS
  <2> HIDE DEF e
  <2>3. /\ slots' \in Seq({"stored", "installed", "removed"})
        /\ \A i \in DOMAIN slots' : (i \in DOMAIN slots /\ slots'[i] = slots[i]) \/ slots'[i] = e
    BY <1>1, <2>1, <2>2, LenProperties DEF ThreadTypes
  <2>4. UNCHANGED <<phase, call, tcVars, pc, wdVars, cnt, wdi_halt, ut_started, handler, fatal>>
    BY <1>10 DEF util_thread_install_event_src
  <2>5. SlotsKnown'
    BY <1>1, <2>1, <2>2, <2>3, <2>4 DEF SlotsKnown
  <2>. QED
    BY <1>9, <2>3, <2>4, <2>5
<1>11. ASSUME NEW i \in DOMAIN slots, util_thread_remove_event_src(i) PROVE ThreadInv'
  <2>1. slots' = [slots EXCEPT ![i] = "removed"]
    BY <1>11 DEF util_thread_remove_event_src
  <2>2. /\ slots' \in Seq({"stored", "installed", "removed"})
        /\ \A j \in DOMAIN slots' : j \in DOMAIN slots /\ slots'[j] \in {slots[j], "removed"}
    BY <1>1, <2>1, LenProperties, ExceptSeq DEF ThreadTypes
  <2>3. UNCHANGED <<phase, call, tcVars, pc, wdVars, cnt, wdi_halt, ut_started, handler, fatal>>
    BY <1>11 DEF util_thread_remove_event_src
  <2>4. SlotsKnown'
    BY <1>1, <2>2, <2>3 DEF SlotsKnown
  <2>. QED
    BY <1>9, <2>2, <2>3, <2>4
<1>12. CASE HaltUt
  BY <1>1, <1>12, RequestKeeps DEF HaltUt, Phases
<1>13. CASE util_thread_subsystem_destroy
  <2>1. /\ call.op = "none" /\ phase = "util_destroy" /\ phase' = "watchdog_destroy" /\ ~tid[Ut]
        /\ slots' = AllRemoved /\ wdi_halt' = TRUE /\ pc' = Woken
        /\ UNCHANGED <<call, tcVars, wdVars, cnt, ut_started, handler, fatal>>
    BY <1>13 DEF util_thread_subsystem_destroy, Phase, UnlessCalled
  <2>2. /\ slots' \in Seq({"stored", "installed", "removed"})
        /\ \A i \in DOMAIN slots' : slots'[i] = "removed"
    BY <1>1, <2>1, LenProperties DEF AllRemoved, ThreadTypes
  <2>3. ThreadTypes'
    BY <1>1, <2>1, <2>2, WokenKeeps DEF ThreadTypes, Phases, tcVars, wdVars
  <2>4. Lifetimes' /\ FlagsOfCall'
    BY <1>1, <2>1, WokenKeeps DEF Lifetimes, FlagsOfCall, Calling, tcVars
  <2>5. ListOfWatched' /\ SlotsKnown'
    BY <1>1, <2>1, <2>2 DEF ListOfWatched, SlotsKnown, Calling, Listed, tcVars, wdVars
  <2>. QED
    BY <1>1, <2>1, <2>3, <2>4, <2>5 DEF ThreadInv
<1>14. CASE HaltWd
  BY <1>1, <1>14, RequestKeeps DEF HaltWd, Phases
<1>. QED
  BY <1>2, <1>3, <1>4, <1>5, <1>6, <1>7, <1>8, <1>10, <1>11, <1>12, <1>13, <1>14 DEF MainStep
-------------------------------------------------------------------------------
\* The invariant holds in every state, for every number of workers.
LEMMA ThreadInvariant == ThreadSpec => []ThreadInv
<1>1. ThreadInit => ThreadInv
  <2> SUFFICES ASSUME ThreadInit PROVE ThreadInv
    OBVIOUS
  <2>1. Wd \in Threads /\ Ut \in Threads /\ \A t : ~Listed(t)
    BY DEF ThreadInit, Threads, Watchable, Listed
  <2>2. call \in [op : Ops, t : Threads] /\ call.op = "none"
    BY <2>1 DEF ThreadInit, NoCall, Ops
  <2>3. wdi_thread_list \in Seq(Threads) /\ slots \in Seq({"stored", "installed", "removed"})
    BY EmptySeq DEF ThreadInit
  <2>4. ThreadTypes
    BY <2>1, <2>2, <2>3 DEF ThreadInit, ThreadTypes, Phases, Places
  <2>5. Lifetimes /\ FlagsOfCall
    BY <2>1, <2>2 DEF ThreadInit, Lifetimes, FlagsOfCall, Calling
  <2>6. ListOfWatched /\ SlotsKnown
    BY <2>1, <2>2 DEF ThreadInit, ListOfWatched, SlotsKnown, Calling, IsInjective
  <2>. QED
    BY <2>4, <2>5, <2>6 DEF ThreadInit, ThreadInv
<1>2. ThreadInv /\ [ThreadNext]_threadVars => ThreadInv'
  <2>1. ASSUME ThreadInv, UNCHANGED threadVars PROVE ThreadInv'
    BY <2>1 DEF threadVars, tcVars, wdVars, utVars, ThreadInv, ThreadTypes, Lifetimes,
                FlagsOfCall, ListOfWatched, SlotsKnown, Calling, Listed
  <2>. QED
    BY <2>1, LoopKeeps, WatchdogKeeps, CallKeeps, MainKeeps DEF ThreadNext
<1>. QED
  BY <1>1, <1>2, PTL DEF ThreadSpec

\* The watchdog walks only threads that exist, each once; the flag of a thread
\* says whether it is on the list; and no assertion of thread.c, watchdog.c and
\* util_thread.c about these fails, whenever threads are created, watched,
\* halted and joined.
THEOREM WatchedAlive == ThreadSpec => []WatchedIsAlive
<1>1. ThreadInv => WatchedIsAlive
  <2> SUFFICES ASSUME ThreadInv PROVE WatchedIsAlive
    OBVIOUS
  <2>1. ~fatal /\ phase \in Phases
    BY DEF ThreadInv, ThreadTypes
  <2>2. ASSUME NEW t \in Threads, Listed(t)
        PROVE  Cardinality({i \in DOMAIN wdi_thread_list : wdi_thread_list[i] = t}) = 1
    <3>1. DOMAIN wdi_thread_list = 1..Len(wdi_thread_list) /\ IsInjective(wdi_thread_list)
      BY LenProperties DEF ThreadInv, ThreadTypes, ListOfWatched
    <3>2. PICK k \in DOMAIN wdi_thread_list : wdi_thread_list[k] = t
      BY <2>2, <3>1 DEF Listed
    <3>3. {i \in DOMAIN wdi_thread_list : wdi_thread_list[i] = t} = {k}
      BY <3>1, <3>2 DEF IsInjective
    <3>. QED
      BY <3>3, FS_Singleton
  <2>. QED
    BY <2>1, <2>2 DEF WatchedIsAlive, ThreadInv, ListOfWatched, has_flag
<1>. QED
  BY <1>1, ThreadInvariant, PTL

\* Every event source that util_thread_install_event_src() accepted is known to
\* epoll as soon as the utility thread exists, and none is left when it is gone.
THEOREM AcceptedPolled == ThreadSpec => []AcceptedIsPolled
<1>1. ThreadInv => AcceptedIsPolled
  <2>1. Ut \in Threads
    BY DEF Threads, Watchable
  <2>. QED
    BY <2>1 DEF ThreadInv, SlotsKnown, Lifetimes, AcceptedIsPolled
<1>. QED
  BY <1>1, ThreadInvariant, PTL
================================================================================
