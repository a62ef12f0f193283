------------------------------ MODULE FaultInject ------------------------------
(***************************************************************************)
(* Fault injection (src/src/fault_inject.c, src/src/include/fault_         *)
(* inject.h) in a build that enables it.  Threads pass through the macro   *)
(* FAULT_INJECT at its call sites, each with a stub that the first thread  *)
(* resolves; the registry thread writes "enabled" and "num_remaining"; an  *)
(* application installs sets of injections.                                *)
(*                                                                         *)
(* An injection is <<set, id>>.  Deciding whether it fires and writing     *)
(* down that it did are two steps, since nothing keeps two threads, or a   *)
(* thread and the registry, from being inside of it at once; `raced` holds *)
(* the injections where that has happened.                                 *)
(***************************************************************************)
EXTENDS Integers, Sequences, FiniteSets

CONSTANTS
    FaultUsers,    \* threads
    FaultSites,    \* call sites: [site, id]
    FaultTable,    \* the sets: from a name to a sequence of [when, freq, enabled]
    CoreSet,       \* coreFaultInjections
    MaxSets,       \* FAULT_INJECTION_SET_MAX
    CounterSpan,   \* 2^32: flti_num_remaining wraps here
    MaxFaultOps,   \* bound: entries, writes of the registry and installations
    MaxSeconds     \* bound: how long the clock runs

Whens == {"one_time_only", "every_time", "per_freq_in_seconds",
          "fixed_number_of_times", "every_time_unless_bypassed"}

\* A call site names an injection by its number; a set that an application puts
\* in the place of the first one has an injection for each of them.
ASSUME FaultAssumption ==
    /\ CounterSpan \in Nat \ {0}
    /\ FaultSites \subseteq [site : Nat, id : Nat]
    /\ CoreSet \in DOMAIN FaultTable
    /\ \A s \in DOMAIN FaultTable :
         /\ FaultTable[s] \in Seq([when : Whens, freq : Nat, enabled : BOOLEAN])
         /\ \A site \in FaultSites : site.id \in DOMAIN FaultTable[s]

VARIABLES
    faultSets,     \* faultInjectionSets
    fis,           \* the stub of each site: [atomic, flti]
    flti,          \* the injections
    user,          \* what each thread does: [at, site, fire, use]
    now,           \* niova_realtime_coarse_clock_get_sec()
    faultOps,      \* entries, writes and installations so far
    flthist,       \* history of each injection: [left, uses, fires, enables]
    raced, faultAbort

faultVars == <<faultSets, fis, flti, user, now, faultOps, flthist, raced, faultAbort>>

NoFault == <<>>
Injections == UNION {{<<s, i>> : i \in DOMAIN FaultTable[s]} : s \in DOMAIN FaultTable}
NotIn == [at |-> "out", site |-> 0, fire |-> FALSE, use |-> FALSE]

FaultInit ==
    /\ faultSets = <<CoreSet>>
    /\ fis = [s \in FaultSites |-> [atomic |-> 0, flti |-> NoFault]]
    /\ flti = [f \in Injections |-> LET e == FaultTable[f[1]][f[2]] IN
                 [when |-> e.when, freq |-> e.freq, enabled |-> e.enabled, file |-> 0,
                  remaining |-> 0, inject_cnt |-> 0, exec_cnt |-> 0, last |-> -e.freq]]
    /\ user = [t \in FaultUsers |-> NotIn]
    /\ now = 1 /\ faultOps = 0
    /\ flthist = [f \in Injections |->
                    [left |-> 0, uses |-> 0, fires |-> 0,
                     enables |-> IF FaultTable[f[1]][f[2]].enabled THEN 1 ELSE 0]]
    /\ raced = {} /\ faultAbort = FALSE

UserAt(t, at) == ~faultAbort /\ user[t].at = at
UserGo(t, at) == user' = [user EXCEPT ![t].at = at]

\* FAULT_INJECT_CB(): the thread that wins the compare-and-swap resolves the
\* stub, the others go on at once.
Enter(t, s) ==
    /\ UserAt(t, "out") /\ faultOps < MaxFaultOps /\ faultOps' = faultOps + 1
    /\ user' = [user EXCEPT ![t] = [NotIn EXCEPT !.site = s,
                                 !.at = IF fis[s].atomic = 0 THEN "lookup" ELSE "test"]]
    /\ fis' = [fis EXCEPT ![s].atomic = 1]
    /\ UNCHANGED <<faultSets, flti, now, flthist, raced, faultAbort>>

\* fault_injection_lookup(id, 0): an injection that has its call site is not
\* found again.
fault_injection_lookup(id) ==
    LET f == <<faultSets[1], id>> IN
    IF f \notin Injections THEN NoFault
    ELSE IF flti[f].file # 0 THEN NoFault ELSE f

Resolve(t) ==
    LET s == user[t].site
        f == fault_injection_lookup(s.id)
    IN  /\ UserAt(t, "lookup")
        /\ fis' = [fis EXCEPT ![s].flti = f]
        /\ faultAbort' = (f = NoFault)
        /\ UserGo(t, "info")
        /\ UNCHANGED <<faultSets, flti, now, faultOps, flthist, raced>>

fault_injection_apply_info(t) ==
    LET s == user[t].site
        f == fis[s].flti
    IN  /\ UserAt(t, "info")
        /\ flti' = [flti EXCEPT ![f].file = IF @ = 0 THEN s.site ELSE @]
        /\ UserGo(t, "test")
        /\ UNCHANGED <<faultSets, fis, now, faultOps, flthist, raced, faultAbort>>

\* A stub that is not resolved yet does not fire.
Unresolved(t) ==
    /\ UserAt(t, "test") /\ fis[user[t].site].flti = NoFault
    /\ user' = [user EXCEPT ![t] = NotIn]
    /\ UNCHANGED <<faultSets, fis, flti, now, faultOps, flthist, raced, faultAbort>>

Inside(f) == {t \in FaultUsers : user[t].at = "note" /\ fis[user[t].site].flti = f}

\* fault_injection_evaluate(): does it fire?
StillLeft_zero(n) == n >= 0    \* mutant: one time more than asked for
StillLeft(n) == n > 0

Fires(e) ==
    e.enabled /\ CASE e.when \in {"one_time_only", "every_time"} -> TRUE
                   [] e.when = "per_freq_in_seconds" -> now - e.last > e.freq
                   [] e.when = "fixed_number_of_times" -> StillLeft(e.remaining)
                   [] e.when = "every_time_unless_bypassed" -> ~StillLeft(e.remaining)

\* Is one of num_remaining used up?
Uses(e) == e.enabled /\ \/ e.when = "fixed_number_of_times" /\ Fires(e)
                        \/ e.when = "every_time_unless_bypassed" /\ ~Fires(e)

Evaluate(t) ==
    LET f == fis[user[t].site].flti
        e == flti[f]
    IN  /\ UserAt(t, "test") /\ f # NoFault
        /\ flti' = [flti EXCEPT ![f].exec_cnt = @ + 1]
        /\ user' = [user EXCEPT ![t] = [@ EXCEPT !.at = "note", !.fire = Fires(e), !.use = Uses(e)]]
        /\ raced' = IF Inside(f) = {} THEN raced ELSE raced \cup {f}
        /\ UNCHANGED <<faultSets, fis, now, faultOps, flthist, faultAbort>>

\* ... and what it writes down.
Note(t) ==
    LET f == fis[user[t].site].flti
        e == flti[f]
        fire == user[t].fire
        one(b) == IF b THEN 1 ELSE 0
    IN  /\ UserAt(t, "note")
        /\ flti' = [flti EXCEPT ![f] =
                      [e EXCEPT !.enabled = e.enabled /\ ~(fire /\ e.when = "one_time_only"),
                                !.remaining = (e.remaining - one(user[t].use)) % CounterSpan,
                                !.last = IF fire THEN now ELSE e.last,
                                !.inject_cnt = e.inject_cnt + one(fire)]]
        /\ flthist' = [flthist EXCEPT ![f].uses = @ + one(user[t].use),
                                      ![f].fires = @ + one(fire)]
        /\ user' = [user EXCEPT ![t] = NotIn]
        /\ UNCHANGED <<faultSets, fis, now, faultOps, raced, faultAbort>>

\* fault_injection_lreg_cb() for WRITE_VAL, on what the registry shows.
WriteVal(f) ==
    /\ ~faultAbort /\ faultOps < MaxFaultOps /\ faultOps' = faultOps + 1
    /\ \E k \in DOMAIN faultSets : faultSets[k] = f[1]
    /\ \/ \E b \in BOOLEAN :
            /\ flti' = [flti EXCEPT ![f].enabled = b]
            /\ flthist' = [flthist EXCEPT ![f].enables = IF b THEN @ + 1 ELSE @]
       \/ \E n \in 0..CounterSpan - 1 :
            /\ flti' = [flti EXCEPT ![f].remaining = n]
            /\ flthist' = [flthist EXCEPT ![f].left = n, ![f].uses = 0]
    /\ raced' = IF Inside(f) = {} THEN raced ELSE raced \cup {f}
    /\ UNCHANGED <<faultSets, fis, user, now, faultAbort>>

\* fault_inject_set_install(): in the next free slot, or in the place of the
\* first set, whose nodes leave the registry.  The nodes of a set that is
\* installed are in the registry, so it is not installed again.
fault_inject_set_install(s, append) ==
    /\ ~faultAbort /\ faultOps < MaxFaultOps /\ faultOps' = faultOps + 1
    /\ \A k \in DOMAIN faultSets : faultSets[k] # s
    /\ append => Len(faultSets) < MaxSets
    /\ faultSets' = IF append THEN Append(faultSets, s) ELSE [faultSets EXCEPT ![1] = s]
    /\ UNCHANGED <<fis, flti, user, now, flthist, raced, faultAbort>>

Tick == now < MaxSeconds /\ now' = now + 1
        /\ UNCHANGED <<faultSets, fis, flti, user, faultOps, flthist, raced, faultAbort>>

FaultNext ==
    \/ \E t \in FaultUsers : \/ \E s \in FaultSites : Enter(t, s)
                             \/ Resolve(t) \/ fault_injection_apply_info(t)
                             \/ Unresolved(t) \/ Evaluate(t) \/ Note(t)
    \/ \E f \in Injections : WriteVal(f)
    \/ \E s \in DOMAIN FaultTable, append \in BOOLEAN : fault_inject_set_install(s, append)
    \/ Tick

FaultSpec == FaultInit /\ [][FaultNext]_faultVars
-------------------------------------------------------------------------------
\* FAULT_INJECT and fault_injection_evaluate: a site keeps the injection that
\* the first thread found for it, and only a second site of an injection stops
\* the process.  As long as no two were inside an injection at once, it fires
\* as often as it was told to: once for each time it was enabled, as many times
\* as num_remaining said, after as many bypasses as it said, never
\* more often than its period allows, and the counter shows how often.
FaultsExact ==
    /\ faultAbort => \E t \in FaultUsers, s \in FaultSites :
                        /\ user[t].at = "info" /\ user[t].site # s
                        /\ user[t].site.id = s.id /\ fis[s].flti # NoFault
    /\ \A s \in FaultSites : fis[s].flti # NoFault => fis[s].flti[2] = s.id
    /\ \A t \in FaultUsers : user[t].at = "note" => fis[user[t].site].flti # NoFault
    /\ \A f \in Injections \ raced : LET e == flti[f] IN
         /\ e.inject_cnt = flthist[f].fires /\ e.inject_cnt <= e.exec_cnt
         /\ e.remaining + flthist[f].uses = flthist[f].left
         /\ e.when = "one_time_only" => flthist[f].fires <= flthist[f].enables
         /\ e.when = "per_freq_in_seconds" => (flthist[f].fires - 1) * (e.freq + 1) < now
================================================================================
