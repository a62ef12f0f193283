-------------------------------- MODULE RefTree --------------------------------
(***************************************************************************)
(* The reference counted tree that REF_TREE_GENERATE() makes               *)
(* (src/src/include/ref_tree_proto.h).  GET finds the element of a key or  *)
(* makes one; PUT gives a reference back and destroys the element with the *)
(* last one.  The constructor and the destructor run without the mutex, so *)
(* threads race to make the element of a key, and a new element of a key   *)
(* may be made while the old one is being destroyed.                       *)
(*                                                                         *)
(* An action is one critical section of the mutex, or one run of the       *)
(* constructor or the destructor.                                          *)
(***************************************************************************)
EXTENDS Integers, FiniteSets

CONSTANTS
    Threads,
    Keys,           \* ordered by the caller's cmp(); here: numbers
    Elems,          \* the memory that the constructor may return
    Refs,           \* names for the references that callers keep
    None,
    InitialRefCnt,  \* REF_TREE_INIT_ALT_REF()
    MaxBirths       \* bound: elements that enter the tree

ASSUME RefTreeAssumption ==
    /\ Keys \subseteq Nat /\ Keys # {} /\ None \notin Elems /\ None \notin Keys
    /\ IsFiniteSet(Refs)
    /\ InitialRefCnt \in Nat \ {0}
    /\ MaxBirths \in Nat

VARIABLES
    tree,         \* the elements on the red-black tree
    rte_ref_cnt,  \* of each element
    key,          \* of each element
    ref,          \* what each reference refers to
    pc,           \* the next step of each thread
    lookup,       \* the key that a thread's GET looks for
    elm,          \* the element that is in one thread's hands only
    births        \* elements that have entered the tree

vars == <<tree, rte_ref_cnt, key, ref, pc, lookup, elm, births>>

Init ==
    /\ tree = {} /\ births = 0
    /\ rte_ref_cnt = [e \in Elems |-> 0]
    /\ key = [e \in Elems |-> CHOOSE k \in Keys : TRUE]
    /\ ref = [r \in Refs |-> None]
    /\ pc = [t \in Threads |-> "idle"]
    /\ lookup = [t \in Threads |-> CHOOSE k \in Keys : TRUE]
    /\ elm = [t \in Threads |-> None]

-------------------------------------------------------------------------------
ThreadAt(t, from, to) == pc[t] = from /\ pc' = [pc EXCEPT ![t] = to]

\* RB_FIND()
Found(k) == {e \in tree : key[e] = k}

\* Memory that is neither on the tree nor in a thread's hands.
Unused == Elems \ (tree \cup {elm[t] : t \in Threads})

\* One more reference, r, to element e (REF_TREE_REF_GET_ELEM_LOCKED()).
TakeRef(e, r) ==
    /\ ref[r] = None
    /\ ref' = [ref EXCEPT ![r] = e]
    /\ rte_ref_cnt' = [rte_ref_cnt EXCEPT ![e] = @ + 1]

\* GET: the lookup under the first lock.
GET_found(t, k, r) ==
    /\ ThreadAt(t, "idle", "idle")
    /\ \E e \in Found(k) : TakeRef(e, r)
    /\ UNCHANGED <<tree, key, lookup, elm, births>>

\* ... finds nothing, and the caller wants the element to be added.
GET_add(t, k) ==
    /\ ThreadAt(t, "idle", "construct")
    /\ Found(k) = {}
    /\ lookup' = [lookup EXCEPT ![t] = k]
    /\ UNCHANGED <<tree, rte_ref_cnt, key, ref, elm, births>>

\* The constructor, without the lock; it may fail.
GET_constructor(t) ==
    /\ \/ \E e \in Unused : /\ ThreadAt(t, "construct", "insert")
                            /\ elm' = [elm EXCEPT ![t] = e]
                            /\ key' = [key EXCEPT ![e] = lookup[t]]
       \/ /\ ThreadAt(t, "construct", "idle")
          /\ UNCHANGED <<elm, key>>
    /\ UNCHANGED <<tree, rte_ref_cnt, ref, lookup, births>>

\* The element that RB_INSERT() finds in the way.
Already_none(t) == {}      \* mutant: the key is not looked up again
Already(t) == Found(key[elm[t]])

FirstRefs == {R \in SUBSET Refs : Cardinality(R) = InitialRefCnt}

\* GET: the insertion under the second lock; the caller has initial_ref_cnt
\* references then.
GET_insert(t, R) ==
    /\ ThreadAt(t, "insert", "idle")
    /\ Already(t) = {}
    /\ births < MaxBirths
    /\ \A r \in R : ref[r] = None
    /\ tree' = tree \cup {elm[t]}
    /\ rte_ref_cnt' = [rte_ref_cnt EXCEPT ![elm[t]] = InitialRefCnt]
    /\ ref' = [r \in Refs |-> IF r \in R THEN elm[t] ELSE ref[r]]
    /\ elm' = [elm EXCEPT ![t] = None]
    /\ births' = births + 1
    /\ UNCHANGED <<key, lookup>>

\* ... finds that another thread was faster: -EALREADY, and the new element is
\* destroyed.
GET_already(t, r) ==
    /\ ThreadAt(t, "insert", "destroy")
    /\ \E e \in Already(t) : TakeRef(e, r)
    /\ UNCHANGED <<tree, key, lookup, elm, births>>

-------------------------------------------------------------------------------
\* The count that PUT leaves, and whether it leaves the tree.
AfterPut(e) == rte_ref_cnt[e] - 1

LastPut_held(e) == rte_ref_cnt[e] = 2    \* mutant: off by one
LastPut(e) == AfterPut(e) = 0

RB_REMOVE(e) == tree \ {e}

PUT(t, r) ==
    LET e == ref[r] IN
    /\ e # None
    /\ ref' = [ref EXCEPT ![r] = None]
    /\ rte_ref_cnt' = [rte_ref_cnt EXCEPT ![e] = AfterPut(e)]
    /\ IF LastPut(e)
         THEN /\ ThreadAt(t, "idle", "destroy")
              /\ tree' = RB_REMOVE(e)
              /\ elm' = [elm EXCEPT ![t] = e]
         ELSE /\ ThreadAt(t, "idle", "idle")
              /\ UNCHANGED <<tree, elm>>
    /\ UNCHANGED <<key, lookup, births>>

\* The destructor, without the lock; afterwards the memory may be used again.
Destructor(t) ==
    /\ ThreadAt(t, "destroy", "idle")
    /\ elm' = [elm EXCEPT ![t] = None]
    /\ UNCHANGED <<tree, rte_ref_cnt, key, ref, lookup, births>>

\* REF_TREE_REF_GET_ELEM(): another reference by somebody who has one.
REF_GET_ELEM(t, held, r) ==
    /\ ThreadAt(t, "idle", "idle")
    /\ ref[held] # None /\ TakeRef(ref[held], r)
    /\ UNCHANGED <<tree, key, lookup, elm, births>>

\* REF_TREE_REF_PUT_ELEM(): by somebody who knows that it is not the last one.
REF_PUT_ELEM(t, r, other) ==
    /\ ThreadAt(t, "idle", "idle")
    /\ r # other /\ ref[r] # None /\ ref[other] = ref[r]
    /\ rte_ref_cnt' = [rte_ref_cnt EXCEPT ![ref[r]] = @ - 1]
    /\ ref' = [ref EXCEPT ![r] = None]
    /\ UNCHANGED <<tree, key, lookup, elm, births>>

\* REF_TREE_MIN(): a reference to the element with the smallest key.
REF_TREE_MIN(t, r) ==
    /\ ThreadAt(t, "idle", "idle")
    /\ \E e \in tree : /\ \A f \in tree : key[e] <= key[f]
                       /\ TakeRef(e, r)
    /\ UNCHANGED <<tree, key, lookup, elm, births>>

-------------------------------------------------------------------------------
Thread(t) ==
    \/ \E k \in Keys : GET_add(t, k) \/ \E r \in Refs : GET_found(t, k, r)
    \/ GET_constructor(t) \/ Destructor(t)
    \/ \E R \in FirstRefs : GET_insert(t, R)
    \/ \E r \in Refs : \/ GET_already(t, r) \/ PUT(t, r) \/ REF_TREE_MIN(t, r)
                       \/ \E s \in Refs : \/ REF_GET_ELEM(t, s, r)
                                          \/ REF_PUT_ELEM(t, r, s)

Next == \E t \in Threads : Thread(t)

Spec == Init /\ [][Next]_vars

-------------------------------------------------------------------------------
\* The types of the tree, of the elements and of the threads.
TypeOK ==
    /\ tree \subseteq Elems
    /\ rte_ref_cnt \in [Elems -> Nat]
    /\ key \in [Elems -> Keys]
    /\ ref \in [Refs -> Elems \cup {None}]
    /\ pc \in [Threads -> {"idle", "construct", "insert", "destroy"}]
    /\ lookup \in [Threads -> Keys]
    /\ elm \in [Threads -> Elems \cup {None}]
    /\ births \in Nat

RefsTo(e) == {r \in Refs : ref[r] = e}

\* rte_ref_cnt counts the references that callers keep, exactly, however GETs,
\* lost races to insert and PUTs interleave; so no reference points to memory
\* that the destructor has had, and no element stays on the tree that nobody
\* can give back.
RefCntExact ==
    /\ \A e \in tree : rte_ref_cnt[e] = Cardinality(RefsTo(e))
    /\ \A e \in tree : rte_ref_cnt[e] > 0
    /\ \A e \in Elems \ tree : RefsTo(e) = {}

\* An element is made by one thread and destroyed by one: nobody else can
\* reach it while it is under construction or destruction, and the memory of
\* two threads is distinct.
PrivateElems ==
    \A t \in Threads :
       elm[t] # None =>
          /\ elm[t] \notin tree
          /\ \A u \in Threads : u # t => elm[u] # elm[t]

\* There is one element for a key, although the key is looked up in one
\* critical section and inserted in another.
OnePerKey == \A e, f \in tree : key[e] = key[f] => e = f

\* The tree keeps the promise of KeyRefs: all who refer to a key at the same
\* time share one object, which lives from the first reference to the last.
Promise == INSTANCE KeyRefs WITH
    key_of <- [r \in Refs |-> IF ref[r] = None THEN None ELSE key[ref[r]]],
    born <- births

PromiseKept == Promise!Spec
================================================================================
