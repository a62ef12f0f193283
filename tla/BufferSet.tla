------------------------------- MODULE BufferSet -------------------------------
(***************************************************************************)
(* The buffer sets of niova-core (src/src/buffer.c): a fixed pool of       *)
(* buffers that threads allocate from, reserve ("pending allocations"),    *)
(* and give back, either for good or as "user cached": the item is free    *)
(* again, but its last user may go on using the contents until a callback  *)
(* revokes it.                                                             *)
(*                                                                         *)
(* The set was made with BUFSET_OPT_SERIALIZE and BUFSET_OPT_USER_CACHE:   *)
(* an action is one critical section of bs_mutex, except where the code    *)
(* works on an item before it takes the lock.                              *)
(***************************************************************************)
EXTENDS Integers, Sequences, FiniteSets, SequencesExt

CONSTANTS
    BufUsers,     \* the users of the set
    Items,        \* the buffer items that buffer_set_initx() makes
    Nobody,       \* nobody
    Usages,       \* the ways in which an application may use the set
    MaxInits      \* bound: calls of buffer_set_initx()

ASSUME BufferSetAssumption ==
    /\ IsFiniteSet(BufUsers) /\ IsFiniteSet(Items) /\ Items # {}
    /\ Nobody \notin BufUsers \cup Items
    /\ Usages \subseteq SUBSET {"over_reserve", "give_back", "give_back_late"}
    /\ MaxInits \in Nat

VARIABLES
    \* the liberties that this application takes: to allocate when all free
    \* items are reserved, to give back items that it cached before, and to do
    \* so while other threads allocate
    usage,
    \* struct buffer_set
    bs_init, bs_num_bufs, bs_num_allocated, bs_num_user_cached,
    bs_num_pndg_alloc, bs_max_allocated, bs_free_list, bs_inuse_list,
    \* struct buffer_item: the items that have the bit set
    bi_allocated, bi_user_cached,
    \* the users: the items each one holds, who has an item in its cache, and
    \* the item a thread is about to cache or to give back out of its cache
    holds, cacher, caching, giving,
    \* the last item that a callback revoked although an item that nobody
    \* cached was free; an assertion of the code has failed
    revoked_early, asserted,
    inits

countVars == <<bs_num_bufs, bs_num_allocated, bs_num_user_cached,
               bs_num_pndg_alloc, bs_max_allocated>>
itemVars  == <<bs_free_list, bs_inuse_list, bi_allocated, bi_user_cached>>
userVars  == <<holds, cacher, caching, giving>>
setVars == <<usage, bs_init, countVars, itemVars, userVars, revoked_early,
          asserted, inits>>

SetInit ==
    /\ usage \in Usages
    /\ bs_init = FALSE
    /\ bs_num_bufs = 0 /\ bs_num_allocated = 0 /\ bs_num_user_cached = 0
    /\ bs_num_pndg_alloc = 0 /\ bs_max_allocated = 0
    /\ bs_free_list = <<>> /\ bs_inuse_list = {}
    /\ bi_allocated = {} /\ bi_user_cached = {}
    /\ holds = [t \in BufUsers |-> {}] /\ cacher = [i \in Items |-> Nobody]
    /\ caching = [t \in BufUsers |-> Nobody]
    /\ giving = [t \in BufUsers |-> Nobody]
    /\ revoked_early = FALSE /\ asserted = FALSE
    /\ inits = 0

\* A thread calls when it is not between the two halves of another call, and
\* the process has not been aborted.  Without races, nobody interrupts a user
\* that gives a cached item back.
Idle(t) == /\ caching[t] = Nobody /\ giving[t] = Nobody
           /\ "give_back_late" \in usage \/ \A u \in BufUsers : giving[u] = Nobody
           /\ ~asserted

-------------------------------------------------------------------------------
\* The arguments are good and every calloc() succeeds; new items go to the
\* head of the free list.
buffer_set_initx ==
    /\ ~bs_init /\ inits < MaxInits
    /\ inits' = inits + 1
    /\ bs_init' = TRUE
    /\ bs_num_bufs' = Cardinality(Items)
    /\ bs_num_allocated' = 0 /\ bs_num_user_cached' = 0
    /\ bs_num_pndg_alloc' = 0 /\ bs_max_allocated' = 0
    /\ bs_free_list' = SetToSeq(Items) /\ bs_inuse_list' = {}
    /\ bi_allocated' = {} /\ bi_user_cached' = {}
    /\ UNCHANGED <<usage, userVars, revoked_early, asserted>>

\* A set with allocated items is busy; a reservation does not keep it alive.
\* The callback of every cached item runs.  No lock is taken: a set is
\* destroyed when no thread is in a call.
Destroyable == bs_num_allocated = 0

buffer_set_destroy ==
    /\ bs_init /\ Destroyable
    /\ \A t \in BufUsers : Idle(t)
    /\ bs_init' = FALSE
    /\ bs_num_bufs' = bs_num_bufs - Len(bs_free_list)
    /\ bs_free_list' = <<>>
    /\ bs_num_user_cached' = bs_num_user_cached -
                               Cardinality(bi_user_cached \cap
                                           ToSet(bs_free_list))
    /\ bi_user_cached' = bi_user_cached \ ToSet(bs_free_list)
    /\ cacher' = [i \in Items |-> IF i \in bi_user_cached THEN Nobody
                                                          ELSE cacher[i]]
    /\ UNCHANGED <<usage, bs_num_allocated, bs_num_pndg_alloc, bs_max_allocated,
                   bs_inuse_list, bi_allocated, holds, caching,
                   giving, revoked_early, asserted, inits>>

-------------------------------------------------------------------------------
buffer_set_navail == bs_num_bufs - (bs_num_allocated + bs_num_pndg_alloc)

\* The callback of a cached item runs and the item is no longer counted.
AfterRevoke_kept(i) == bs_num_user_cached   \* mutant: it is still counted
AfterRevoke(i) == IF i \in bi_user_cached THEN bs_num_user_cached - 1
                                          ELSE bs_num_user_cached

\* Take the head of the free list for thread t; if it is cached, the callback
\* of its last user runs first and the item leaves that user's cache.
AllocateHead(t) ==
    LET i == Head(bs_free_list) IN
    /\ bs_free_list' = Tail(bs_free_list)
    /\ bs_inuse_list' = bs_inuse_list \cup {i}
    /\ bs_num_allocated' = bs_num_allocated + 1
    /\ bs_max_allocated' = IF bs_num_allocated + 1 > bs_max_allocated
                             THEN bs_num_allocated + 1 ELSE bs_max_allocated
    /\ bi_allocated' = bi_allocated \cup {i}
    /\ bi_user_cached' = bi_user_cached \ {i}
    /\ bs_num_user_cached' = AfterRevoke(i)
    /\ holds' = [holds EXCEPT ![t] = @ \cup {i}]
    /\ cacher' = IF i \in bi_user_cached THEN [cacher EXCEPT ![i] = Nobody]
                                         ELSE cacher
    /\ revoked_early' = /\ i \in bi_user_cached
                        /\ ToSet(bs_free_list) \ bi_user_cached # {}

\* Every assertion on the way to the head of the free list holds.
MayTakeHead(navail) ==
    /\ navail > 0 /\ bs_free_list # <<>>
    /\ Head(bs_free_list) \in bi_user_cached => bs_num_user_cached > 0

\* NULL when nothing is available, and the code asserts that the free list is
\* empty then.
buffer_set_allocate_item(t) ==
    /\ bs_init /\ Idle(t)
    /\ \/ /\ MayTakeHead(buffer_set_navail)
          /\ AllocateHead(t)
          /\ UNCHANGED asserted
       \/ /\ ~MayTakeHead(buffer_set_navail)
          /\ "over_reserve" \in usage \/ bs_num_pndg_alloc = 0
          /\ asserted' = ~(buffer_set_navail = 0 /\ bs_free_list = <<>>)
          /\ UNCHANGED <<itemVars, bs_num_allocated, bs_num_user_cached,
                         bs_max_allocated, holds, cacher, revoked_early>>
    /\ UNCHANGED <<usage, bs_init, bs_num_bufs, bs_num_pndg_alloc, caching,
                   giving, inits>>

\* -ENOMEM or -ENOBUFS when n items are not available.
MayReserve(n) == buffer_set_navail >= n

buffer_set_pending_alloc(t, n) ==
    /\ bs_init /\ Idle(t)
    /\ MayReserve(n)
    /\ bs_num_pndg_alloc' = bs_num_pndg_alloc + n
    /\ UNCHANGED <<usage, bs_init, bs_num_bufs, bs_num_allocated,
                   bs_num_user_cached, bs_max_allocated, itemVars, userVars,
                   revoked_early, asserted, inits>>

\* -EOVERFLOW when more would be released than is reserved.
MayUnreserve(n) == n <= bs_num_bufs /\ n <= bs_num_pndg_alloc

buffer_set_release_pending_alloc(t, n) ==
    /\ bs_init /\ Idle(t)
    /\ MayUnreserve(n)
    /\ bs_num_pndg_alloc' = bs_num_pndg_alloc - n
    /\ UNCHANGED <<usage, bs_init, bs_num_bufs, bs_num_allocated,
                   bs_num_user_cached, bs_max_allocated, itemVars, userVars,
                   revoked_early, asserted, inits>>

\* A reservation, which may have been made by another thread, is turned into
\* an item; the code asserts that there is one.
buffer_set_allocate_item_from_pending(t) ==
    /\ bs_init /\ Idle(t)
    /\ bs_num_pndg_alloc > 0
    /\ bs_num_pndg_alloc' = bs_num_pndg_alloc - 1
    /\ IF MayTakeHead(buffer_set_navail + 1)
         THEN AllocateHead(t) /\ UNCHANGED asserted
         ELSE /\ asserted' = TRUE
              /\ UNCHANGED <<itemVars, bs_num_allocated, bs_num_user_cached,
                             bs_max_allocated, holds, cacher, revoked_early>>
    /\ UNCHANGED <<usage, bs_init, bs_num_bufs, caching, giving, inits>>

-------------------------------------------------------------------------------
\* buffer_set_release_item(): a cached item stays where it is on the free
\* list, any other goes from the list of those in use to the head of the free
\* list.  The code asserts that the item is in the state that its bits say.
IsCached(i) == /\ i \in bi_user_cached /\ i \notin bi_allocated
               /\ bs_num_user_cached > 0
IsInUse(i)  == /\ i \notin bi_user_cached /\ i \in bi_allocated
               /\ bs_num_allocated > 0

ReleaseItem(i) ==
    \/ /\ IsCached(i)
       /\ bs_num_user_cached' = bs_num_user_cached - 1
       /\ bi_user_cached' = bi_user_cached \ {i}
       /\ cacher' = [cacher EXCEPT ![i] = Nobody]
       /\ UNCHANGED <<bs_num_allocated, bs_free_list, bs_inuse_list,
                      bi_allocated, asserted>>
    \/ /\ IsInUse(i)
       /\ bs_num_allocated' = bs_num_allocated - 1
       /\ bs_inuse_list' = bs_inuse_list \ {i}
       /\ bs_free_list' = <<i>> \o bs_free_list
       /\ bi_allocated' = bi_allocated \ {i}
       /\ UNCHANGED <<bs_num_user_cached, bi_user_cached, cacher, asserted>>
    \/ /\ ~IsCached(i) /\ ~IsInUse(i)
       /\ asserted' = TRUE
       /\ UNCHANGED <<bs_num_allocated, bs_num_user_cached, itemVars, cacher>>

buffer_set_release_item(t, i) ==
    /\ bs_init /\ Idle(t)
    /\ i \in holds[t]
    /\ holds' = [holds EXCEPT ![t] = @ \ {i}]
    /\ ReleaseItem(i)
    /\ UNCHANGED <<usage, bs_init, bs_num_bufs, bs_num_pndg_alloc,
                   bs_max_allocated, caching, giving, revoked_early, inits>>

\* The unlocked half of buffer_set_user_cache_release_item(): the bit is set
\* while the item is still on the list of those in use.
user_cache_mark(t, i) ==
    /\ bs_init /\ Idle(t)
    /\ i \in holds[t] /\ i \notin bi_user_cached
    /\ bi_user_cached' = bi_user_cached \cup {i}
    /\ caching' = [caching EXCEPT ![t] = i]
    /\ UNCHANGED <<usage, bs_init, countVars, bs_free_list, bs_inuse_list,
                   bi_allocated, holds, cacher, giving,
                   revoked_early, asserted, inits>>

\* The locked half: to the tail of the free list, so that it is taken last.
CachedGoesTo_head(i) == bs_free_list' = <<i>> \o bs_free_list  \* mutant
CachedGoesTo(i) == bs_free_list' = Append(bs_free_list, i)

buffer_set_user_cache_release_item(t) ==
    LET i == caching[t] IN
    /\ i # Nobody /\ ~asserted
    /\ caching' = [caching EXCEPT ![t] = Nobody]
    /\ holds' = [holds EXCEPT ![t] = @ \ {i}]
    /\ IF i \in bi_allocated
         THEN /\ bi_allocated' = bi_allocated \ {i}
              /\ bs_num_allocated' = bs_num_allocated - 1
              /\ bs_num_user_cached' = bs_num_user_cached + 1
              /\ bs_inuse_list' = bs_inuse_list \ {i}
              /\ CachedGoesTo(i)
              /\ cacher' = [cacher EXCEPT ![i] = t]
              /\ UNCHANGED asserted
         ELSE /\ asserted' = TRUE
              /\ UNCHANGED <<bi_allocated, bs_num_allocated, bs_free_list,
                             bs_num_user_cached, bs_inuse_list, cacher>>
    /\ UNCHANGED <<usage, bs_init, bs_num_bufs, bs_num_pndg_alloc,
                   bs_max_allocated, bi_user_cached, giving, revoked_early, inits>>

\* The last user finds the item in its cache and decides to give it back ...
cache_give_back(t, i) ==
    /\ "give_back" \in usage
    /\ bs_init /\ Idle(t)
    /\ cacher[i] = t
    /\ giving' = [giving EXCEPT ![t] = i]
    /\ UNCHANGED <<usage, bs_init, countVars, itemVars, holds, cacher,
                   caching, revoked_early, asserted, inits>>

\* ... and calls buffer_set_release_item(), which may find that the item was
\* revoked and belongs to somebody else by now.
buffer_set_release_cached_item(t) ==
    LET i == giving[t] IN
    /\ i # Nobody /\ ~asserted
    /\ giving' = [giving EXCEPT ![t] = Nobody]
    /\ ReleaseItem(i)
    /\ UNCHANGED <<usage, bs_init, bs_num_bufs, bs_num_pndg_alloc,
                   bs_max_allocated, holds, caching, revoked_early, inits>>

-------------------------------------------------------------------------------
ThreadStep(t) ==
    \/ buffer_set_allocate_item(t)
    \/ buffer_set_allocate_item_from_pending(t)
    \/ buffer_set_user_cache_release_item(t)
    \/ buffer_set_release_cached_item(t)
    \/ \E n \in 1..Cardinality(Items) :
          buffer_set_pending_alloc(t, n) \/ buffer_set_release_pending_alloc(t, n)
    \/ \E i \in Items : \/ buffer_set_release_item(t, i)
                        \/ user_cache_mark(t, i)
                        \/ cache_give_back(t, i)

SetNext == \/ buffer_set_initx
           \/ buffer_set_destroy
           \/ \E t \in BufUsers : ThreadStep(t)

SetSpec == SetInit /\ [][SetNext]_setVars

-------------------------------------------------------------------------------
\* The types of the set, its items and its users.
SetTypeOK ==
    /\ usage \in Usages
    /\ bs_init \in BOOLEAN /\ revoked_early \in BOOLEAN
    /\ asserted \in BOOLEAN
    /\ bs_num_bufs \in Nat /\ bs_num_allocated \in Nat
    /\ bs_num_user_cached \in Nat /\ bs_num_pndg_alloc \in Nat
    /\ bs_max_allocated \in Nat
    /\ bs_free_list \in Seq(Items)
    /\ bs_inuse_list \subseteq Items /\ bi_allocated \subseteq Items
    /\ bi_user_cached \subseteq Items
    /\ holds \in [BufUsers -> SUBSET Items]
    /\ cacher \in [Items -> BufUsers \cup {Nobody}]
    /\ caching \in [BufUsers -> Items \cup {Nobody}]
    /\ giving \in [BufUsers -> Items \cup {Nobody}]
    /\ inits \in Nat

\* The application does not race to give an item back, and does not allocate
\* what is reserved.
Careful == usage \subseteq {"give_back"}

\* Every buffer of the set is on exactly one of its two lists, once, and the
\* counters are exact: bs_num_allocated is the number in use and no buffer is
\* reserved twice, so that a reservation can always be honoured (the
\* assertions of buffer_set_navail_locked() and
\* buffer_set_allocate_item_from_pending()).
ListsExact ==
    bs_init =>
      /\ IsInjective(bs_free_list)
      /\ ToSet(bs_free_list) \cap bs_inuse_list = {}
      /\ ToSet(bs_free_list) \cup bs_inuse_list = Items
      /\ bs_num_bufs = Cardinality(Items)
      /\ bs_num_allocated = Cardinality(bs_inuse_list)
      /\ bs_num_pndg_alloc <= Len(bs_free_list)

\* bs_num_user_cached counts the free items that some user still has in its
\* cache, also while another thread is half way through caching one.
CachedExact ==
    bs_init /\ Careful =>
      LET marked == {caching[t] : t \in BufUsers} IN
      /\ bs_num_user_cached = Cardinality(bi_user_cached \ marked)
      /\ bi_user_cached \ marked = {i \in Items : cacher[i] # Nobody}

\* For a careful application no assertion of buffer.c fails: neither the ones
\* on the free list of buffer_set_allocate_item_locked(), nor the one of
\* buffer_set_allocate_item_from_pending(), nor those of
\* buffer_set_release_item().
NoAssert == Careful => ~asserted

\* An item in use belongs to one user and is in nobody's cache: the callback
\* "prior to allocation the item to another user" has run
\* (buffer_set_user_cache_release_item()).
ExclusiveUse ==
    Careful =>
      /\ \A t, u \in BufUsers : t # u => holds[t] \cap holds[u] = {}
      /\ UNION {holds[t] : t \in BufUsers} = bs_inuse_list
      /\ \A i \in bs_inuse_list : cacher[i] = Nobody

\* Buffers are neither lost nor made: the lists, the reservations and the
\* counters of buffer.c agree, its assertions hold and a buffer has one user,
\* whatever the users do at the same time.
Conservation == ListsExact /\ CachedExact /\ NoAssert /\ ExclusiveUse

\* An application that does not give cached items back keeps its cache as long
\* as it can: an allocation revokes a cached item only when there is no other
\* free one ("Release to the head since item is not user cached", "'LRU' by
\* placing at the tail").
RevokedLast == usage = {} => ~revoked_early
================================================================================
