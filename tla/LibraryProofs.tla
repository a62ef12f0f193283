----------------------------- MODULE LibraryProofs -----------------------------
(***************************************************************************)
(* Six parts of the library: the buffer sets, for any users and any number *)
(* of buffers (no buffer is lost or made, no assertion of buffer.c fails   *)
(* for a careful application, a user's cache is revoked last); fault       *)
(* injection, for any threads, call sites and sets; the layout of a new    *)
(* buffer set, for any sizes; the reference tree, for any threads and      *)
(* keys; the parser of the paths of a request, for any text; and the       *)
(* configuration service, for any directories and users.  The last two use *)
(* DataProofs' facts about folds and numbers.                              *)
(***************************************************************************)
EXTENDS BufferSet, FaultInject, BufferInit, RefTree, CtlPath, CtlSvc, DataProofs

\* A sequence without repetitions is as long as the set of its elements is large.
LEMMA InjectiveLen ==
    ASSUME NEW S, NEW s \in Seq(S), IsInjective(s)
    PROVE  IsFiniteSet(ToSet(s)) /\ Cardinality(ToSet(s)) = Len(s)
<1>1. Len(s) \in Nat /\ s \in [1..Len(s) -> ToSet(s)] /\ DOMAIN s = 1..Len(s)
  BY LenProperties DEF ToSet
<1>2. s \in Bijection(1..Len(s), ToSet(s))
  BY <1>1 DEF Bijection, Injection, Surjection, IsInjective, ToSet
<1>3. IsFiniteSet(1..Len(s)) /\ Cardinality(1..Len(s)) = Len(s)
  BY <1>1, FS_Interval
<1>. QED
  BY <1>2, <1>3, FS_Bijection DEF ExistsBijection

\* Taking the head of a list without repetitions.
LEMMA TailOfInjective ==
    ASSUME NEW S, NEW s \in Seq(S), s # <<>>, IsInjective(s)
    PROVE  /\ Tail(s) \in Seq(S) /\ IsInjective(Tail(s))
           /\ Head(s) \in ToSet(s) /\ Head(s) \in S /\ Head(s) = s[1]
           /\ ToSet(Tail(s)) = ToSet(s) \ {Head(s)}
           /\ Len(s) > 0 /\ Len(Tail(s)) = Len(s) - 1
           /\ \A k \in 1..Len(Tail(s)) : Tail(s)[k] = s[k + 1]
<1>1. /\ Len(s) \in Nat \ {0} /\ DOMAIN s = 1..Len(s)
      /\ Tail(s) \in Seq(S) /\ Len(Tail(s)) = Len(s) - 1
      /\ DOMAIN Tail(s) = 1..(Len(s) - 1)
      /\ \A k \in 1..Len(Tail(s)) : Tail(s)[k] = s[k + 1]
  BY HeadTailProperties, LenProperties, EmptySeq
<1>2. Head(s) = s[1] /\ Head(s) \in S
  BY HeadTailProperties
<1>3. IsInjective(Tail(s))
  BY <1>1 DEF IsInjective
<1>4. Head(s) \in ToSet(s)
  BY <1>1, <1>2 DEF ToSet
<1>5. ToSet(Tail(s)) \subseteq ToSet(s) \ {Head(s)}
  BY <1>1, <1>2 DEF ToSet, IsInjective
<1>6. ASSUME NEW x \in ToSet(s) \ {Head(s)} PROVE x \in ToSet(Tail(s))
  <2>1. PICK k \in 1..Len(s) : s[k] = x
    BY <1>1 DEF ToSet
  <2>2. k # 1
    BY <2>1, <1>2
  <2>3. k - 1 \in 1..Len(Tail(s)) /\ Tail(s)[k - 1] = x
    BY <2>1, <2>2, <1>1
  <2>. QED
    BY <2>3, <1>1 DEF ToSet
<1>. QED
  BY <1>1, <1>2, <1>3, <1>4, <1>5, <1>6

\* Putting an element at the head of a list that does not hold it.
LEMMA HeadAdded ==
    ASSUME NEW S, NEW s \in Seq(S), NEW x \in S, IsInjective(s), x \notin ToSet(s)
    PROVE  /\ <<x>> \o s \in Seq(S) /\ IsInjective(<<x>> \o s)
           /\ ToSet(<<x>> \o s) = ToSet(s) \cup {x}
           /\ Len(<<x>> \o s) = Len(s) + 1
           /\ (<<x>> \o s)[1] = x
           /\ \A k \in 1..Len(s) : (<<x>> \o s)[k + 1] = s[k]
<1> DEFINE l == <<x>> \o s
<1>1. Len(s) \in Nat /\ DOMAIN s = 1..Len(s)
  BY LenProperties
<1>2. <<x>> \in Seq(S) /\ Len(<<x>>) = 1 /\ <<x>>[1] = x
  OBVIOUS
<1>3. /\ l \in Seq(S) /\ Len(l) = Len(s) + 1
      /\ \A k \in 1..(Len(s) + 1) : l[k] = IF k <= 1 THEN <<x>>[k] ELSE s[k - 1]
  BY <1>1, <1>2, ConcatProperties
<1>4. DOMAIN l = 1..(Len(s) + 1)
  BY <1>3, LenProperties
<1>5. l[1] = x /\ \A k \in 1..Len(s) : l[k + 1] = s[k]
  BY <1>1, <1>2, <1>3
<1>6. \A k \in 1..Len(s) : s[k] # x
  BY <1>1 DEF ToSet
<1>7. IsInjective(l)
  <2> HIDE DEF l
  <2>1. \A k \in 1..(Len(s) + 1) : k # 1 => k - 1 \in 1..Len(s) /\ l[k] = s[k - 1]
    BY <1>1, <1>5
  <2>2. SUFFICES ASSUME NEW j \in 1..(Len(s) + 1), NEW k \in 1..(Len(s) + 1), l[j] = l[k]
                 PROVE  j = k
    BY <1>4 DEF IsInjective
  <2>3. CASE j = 1
    BY <2>1, <2>2, <2>3, <1>5, <1>6
  <2>4. CASE k = 1
    BY <2>1, <2>2, <2>4, <1>5, <1>6
  <2>5. CASE j # 1 /\ k # 1
    <3>1. s[j - 1] = s[k - 1] /\ j - 1 \in DOMAIN s /\ k - 1 \in DOMAIN s
      BY <2>1, <2>2, <2>5, <1>1
    <3>. QED
      BY <3>1, <1>1 DEF IsInjective
  <2>. QED
    BY <2>3, <2>4, <2>5
<1>8. ToSet(l) = ToSet(s) \cup {x}
  <2> HIDE DEF l
  <2>1. \A k \in 1..(Len(s) + 1) : l[k] \in ToSet(s) \cup {x}
    <3>1. \A k \in 1..(Len(s) + 1) : k # 1 => k - 1 \in 1..Len(s) /\ l[k] = s[k - 1]
      BY <1>1, <1>5
    <3>. QED
      BY <1>1, <1>5, <3>1 DEF ToSet
  <2>2. x \in ToSet(l)
    BY <1>1, <1>4, <1>5 DEF ToSet
  <2>3. \A k \in 1..Len(s) : s[k] \in ToSet(l)
    BY <1>1, <1>4, <1>5 DEF ToSet
  <2>. QED
    BY <1>1, <1>4, <2>1, <2>2, <2>3 DEF ToSet
<1>. QED
  BY <1>3, <1>5, <1>7, <1>8

\* Putting an element at the tail of a list that does not hold it.
LEMMA TailAdded ==
    ASSUME NEW S, NEW s \in Seq(S), NEW x \in S, IsInjective(s), x \notin ToSet(s)
    PROVE  /\ Append(s, x) \in Seq(S) /\ IsInjective(Append(s, x))
           /\ ToSet(Append(s, x)) = ToSet(s) \cup {x}
           /\ Len(Append(s, x)) = Len(s) + 1
           /\ Append(s, x)[Len(s) + 1] = x
           /\ \A k \in 1..Len(s) : Append(s, x)[k] = s[k]
<1> DEFINE l == Append(s, x)
<1>1. Len(s) \in Nat /\ DOMAIN s = 1..Len(s)
  BY LenProperties
<1>2. /\ l \in Seq(S) /\ Len(l) = Len(s) + 1
      /\ l[Len(s) + 1] = x /\ \A k \in 1..Len(s) : l[k] = s[k]
  BY <1>1
<1>3. DOMAIN l = 1..(Len(s) + 1)
  BY <1>2, LenProperties
<1>4. \A k \in 1..Len(s) : s[k] # x
  BY <1>1 DEF ToSet
<1> HIDE DEF l
<1>5. \A k \in 1..(Len(s) + 1) : k = Len(s) + 1 \/ k \in 1..Len(s)
  BY <1>1
<1>6. IsInjective(l)
  BY <1>1, <1>2, <1>3, <1>4, <1>5 DEF IsInjective
<1>7. ToSet(l) = ToSet(s) \cup {x}
  <2>1. \A k \in 1..(Len(s) + 1) : l[k] \in ToSet(s) \cup {x}
    BY <1>1, <1>2, <1>5 DEF ToSet
  <2>2. x \in ToSet(l) /\ \A k \in 1..Len(s) : s[k] \in ToSet(l)
    BY <1>1, <1>2, <1>3 DEF ToSet
  <2>. QED
    BY <1>1, <1>3, <2>1, <2>2 DEF ToSet
<1>. QED
  BY <1>2, <1>6, <1>7 DEF l

\* buffer_set_initx() puts every item on the free list once.
LEMMA AllItems ==
    /\ SetToSeq(Items) \in Seq(Items) /\ IsInjective(SetToSeq(Items))
    /\ ToSet(SetToSeq(Items)) = Items /\ Len(SetToSeq(Items)) = Cardinality(Items)
<1> DEFINE n == Cardinality(Items)
<1>1. n \in Nat /\ ExistsBijection(1..n, Items)
  BY FS_CardinalityType, BufferSetAssumption
<1>2. \E f \in [1..n -> Items] : IsInjective(f)
  BY <1>1 DEF ExistsBijection, Bijection, Injection
<1>3. SetToSeq(Items) \in [1..n -> Items] /\ IsInjective(SetToSeq(Items))
  BY <1>2 DEF SetToSeq
<1> DEFINE s == SetToSeq(Items)
<1> HIDE DEF s, n
<1>4. s \in Seq(Items) /\ Len(s) = n
  BY <1>1, <1>3 DEF s
<1>5. IsFiniteSet(ToSet(s)) /\ Cardinality(ToSet(s)) = n
  BY <1>3, <1>4, InjectiveLen DEF s
<1>6. ToSet(s) \subseteq Items
  BY <1>3 DEF s, ToSet
<1>7. ToSet(s) = Items
  BY <1>5, <1>6, FS_Subset, BufferSetAssumption DEF n
<1>. QED
  BY <1>3, <1>4, <1>7 DEF s, n

-------------------------------------------------------------------------------
(***************************************************************************)
(* The inductive invariant.                                                *)
(***************************************************************************)
\* The threads between the two halves of buffer_set_user_cache_release_item().
Callers == {t \in BufUsers : caching[t] # Nobody}

\* What holds however the application uses the set.  The bit of an item says
\* which list it is on; a call is under way, and an assertion can have failed,
\* only while the set exists; and the cached bits are counted, but for those
\* that a thread has set and not counted yet.
AnyUse ==
    /\ SetTypeOK /\ ListsExact
    /\ bs_init => bi_allocated = bs_inuse_list
    /\ \A t \in BufUsers : caching[t] # Nobody \/ giving[t] # Nobody => bs_init
    /\ asserted => bs_init /\ BufUsers # {}
    /\ bs_init /\ ~asserted =>
         bs_num_user_cached + Cardinality(Callers) = Cardinality(bi_user_cached)

\* What a careful application adds.  An item in use has one holder and nobody
\* caches it; an item is marked by its holder; a free item has the bit exactly
\* if it is in a cache; it is given back by the one thread in whose cache it
\* is; and without a set there are no items.
OneHolder ==
    /\ \A t, u \in BufUsers : \A i \in Items : i \in holds[t] /\ i \in holds[u] => t = u
    /\ \A i \in Items : i \in bs_inuse_list <=> \E t \in BufUsers : i \in holds[t]
MarkedByHolder ==
    /\ \A t \in BufUsers : caching[t] # Nobody => caching[t] \in holds[t] /\ caching[t] \in bi_user_cached
    /\ \A i \in Items : i \in bi_user_cached /\ i \in bs_inuse_list =>
                          \E t \in BufUsers : caching[t] = i
CachedOrNot ==
    /\ \A i \in Items : i \in bs_inuse_list => cacher[i] = Nobody
    /\ bs_init => \A i \in Items : i \notin bs_inuse_list =>
                    (i \in bi_user_cached <=> cacher[i] # Nobody)
OneGives ==
    /\ \A t \in BufUsers : giving[t] # Nobody => cacher[giving[t]] = t /\ caching[t] = Nobody
    /\ \A t, u \in BufUsers : giving[t] # Nobody /\ giving[u] # Nobody => t = u
NoSet == ~bs_init => bs_inuse_list = {} /\ \A i \in Items : cacher[i] = Nobody

CarefulUse ==
    Careful => ~asserted /\ OneHolder /\ MarkedByHolder /\ CachedOrNot /\ OneGives /\ NoSet

\* With an application that gives nothing back, the cached items are the last
\* of the free list.
CachedLast ==
    usage = {} =>
      /\ ~revoked_early
      /\ \A j, k \in 1..Len(bs_free_list) :
            j < k /\ bs_free_list[j] \in bi_user_cached => bs_free_list[k] \in bi_user_cached

\* Only an application that does so gives cached items back.
NoneGiven == usage = {} => \A t \in BufUsers : giving[t] = Nobody

SetInv == AnyUse /\ CarefulUse /\ CachedLast /\ NoneGiven

\* The free items and the items in use add up.
LEMMA ItemsAddUp ==
    ASSUME AnyUse, bs_init
    PROVE  /\ Len(bs_free_list) \in Nat /\ Cardinality(Items) \in Nat
           /\ IsFiniteSet(bs_inuse_list)
           /\ Len(bs_free_list) + Cardinality(bs_inuse_list) = Cardinality(Items)
           /\ bs_num_bufs - bs_num_allocated = Len(bs_free_list)
<1>1. IsFiniteSet(bs_inuse_list) /\ Cardinality(Items) \in Nat
  BY FS_Subset, FS_CardinalityType, BufferSetAssumption DEF AnyUse, SetTypeOK
<1>2. /\ IsFiniteSet(ToSet(bs_free_list))
      /\ Cardinality(ToSet(bs_free_list)) = Len(bs_free_list)
  BY InjectiveLen DEF AnyUse, SetTypeOK, ListsExact
<1>3. /\ ToSet(bs_free_list) \cap bs_inuse_list = {}
      /\ ToSet(bs_free_list) \cup bs_inuse_list = Items
      /\ bs_num_bufs = Cardinality(Items)
      /\ bs_num_allocated = Cardinality(bs_inuse_list)
  BY DEF AnyUse, ListsExact
<1>4. Cardinality(Items) = Cardinality(ToSet(bs_free_list)) + Cardinality(bs_inuse_list) - 0
  BY <1>1, <1>2, <1>3, FS_Union, FS_EmptySet
<1>5. Len(bs_free_list) \in Nat /\ bs_num_allocated \in Nat
  BY LenProperties DEF AnyUse, SetTypeOK
<1>. QED
  BY <1>1, <1>2, <1>3, <1>4, <1>5

\* The head of the free list goes to the list of those in use.
LEMMA HeadMoves ==
    ASSUME AnyUse, bs_init, bs_free_list # <<>>,
           bs_free_list' = Tail(bs_free_list),
           bs_inuse_list' = bs_inuse_list \cup {Head(bs_free_list)}
    PROVE  /\ Head(bs_free_list) \in Items \ bs_inuse_list
           /\ bs_free_list' \in Seq(Items) /\ IsInjective(bs_free_list')
           /\ ToSet(bs_free_list') \cap bs_inuse_list' = {}
           /\ ToSet(bs_free_list') \cup bs_inuse_list' = Items
           /\ Cardinality(bs_inuse_list') = Cardinality(bs_inuse_list) + 1
           /\ Len(bs_free_list') = Len(bs_free_list) - 1
<1>1. /\ bs_free_list \in Seq(Items) /\ IsInjective(bs_free_list)
      /\ ToSet(bs_free_list) \cap bs_inuse_list = {}
      /\ ToSet(bs_free_list) \cup bs_inuse_list = Items
  BY DEF AnyUse, SetTypeOK, ListsExact
<1>2. /\ Tail(bs_free_list) \in Seq(Items) /\ IsInjective(Tail(bs_free_list))
      /\ Head(bs_free_list) \in ToSet(bs_free_list)
      /\ ToSet(Tail(bs_free_list)) = ToSet(bs_free_list) \ {Head(bs_free_list)}
      /\ Len(Tail(bs_free_list)) = Len(bs_free_list) - 1
  BY <1>1, TailOfInjective
<1>3. Cardinality(bs_inuse_list') = Cardinality(bs_inuse_list) + 1
  BY <1>1, <1>2, ItemsAddUp, FS_AddElement
<1>. QED
  BY <1>1, <1>2, <1>3

\* An item in use goes to either end of the free list.
LEMMA ItemMoves ==
    ASSUME AnyUse, bs_init, NEW i \in bs_inuse_list,
           bs_free_list' = <<i>> \o bs_free_list \/ bs_free_list' = Append(bs_free_list, i),
           bs_inuse_list' = bs_inuse_list \ {i}
    PROVE  /\ bs_free_list' \in Seq(Items) /\ IsInjective(bs_free_list')
           /\ ToSet(bs_free_list') \cap bs_inuse_list' = {}
           /\ ToSet(bs_free_list') \cup bs_inuse_list' = Items
           /\ Cardinality(bs_inuse_list') = Cardinality(bs_inuse_list) - 1
           /\ Cardinality(bs_inuse_list) \in Nat \ {0}
           /\ Len(bs_free_list') = Len(bs_free_list) + 1
<1>1. /\ bs_free_list \in Seq(Items) /\ IsInjective(bs_free_list)
      /\ ToSet(bs_free_list) \cap bs_inuse_list = {}
      /\ ToSet(bs_free_list) \cup bs_inuse_list = Items
      /\ bs_num_allocated = Cardinality(bs_inuse_list) /\ bs_num_allocated \in Nat
  BY DEF AnyUse, SetTypeOK, ListsExact
<1>2. i \in Items /\ i \notin ToSet(bs_free_list)
  BY <1>1
<1>3. /\ bs_free_list' \in Seq(Items) /\ IsInjective(bs_free_list')
      /\ ToSet(bs_free_list') = ToSet(bs_free_list) \cup {i}
      /\ Len(bs_free_list') = Len(bs_free_list) + 1
  <2>1. CASE bs_free_list' = <<i>> \o bs_free_list
    BY <1>1, <1>2, <2>1, HeadAdded
  <2>2. CASE bs_free_list' = Append(bs_free_list, i)
    BY <1>1, <1>2, <2>2, TailAdded
  <2>. QED
    BY <2>1, <2>2
<1>4. Cardinality(bs_inuse_list') = Cardinality(bs_inuse_list) - 1
  BY <1>1, ItemsAddUp, FS_RemoveElement
<1>5. Cardinality(bs_inuse_list) # 0
  BY ItemsAddUp, FS_EmptySet
<1>. QED
  BY <1>1, <1>2, <1>3, <1>4, <1>5

\* The threads that cache an item and the cached items are finitely many.
LEMMA Finite ==
    ASSUME SetTypeOK
    PROVE  /\ IsFiniteSet(Callers) /\ Cardinality(Callers) \in Nat
           /\ IsFiniteSet(bi_user_cached) /\ Cardinality(bi_user_cached) \in Nat
<1>1. Callers \subseteq BufUsers /\ bi_user_cached \subseteq Items
  BY DEF Callers, SetTypeOK
<1>. QED
  BY <1>1, FS_Subset, FS_CardinalityType, BufferSetAssumption

\* The count of cached items follows the bit of an item that loses it.
LEMMA Uncached ==
    ASSUME AnyUse, bs_init, ~asserted, NEW i \in bi_user_cached, bs_num_user_cached > 0,
           bs_num_user_cached' = bs_num_user_cached - 1,
           bi_user_cached' = bi_user_cached \ {i}, UNCHANGED caching
    PROVE  /\ bs_num_user_cached' \in Nat
           /\ bs_num_user_cached' + Cardinality(Callers') = Cardinality(bi_user_cached')
<1>1. Callers' = Callers
  BY DEF Callers
<1>2. Cardinality(bi_user_cached') = Cardinality(bi_user_cached) - 1
  BY Finite, FS_RemoveElement DEF AnyUse
<1>3. /\ bs_num_user_cached \in Nat
      /\ bs_num_user_cached + Cardinality(Callers) = Cardinality(bi_user_cached)
  BY DEF AnyUse, SetTypeOK
<1>. QED
  BY <1>1, <1>2, <1>3, Finite DEF AnyUse

-------------------------------------------------------------------------------
(***************************************************************************)
(* The part of the invariant that holds for every application.             *)
(***************************************************************************)
\* Taking the head of the free list, which MayTakeHead() allows.
LEMMA AllocateHeadAnyUse ==
    ASSUME AnyUse, bs_init, ~asserted, NEW t \in BufUsers, AllocateHead(t),
           bs_free_list # <<>>, Head(bs_free_list) \in bi_user_cached => bs_num_user_cached > 0,
           bs_num_pndg_alloc' \in Nat, bs_num_pndg_alloc' <= Len(bs_free_list) - 1,
           UNCHANGED <<usage, bs_init, bs_num_bufs, caching, giving, inits, asserted>>
    PROVE  AnyUse'
<1> DEFINE i == Head(bs_free_list)
<1>1. /\ bs_free_list' = Tail(bs_free_list) /\ bs_inuse_list' = bs_inuse_list \cup {i}
      /\ bs_num_allocated' = bs_num_allocated + 1
      /\ bi_allocated' = bi_allocated \cup {i} /\ bi_user_cached' = bi_user_cached \ {i}
      /\ holds' = [holds EXCEPT ![t] = @ \cup {i}]
      /\ bs_num_user_cached' = AfterRevoke(i)
      /\ revoked_early' \in BOOLEAN
      /\ cacher' = IF i \in bi_user_cached THEN [cacher EXCEPT ![i] = Nobody] ELSE cacher
      /\ bs_max_allocated' \in {bs_num_allocated + 1, bs_max_allocated}
  BY DEF AllocateHead
<1>2. /\ i \in Items \ bs_inuse_list
      /\ bs_free_list' \in Seq(Items) /\ IsInjective(bs_free_list')
      /\ ToSet(bs_free_list') \cap bs_inuse_list' = {}
      /\ ToSet(bs_free_list') \cup bs_inuse_list' = Items
      /\ Cardinality(bs_inuse_list') = Cardinality(bs_inuse_list) + 1
      /\ Len(bs_free_list') = Len(bs_free_list) - 1
  BY <1>1, HeadMoves
<1>3. /\ bs_num_user_cached' \in Nat
      /\ bs_num_user_cached' + Cardinality(Callers') = Cardinality(bi_user_cached')
  <2>1. CASE i \in bi_user_cached
    BY <1>1, <2>1, Uncached DEF AfterRevoke
  <2>2. CASE i \notin bi_user_cached
    BY <1>1, <2>2 DEF AfterRevoke, AnyUse, SetTypeOK, Callers
  <2>. QED
    BY <2>1, <2>2
<1> HIDE DEF i
<1>4. SetTypeOK'
  <2>1. /\ bs_num_allocated' \in Nat /\ bs_max_allocated' \in Nat
        /\ holds' \in [BufUsers -> SUBSET Items] /\ bs_inuse_list' \subseteq Items
        /\ bi_allocated' \subseteq Items /\ bi_user_cached' \subseteq Items
    BY <1>1, <1>2 DEF AnyUse, SetTypeOK
  <2>2. cacher' \in [Items -> BufUsers \cup {Nobody}]
    BY <1>1, <1>2 DEF AnyUse, SetTypeOK
  <2>. QED
    BY <1>1, <1>2, <1>3, <2>1, <2>2 DEF AnyUse, SetTypeOK
<1>5. ListsExact'
  BY <1>1, <1>2 DEF AnyUse, ListsExact
<1>. QED
  BY <1>1, <1>3, <1>4, <1>5 DEF AnyUse

\* Giving an item back keeps the invariant, whoever owns it by now.
LEMMA ReleaseItemAnyUse ==
    ASSUME AnyUse, bs_init, ~asserted, BufUsers # {}, NEW i \in Items, ReleaseItem(i),
           holds' \in [BufUsers -> SUBSET Items],
           giving' \in [BufUsers -> Items \cup {Nobody}],
           UNCHANGED <<usage, bs_init, bs_num_bufs, bs_num_pndg_alloc, bs_max_allocated,
                       caching, revoked_early, inits>>
    PROVE  AnyUse'
<1>1. CASE /\ IsCached(i)
           /\ bs_num_user_cached' = bs_num_user_cached - 1
           /\ bi_user_cached' = bi_user_cached \ {i}
           /\ cacher' = [cacher EXCEPT ![i] = Nobody]
           /\ UNCHANGED <<bs_num_allocated, bs_free_list, bs_inuse_list,
                          bi_allocated, asserted>>
  <2>1. /\ bs_num_user_cached' \in Nat
        /\ bs_num_user_cached' + Cardinality(Callers') = Cardinality(bi_user_cached')
    BY <1>1, Uncached DEF IsCached
  <2>2. cacher' \in [Items -> BufUsers \cup {Nobody}] /\ bi_user_cached' \subseteq Items
    BY <1>1 DEF AnyUse, SetTypeOK
  <2>. QED
    BY <1>1, <2>1, <2>2 DEF AnyUse, SetTypeOK, ListsExact
<1>2. CASE /\ IsInUse(i)
           /\ bs_num_allocated' = bs_num_allocated - 1
           /\ bs_inuse_list' = bs_inuse_list \ {i}
           /\ bs_free_list' = <<i>> \o bs_free_list
           /\ bi_allocated' = bi_allocated \ {i}
           /\ UNCHANGED <<bs_num_user_cached, bi_user_cached, cacher, asserted>>
  <2>1. i \in bs_inuse_list
    BY <1>2 DEF IsInUse, AnyUse
  <2>2. /\ bs_free_list' \in Seq(Items) /\ IsInjective(bs_free_list')
        /\ ToSet(bs_free_list') \cap bs_inuse_list' = {}
        /\ ToSet(bs_free_list') \cup bs_inuse_list' = Items
        /\ Cardinality(bs_inuse_list') = Cardinality(bs_inuse_list) - 1
        /\ Cardinality(bs_inuse_list) \in Nat \ {0}
        /\ Len(bs_free_list') = Len(bs_free_list) + 1
    BY <1>2, <2>1, ItemMoves
  <2>3. SetTypeOK'
    BY <1>2, <2>2 DEF AnyUse, SetTypeOK, ListsExact
  <2>4. ListsExact'
    BY <1>2, <2>2, ItemsAddUp DEF AnyUse, SetTypeOK, ListsExact
  <2>5. Callers' = Callers
    BY DEF Callers
  <2>. QED
    BY <1>2, <2>3, <2>4, <2>5 DEF AnyUse
<1>3. CASE /\ asserted' = TRUE
           /\ UNCHANGED <<bs_num_allocated, bs_num_user_cached, itemVars, cacher>>
  BY <1>3 DEF AnyUse, SetTypeOK, ListsExact, itemVars
<1>. QED
  BY <1>1, <1>2, <1>3 DEF ReleaseItem

\* No set exists at first.
LEMMA InitAnyUse == SetInit => AnyUse
<1> SUFFICES ASSUME SetInit PROVE AnyUse
  OBVIOUS
<1>1. /\ holds \in [BufUsers -> SUBSET Items]
      /\ cacher \in [Items -> BufUsers \cup {Nobody}]
      /\ caching \in [BufUsers -> Items \cup {Nobody}]
      /\ giving \in [BufUsers -> Items \cup {Nobody}]
  BY DEF SetInit
<1>2. bs_free_list \in Seq(Items)
  BY EmptySeq DEF SetInit
<1>3. SetTypeOK
  BY <1>1, <1>2 DEF SetInit, SetTypeOK
<1>. QED
  BY <1>3 DEF SetInit, AnyUse, ListsExact

\* Every step keeps the part of the invariant that is about every application.
LEMMA StepAnyUse ==
    ASSUME AnyUse, [SetNext]_setVars
    PROVE  AnyUse'
<1> USE DEF Idle
<1>1. CASE buffer_set_initx
  <2>1. SetTypeOK'
    BY <1>1, AllItems, FS_CardinalityType, BufferSetAssumption
       DEF AnyUse, SetTypeOK, buffer_set_initx, userVars
  <2>2. ListsExact'
    BY <1>1, AllItems, FS_CardinalityType, FS_EmptySet, BufferSetAssumption
       DEF ListsExact, buffer_set_initx
  <2>3. Callers' = {} /\ Cardinality(Callers') = 0 /\ Cardinality(bi_user_cached') = 0
    BY <1>1, FS_EmptySet DEF AnyUse, Callers, buffer_set_initx, userVars
  <2>. QED
    BY <1>1, <2>1, <2>2, <2>3 DEF AnyUse, buffer_set_initx, userVars
<1>2. CASE buffer_set_destroy
  <2> DEFINE C == bi_user_cached \cap ToSet(bs_free_list)
  <2>1. /\ \A t \in BufUsers : caching[t] = Nobody /\ giving[t] = Nobody
        /\ bs_init /\ bs_init' = FALSE
        /\ UNCHANGED <<usage, bs_num_allocated, bs_num_pndg_alloc, bs_max_allocated,
                       bs_inuse_list, bi_allocated, holds, caching,
                       giving, revoked_early, asserted, inits>>
    BY <1>2 DEF buffer_set_destroy
  <2>2. ~asserted
    BY <1>2 DEF buffer_set_destroy, AnyUse
  <2>3. Callers = {} /\ Cardinality(Callers) = 0
    BY <2>1, FS_EmptySet DEF Callers
  <2>4. bs_num_user_cached = Cardinality(bi_user_cached)
    BY <2>1, <2>2, <2>3 DEF AnyUse, SetTypeOK
  <2>5. IsFiniteSet(C) /\ Cardinality(C) \in Nat /\ Cardinality(C) <= Cardinality(bi_user_cached)
    BY Finite, FS_Subset, FS_CardinalityType DEF AnyUse
  <2>6. bs_num_user_cached' \in Nat
    BY <1>2, <2>4, <2>5, Finite DEF buffer_set_destroy, AnyUse
  <2>7. bs_num_bufs' \in Nat
    BY <1>2, <2>1, ItemsAddUp DEF buffer_set_destroy, AnyUse, SetTypeOK, ListsExact
  <2>8. SetTypeOK'
    <3>1. bs_free_list' \in Seq(Items)
      BY <1>2, EmptySeq DEF buffer_set_destroy
    <3>2. cacher' \in [Items -> BufUsers \cup {Nobody}] /\ bi_user_cached' \subseteq Items
      BY <1>2 DEF buffer_set_destroy, AnyUse, SetTypeOK
    <3>. QED
      BY <2>1, <2>6, <2>7, <3>1, <3>2 DEF AnyUse, SetTypeOK
  <2>. QED
    BY <2>1, <2>2, <2>8 DEF AnyUse, ListsExact
<1>3. ASSUME NEW t \in BufUsers, buffer_set_allocate_item(t) PROVE AnyUse'
  <2>1. CASE MayTakeHead(buffer_set_navail) /\ AllocateHead(t) /\ UNCHANGED asserted
    <3>1. bs_num_pndg_alloc' = bs_num_pndg_alloc /\ bs_num_pndg_alloc \in Nat
      BY <1>3 DEF buffer_set_allocate_item, AnyUse, SetTypeOK
    <3>2. bs_num_pndg_alloc <= Len(bs_free_list) - 1
      BY <1>3, <2>1, ItemsAddUp
         DEF buffer_set_allocate_item, MayTakeHead, buffer_set_navail, AnyUse, SetTypeOK
    <3>. QED
      BY <1>3, <2>1, <3>1, <3>2, AllocateHeadAnyUse DEF buffer_set_allocate_item, MayTakeHead
  <2>2. CASE /\ asserted' \in BOOLEAN
             /\ UNCHANGED <<itemVars, bs_num_allocated, bs_num_user_cached,
                            bs_max_allocated, holds, cacher, revoked_early>>
    BY <1>3, <2>2 DEF buffer_set_allocate_item, itemVars, AnyUse, SetTypeOK, ListsExact, Callers
  <2>. QED
    BY <1>3, <2>1, <2>2 DEF buffer_set_allocate_item
<1>4. ASSUME NEW t \in BufUsers, buffer_set_allocate_item_from_pending(t) PROVE AnyUse'
  <2>1. /\ bs_num_pndg_alloc' \in Nat /\ bs_num_pndg_alloc' <= Len(bs_free_list) - 1
        /\ bs_num_pndg_alloc' <= Len(bs_free_list)
    BY <1>4, ItemsAddUp
       DEF buffer_set_allocate_item_from_pending, AnyUse, SetTypeOK, ListsExact
  <2>2. CASE AllocateHead(t) /\ UNCHANGED asserted /\ MayTakeHead(buffer_set_navail + 1)
    BY <1>4, <2>1, <2>2, AllocateHeadAnyUse
       DEF buffer_set_allocate_item_from_pending, MayTakeHead
  <2>3. CASE /\ asserted' = TRUE
             /\ UNCHANGED <<itemVars, bs_num_allocated, bs_num_user_cached,
                            bs_max_allocated, holds, cacher, revoked_early>>
    BY <1>4, <2>1, <2>3
       DEF buffer_set_allocate_item_from_pending, itemVars, AnyUse, SetTypeOK, ListsExact
  <2>. QED
    BY <1>4, <2>2, <2>3 DEF buffer_set_allocate_item_from_pending
<1>5. ASSUME NEW t \in BufUsers, buffer_set_user_cache_release_item(t) PROVE AnyUse'
  <2> DEFINE i == caching[t]
  <2>1. i \in Items /\ bs_init /\ ~asserted /\ t \in Callers
    BY <1>5 DEF buffer_set_user_cache_release_item, AnyUse, SetTypeOK, Callers
  <2>2. /\ caching' = [caching EXCEPT ![t] = Nobody]
        /\ holds' = [holds EXCEPT ![t] = @ \ {i}]
        /\ UNCHANGED <<usage, bs_init, bs_num_bufs, bs_num_pndg_alloc,
                       bs_max_allocated, bi_user_cached, giving, revoked_early, inits>>
    BY <1>5 DEF buffer_set_user_cache_release_item
  <2>3. /\ caching' \in [BufUsers -> Items \cup {Nobody}]
        /\ holds' \in [BufUsers -> SUBSET Items]
    BY <2>2 DEF AnyUse, SetTypeOK
  <2>4. CASE i \in bi_allocated
    <3>1. /\ bi_allocated' = bi_allocated \ {i} /\ bs_num_allocated' = bs_num_allocated - 1
          /\ bs_num_user_cached' = bs_num_user_cached + 1
          /\ bs_inuse_list' = bs_inuse_list \ {i} /\ bs_free_list' = Append(bs_free_list, i)
          /\ cacher' = [cacher EXCEPT ![i] = t] /\ UNCHANGED asserted
      BY <1>5, <2>4 DEF buffer_set_user_cache_release_item, CachedGoesTo
    <3>2. i \in bs_inuse_list
      BY <2>1, <2>4 DEF AnyUse
    <3> HIDE DEF i
    <3>3. /\ bs_free_list' \in Seq(Items) /\ IsInjective(bs_free_list')
          /\ ToSet(bs_free_list') \cap bs_inuse_list' = {}
          /\ ToSet(bs_free_list') \cup bs_inuse_list' = Items
          /\ Cardinality(bs_inuse_list') = Cardinality(bs_inuse_list) - 1
          /\ Cardinality(bs_inuse_list) \in Nat \ {0}
          /\ Len(bs_free_list') = Len(bs_free_list) + 1
      BY <2>1, <3>1, <3>2, ItemMoves
    <3>4. Callers' = Callers \ {t}
      BY <2>2, BufferSetAssumption DEF Callers, AnyUse, SetTypeOK
    <3>5. Cardinality(Callers') = Cardinality(Callers) - 1
      BY <2>1, <3>4, Finite, FS_RemoveElement DEF AnyUse
    <3>6. bs_num_user_cached' + Cardinality(Callers') = Cardinality(bi_user_cached')
      BY <2>1, <2>2, <3>1, <3>5, Finite DEF AnyUse, SetTypeOK
    <3>7. SetTypeOK'
      BY <2>1, <2>2, <2>3, <3>1, <3>3 DEF AnyUse, SetTypeOK, ListsExact
    <3>8. ListsExact'
      BY <2>1, <2>2, <3>1, <3>3, ItemsAddUp DEF AnyUse, SetTypeOK, ListsExact
    <3>. QED
      BY <2>1, <2>2, <3>1, <3>6, <3>7, <3>8 DEF AnyUse
  <2>5. CASE i \notin bi_allocated
    <3>1. /\ asserted' = TRUE
          /\ UNCHANGED <<bi_allocated, bs_num_allocated, bs_free_list,
                         bs_num_user_cached, bs_inuse_list, cacher>>
      BY <1>5, <2>5 DEF buffer_set_user_cache_release_item
    <3>. QED
      BY <2>1, <2>2, <2>3, <3>1 DEF AnyUse, SetTypeOK, ListsExact
  <2>. QED
    BY <2>4, <2>5
<1>6. ASSUME NEW t \in BufUsers, buffer_set_release_cached_item(t) PROVE AnyUse'
  <2>1. giving[t] \in Items /\ bs_init /\ ~asserted
    BY <1>6 DEF buffer_set_release_cached_item, AnyUse, SetTypeOK
  <2>2. giving' \in [BufUsers -> Items \cup {Nobody}] /\ holds' \in [BufUsers -> SUBSET Items]
    BY <1>6 DEF buffer_set_release_cached_item, AnyUse, SetTypeOK
  <2>. QED
    BY <1>6, <2>1, <2>2, ReleaseItemAnyUse DEF buffer_set_release_cached_item
<1>7. ASSUME NEW t \in BufUsers, NEW n \in 1..Cardinality(Items),
             buffer_set_pending_alloc(t, n) \/ buffer_set_release_pending_alloc(t, n)
      PROVE  AnyUse'
  <2>1. /\ bs_init
        /\ UNCHANGED <<usage, bs_init, bs_num_bufs, bs_num_allocated,
                       bs_num_user_cached, bs_max_allocated, itemVars, userVars,
                       revoked_early, asserted, inits>>
    BY <1>7 DEF buffer_set_pending_alloc, buffer_set_release_pending_alloc
  <2>2. n \in Nat
    BY FS_CardinalityType, BufferSetAssumption
  <2>3. bs_num_pndg_alloc' \in Nat /\ bs_num_pndg_alloc' <= Len(bs_free_list)
    <3>1. CASE buffer_set_pending_alloc(t, n)
      BY <2>1, <2>2, <3>1, ItemsAddUp
         DEF buffer_set_pending_alloc, MayReserve, buffer_set_navail, AnyUse, SetTypeOK
    <3>2. CASE buffer_set_release_pending_alloc(t, n)
      BY <2>1, <2>2, <3>2, ItemsAddUp
         DEF buffer_set_release_pending_alloc, MayUnreserve, AnyUse, SetTypeOK, ListsExact
    <3>. QED
      BY <1>7, <3>1, <3>2
  <2>. QED
    BY <2>1, <2>3 DEF AnyUse, SetTypeOK, ListsExact, itemVars, userVars, Callers
<1>8. ASSUME NEW t \in BufUsers, NEW i \in Items, buffer_set_release_item(t, i) PROVE AnyUse'
  <2>1. holds' \in [BufUsers -> SUBSET Items] /\ giving' \in [BufUsers -> Items \cup {Nobody}]
    BY <1>8 DEF buffer_set_release_item, AnyUse, SetTypeOK
  <2>. QED
    BY <1>8, <2>1, ReleaseItemAnyUse DEF buffer_set_release_item
<1>9. ASSUME NEW t \in BufUsers, NEW i \in Items, user_cache_mark(t, i) PROVE AnyUse'
  <2>1. /\ bs_init /\ ~asserted /\ caching[t] = Nobody /\ i \notin bi_user_cached
        /\ bi_user_cached' = bi_user_cached \cup {i}
        /\ caching' = [caching EXCEPT ![t] = i]
        /\ UNCHANGED <<usage, bs_init, countVars, bs_free_list, bs_inuse_list,
                       bi_allocated, holds, cacher, giving, revoked_early, asserted, inits>>
    BY <1>9 DEF user_cache_mark
  <2>2. Callers' = Callers \cup {t} /\ t \notin Callers
    BY <2>1, BufferSetAssumption DEF Callers, AnyUse, SetTypeOK
  <2>3. /\ Cardinality(Callers') = Cardinality(Callers) + 1
        /\ Cardinality(bi_user_cached') = Cardinality(bi_user_cached) + 1
    BY <2>1, <2>2, Finite, FS_AddElement DEF AnyUse
  <2>4. bs_num_user_cached' + Cardinality(Callers') = Cardinality(bi_user_cached')
    BY <2>1, <2>3, Finite DEF AnyUse, SetTypeOK, countVars
  <2>5. caching' \in [BufUsers -> Items \cup {Nobody}] /\ bi_user_cached' \subseteq Items
    BY <2>1 DEF AnyUse, SetTypeOK
  <2>. QED
    BY <2>1, <2>4, <2>5 DEF AnyUse, SetTypeOK, ListsExact, countVars
<1>10. ASSUME NEW t \in BufUsers, NEW i \in Items, cache_give_back(t, i) PROVE AnyUse'
  BY <1>10 DEF cache_give_back, AnyUse, SetTypeOK, ListsExact, countVars, itemVars, Callers
<1>11. CASE UNCHANGED setVars
  BY <1>11 DEF setVars, countVars, itemVars, userVars, AnyUse, SetTypeOK, ListsExact, Callers
<1>. QED
  BY <1>1, <1>2, <1>3, <1>4, <1>5, <1>6, <1>7, <1>8, <1>9, <1>10, <1>11 DEF SetNext, ThreadStep

-------------------------------------------------------------------------------
(***************************************************************************)
(* The part of the invariant that is about a careful application.          *)
(***************************************************************************)
\* The free items that have the bit are the ones that bs_num_user_cached
\* counts: each thread half way through caching an item has marked one in use.
LEMMA CachedAreCounted ==
    ASSUME AnyUse, CarefulUse, Careful, bs_init
    PROVE  /\ bs_num_user_cached = Cardinality(bi_user_cached \ bs_inuse_list)
           /\ \A i \in Items : i \in bi_user_cached /\ i \notin bs_inuse_list
                                 => bs_num_user_cached > 0
<1> DEFINE f == [t \in Callers |-> caching[t]]
           M == bi_user_cached \cap bs_inuse_list
           F == bi_user_cached \ bs_inuse_list
<1> USE DEF CarefulUse
<1>1. f \in Bijection(Callers, M)
  <2>1. \A t \in Callers : t \in BufUsers /\ f[t] \in M /\ f[t] \in Items /\ f[t] \in holds[t]
    BY DEF Callers, MarkedByHolder, OneHolder, AnyUse, SetTypeOK
  <2>2. \A t, u \in Callers : f[t] = f[u] => t = u
    BY <2>1 DEF OneHolder
  <2>3. \A i \in M : \E t \in Callers : f[t] = i
    <3>1. ASSUME NEW i \in M PROVE \E t \in Callers : caching[t] = i
      <4>1. i \in Items /\ i # Nobody
        BY BufferSetAssumption DEF AnyUse, SetTypeOK
      <4>. QED
        BY <4>1 DEF MarkedByHolder, Callers
    <3>. QED
      BY <3>1
  <2>. QED
    BY <2>1, <2>2, <2>3 DEF Bijection, Injection, Surjection, IsInjective
<1>2. Cardinality(Callers) = Cardinality(M)
  BY <1>1, Finite, FS_Bijection DEF ExistsBijection, AnyUse
<1>3. Cardinality(F) = Cardinality(bi_user_cached) - Cardinality(M)
  BY Finite, FS_Difference DEF AnyUse
<1>4. bs_num_user_cached = Cardinality(F)
  BY <1>2, <1>3, Finite DEF AnyUse, SetTypeOK
<1>5. IsFiniteSet(F)
  BY Finite, FS_Difference DEF AnyUse
<1>6. \A i \in Items : i \in F => bs_num_user_cached > 0
  BY <1>4, <1>5, FS_EmptySet DEF AnyUse, SetTypeOK
<1>. QED
  BY <1>4, <1>6

\* Nobody is giving an item back when a thread of a careful application calls.
LEMMA IdleIsQuiet ==
    ASSUME Careful, NEW t \in BufUsers, Idle(t)
    PROVE  ~asserted /\ caching[t] = Nobody /\ \A u \in BufUsers : giving[u] = Nobody
BY DEF Careful, Idle

\* Taking the head of the free list.
LEMMA AllocateHeadCareful ==
    ASSUME AnyUse, CarefulUse, Careful, NEW t \in BufUsers, bs_init, Idle(t),
           bs_free_list # <<>>, AllocateHead(t), ~asserted',
           UNCHANGED <<usage, bs_init, caching, giving>>
    PROVE  CarefulUse'
<1> DEFINE i == Head(bs_free_list)
<1>1. /\ bs_free_list' = Tail(bs_free_list) /\ bs_inuse_list' = bs_inuse_list \cup {i}
      /\ bi_user_cached' = bi_user_cached \ {i}
      /\ holds' = [holds EXCEPT ![t] = @ \cup {i}]
      /\ cacher' = IF i \in bi_user_cached THEN [cacher EXCEPT ![i] = Nobody] ELSE cacher
  BY DEF AllocateHead
<1>2. i \in Items \ bs_inuse_list
  BY <1>1, HeadMoves
<1>3. caching[t] = Nobody /\ \A u \in BufUsers : giving[u] = Nobody
  BY IdleIsQuiet
<1>4. OneHolder /\ MarkedByHolder /\ CachedOrNot
  BY DEF CarefulUse
<1> HIDE DEF i
<1>5. \A u \in BufUsers : holds'[u] = IF u = t THEN holds[u] \cup {i} ELSE holds[u]
  BY <1>1 DEF AnyUse, SetTypeOK
<1>6. cacher'[i] = Nobody /\ \A j \in Items : j # i => cacher'[j] = cacher[j]
  BY <1>1, <1>2, <1>4 DEF CachedOrNot, AnyUse, SetTypeOK
<1>7. OneHolder'
  <2>1. \A u \in BufUsers : i \notin holds[u]
    BY <1>2, <1>4 DEF OneHolder
  <2>2. ASSUME NEW u \in BufUsers, NEW v \in BufUsers, NEW j \in Items,
               j \in holds'[u], j \in holds'[v]
        PROVE  u = v
    <3>1. CASE j = i
      BY <1>5, <2>1, <2>2, <3>1
    <3>2. CASE j # i
      BY <1>4, <1>5, <2>2, <3>2 DEF OneHolder
    <3>. QED
      BY <3>1, <3>2
  <2>3. ASSUME NEW j \in Items
        PROVE  j \in bs_inuse_list' <=> \E u \in BufUsers : j \in holds'[u]
    <3>1. CASE j = i
      <4>1. bs_inuse_list' = bs_inuse_list \cup {i} /\ holds'[t] = holds[t] \cup {i}
        BY <1>1, <1>5
      <4>. QED
        BY <3>1, <4>1
    <3>2. CASE j # i
      BY <1>1, <1>4, <1>5, <3>2 DEF OneHolder
    <3>. QED
      BY <3>1, <3>2
  <2>. QED
    BY <2>2, <2>3 DEF OneHolder
<1>8. MarkedByHolder'
  <2>1. \A u \in BufUsers : caching[u] # Nobody => caching[u] # i /\ caching[u] \in Items
    BY <1>2, <1>4 DEF MarkedByHolder, OneHolder, AnyUse, SetTypeOK
  <2>. QED
    BY <1>1, <1>2, <1>4, <1>5, <2>1 DEF MarkedByHolder
<1>9. CachedOrNot'
  BY <1>1, <1>2, <1>4, <1>6 DEF CachedOrNot
<1>10. OneGives' /\ NoSet'
  BY <1>3 DEF OneGives, NoSet
<1>. QED
  BY <1>7, <1>8, <1>9, <1>10 DEF CarefulUse

\* Every step keeps the part of the invariant that is about a careful application.
LEMMA StepCareful ==
    ASSUME SetInv, [SetNext]_setVars
    PROVE  CarefulUse'
<1> SUFFICES ASSUME Careful' PROVE CarefulUse'
  BY DEF CarefulUse
<1>1. usage' = usage /\ Careful
  <2>1. usage' = usage
    BY DEF SetNext, ThreadStep, setVars, buffer_set_initx, buffer_set_destroy,
           buffer_set_allocate_item, buffer_set_allocate_item_from_pending,
           buffer_set_user_cache_release_item, buffer_set_release_cached_item,
           buffer_set_pending_alloc, buffer_set_release_pending_alloc,
           buffer_set_release_item, user_cache_mark, cache_give_back
  <2>. QED
    BY <2>1 DEF Careful
<1>2. /\ AnyUse /\ SetTypeOK /\ CarefulUse /\ ~asserted
      /\ OneHolder /\ MarkedByHolder /\ CachedOrNot /\ OneGives /\ NoSet
  BY <1>1 DEF SetInv, AnyUse, CarefulUse
<1>3. CASE buffer_set_initx
  BY <1>2, <1>3 DEF buffer_set_initx, userVars, CarefulUse, OneHolder, MarkedByHolder,
                    CachedOrNot, OneGives, NoSet, SetTypeOK
<1>4. CASE buffer_set_destroy
  <2>1. bs_inuse_list = {} /\ bs_init
    BY <1>2, <1>4, ItemsAddUp, FS_EmptySet DEF buffer_set_destroy, Destroyable, AnyUse, ListsExact
  <2>2. /\ \A t \in BufUsers : caching[t] = Nobody /\ giving[t] = Nobody
        /\ bs_init' = FALSE
        /\ UNCHANGED <<bs_inuse_list, holds, caching, giving, asserted>>
    BY <1>4 DEF buffer_set_destroy, Idle
  <2>3. \A i \in Items : cacher'[i] = Nobody
    BY <1>2, <1>4, <2>1 DEF buffer_set_destroy, CachedOrNot
  <2>4. OneHolder' /\ MarkedByHolder' /\ CachedOrNot' /\ OneGives' /\ NoSet'
    BY <1>2, <2>1, <2>2, <2>3 DEF OneHolder, MarkedByHolder, CachedOrNot, OneGives, NoSet
  <2>. QED
    BY <1>2, <2>2, <2>4 DEF CarefulUse
<1>5. ASSUME NEW t \in BufUsers, buffer_set_allocate_item(t) PROVE CarefulUse'
  <2>1. CASE MayTakeHead(buffer_set_navail) /\ AllocateHead(t) /\ UNCHANGED asserted
    BY <1>1, <1>2, <1>5, <2>1, AllocateHeadCareful DEF buffer_set_allocate_item, MayTakeHead
  <2>2. CASE /\ ~MayTakeHead(buffer_set_navail)
             /\ "over_reserve" \in usage \/ bs_num_pndg_alloc = 0
             /\ asserted' = ~(buffer_set_navail = 0 /\ bs_free_list = <<>>)
             /\ UNCHANGED <<itemVars, bs_num_allocated, bs_num_user_cached,
                            bs_max_allocated, holds, cacher, revoked_early>>
    <3>1. bs_init /\ bs_num_pndg_alloc = 0 /\ buffer_set_navail = Len(bs_free_list)
      BY <1>1, <1>2, <1>5, <2>2, ItemsAddUp
         DEF buffer_set_allocate_item, Careful, buffer_set_navail, SetTypeOK
    <3>2. bs_free_list = <<>>
      <4>1. SUFFICES ASSUME bs_free_list # <<>> PROVE FALSE
        OBVIOUS
      <4>2. /\ Head(bs_free_list) \in Items \ bs_inuse_list /\ Len(bs_free_list) > 0
        BY <1>2, <3>1, <4>1, TailOfInjective DEF AnyUse, SetTypeOK, ListsExact
      <4>. QED
        BY <1>1, <1>2, <2>2, <3>1, <4>1, <4>2, CachedAreCounted DEF MayTakeHead
    <3>3. ~asserted'
      BY <2>2, <3>1, <3>2
    <3>. QED
      BY <1>2, <1>5, <2>2, <3>3
         DEF buffer_set_allocate_item, itemVars, CarefulUse, OneHolder, MarkedByHolder,
             CachedOrNot, OneGives, NoSet
  <2>. QED
    BY <1>5, <2>1, <2>2 DEF buffer_set_allocate_item
<1>6. ASSUME NEW t \in BufUsers, buffer_set_allocate_item_from_pending(t) PROVE CarefulUse'
  <2>1. bs_init /\ Idle(t) /\ bs_num_pndg_alloc > 0 /\ bs_num_pndg_alloc \in Nat
    BY <1>2, <1>6 DEF buffer_set_allocate_item_from_pending, SetTypeOK
  <2>2. bs_num_pndg_alloc <= Len(bs_free_list) /\ bs_free_list \in Seq(Items)
    BY <1>2, <2>1 DEF AnyUse, SetTypeOK, ListsExact
  <2>3. bs_free_list # <<>> /\ buffer_set_navail + 1 > 0
    BY <1>2, <2>1, <2>2, ItemsAddUp, EmptySeq DEF buffer_set_navail, SetTypeOK
  <2>4. Head(bs_free_list) \in Items \ bs_inuse_list
    BY <1>2, <2>1, <2>2, <2>3, TailOfInjective DEF AnyUse, ListsExact
  <2>5. MayTakeHead(buffer_set_navail + 1)
    BY <1>1, <1>2, <2>1, <2>3, <2>4, CachedAreCounted DEF MayTakeHead
  <2>. QED
    BY <1>1, <1>2, <1>6, <2>1, <2>3, <2>5, AllocateHeadCareful
       DEF buffer_set_allocate_item_from_pending
<1>7. ASSUME NEW t \in BufUsers, buffer_set_user_cache_release_item(t) PROVE CarefulUse'
  <2> DEFINE i == caching[t]
  <2>1. i \in Items /\ i \in holds[t] /\ i \in bi_user_cached /\ i \in bs_inuse_list /\ bs_init
    BY <1>2, <1>7 DEF buffer_set_user_cache_release_item, AnyUse, SetTypeOK, MarkedByHolder, OneHolder
  <2>2. i \in bi_allocated
    BY <1>2, <2>1 DEF AnyUse
  <2>3. /\ caching' = [caching EXCEPT ![t] = Nobody]
        /\ holds' = [holds EXCEPT ![t] = @ \ {i}]
        /\ bs_inuse_list' = bs_inuse_list \ {i}
        /\ cacher' = [cacher EXCEPT ![i] = t]
        /\ UNCHANGED <<bs_init, bi_user_cached, giving, asserted>>
    BY <1>7, <2>2 DEF buffer_set_user_cache_release_item
  <2> HIDE DEF i
  <2>4. /\ \A u \in BufUsers : holds'[u] = IF u = t THEN holds[u] \ {i} ELSE holds[u]
        /\ \A u \in BufUsers : caching'[u] = IF u = t THEN Nobody ELSE caching[u]
        /\ \A j \in Items : cacher'[j] = IF j = i THEN t ELSE cacher[j]
    BY <1>2, <2>3 DEF SetTypeOK
  <2>5. t # Nobody
    BY BufferSetAssumption
  <2>6. \A u \in BufUsers : u # t => i \notin holds[u]
    BY <1>2, <2>1 DEF OneHolder
  <2>7. OneHolder'
    <3>1. \A u, v \in BufUsers : \A j \in Items : j \in holds'[u] /\ j \in holds'[v] => u = v
      BY <1>2, <2>4 DEF OneHolder
    <3>2. \A j \in Items : j \in bs_inuse_list' <=> \E u \in BufUsers : j \in holds'[u]
      BY <1>2, <2>1, <2>3, <2>4, <2>6 DEF OneHolder
    <3>. QED
      BY <3>1, <3>2 DEF OneHolder
  <2>8. MarkedByHolder'
    <3>1. \A u \in BufUsers : caching'[u] # Nobody =>
            caching'[u] \in holds'[u] /\ caching'[u] \in bi_user_cached'
      BY <1>2, <2>3, <2>4 DEF MarkedByHolder
    <3>2. \A j \in Items : j \in bi_user_cached' /\ j \in bs_inuse_list' =>
            \E u \in BufUsers : caching'[u] = j
      <4>1. ASSUME NEW j \in Items, j \in bi_user_cached, j \in bs_inuse_list, j # i
            PROVE  \E u \in BufUsers : caching'[u] = j
        <5>1. PICK u \in BufUsers : caching[u] = j
          BY <1>2, <4>1 DEF MarkedByHolder
        <5>. QED
          BY <2>4, <4>1, <5>1 DEF i
      <4>. QED
        BY <2>3, <4>1
    <3>. QED
      BY <3>1, <3>2 DEF MarkedByHolder
  <2>9. CachedOrNot'
    BY <1>2, <2>1, <2>3, <2>4, <2>5 DEF CachedOrNot
  <2>10. OneGives'
    <3>1. cacher[i] = Nobody
      BY <1>2, <2>1 DEF CachedOrNot
    <3>2. \A u \in BufUsers : giving[u] # Nobody => giving[u] # i /\ giving[u] \in Items
      BY <1>2, <3>1, BufferSetAssumption DEF OneGives, SetTypeOK
    <3>. QED
      BY <1>2, <2>3, <2>4, <3>2 DEF OneGives
  <2>11. NoSet'
    BY <2>1, <2>3 DEF NoSet
  <2>. QED
    BY <1>2, <2>3, <2>7, <2>8, <2>9, <2>10, <2>11 DEF CarefulUse
<1>8. ASSUME NEW t \in BufUsers, buffer_set_release_cached_item(t) PROVE CarefulUse'
  <2> DEFINE i == giving[t]
  <2>1. i \in Items /\ bs_init /\ cacher[i] = t /\ cacher[i] # Nobody
    BY <1>2, <1>8, BufferSetAssumption
       DEF buffer_set_release_cached_item, OneGives, AnyUse, SetTypeOK
  <2>2. i \notin bs_inuse_list /\ i \in bi_user_cached
    BY <1>2, <2>1 DEF CachedOrNot
  <2>3. IsCached(i)
    BY <1>1, <1>2, <2>1, <2>2, CachedAreCounted DEF IsCached, AnyUse
  <2>4. /\ giving' = [giving EXCEPT ![t] = Nobody]
        /\ bi_user_cached' = bi_user_cached \ {i}
        /\ cacher' = [cacher EXCEPT ![i] = Nobody]
        /\ UNCHANGED <<bs_inuse_list, asserted, bs_init, holds, caching>>
    BY <1>8, <2>3 DEF buffer_set_release_cached_item, ReleaseItem, IsCached, IsInUse
  <2> HIDE DEF i
  <2>5. /\ \A u \in BufUsers : giving'[u] = IF u = t THEN Nobody ELSE giving[u]
        /\ \A j \in Items : cacher'[j] = IF j = i THEN Nobody ELSE cacher[j]
    BY <1>2, <2>4 DEF SetTypeOK
  <2>6. OneHolder'
    BY <1>2, <2>4 DEF OneHolder
  <2>7. MarkedByHolder'
    <3>1. \A u \in BufUsers : caching[u] # Nobody => caching[u] # i
      BY <1>2, <2>1, <2>2 DEF MarkedByHolder, OneHolder
    <3>. QED
      BY <1>2, <2>4, <3>1 DEF MarkedByHolder
  <2>8. CachedOrNot'
    BY <1>2, <2>2, <2>4, <2>5 DEF CachedOrNot
  <2>9. OneGives'
    <3>1. \A u \in BufUsers : u # t => giving[u] = Nobody
      BY <1>2, <2>1, BufferSetAssumption DEF OneGives, i
    <3>. QED
      BY <2>5, <3>1 DEF OneGives
  <2>10. NoSet'
    BY <2>1, <2>4 DEF NoSet
  <2>. QED
    BY <1>2, <2>4, <2>6, <2>7, <2>8, <2>9, <2>10 DEF CarefulUse
<1>9. ASSUME NEW t \in BufUsers, NEW n \in 1..Cardinality(Items),
             buffer_set_pending_alloc(t, n) \/ buffer_set_release_pending_alloc(t, n)
      PROVE  CarefulUse'
  BY <1>2, <1>9 DEF buffer_set_pending_alloc, buffer_set_release_pending_alloc, itemVars, userVars,
                    CarefulUse, OneHolder, MarkedByHolder, CachedOrNot, OneGives, NoSet
<1>10. ASSUME NEW t \in BufUsers, NEW i \in Items, buffer_set_release_item(t, i) PROVE CarefulUse'
  <2>1. bs_init /\ i \in holds[t] /\ Idle(t)
    BY <1>10 DEF buffer_set_release_item
  <2>2. caching[t] = Nobody /\ \A u \in BufUsers : giving[u] = Nobody
    BY <1>1, <2>1, IdleIsQuiet
  <2>3. i \in bs_inuse_list /\ \A u \in BufUsers : u # t => i \notin holds[u]
    BY <1>2, <2>1 DEF OneHolder
  <2>4. i \notin bi_user_cached
    BY <1>2, <2>1, <2>2, <2>3, BufferSetAssumption DEF MarkedByHolder, OneHolder
  <2>5. bs_num_allocated > 0
    BY <1>2, <2>1, <2>3, ItemsAddUp, FS_EmptySet DEF AnyUse, SetTypeOK, ListsExact
  <2>6. IsInUse(i) /\ ~IsCached(i)
    BY <1>2, <2>1, <2>3, <2>4, <2>5 DEF IsInUse, IsCached, AnyUse
  <2>7. /\ holds' = [holds EXCEPT ![t] = @ \ {i}]
        /\ bs_inuse_list' = bs_inuse_list \ {i}
        /\ UNCHANGED <<bi_user_cached, cacher, asserted, bs_init, caching, giving>>
    BY <1>10, <2>6 DEF buffer_set_release_item, ReleaseItem
  <2>8. \A u \in BufUsers : holds'[u] = IF u = t THEN holds[u] \ {i} ELSE holds[u]
    BY <1>2, <2>7 DEF SetTypeOK
  <2>9. OneHolder'
    <3>1. \A u, v \in BufUsers : \A j \in Items : j \in holds'[u] /\ j \in holds'[v] => u = v
      BY <1>2, <2>8 DEF OneHolder
    <3>2. \A j \in Items : j \in bs_inuse_list' <=> \E u \in BufUsers : j \in holds'[u]
      BY <1>2, <2>3, <2>7, <2>8 DEF OneHolder
    <3>. QED
      BY <3>1, <3>2 DEF OneHolder
  <2>10. MarkedByHolder'
    BY <1>2, <2>2, <2>4, <2>7, <2>8 DEF MarkedByHolder
  <2>11. CachedOrNot'
    BY <1>2, <2>3, <2>4, <2>7 DEF CachedOrNot
  <2>12. OneGives' /\ NoSet'
    BY <2>1, <2>2, <2>7 DEF OneGives, NoSet
  <2>. QED
    BY <1>2, <2>7, <2>9, <2>10, <2>11, <2>12 DEF CarefulUse
<1>11. ASSUME NEW t \in BufUsers, NEW i \in Items, user_cache_mark(t, i) PROVE CarefulUse'
  <2>1. /\ bs_init /\ i \in holds[t] /\ i \notin bi_user_cached /\ Idle(t)
        /\ bi_user_cached' = bi_user_cached \cup {i}
        /\ caching' = [caching EXCEPT ![t] = i]
        /\ UNCHANGED <<bs_init, bs_inuse_list, holds, cacher, giving, asserted>>
    BY <1>11 DEF user_cache_mark
  <2>2. caching[t] = Nobody /\ \A u \in BufUsers : giving[u] = Nobody
    BY <1>1, <2>1, IdleIsQuiet
  <2>3. \A u \in BufUsers : caching'[u] = IF u = t THEN i ELSE caching[u]
    BY <1>2, <2>1 DEF SetTypeOK
  <2>4. i \in bs_inuse_list
    BY <1>2, <2>1 DEF OneHolder
  <2>5. OneHolder'
    BY <1>2, <2>1 DEF OneHolder
  <2>6. MarkedByHolder'
    <3>1. \A u \in BufUsers : caching'[u] # Nobody =>
            caching'[u] \in holds'[u] /\ caching'[u] \in bi_user_cached'
      BY <1>2, <2>1, <2>3 DEF MarkedByHolder
    <3>2. ASSUME NEW j \in Items, j \in bi_user_cached', j \in bs_inuse_list'
          PROVE  \E u \in BufUsers : caching'[u] = j
      <4>1. CASE j = i
        BY <2>3, <4>1
      <4>2. CASE j # i
        <5>1. PICK u \in BufUsers : caching[u] = j
          BY <1>2, <2>1, <3>2, <4>2 DEF MarkedByHolder
        <5>. QED
          BY <2>2, <2>3, <5>1, BufferSetAssumption
      <4>. QED
        BY <4>1, <4>2
    <3>. QED
      BY <3>1, <3>2 DEF MarkedByHolder
  <2>7. CachedOrNot'
    BY <1>2, <2>1, <2>4 DEF CachedOrNot
  <2>8. OneGives' /\ NoSet'
    BY <2>1, <2>2 DEF OneGives, NoSet
  <2>. QED
    BY <1>2, <2>1, <2>5, <2>6, <2>7, <2>8 DEF CarefulUse
<1>12. ASSUME NEW t \in BufUsers, NEW i \in Items, cache_give_back(t, i) PROVE CarefulUse'
  <2>1. /\ bs_init /\ cacher[i] = t /\ Idle(t)
        /\ giving' = [giving EXCEPT ![t] = i]
        /\ UNCHANGED <<bs_init, itemVars, holds, cacher, caching, asserted>>
    BY <1>12 DEF cache_give_back
  <2>2. caching[t] = Nobody /\ \A u \in BufUsers : giving[u] = Nobody
    BY <1>1, <2>1, IdleIsQuiet
  <2>3. \A u \in BufUsers : giving'[u] = IF u = t THEN i ELSE giving[u]
    BY <1>2, <2>1 DEF SetTypeOK
  <2>4. OneGives'
    BY <2>1, <2>2, <2>3 DEF OneGives
  <2>. QED
    BY <1>2, <2>1, <2>4 DEF CarefulUse, OneHolder, MarkedByHolder, CachedOrNot, NoSet, itemVars
<1>13. CASE UNCHANGED setVars
  BY <1>2, <1>13 DEF setVars, itemVars, userVars, CarefulUse, OneHolder, MarkedByHolder,
                     CachedOrNot, OneGives, NoSet
<1>. QED
  BY <1>3, <1>4, <1>5, <1>6, <1>7, <1>8, <1>9, <1>10, <1>11, <1>12, <1>13 DEF SetNext, ThreadStep

-------------------------------------------------------------------------------
(***************************************************************************)
(* The order of the free list.                                             *)
(***************************************************************************)
\* Taking the head of the free list revokes a cached item only if all are.
LEMMA AllocateHeadLast ==
    ASSUME SetInv, usage = {}, bs_init, NEW t \in BufUsers, bs_free_list # <<>>, AllocateHead(t)
    PROVE  CachedLast'
<1> DEFINE i == Head(bs_free_list)
<1>1. /\ bs_free_list' = Tail(bs_free_list) /\ bi_user_cached' = bi_user_cached \ {i}
      /\ revoked_early' <=> i \in bi_user_cached /\ ToSet(bs_free_list) \ bi_user_cached # {}
  BY DEF AllocateHead
<1>2. bs_free_list \in Seq(Items) /\ IsInjective(bs_free_list)
  BY DEF SetInv, AnyUse, SetTypeOK, ListsExact
<1>3. /\ Len(bs_free_list) \in Nat \ {0} /\ DOMAIN bs_free_list = 1..Len(bs_free_list)
      /\ i = bs_free_list[1] /\ Len(bs_free_list') = Len(bs_free_list) - 1
      /\ \A k \in 1..Len(bs_free_list') : bs_free_list'[k] = bs_free_list[k + 1]
  BY <1>1, <1>2, TailOfInjective, LenProperties
<1>4. \A j, k \in 1..Len(bs_free_list) :
        j < k /\ bs_free_list[j] \in bi_user_cached => bs_free_list[k] \in bi_user_cached
  BY DEF SetInv, CachedLast
<1> HIDE DEF i
<1>5. ~revoked_early'
  <2>1. SUFFICES ASSUME i \in bi_user_cached, NEW x \in ToSet(bs_free_list), x \notin bi_user_cached
                 PROVE  FALSE
    BY <1>1
  <2>2. PICK k \in 1..Len(bs_free_list) : bs_free_list[k] = x
    BY <1>3 DEF ToSet
  <2>3. k > 1 /\ 1 \in 1..Len(bs_free_list)
    BY <1>3, <2>1, <2>2
  <2>. QED
    BY <1>3, <1>4, <2>1, <2>2, <2>3
<1>6. ASSUME NEW j \in 1..Len(bs_free_list'), NEW k \in 1..Len(bs_free_list'),
             j < k, bs_free_list'[j] \in bi_user_cached'
      PROVE  bs_free_list'[k] \in bi_user_cached'
  <2>1. /\ j + 1 \in 1..Len(bs_free_list) /\ k + 1 \in 1..Len(bs_free_list)
        /\ k + 1 # 1 /\ j + 1 < k + 1
    BY <1>3, <1>6
  <2>2. bs_free_list[k + 1] \in bi_user_cached
    BY <1>1, <1>3, <1>4, <1>6, <2>1
  <2>3. bs_free_list[k + 1] # i
    BY <1>2, <1>3, <2>1 DEF IsInjective
  <2>. QED
    BY <1>1, <1>3, <2>2, <2>3
<1>. QED
  BY <1>5, <1>6 DEF CachedLast

\* Every step of an application that gives nothing back keeps the cached items
\* at the end of the free list.
LEMMA StepCachedLast ==
    ASSUME SetInv, [SetNext]_setVars
    PROVE  CachedLast'
<1> SUFFICES ASSUME usage' = {} PROVE CachedLast'
  BY DEF CachedLast
<1>1. usage = {}
  BY DEF SetNext, ThreadStep, setVars, buffer_set_initx, buffer_set_destroy,
         buffer_set_allocate_item, buffer_set_allocate_item_from_pending,
         buffer_set_user_cache_release_item, buffer_set_release_cached_item,
         buffer_set_pending_alloc, buffer_set_release_pending_alloc,
         buffer_set_release_item, user_cache_mark, cache_give_back
<1>2. /\ AnyUse /\ SetTypeOK /\ CachedLast /\ ~revoked_early
      /\ OneHolder /\ MarkedByHolder /\ CachedOrNot /\ OneGives
      /\ \A j, k \in 1..Len(bs_free_list) :
           j < k /\ bs_free_list[j] \in bi_user_cached => bs_free_list[k] \in bi_user_cached
  BY <1>1 DEF SetInv, AnyUse, CarefulUse, Careful, CachedLast
<1>3. CASE buffer_set_initx
  BY <1>2, <1>3, AllItems DEF buffer_set_initx, CachedLast
<1>4. CASE buffer_set_destroy
  BY <1>2, <1>4 DEF buffer_set_destroy, CachedLast
<1>5. ASSUME NEW t \in BufUsers, buffer_set_allocate_item(t) PROVE CachedLast'
  BY <1>1, <1>2, <1>5, AllocateHeadLast
     DEF buffer_set_allocate_item, MayTakeHead, itemVars, CachedLast
<1>6. ASSUME NEW t \in BufUsers, buffer_set_allocate_item_from_pending(t) PROVE CachedLast'
  BY <1>1, <1>2, <1>6, AllocateHeadLast
     DEF buffer_set_allocate_item_from_pending, MayTakeHead, itemVars, CachedLast
<1>7. ASSUME NEW t \in BufUsers, buffer_set_user_cache_release_item(t) PROVE CachedLast'
  <2> DEFINE i == caching[t]
  <2>1. i \in bi_user_cached /\ i \in bs_inuse_list /\ i \in Items /\ bs_init
    BY <1>2, <1>7 DEF buffer_set_user_cache_release_item, AnyUse, SetTypeOK, MarkedByHolder, OneHolder
  <2>2. /\ bs_free_list' = Append(bs_free_list, i)
        /\ UNCHANGED <<bi_user_cached, revoked_early>>
    BY <1>2, <1>7, <2>1 DEF buffer_set_user_cache_release_item, CachedGoesTo, AnyUse
  <2>3. /\ Len(bs_free_list) \in Nat /\ Len(bs_free_list') = Len(bs_free_list) + 1
        /\ bs_free_list'[Len(bs_free_list) + 1] = i
        /\ \A k \in 1..Len(bs_free_list) : bs_free_list'[k] = bs_free_list[k]
    BY <1>2, <2>1, <2>2, TailAdded, LenProperties DEF AnyUse, SetTypeOK, ListsExact
  <2> HIDE DEF i
  <2>4. ASSUME NEW j \in 1..Len(bs_free_list'), NEW k \in 1..Len(bs_free_list'),
               j < k, bs_free_list'[j] \in bi_user_cached'
        PROVE  bs_free_list'[k] \in bi_user_cached'
    <3>1. CASE k = Len(bs_free_list) + 1
      BY <2>1, <2>2, <2>3, <3>1
    <3>2. CASE k \in 1..Len(bs_free_list)
      <4>1. j \in 1..Len(bs_free_list)
        BY <2>3, <2>4, <3>2
      <4>. QED
        BY <1>2, <2>2, <2>3, <2>4, <3>2, <4>1
    <3>. QED
      BY <2>3, <3>1, <3>2
  <2>. QED
    BY <1>2, <2>2, <2>4 DEF CachedLast
<1>8. ASSUME NEW t \in BufUsers, buffer_set_release_cached_item(t) PROVE CachedLast'
  <2>1. giving[t] # Nobody /\ giving[t] \in Items /\ cacher[giving[t]] = t /\ bs_init
    BY <1>2, <1>8 DEF buffer_set_release_cached_item, OneGives, AnyUse, SetTypeOK
  <2>. QED
    BY <1>1, <2>1 DEF SetInv, NoneGiven
<1>9. ASSUME NEW t \in BufUsers, NEW n \in 1..Cardinality(Items),
             buffer_set_pending_alloc(t, n) \/ buffer_set_release_pending_alloc(t, n)
      PROVE  CachedLast'
  BY <1>2, <1>9 DEF buffer_set_pending_alloc, buffer_set_release_pending_alloc, itemVars, CachedLast
<1>10. ASSUME NEW t \in BufUsers, NEW i \in Items, buffer_set_release_item(t, i) PROVE CachedLast'
  <2>1. bs_init /\ i \in holds[t] /\ i \in bs_inuse_list /\ i \notin ToSet(bs_free_list)
    BY <1>2, <1>10 DEF buffer_set_release_item, OneHolder, AnyUse, ListsExact
  <2>2. i \notin bi_user_cached
    <3>1. caching[t] = Nobody
      BY <1>10 DEF buffer_set_release_item, Idle
    <3>. QED
      BY <1>2, <2>1, <3>1, BufferSetAssumption DEF MarkedByHolder, OneHolder
  <2>3. /\ UNCHANGED <<bi_user_cached, revoked_early>>
        /\ bs_free_list' = <<i>> \o bs_free_list \/ bs_free_list' = bs_free_list
    BY <1>10, <2>2 DEF buffer_set_release_item, ReleaseItem, IsCached, itemVars
  <2>4. CASE bs_free_list' = <<i>> \o bs_free_list
    <3>1. /\ Len(bs_free_list) \in Nat /\ Len(bs_free_list') = Len(bs_free_list) + 1
          /\ bs_free_list'[1] = i
          /\ \A k \in 1..Len(bs_free_list) : bs_free_list'[k + 1] = bs_free_list[k]
      BY <1>2, <2>1, <2>4, HeadAdded, LenProperties DEF AnyUse, SetTypeOK, ListsExact
    <3>2. ASSUME NEW j \in 1..Len(bs_free_list'), NEW k \in 1..Len(bs_free_list'),
                 j < k, bs_free_list'[j] \in bi_user_cached'
          PROVE  bs_free_list'[k] \in bi_user_cached'
      <4>1. j # 1
        BY <2>2, <2>3, <3>1, <3>2
      <4>2. /\ j - 1 \in 1..Len(bs_free_list) /\ k - 1 \in 1..Len(bs_free_list)
            /\ j - 1 < k - 1 /\ (j - 1) + 1 = j /\ (k - 1) + 1 = k
        BY <3>1, <3>2, <4>1
      <4>3. bs_free_list'[j] = bs_free_list[j - 1] /\ bs_free_list'[k] = bs_free_list[k - 1]
        BY <3>1, <4>2
      <4>. QED
        BY <1>2, <2>3, <3>2, <4>2, <4>3
    <3>. QED
      BY <1>2, <2>3, <3>2 DEF CachedLast
  <2>5. CASE bs_free_list' = bs_free_list
    BY <1>2, <2>3, <2>5 DEF CachedLast
  <2>. QED
    BY <2>3, <2>4, <2>5
<1>11. ASSUME NEW t \in BufUsers, NEW i \in Items, user_cache_mark(t, i) PROVE CachedLast'
  <2>1. /\ bs_init /\ i \in bs_inuse_list /\ i \notin ToSet(bs_free_list)
        /\ bi_user_cached' = bi_user_cached \cup {i}
        /\ UNCHANGED <<bs_free_list, revoked_early>>
    BY <1>2, <1>11 DEF user_cache_mark, OneHolder, AnyUse, ListsExact
  <2>2. \A k \in 1..Len(bs_free_list) : bs_free_list[k] # i
    BY <1>2, <2>1, LenProperties DEF ToSet, SetTypeOK
  <2>. QED
    BY <1>2, <2>1, <2>2 DEF CachedLast
<1>12. ASSUME NEW t \in BufUsers, NEW i \in Items, cache_give_back(t, i) PROVE CachedLast'
  BY <1>1, <1>12 DEF cache_give_back
<1>13. CASE UNCHANGED setVars
  BY <1>2, <1>13 DEF setVars, itemVars, CachedLast
<1>. QED
  BY <1>3, <1>4, <1>5, <1>6, <1>7, <1>8, <1>9, <1>10, <1>11, <1>12, <1>13 DEF SetNext, ThreadStep
-------------------------------------------------------------------------------
\* The invariant holds in every state, for every number of users and buffers.
LEMMA SetInvariant == SetSpec => []SetInv
<1>1. SetInit => SetInv
  <2> SUFFICES ASSUME SetInit PROVE SetInv
    OBVIOUS
  <2>1. CarefulUse
    BY DEF SetInit, CarefulUse, OneHolder, MarkedByHolder, CachedOrNot, OneGives, NoSet
  <2>2. CachedLast /\ NoneGiven
    BY DEF SetInit, CachedLast, NoneGiven
  <2>. QED
    BY <2>1, <2>2, InitAnyUse DEF SetInv
<1>2. SetInv /\ [SetNext]_setVars => SetInv'
  <2> SUFFICES ASSUME SetInv, [SetNext]_setVars PROVE SetInv'
    OBVIOUS
  <2>1. NoneGiven'
    BY DEF SetInv, NoneGiven, AnyUse, SetTypeOK, SetNext, ThreadStep, setVars, userVars,
           buffer_set_initx, buffer_set_destroy,
           buffer_set_allocate_item, buffer_set_allocate_item_from_pending,
           buffer_set_user_cache_release_item, buffer_set_release_cached_item,
           buffer_set_pending_alloc, buffer_set_release_pending_alloc,
           buffer_set_release_item, user_cache_mark, cache_give_back
  <2>. QED
    BY <2>1, StepAnyUse, StepCareful, StepCachedLast DEF SetInv
<1>. QED
  BY <1>1, <1>2, PTL DEF SetSpec

\* The variables of struct buffer_set and of its users have their types: no
\* counter of buffer.c wraps below zero, whatever the application does.
THEOREM BufferTypes == SetSpec => []SetTypeOK
<1>1. SetInv => SetTypeOK
  BY DEF SetInv, AnyUse
<1>. QED
  BY <1>1, SetInvariant, PTL

\* Buffers are neither lost nor made: in every state of every buffer set each
\* buffer is on one list, the counters are exact, a reservation can be
\* honoured, and for a careful application no assertion fails and a buffer has
\* one user.
THEOREM BuffersConserved == SetSpec => []Conservation
<1>1. SetInv => Conservation
  <2> SUFFICES ASSUME SetInv PROVE Conservation
    OBVIOUS
  <2>1. ListsExact /\ NoAssert /\ AnyUse /\ SetTypeOK
    BY DEF SetInv, AnyUse, CarefulUse, NoAssert
  <2>2. CachedExact
    <3> SUFFICES ASSUME bs_init, Careful
                 PROVE  LET marked == {caching[t] : t \in BufUsers} IN
                        /\ bs_num_user_cached = Cardinality(bi_user_cached \ marked)
                        /\ bi_user_cached \ marked = {i \in Items : cacher[i] # Nobody}
      BY DEF CachedExact
    <3> DEFINE marked == {caching[t] : t \in BufUsers}
    <3>1. OneHolder /\ MarkedByHolder /\ CachedOrNot
      BY DEF SetInv, CarefulUse
    <3>2. \A i \in Items : i \in bi_user_cached => (i \in marked <=> i \in bs_inuse_list)
      BY <2>1, <3>1, BufferSetAssumption DEF OneHolder, MarkedByHolder
    <3>3. bi_user_cached \ marked = bi_user_cached \ bs_inuse_list
      BY <2>1, <3>2 DEF SetTypeOK
    <3>4. bi_user_cached \ bs_inuse_list = {i \in Items : cacher[i] # Nobody}
      BY <2>1, <3>1 DEF CachedOrNot, SetTypeOK
    <3>. QED
      BY <3>3, <3>4, CachedAreCounted DEF SetInv
  <2>3. ExclusiveUse
    <3> SUFFICES ASSUME Careful
                 PROVE  /\ \A t, u \in BufUsers : t # u => holds[t] \cap holds[u] = {}
                        /\ UNION {holds[t] : t \in BufUsers} = bs_inuse_list
                        /\ \A i \in bs_inuse_list : cacher[i] = Nobody
      BY DEF ExclusiveUse
    <3>1. OneHolder /\ CachedOrNot
      BY DEF SetInv, CarefulUse
    <3>2. /\ \A t \in BufUsers : holds[t] \subseteq Items
          /\ bs_inuse_list \subseteq Items
      BY <2>1 DEF SetTypeOK
    <3>. QED
      BY <3>1, <3>2 DEF OneHolder, CachedOrNot
  <2>. QED
    BY <2>1, <2>2, <2>3 DEF Conservation
<1>. QED
  BY <1>1, SetInvariant, PTL

\* An application that gives no cached item back keeps its cache as long as it
\* can: an allocation revokes a cached item only when no other one is free.
THEOREM CacheRevokedLast == SetSpec => []RevokedLast
<1>1. SetInv => RevokedLast
  BY DEF SetInv, CachedLast, RevokedLast
<1>. QED
  BY <1>1, SetInvariant, PTL
--------------------------------------------------------------------------------
(***************************************************************************)
(* Fault injection for any threads, call sites and sets.  The invariant    *)
(* says, beside the property, what a thread that is between deciding and   *)
(* writing down may rely on: as long as it is alone inside its injection,  *)
(* what it decided on still holds.                                         *)
(***************************************************************************)
Entry == [when : Whens, freq : Nat, enabled : BOOLEAN, file : Nat,
          remaining : 0..CounterSpan - 1, inject_cnt : Nat, exec_cnt : Nat, last : Int]
HistoryRec == [left : Nat, uses : Nat, fires : Nat, enables : Nat]
UserRec == [at : {"lookup", "info", "test", "note"}, site : FaultSites,
            fire : BOOLEAN, use : BOOLEAN]

FaultTypes ==
    /\ faultSets \in Seq(DOMAIN FaultTable) /\ Len(faultSets) > 0
    /\ fis \in [FaultSites -> [atomic : {0, 1}, flti : Injections \cup {NoFault}]]
    /\ flti \in [Injections -> Entry]
    /\ user = [t \in FaultUsers |-> user[t]]
    /\ \A t \in FaultUsers : user[t].at # "out" => user[t] \in UserRec
    /\ now \in Nat
    /\ flthist \in [Injections -> HistoryRec]
    /\ faultAbort \in BOOLEAN

\* One thread resolves a stub, and nobody changes it after that.
Stubs ==
    /\ \A s \in FaultSites : /\ fis[s].atomic = 0 => fis[s].flti = NoFault
                             /\ fis[s].flti # NoFault => fis[s].flti[2] = s.id
    /\ \A t \in FaultUsers : user[t].at = "lookup" =>
         /\ fis[user[t].site] = [atomic |-> 1, flti |-> NoFault]
         /\ \A u \in FaultUsers : user[u].at = "lookup" /\ user[u].site = user[t].site => u = t
    /\ \A t \in FaultUsers : user[t].at = "note" => fis[user[t].site].flti # NoFault
    /\ ~faultAbort => \A t \in FaultUsers : user[t].at = "info" => fis[user[t].site].flti # NoFault
    /\ \A f \in Injections : flti[f].file # 0 => \E s \in FaultSites : fis[s].flti = f

AbortSite ==
    faultAbort => \E t \in FaultUsers, s \in FaultSites :
                     /\ user[t].at = "info" /\ user[t].site # s
                     /\ user[t].site.id = s.id /\ fis[s].flti # NoFault

\* The counters of injection f, and what a thread inside of it has decided on.
Counted(f) ==
    /\ flti[f].inject_cnt = flthist[f].fires
    /\ flti[f].inject_cnt <= flti[f].exec_cnt
    /\ flti[f].remaining + flthist[f].uses = flthist[f].left
    /\ flti[f].when = "one_time_only" =>
         /\ flthist[f].fires <= flthist[f].enables
         /\ flti[f].enabled => flthist[f].fires < flthist[f].enables
    /\ flti[f].when = "per_freq_in_seconds" =>
         /\ (flthist[f].fires - 1) * (flti[f].freq + 1) < flti[f].last
         /\ flti[f].last <= now
Decided(t, f) ==
    /\ user[t].fire => /\ flti[f].enabled /\ flti[f].inject_cnt < flti[f].exec_cnt
                       /\ flti[f].when = "per_freq_in_seconds" => now - flti[f].last > flti[f].freq
    /\ user[t].use => flti[f].remaining > 0
InNote(t, f) == user[t].at = "note" /\ fis[user[t].site].flti = f
Alone(f) ==
    \A t \in FaultUsers : InNote(t, f) =>
        Decided(t, f) /\ \A u \in FaultUsers : InNote(u, f) => u = t
Unraced == \A f \in Injections : f \notin raced => Counted(f) /\ Alone(f)

FaultInv == FaultTypes /\ Stubs /\ AbortSite /\ Unraced

\* An injection is a set and a place in its table.
LEMMA InjectionIs ==
    /\ NoFault \notin Injections
    /\ \A f \in Injections : /\ f = <<f[1], f[2]>> /\ f[1] \in DOMAIN FaultTable
                             /\ FaultTable[f[1]][f[2]] \in [when : Whens, freq : Nat, enabled : BOOLEAN]
    /\ \A s \in DOMAIN FaultTable, site \in FaultSites : <<s, site.id>> \in Injections
<1>1. ASSUME NEW f \in Injections
      PROVE  \E s \in DOMAIN FaultTable : \E i \in DOMAIN FaultTable[s] : f = <<s, i>>
  BY DEF Injections
<1>2. ASSUME NEW s \in DOMAIN FaultTable, NEW i \in DOMAIN FaultTable[s]
      PROVE  <<s, i>> # NoFault /\ <<s, i>>[1] = s /\ <<s, i>>[2] = i
  BY DEF NoFault
<1>3. ASSUME NEW s \in DOMAIN FaultTable, NEW i \in DOMAIN FaultTable[s]
      PROVE  FaultTable[s][i] \in [when : Whens, freq : Nat, enabled : BOOLEAN]
  <2>. DEFINE T == [when : Whens, freq : Nat, enabled : BOOLEAN]
  <2>1. FaultTable[s] \in Seq(T)
    BY FaultAssumption
  <2>. HIDE DEF T
  <2>2. FaultTable[s][i] \in T
    BY <2>1
  <2>. QED
    BY <2>2 DEF T
<1>4. \A f \in Injections : /\ f = <<f[1], f[2]>> /\ f[1] \in DOMAIN FaultTable
                            /\ FaultTable[f[1]][f[2]] \in [when : Whens, freq : Nat, enabled : BOOLEAN]
  BY <1>1, <1>2, <1>3
<1>5. NoFault \notin Injections
  BY <1>1, <1>2
<1>6. ASSUME NEW s \in DOMAIN FaultTable, NEW site \in FaultSites
      PROVE  <<s, site.id>> \in Injections
  BY FaultAssumption DEF Injections
<1>. QED
  BY <1>4, <1>5, <1>6

\* It holds when the process starts.
LEMMA FaultInitInv == FaultInit => FaultInv
<1>. SUFFICES ASSUME FaultInit PROVE FaultInv
  OBVIOUS
<1>. USE DEF FaultInit
<1>1. ASSUME NEW f \in Injections
      PROVE  /\ flti[f] \in Entry /\ flti[f].file = 0 /\ flti[f].inject_cnt = 0
             /\ flti[f].exec_cnt = 0 /\ flti[f].remaining = 0
             /\ flti[f].freq \in Nat /\ flti[f].last = -flti[f].freq
             /\ flti[f].enabled = FaultTable[f[1]][f[2]].enabled
             /\ flthist[f].left = 0 /\ flthist[f].uses = 0 /\ flthist[f].fires = 0
             /\ flthist[f].enables = (IF FaultTable[f[1]][f[2]].enabled THEN 1 ELSE 0)
             /\ flthist[f] \in HistoryRec
  <2>. DEFINE e == FaultTable[f[1]][f[2]]
  <2>1. e \in [when : Whens, freq : Nat, enabled : BOOLEAN]
    BY InjectionIs
  <2>2. flti[f] = [when |-> e.when, freq |-> e.freq, enabled |-> e.enabled, file |-> 0,
                   remaining |-> 0, inject_cnt |-> 0, exec_cnt |-> 0, last |-> -e.freq]
    BY DEF FaultInit
  <2>3. flthist[f] = [left |-> 0, uses |-> 0, fires |-> 0, enables |-> IF e.enabled THEN 1 ELSE 0]
    BY DEF FaultInit
  <2>. HIDE DEF e
  <2>4. /\ e.when \in Whens /\ e.freq \in Nat /\ e.enabled \in BOOLEAN /\ -e.freq \in Int
        /\ 0 \in 0..CounterSpan - 1
    BY <2>1, FaultAssumption
  <2>5. flti[f] \in Entry
    BY <2>2, <2>4 DEF Entry
  <2>6. flthist[f] \in HistoryRec
    BY <2>3 DEF HistoryRec
  <2>. QED
    BY <2>2, <2>3, <2>4, <2>5, <2>6 DEF e
<1>2. FaultTypes
  <2>1. faultSets \in Seq(DOMAIN FaultTable) /\ Len(faultSets) > 0
    BY FaultAssumption
  <2>2. flti \in [Injections -> Entry] /\ flthist \in [Injections -> HistoryRec]
    BY <1>1
  <2>3. \A t \in FaultUsers : user[t].at = "out"
    BY DEF NotIn
  <2>. QED
    BY <2>1, <2>2, <2>3 DEF FaultTypes
<1>3. Stubs /\ AbortSite
  BY <1>1 DEF Stubs, AbortSite, NotIn
<1>4. ASSUME NEW f \in Injections PROVE Counted(f)
  <2>1. \A n \in Nat : (0 - 1) * (n + 1) < -n /\ -n <= 1
    OBVIOUS
  <2>2. flti[f].inject_cnt = 0 /\ flti[f].exec_cnt = 0 /\ flti[f].remaining = 0
    BY <1>1
  <2>3. flthist[f].fires = 0 /\ flthist[f].uses = 0 /\ flthist[f].left = 0
    BY <1>1
  <2>4. flthist[f].enables \in Nat /\ (flti[f].enabled => flthist[f].enables = 1)
    BY <1>1
  <2>5. flti[f].freq \in Nat /\ flti[f].last = -flti[f].freq
    BY <1>1
  <2>6. now = 1
    OBVIOUS
  <2>. HIDE DEF FaultInit
  <2>7. (flthist[f].fires - 1) * (flti[f].freq + 1) < flti[f].last /\ flti[f].last <= now
    <3>1. (0 - 1) * (flti[f].freq + 1) < -flti[f].freq /\ -flti[f].freq <= 1
      BY <2>1, <2>5
    <3>. QED
      BY <2>3, <2>5, <2>6, <3>1
  <2>. QED
    BY <2>2, <2>3, <2>4, <2>7 DEF Counted
<1>5. \A f \in Injections : Alone(f)
  BY DEF Alone, InNote, NotIn
<1>. QED
  BY <1>2, <1>3, <1>4, <1>5 DEF FaultInv, Unraced

SameCounters(f) ==
    /\ flti'[f].when = flti[f].when /\ flti'[f].freq = flti[f].freq
    /\ flti'[f].enabled = flti[f].enabled /\ flti'[f].remaining = flti[f].remaining
    /\ flti'[f].inject_cnt = flti[f].inject_cnt /\ flti'[f].exec_cnt = flti[f].exec_cnt
    /\ flti'[f].last = flti[f].last

\* A step that changes neither an injection nor the clock, and brings nobody
\* inside one, keeps what is counted.
LEMMA UnracedQuiet ==
    ASSUME FaultInv, UNCHANGED <<flthist, raced, now>>,
           \A f \in Injections : SameCounters(f),
           \A t \in FaultUsers, f \in Injections :
               InNote(t, f)' => InNote(t, f) /\ user'[t] = user[t]
    PROVE  Unraced'
<1>. SUFFICES ASSUME NEW f \in Injections, f \notin raced' PROVE Counted(f)' /\ Alone(f)'
  BY DEF Unraced
<1>1. Counted(f) /\ Alone(f)
  BY DEF FaultInv, Unraced
<1>2. SameCounters(f)
  OBVIOUS
<1>3. Counted(f)'
  BY <1>1, <1>2 DEF Counted, SameCounters
<1>4. ASSUME NEW t \in FaultUsers, InNote(t, f)' PROVE Decided(t, f)'
  <2>1. InNote(t, f) /\ user'[t] = user[t]
    BY <1>4
  <2>2. Decided(t, f)
    BY <1>1, <2>1 DEF Alone
  <2>. QED
    BY <1>2, <2>1, <2>2 DEF Decided, SameCounters
<1>5. \A t, u \in FaultUsers : InNote(t, f)' /\ InNote(u, f)' => u = t
  BY <1>1 DEF Alone
<1>. QED
  BY <1>3, <1>4, <1>5 DEF Alone

\* A thread enters, a stub is resolved or not, and the call site is written down.
LEMMA StubSteps ==
    ASSUME FaultInv, NEW t \in FaultUsers,
           \/ \E s \in FaultSites : Enter(t, s)
           \/ Resolve(t) \/ fault_injection_apply_info(t) \/ Unresolved(t)
    PROVE  FaultInv'
<1>. USE DEF FaultInv
<1>1. ASSUME NEW s \in FaultSites, Enter(t, s) PROVE FaultInv'
  <2>. DEFINE at == IF fis[s].atomic = 0 THEN "lookup" ELSE "test"
  <2>0. /\ ~faultAbort /\ fis' = [fis EXCEPT ![s].atomic = 1]
        /\ user' = [user EXCEPT ![t] = [NotIn EXCEPT !.site = s, !.at = at]]
        /\ UNCHANGED <<faultSets, flti, now, flthist, raced, faultAbort>>
    BY <1>1 DEF Enter, UserAt
  <2>a. at \in {"lookup", "test"} /\ (at = "lookup" => fis[s].atomic = 0)
    OBVIOUS
  <2>. HIDE DEF at
  <2>1. /\ user'[t] = [at |-> at, site |-> s, fire |-> FALSE, use |-> FALSE]
        /\ user' = [u \in FaultUsers |-> user'[u]]
        /\ \A u \in FaultUsers \ {t} : user'[u] = user[u]
    BY <2>0 DEF FaultTypes, NotIn
  <2>2. /\ fis' \in [FaultSites -> [atomic : {0, 1}, flti : Injections \cup {NoFault}]]
        /\ \A r \in FaultSites : fis'[r].flti = fis[r].flti
        /\ \A r \in FaultSites \ {s} : fis'[r] = fis[r]
        /\ fis'[s] = [atomic |-> 1, flti |-> fis[s].flti]
    BY <2>0 DEF FaultTypes
  <2>3. user'[t] \in UserRec /\ user'[t].site = s /\ user'[t].at \in {"lookup", "test"}
        /\ (user'[t].at = "lookup" => fis[s].atomic = 0)
    BY <2>1, <2>a DEF UserRec
  <2>4. FaultTypes'
    BY <2>0, <2>1, <2>2, <2>3 DEF FaultTypes
  <2>5. Stubs'
    <3>1. \A r \in FaultSites : /\ fis'[r].atomic = 0 => fis'[r].flti = NoFault
                                /\ fis'[r].flti # NoFault => fis'[r].flti[2] = r.id
      BY <2>2 DEF Stubs
    <3>2. \A u \in FaultUsers : user'[u].at = "lookup" =>
            /\ fis'[user'[u].site] = [atomic |-> 1, flti |-> NoFault]
            /\ \A v \in FaultUsers : user'[v].at = "lookup" /\ user'[v].site = user'[u].site => u = v
      BY SMTT(30), <2>1, <2>2, <2>3 DEF Stubs, FaultTypes, UserRec
    <3>3. \A u \in FaultUsers : user'[u].at \in {"note", "info"} => fis'[user'[u].site].flti # NoFault
      BY <2>0, <2>1, <2>2, <2>3 DEF Stubs, FaultTypes, UserRec
    <3>4. \A h \in Injections : flti'[h].file # 0 => \E r \in FaultSites : fis'[r].flti = h
      BY <2>0, <2>2 DEF Stubs
    <3>. QED
      BY <3>1, <3>2, <3>3, <3>4 DEF Stubs
  <2>6. AbortSite'
    BY <2>0 DEF AbortSite
  <2>7. ASSUME NEW u \in FaultUsers, NEW f \in Injections, InNote(u, f)'
        PROVE  InNote(u, f) /\ user'[u] = user[u]
    BY <2>1, <2>2, <2>3, <2>7 DEF InNote, FaultTypes, UserRec
  <2>8. Unraced'
    <3>1. \A f \in Injections : SameCounters(f)
      BY <2>0 DEF SameCounters
    <3>. QED
      BY <2>0, <2>7, <3>1, UnracedQuiet
  <2>. QED
    BY <2>4, <2>5, <2>6, <2>8
<1>2. ASSUME Resolve(t) PROVE FaultInv'
  <2>. DEFINE s == user[t].site
              f == fault_injection_lookup(s.id)
              g == <<faultSets[1], s.id>>
  <2>0. /\ ~faultAbort /\ user[t].at = "lookup" /\ s \in FaultSites
        /\ fis' = [fis EXCEPT ![s].flti = f] /\ faultAbort' = (f = NoFault)
        /\ user' = [user EXCEPT ![t].at = "info"]
        /\ UNCHANGED <<faultSets, flti, now, faultOps, flthist, raced>>
    BY <1>2 DEF Resolve, UserAt, UserGo, FaultTypes, UserRec
  <2>1. g \in Injections
    <3>1. faultSets[1] \in DOMAIN FaultTable
      BY DEF FaultTypes
    <3>. QED
      BY <2>0, <3>1, InjectionIs
  <2>2. f = (IF flti[g].file # 0 THEN NoFault ELSE g) /\ g[2] = s.id /\ g # NoFault
    BY <2>1, InjectionIs DEF fault_injection_lookup
  <2>. HIDE DEF f, g, s
  <2>3. /\ fis' \in [FaultSites -> [atomic : {0, 1}, flti : Injections \cup {NoFault}]]
        /\ \A r \in FaultSites \ {s} : fis'[r] = fis[r]
        /\ fis'[s].flti = f /\ fis[s].flti = NoFault /\ fis[s].atomic = 1
        /\ fis'[s].atomic = 1
    BY <2>0, <2>1, <2>2 DEF FaultTypes, Stubs, s
  <2>4. /\ user[t] \in UserRec /\ user'[t] = [user[t] EXCEPT !.at = "info"]
        /\ user' = [u \in FaultUsers |-> user'[u]]
        /\ \A u \in FaultUsers \ {t} : user'[u] = user[u]
    BY <2>0 DEF FaultTypes
  <2>5. /\ user'[t] \in UserRec /\ user'[t].at = "info" /\ user'[t].site = s
    BY <2>4 DEF UserRec, s
  <2>6. FaultTypes'
    BY <2>0, <2>3, <2>4, <2>5 DEF FaultTypes
  <2>7. Stubs'
    <3>1. \A r \in FaultSites : /\ fis'[r].atomic = 0 => fis'[r].flti = NoFault
                                /\ fis'[r].flti # NoFault => fis'[r].flti[2] = r.id
      BY <2>2, <2>3 DEF Stubs
    <3>2. \A u \in FaultUsers : user'[u].at = "lookup" =>
            /\ fis'[user'[u].site] = [atomic |-> 1, flti |-> NoFault]
            /\ \A v \in FaultUsers : user'[v].at = "lookup" /\ user'[v].site = user'[u].site => u = v
      BY <2>0, <2>3, <2>4, <2>5 DEF Stubs, FaultTypes, UserRec, s
    <3>3. \A u \in FaultUsers : user'[u].at = "note" => fis'[user'[u].site].flti # NoFault
      BY <2>0, <2>3, <2>4, <2>5 DEF Stubs, FaultTypes, UserRec
    <3>4. ~faultAbort' => \A u \in FaultUsers : user'[u].at = "info" => fis'[user'[u].site].flti # NoFault
      BY <2>0, <2>3, <2>4, <2>5 DEF Stubs, FaultTypes, UserRec
    <3>5. \A h \in Injections : flti'[h].file # 0 => \E r \in FaultSites : fis'[r].flti = h
      BY <2>0, <2>3, InjectionIs DEF Stubs
    <3>. QED
      BY <3>1, <3>2, <3>3, <3>4, <3>5 DEF Stubs
  <2>8. AbortSite'
    <3>. SUFFICES ASSUME faultAbort' PROVE AbortSite'
      BY DEF AbortSite
    <3>1. flti[g].file # 0
      BY <2>0, <2>2
    <3>2. PICK r \in FaultSites : fis[r].flti = g
      BY <2>1, <3>1 DEF Stubs
    <3>3. r # s /\ r.id = s.id /\ fis'[r].flti # NoFault
      BY <2>2, <2>3, <3>2 DEF Stubs
    <3>. QED
      BY <2>5, <3>3 DEF AbortSite
  <2>9. ASSUME NEW u \in FaultUsers, NEW h \in Injections, InNote(u, h)'
        PROVE  InNote(u, h) /\ user'[u] = user[u]
    <3>1. u # t
      BY <2>5, <2>9 DEF InNote
    <3>2. fis[user[u].site].flti # NoFault /\ user[u].site \in FaultSites
      BY <2>4, <2>9, <3>1 DEF InNote, Stubs, FaultTypes, UserRec
    <3>. QED
      BY <2>3, <2>4, <2>9, <3>1, <3>2 DEF InNote
  <2>10. Unraced'
    <3>1. \A h \in Injections : SameCounters(h)
      BY <2>0 DEF SameCounters
    <3>. QED
      BY <2>0, <2>9, <3>1, UnracedQuiet
  <2>. QED
    BY <2>6, <2>7, <2>8, <2>10
<1>3. ASSUME fault_injection_apply_info(t) PROVE FaultInv'
  <2>. DEFINE s == user[t].site
              f == fis[s].flti
  <2>0. /\ ~faultAbort /\ user[t].at = "info" /\ s \in FaultSites
        /\ flti' = [flti EXCEPT ![f].file = IF @ = 0 THEN s.site ELSE @]
        /\ user' = [user EXCEPT ![t].at = "test"]
        /\ UNCHANGED <<faultSets, fis, now, faultOps, flthist, raced, faultAbort>>
    BY <1>3 DEF fault_injection_apply_info, UserAt, UserGo, FaultTypes, UserRec
  <2>1. f \in Injections /\ s.site \in Nat
    BY SMTT(30), <2>0, FaultAssumption DEF Stubs, FaultTypes
  <2>2. /\ user[t] \in UserRec /\ user'[t] = [user[t] EXCEPT !.at = "test"]
        /\ user' = [u \in FaultUsers |-> user'[u]]
        /\ \A u \in FaultUsers \ {t} : user'[u] = user[u]
    BY <2>0 DEF FaultTypes
  <2>3. user'[t] \in UserRec /\ user'[t].at = "test"
    BY <2>2 DEF UserRec
  <2>. HIDE DEF f, s
  <2>4. /\ flti' \in [Injections -> Entry]
        /\ \A h \in Injections : SameCounters(h)
        /\ \A h \in Injections : h # f => flti'[h] = flti[h]
    BY ZenonT(30), <2>0, <2>1 DEF FaultTypes, Entry, SameCounters
  <2>5. FaultTypes'
    BY <2>0, <2>2, <2>3, <2>4 DEF FaultTypes
  <2>6. Stubs'
    <3>1. fis[s].flti = f
      BY DEF f
    <3>. QED
      BY <2>0, <2>2, <2>3, <2>4, <3>1 DEF Stubs
  <2>7. AbortSite'
    BY <2>0 DEF AbortSite
  <2>8. Unraced'
    BY <2>0, <2>2, <2>3, <2>4, UnracedQuiet DEF InNote
  <2>. QED
    BY <2>5, <2>6, <2>7, <2>8
<1>4. ASSUME Unresolved(t) PROVE FaultInv'
  <2>0. /\ ~faultAbort /\ user' = [user EXCEPT ![t] = NotIn]
        /\ UNCHANGED <<faultSets, fis, flti, now, faultOps, flthist, raced, faultAbort>>
    BY <1>4 DEF Unresolved, UserAt
  <2>1. /\ user'[t].at = "out"
        /\ user' = [u \in FaultUsers |-> user'[u]]
        /\ \A u \in FaultUsers \ {t} : user'[u] = user[u]
    BY <2>0 DEF FaultTypes, NotIn
  <2>2. FaultTypes'
    BY <2>0, <2>1 DEF FaultTypes
  <2>3. Stubs' /\ AbortSite'
    BY <2>0, <2>1 DEF Stubs, AbortSite
  <2>4. Unraced'
    <3>1. \A f \in Injections : SameCounters(f)
      BY <2>0 DEF SameCounters
    <3>. QED
      BY <2>0, <2>1, <3>1, UnracedQuiet DEF InNote
  <2>. QED
    BY <2>2, <2>3, <2>4
<1>. QED
  BY <1>1, <1>2, <1>3, <1>4

\* A thread inside f that leaves f as it is, or a step that finds f raced, says
\* nothing of the other injections: their counters and threads are the same.
LEMMA UnracedOthers ==
    ASSUME FaultInv, NEW f \in Injections, NEW t \in FaultUsers,
           \A h \in Injections \ {f} : SameCounters(h) /\ flthist'[h] = flthist[h],
           now' = now, fis' = fis, raced \subseteq raced',
           \A u \in FaultUsers \ {t} : user'[u] = user[u],
           user'[t].at = "note" => user'[t].site = user[t].site /\ fis[user[t].site].flti = f,
           f \notin raced' => Counted(f)' /\ Alone(f)'
    PROVE  Unraced'
<1>. SUFFICES ASSUME NEW h \in Injections \ {f}, h \notin raced' PROVE Counted(h)' /\ Alone(h)'
  BY DEF Unraced
<1>1. Counted(h) /\ Alone(h)
  BY DEF FaultInv, Unraced
<1>2. SameCounters(h) /\ flthist'[h] = flthist[h]
  OBVIOUS
<1>3. Counted(h)'
  BY <1>1, <1>2 DEF Counted, SameCounters
<1>4. ASSUME NEW u \in FaultUsers, InNote(u, h)' PROVE Decided(u, h)' /\ InNote(u, h)
  <2>1. InNote(u, h) /\ user'[u] = user[u]
    BY <1>4 DEF InNote
  <2>2. Decided(u, h)
    BY <1>1, <2>1 DEF Alone
  <2>. QED
    BY <1>2, <2>1, <2>2 DEF Decided, SameCounters
<1>. QED
  BY <1>1, <1>3, <1>4 DEF Alone

\* A thread decides whether its injection fires.
LEMMA EvaluateStep ==
    ASSUME FaultInv, NEW t \in FaultUsers, Evaluate(t)
    PROVE  FaultInv'
<1>. USE DEF FaultInv
<1>a. SUFFICES ASSUME NEW s, s = user[t].site, NEW f, f = fis[s].flti, NEW e, e = flti[f],
                     NEW fire, fire = Fires(e), NEW use, use = Uses(e)
              PROVE  FaultInv'
  OBVIOUS
<1>0. /\ ~faultAbort /\ user[t].at = "test" /\ user[t] \in UserRec /\ s \in FaultSites
      /\ f # NoFault /\ f \in Injections /\ e \in Entry
      /\ flti' = [flti EXCEPT ![f].exec_cnt = @ + 1]
      /\ user' = [user EXCEPT ![t] = [@ EXCEPT !.at = "note", !.fire = fire, !.use = use]]
      /\ raced' = (IF Inside(f) = {} THEN raced ELSE raced \cup {f})
      /\ UNCHANGED <<faultSets, fis, now, faultOps, flthist, faultAbort>>
  <2>1. user[t].at = "test" /\ user[t] \in UserRec /\ ~faultAbort
    BY DEF Evaluate, UserAt, FaultTypes
  <2>2. s \in FaultSites /\ f # NoFault
    BY <1>a, <2>1 DEF UserRec, Evaluate
  <2>3. f \in Injections
    BY <1>a, <2>2 DEF FaultTypes
  <2>4. e \in Entry
    BY <1>a, <2>3 DEF FaultTypes
  <2>. QED
    BY <1>a, <2>1, <2>2, <2>3, <2>4 DEF Evaluate
<1>1. /\ fire \in BOOLEAN /\ use \in BOOLEAN
      /\ fire => e.enabled /\ (e.when = "per_freq_in_seconds" => now - e.last > e.freq)
      /\ use => e.remaining > 0
  BY <1>0, <1>a DEF Fires, Uses, StillLeft, Entry, Whens
<1>2. fis[s].flti = f /\ flti[f] = e /\ user[t].site = s
  BY <1>a
<1>3. /\ user'[t] = [user[t] EXCEPT !.at = "note", !.fire = fire, !.use = use]
      /\ user' = [u \in FaultUsers |-> user'[u]]
      /\ \A u \in FaultUsers \ {t} : user'[u] = user[u]
  BY <1>0 DEF FaultTypes
<1>4. /\ user'[t] \in UserRec /\ user'[t].at = "note" /\ user'[t].site = s
      /\ user'[t].fire = fire /\ user'[t].use = use
  BY <1>0, <1>1, <1>2, <1>3 DEF UserRec
<1>5. /\ flti' \in [Injections -> Entry]
      /\ flti'[f] = [e EXCEPT !.exec_cnt = @ + 1]
      /\ \A h \in Injections \ {f} : flti'[h] = flti[h]
      /\ \A h \in Injections : flti'[h].file = flti[h].file
  <2>1. DOMAIN flti = Injections /\ flti' = [h \in Injections |-> flti'[h]]
    BY <1>0 DEF FaultTypes
  <2>2. flti'[f] = [e EXCEPT !.exec_cnt = @ + 1]
    BY <1>0, <1>2, <2>1
  <2>3. \A h \in Injections \ {f} : flti'[h] = flti[h]
    BY <1>0, <2>1
  <2>4. flti'[f] \in Entry /\ flti'[f].file = e.file
    BY <1>0, <2>2 DEF Entry
  <2>5. \A h \in Injections : flti'[h] \in Entry
    BY <2>3, <2>4 DEF FaultTypes
  <2>. QED
    BY <1>2, <2>1, <2>2, <2>3, <2>4, <2>5
<1>6. FaultTypes'
  BY <1>0, <1>3, <1>4, <1>5 DEF FaultTypes
<1>7. Stubs'
  BY <1>0, <1>2, <1>3, <1>4, <1>5 DEF Stubs
<1>8. AbortSite'
  BY <1>0 DEF AbortSite
<1>9. ASSUME f \notin raced' PROVE Counted(f)' /\ Alone(f)'
  <2>1. f \notin raced /\ Inside(f) = {}
    BY <1>0, <1>9
  <2>2. Counted(f)
    BY <1>0, <2>1 DEF Unraced
  <2>3. /\ flti'[f].when = e.when /\ flti'[f].freq = e.freq /\ flti'[f].enabled = e.enabled
        /\ flti'[f].remaining = e.remaining /\ flti'[f].inject_cnt = e.inject_cnt
        /\ flti'[f].last = e.last /\ flti'[f].exec_cnt = e.exec_cnt + 1
        /\ e.exec_cnt \in Nat /\ e.inject_cnt \in Nat
    BY <1>0, <1>5 DEF Entry
  <2>4. Counted(f)'
    BY <1>0, <1>2, <2>2, <2>3 DEF Counted
  <2>5. \A u \in FaultUsers : InNote(u, f)' => u = t
    BY <1>0, <1>3, <2>1 DEF InNote, Inside
  <2>6. e.inject_cnt < e.exec_cnt + 1
    BY <1>2, <2>2, <2>3 DEF Counted
  <2>7. Decided(t, f)'
    BY <1>0, <1>1, <1>4, <2>3, <2>6 DEF Decided
  <2>. QED
    BY <2>4, <2>5, <2>7 DEF Alone
<1>10. Unraced'
  <2>1. \A h \in Injections \ {f} : SameCounters(h) /\ flthist'[h] = flthist[h]
    BY <1>0, <1>5 DEF SameCounters
  <2>2. raced \subseteq raced'
    BY <1>0
  <2>. QED
    BY <1>0, <1>2, <1>3, <1>4, <1>9, <2>1, <2>2, UnracedOthers
<1>. QED
  BY <1>6, <1>7, <1>8, <1>10

\* An injection that fires once more, its period after it fired last, stays
\* within its rate.
LEMMA RateKept ==
    ASSUME NEW n \in Nat, NEW freq \in Nat, NEW prev \in Int, NEW m \in Nat,
           (n - 1) * (freq + 1) < prev, m - prev > freq
    PROVE  ((n + 1) - 1) * (freq + 1) < m
<1>1. ((n + 1) - 1) * (freq + 1) = (n - 1) * (freq + 1) + (freq + 1)
  OBVIOUS
<1>2. (n - 1) * (freq + 1) \in Int
  OBVIOUS
<1>3. m >= prev + (freq + 1)
  OBVIOUS
<1>. QED
  BY <1>1, <1>2, <1>3

\* ... and writes down that it did.
LEMMA NoteStep ==
    ASSUME FaultInv, NEW t \in FaultUsers, Note(t)
    PROVE  FaultInv'
<1>. USE DEF FaultInv
<1>a. SUFFICES ASSUME NEW s, s = user[t].site, NEW f, f = fis[s].flti, NEW e, e = flti[f],
                      NEW c, c = flthist[f],
                      NEW k, k = IF user[t].fire THEN 1 ELSE 0,
                      NEW l, l = IF user[t].use THEN 1 ELSE 0
               PROVE  FaultInv'
  OBVIOUS
<1>0. /\ ~faultAbort /\ user[t].at = "note" /\ user[t] \in UserRec /\ s \in FaultSites
      /\ f # NoFault /\ f \in Injections /\ e \in Entry /\ c \in HistoryRec
  <2>1. user[t].at = "note" /\ user[t] \in UserRec /\ ~faultAbort
    BY DEF Note, UserAt, FaultTypes
  <2>2. s \in FaultSites
    BY <1>a, <2>1 DEF UserRec
  <2>3. f # NoFault /\ f \in Injections
    BY <1>a, <2>1, <2>2 DEF Stubs, FaultTypes
  <2>4. e \in Entry /\ c \in HistoryRec
    BY <1>a, <2>3 DEF FaultTypes
  <2>. QED
    BY <2>1, <2>2, <2>3, <2>4
<1>. DEFINE noted == [e EXCEPT !.enabled = e.enabled /\ ~(user[t].fire /\ e.when = "one_time_only"),
                              !.remaining = (e.remaining - l) % CounterSpan,
                              !.last = IF user[t].fire THEN now ELSE e.last,
                              !.inject_cnt = e.inject_cnt + k]
<1>1. /\ flti' = [flti EXCEPT ![f] = noted]
      /\ flthist' = [flthist EXCEPT ![f].uses = @ + l, ![f].fires = @ + k]
      /\ user' = [user EXCEPT ![t] = NotIn]
      /\ UNCHANGED <<faultSets, fis, now, faultOps, raced, faultAbort>>
  BY <1>a DEF Note
<1>2. /\ fis[s].flti = f /\ flti[f] = e /\ flthist[f] = c /\ user[t].site = s
      /\ k \in {0, 1} /\ l \in {0, 1}
      /\ (k = 1 => user[t].fire) /\ (k = 0 => ~user[t].fire)
      /\ (l = 1 => user[t].use) /\ (l = 0 => ~user[t].use)
  BY <1>a
<1>3. /\ flti'[f] = noted
      /\ \A h \in Injections \ {f} : flti'[h] = flti[h]
      /\ flti' = [h \in Injections |-> flti'[h]]
  <2>. HIDE DEF noted
  <2>. QED
    BY <1>0, <1>1 DEF FaultTypes
<1>4. /\ flthist'[f] = [c EXCEPT !.uses = c.uses + l, !.fires = c.fires + k]
      /\ \A h \in Injections \ {f} : flthist'[h] = flthist[h]
      /\ flthist' = [h \in Injections |-> flthist'[h]]
  BY <1>0, <1>1, <1>2 DEF FaultTypes
<1>5. /\ e.when \in Whens /\ e.freq \in Nat /\ e.file \in Nat /\ e.remaining \in 0..CounterSpan - 1
      /\ e.inject_cnt \in Nat /\ e.exec_cnt \in Nat /\ e.last \in Int /\ now \in Nat
      /\ c.left \in Nat /\ c.uses \in Nat /\ c.fires \in Nat /\ c.enables \in Nat
      /\ CounterSpan \in Nat \ {0}
  BY <1>0, FaultAssumption DEF Entry, HistoryRec, FaultTypes
<1>6. /\ (e.remaining - l) % CounterSpan \in 0..CounterSpan - 1
      /\ (l = 1 => e.remaining > 0) => (e.remaining - l) % CounterSpan = e.remaining - l
  BY <1>2, <1>5
<1>7. /\ flti'[f].when = e.when /\ flti'[f].freq = e.freq /\ flti'[f].file = e.file
      /\ flti'[f].exec_cnt = e.exec_cnt
      /\ flti'[f].remaining = (e.remaining - l) % CounterSpan
      /\ flti'[f].inject_cnt = e.inject_cnt + k
      /\ flti'[f].last = IF user[t].fire THEN now ELSE e.last
      /\ flti'[f].enabled = (e.enabled /\ ~(user[t].fire /\ e.when = "one_time_only"))
  BY <1>0, <1>3 DEF Entry
<1>8. /\ (flti'[f].enabled => e.enabled)
      /\ (flti'[f].enabled /\ e.when = "one_time_only" => k = 0)
      /\ (k = 1 => flti'[f].last = now) /\ (k = 0 => flti'[f].last = e.last)
  BY <1>2, <1>7
<1>9. flti'[f] \in Entry
  <2>1. (IF user[t].fire THEN now ELSE e.last) \in Int
    BY <1>5
  <2>2. (e.enabled /\ ~(user[t].fire /\ e.when = "one_time_only")) \in BOOLEAN
    OBVIOUS
  <2>3. e.inject_cnt + k \in Nat
    BY <1>2, <1>5
  <2>. QED
    BY ZenonT(30), <1>0, <1>3, <1>6, <2>1, <2>2, <2>3 DEF Entry
<1>10. /\ flthist'[f].left = c.left /\ flthist'[f].uses = c.uses + l
       /\ flthist'[f].fires = c.fires + k /\ flthist'[f].enables = c.enables
       /\ flthist'[f] \in HistoryRec
  <2>1. c.uses + l \in Nat /\ c.fires + k \in Nat
    BY <1>2, <1>5
  <2>. QED
    BY <1>0, <1>4, <2>1 DEF HistoryRec
<1>11. /\ user'[t].at = "out"
       /\ user' = [u \in FaultUsers |-> user'[u]]
       /\ \A u \in FaultUsers \ {t} : user'[u] = user[u]
  BY <1>1 DEF FaultTypes, NotIn
<1>12. FaultTypes'
  <2>1. flti' \in [Injections -> Entry]
    BY <1>3, <1>9 DEF FaultTypes
  <2>2. flthist' \in [Injections -> HistoryRec]
    BY <1>4, <1>10 DEF FaultTypes
  <2>. QED
    BY <1>1, <1>11, <2>1, <2>2 DEF FaultTypes
<1>13. Stubs' /\ AbortSite'
  <2>1. \A h \in Injections : flti'[h].file = flti[h].file
    BY ZenonT(30), <1>2, <1>3, <1>7
  <2>. QED
    BY <1>0, <1>1, <1>11, <2>1 DEF Stubs, AbortSite
<1>14. ASSUME f \notin raced' PROVE Counted(f)' /\ Alone(f)'
  <2>1. Counted(f) /\ Alone(f) /\ InNote(t, f)
    BY <1>0, <1>1, <1>2, <1>14 DEF Unraced, InNote
  <2>2. Decided(t, f) /\ \A u \in FaultUsers : InNote(u, f) => u = t
    BY <2>1 DEF Alone
  <2>3. \A u \in FaultUsers : ~InNote(u, f)'
    BY <1>1, <1>11, <2>2 DEF InNote
  <2>4. /\ k = 1 => /\ e.enabled /\ e.inject_cnt < e.exec_cnt
                    /\ e.when = "per_freq_in_seconds" => now - e.last > e.freq
        /\ l = 1 => e.remaining > 0
    BY <1>2, <2>2 DEF Decided
  <2>5. /\ e.inject_cnt = c.fires /\ e.inject_cnt <= e.exec_cnt
        /\ e.remaining + c.uses = c.left
        /\ e.when = "one_time_only" => c.fires <= c.enables /\ (e.enabled => c.fires < c.enables)
        /\ e.when = "per_freq_in_seconds" => (c.fires - 1) * (e.freq + 1) < e.last /\ e.last <= now
    BY <1>2, <2>1 DEF Counted
  <2>6. flti'[f].inject_cnt = flthist'[f].fires /\ flti'[f].inject_cnt <= flti'[f].exec_cnt
    BY <1>2, <1>5, <1>7, <1>10, <2>4, <2>5
  <2>7. flti'[f].remaining + flthist'[f].uses = flthist'[f].left
    <3>1. flti'[f].remaining = e.remaining - l
      BY <1>6, <1>7, <2>4
    <3>. QED
      BY <1>2, <1>5, <1>10, <2>5, <3>1
  <2>8. ASSUME flti'[f].when = "one_time_only"
        PROVE  /\ flthist'[f].fires <= flthist'[f].enables
               /\ flti'[f].enabled => flthist'[f].fires < flthist'[f].enables
    <3>1. c.fires <= c.enables /\ (e.enabled => c.fires < c.enables)
      BY <1>7, <2>5, <2>8
    <3>2. CASE k = 1
      <4>1. e.enabled /\ ~flti'[f].enabled
        BY <1>7, <1>8, <2>4, <2>8, <3>2
      <4>. QED
        BY <1>5, <1>10, <3>1, <3>2, <4>1
    <3>3. CASE k = 0
      BY <1>5, <1>8, <1>10, <3>1, <3>3
    <3>. QED
      BY <1>2, <3>2, <3>3
  <2>9. ASSUME flti'[f].when = "per_freq_in_seconds"
        PROVE  /\ (flthist'[f].fires - 1) * (flti'[f].freq + 1) < flti'[f].last
               /\ flti'[f].last <= now'
    <3>1. (c.fires - 1) * (e.freq + 1) < e.last /\ e.last <= now
      BY <1>7, <2>5, <2>9
    <3>2. CASE k = 1
      <4>1. now - e.last > e.freq
        BY <1>7, <2>4, <2>9, <3>2
      <4>2. ((c.fires + 1) - 1) * (e.freq + 1) < now
        BY <1>5, <3>1, <4>1, RateKept
      <4>3. /\ flthist'[f].fires = c.fires + 1 /\ flti'[f].freq = e.freq
            /\ flti'[f].last = now /\ now' = now
        BY <1>1, <1>7, <1>8, <1>10, <3>2
      <4>. QED
        BY <1>5, <4>2, <4>3
    <3>3. CASE k = 0
      <4>1. /\ flthist'[f].fires = c.fires /\ flti'[f].freq = e.freq
            /\ flti'[f].last = e.last /\ now' = now
        BY <1>1, <1>5, <1>7, <1>8, <1>10, <3>3
      <4>. QED
        BY <3>1, <4>1
    <3>. QED
      BY <1>2, <3>2, <3>3
  <2>. QED
    BY <2>3, <2>6, <2>7, <2>8, <2>9 DEF Counted, Alone
<1>15. Unraced'
  <2>1. \A h \in Injections \ {f} : SameCounters(h) /\ flthist'[h] = flthist[h]
    BY <1>3, <1>4 DEF SameCounters
  <2>. QED
    BY <1>0, <1>1, <1>2, <1>11, <1>14, <2>1, UnracedOthers
<1>. QED
  BY <1>12, <1>13, <1>15

\* The registry thread writes "enabled" or "num_remaining".
LEMMA WriteValStep ==
    ASSUME FaultInv, NEW f \in Injections, WriteVal(f)
    PROVE  FaultInv'
<1>. USE DEF FaultInv
<1>0. /\ ~faultAbort /\ flti[f] \in Entry /\ flthist[f] \in HistoryRec
      /\ raced' = (IF Inside(f) = {} THEN raced ELSE raced \cup {f})
      /\ UNCHANGED <<faultSets, fis, user, now, faultAbort>>
  BY DEF WriteVal, FaultTypes
<1>1. ASSUME NEW e \in Entry, NEW c \in HistoryRec,
             flti' = [flti EXCEPT ![f] = e], flthist' = [flthist EXCEPT ![f] = c],
             e.file = flti[f].file,
             f \notin raced => (Counted(f) => Counted(f)')
      PROVE  FaultInv'
  <2>1. /\ flti' \in [Injections -> Entry] /\ flthist' \in [Injections -> HistoryRec]
        /\ \A h \in Injections \ {f} : flti'[h] = flti[h] /\ flthist'[h] = flthist[h]
        /\ \A h \in Injections : flti'[h].file = flti[h].file
    BY <1>1 DEF FaultTypes
  <2>2. FaultTypes'
    BY <1>0, <2>1 DEF FaultTypes
  <2>3. Stubs' /\ AbortSite'
    BY <1>0, <2>1 DEF Stubs, AbortSite
  <2>4. ASSUME NEW h \in Injections, h \notin raced' PROVE Counted(h)' /\ Alone(h)'
    <3>1. h \notin raced /\ Counted(h) /\ Alone(h)
      BY <1>0, <2>4 DEF Unraced
    <3>2. CASE h = f
      <4>1. \A u \in FaultUsers : ~InNote(u, f)'
        BY <1>0, <2>4, <3>2 DEF Inside, InNote
      <4>. QED
        BY <1>1, <3>1, <3>2, <4>1 DEF Alone
    <3>3. CASE h # f
      <4>1. Counted(h)'
        BY <1>0, <2>1, <3>1, <3>3 DEF Counted
      <4>2. Alone(h)'
        BY <1>0, <2>1, <3>1, <3>3 DEF Alone, InNote, Decided
      <4>. QED
        BY <4>1, <4>2
    <3>. QED
      BY <3>2, <3>3
  <2>. QED
    BY <2>2, <2>3, <2>4 DEF Unraced
<1>2. ASSUME NEW b \in BOOLEAN,
             flti' = [flti EXCEPT ![f].enabled = b],
             flthist' = [flthist EXCEPT ![f].enables = IF b THEN @ + 1 ELSE @]
      PROVE  FaultInv'
  <2>. DEFINE e == [flti[f] EXCEPT !.enabled = b]
              n == IF b THEN flthist[f].enables + 1 ELSE flthist[f].enables
              c == [flthist[f] EXCEPT !.enables = n]
  <2>1. flti' = [flti EXCEPT ![f] = e] /\ flthist' = [flthist EXCEPT ![f] = c]
    BY <1>2 DEF FaultTypes
  <2>2. n \in Nat /\ n >= flthist[f].enables /\ (b => n = flthist[f].enables + 1)
    BY <1>0 DEF HistoryRec
  <2>3. e \in Entry /\ c \in HistoryRec /\ e.file = flti[f].file
    <3>. HIDE DEF n
    <3>. QED
      BY <1>0, <2>2 DEF Entry, HistoryRec
  <2>4. /\ e.when = flti[f].when /\ e.freq = flti[f].freq /\ e.remaining = flti[f].remaining
        /\ e.inject_cnt = flti[f].inject_cnt /\ e.exec_cnt = flti[f].exec_cnt
        /\ e.last = flti[f].last /\ e.enabled = b
    BY <1>0 DEF Entry
  <2>5. /\ c.left = flthist[f].left /\ c.uses = flthist[f].uses
        /\ c.fires = flthist[f].fires /\ c.enables = n
        /\ c.fires \in Nat /\ flthist[f].enables \in Nat
    <3>. HIDE DEF n
    <3>. QED
      BY <1>0 DEF HistoryRec
  <2>6. flti'[f] = e /\ flthist'[f] = c
    BY <2>1 DEF FaultTypes
  <2>. HIDE DEF e, c, n
  <2>7. ASSUME Counted(f) PROVE Counted(f)'
    BY <1>0, <2>2, <2>4, <2>5, <2>6, <2>7 DEF Counted
  <2>. QED
    BY <1>1, <2>1, <2>3, <2>7
<1>3. ASSUME NEW n \in 0..CounterSpan - 1,
             flti' = [flti EXCEPT ![f].remaining = n],
             flthist' = [flthist EXCEPT ![f].left = n, ![f].uses = 0]
      PROVE  FaultInv'
  <2>. DEFINE e == [flti[f] EXCEPT !.remaining = n]
              c == [flthist[f] EXCEPT !.left = n, !.uses = 0]
  <2>1. flti' = [flti EXCEPT ![f] = e] /\ flthist' = [flthist EXCEPT ![f] = c]
    BY <1>3 DEF FaultTypes
  <2>2. n \in Nat
    BY FaultAssumption
  <2>3. e \in Entry /\ c \in HistoryRec /\ e.file = flti[f].file
    BY <1>0, <2>2 DEF Entry, HistoryRec
  <2>4. /\ e.when = flti[f].when /\ e.freq = flti[f].freq /\ e.remaining = n
        /\ e.inject_cnt = flti[f].inject_cnt /\ e.exec_cnt = flti[f].exec_cnt
        /\ e.last = flti[f].last /\ e.enabled = flti[f].enabled
    BY <1>0 DEF Entry
  <2>5. /\ c.left = n /\ c.uses = 0
        /\ c.fires = flthist[f].fires /\ c.enables = flthist[f].enables
    BY <1>0 DEF HistoryRec
  <2>6. flti'[f] = e /\ flthist'[f] = c
    BY <2>1 DEF FaultTypes
  <2>. HIDE DEF e, c
  <2>7. ASSUME Counted(f) PROVE Counted(f)'
    BY <1>0, <2>2, <2>4, <2>5, <2>6, <2>7 DEF Counted
  <2>. QED
    BY <1>1, <2>1, <2>3, <2>7
<1>. QED
  BY <1>2, <1>3 DEF WriteVal

\* Every step keeps the invariant.
LEMMA FaultInvariant == FaultSpec => []FaultInv
<1>1. ASSUME FaultInv, [FaultNext]_faultVars PROVE FaultInv'
  <2>. USE <1>1
  <2>1. ASSUME NEW s \in DOMAIN FaultTable, NEW append \in BOOLEAN, fault_inject_set_install(s, append)
        PROVE  FaultInv'
    <3>1. faultSets' \in Seq(DOMAIN FaultTable) /\ Len(faultSets') > 0
      <4>1. /\ faultSets \in Seq(DOMAIN FaultTable) /\ Len(faultSets) > 0
            /\ faultSets' = IF append THEN Append(faultSets, s) ELSE [faultSets EXCEPT ![1] = s]
        BY <2>1 DEF FaultInv, FaultTypes, fault_inject_set_install
      <4>2. CASE append
        BY <4>1, <4>2
      <4>3. CASE ~append
        BY <4>1, <4>3
      <4>. QED
        BY <4>2, <4>3
    <3>2. UNCHANGED <<fis, flti, user, now, flthist, raced, faultAbort>>
      BY <2>1 DEF fault_inject_set_install
    <3>. QED
      BY <3>1, <3>2 DEF FaultInv, FaultTypes, Stubs, AbortSite, Unraced, Counted, Alone, InNote, Decided
  <2>2. ASSUME Tick PROVE FaultInv'
    <3>1. now' = now + 1 /\ now \in Nat
          /\ UNCHANGED <<faultSets, fis, flti, user, faultOps, flthist, raced, faultAbort>>
      BY <2>2 DEF Tick, FaultInv, FaultTypes
    <3>2. FaultTypes' /\ Stubs' /\ AbortSite'
      BY <3>1 DEF FaultInv, FaultTypes, Stubs, AbortSite
    <3>3. ASSUME NEW f \in Injections, f \notin raced PROVE Counted(f)' /\ Alone(f)'
      <4>1. Counted(f) /\ Alone(f) /\ flti[f].last \in Int /\ flti[f].freq \in Nat
        BY <3>3 DEF FaultInv, FaultTypes, Unraced, Entry
      <4>2. Counted(f)'
        BY <3>1, <4>1 DEF Counted
      <4>3. \A t \in FaultUsers : Decided(t, f) => Decided(t, f)'
        BY <3>1, <4>1 DEF Decided
      <4>4. Alone(f)'
        BY <3>1, <4>1, <4>3 DEF Alone, InNote
      <4>. QED
        BY <4>2, <4>4
    <3>. QED
      BY <3>1, <3>2, <3>3 DEF FaultInv, Unraced
  <2>3. ASSUME UNCHANGED faultVars PROVE FaultInv'
    BY <2>3 DEF faultVars, FaultInv, FaultTypes, Stubs, AbortSite, Unraced, Counted, Alone, InNote, Decided
  <2>. QED
    BY <2>1, <2>2, <2>3, StubSteps, EvaluateStep, NoteStep, WriteValStep DEF FaultNext
<1>. QED
  BY <1>1, FaultInitInv, PTL DEF FaultSpec

\* FAULT_INJECT and fault_injection_evaluate: a call site keeps the injection
\* that its first thread found, the process stops only for a second site of an
\* injection, and where no two threads were inside an injection at once, it has
\* fired exactly as often as it was told to, for any threads, sites and sets.
THEOREM FaultsCorrect == FaultSpec => []FaultsExact
<1>1. ASSUME FaultInv PROVE FaultsExact
  <2>1. ASSUME NEW f \in Injections, f \notin raced, flti[f].when = "per_freq_in_seconds"
        PROVE  (flthist[f].fires - 1) * (flti[f].freq + 1) < now
    <3>1. Counted(f) /\ now \in Nat /\ flti[f].last \in Int /\ flti[f].freq \in Nat
          /\ flthist[f].fires \in Nat
      BY <1>1, <2>1 DEF FaultInv, FaultTypes, Unraced, Entry, HistoryRec
    <3>2. (flthist[f].fires - 1) * (flti[f].freq + 1) \in Int
      BY <3>1
    <3>. QED
      BY <2>1, <3>1, <3>2 DEF Counted
  <2>2. \A f \in Injections \ raced : Counted(f)
    BY <1>1 DEF FaultInv, Unraced
  <2>. QED
    BY <1>1, <2>1, <2>2 DEF FaultInv, FaultsExact, Counted, Stubs, AbortSite
<1>. QED
  BY <1>1, FaultInvariant, PTL

-------------------------------------------------------------------------------
(***************************************************************************)
(* The layout of a new buffer set, for any sizes and any width of size_t,  *)
(* and for callers that respect what buffer_set_initx() does not test: the *)
(* size of the region is a multiple of the alignment, and the size of all  *)
(* slots does not wrap.                                                    *)
(* The invariant gives every item its place; slots that follow each other  *)
(* at equal distances are then disjoint by arithmetic.                     *)
(***************************************************************************)
Width == a.buf_size + a.prologue_size
Accepted == CheckArgs(a) = "ok"

LayoutInv ==
    /\ a \in Args /\ step \in {"check", "loop", "end"} /\ items \in Seq(Nat)
    /\ ~aborted
    /\ step = "check" => items = <<>> /\ off = 0 /\ rc = "ok"
    /\ step = "loop" \/ items # <<>> \/ (step = "end" /\ rc = "ok") => Accepted
    /\ Len(items) <= a.nbufs /\ off = Len(items) * Width
    /\ \A k \in 1..Len(items) : items[k] = (k - 1) * Width + a.prologue_size
    /\ Accepted => IsAligned(off, Align(a)) /\ BuffersAligned
    /\ step = "end" /\ rc = "ok" => Len(items) = a.nbufs /\ used_off = off

\* The arguments are sizes.
LEMMA ArgTypes ==
    ASSUME a \in Args
    PROVE  /\ a.nbufs \in Nat /\ a.buf_size \in Nat /\ a.prologue_size \in Nat
           /\ a.region_size \in Nat /\ a.base \in Nat /\ Align(a) \in Nat /\ Width \in Nat
<1>1. /\ a.nbufs \in NBufs /\ a.buf_size \in BufSizes /\ a.prologue_size \in PrologueSizes
      /\ a.region_size \in RegionSizes /\ a.base \in Bases /\ a.alignment \in Alignments
  BY DEF Args
<1>2. /\ NBufs \subseteq Nat /\ BufSizes \subseteq Nat /\ PrologueSizes \subseteq Nat
      /\ RegionSizes \subseteq Nat /\ Bases \subseteq Nat /\ Alignments \subseteq Nat
  BY BufferInitAssumption
<1>3. buffer_get_alignment(a.opts) \in Nat
  BY DEF buffer_get_alignment, OptAlign
<1>4. Align(a) \in Nat
  BY <1>1, <1>2, <1>3 DEF Align
<1>5. /\ a.nbufs \in Nat /\ a.buf_size \in Nat /\ a.prologue_size \in Nat
      /\ a.region_size \in Nat /\ a.base \in Nat
  BY <1>1, <1>2
<1>. QED
  BY <1>4, <1>5 DEF Width

\* Products of sizes grow with their first factor.
LEMMA ProductsGrow ==
    ASSUME NEW j \in Nat, NEW k \in Nat, NEW w \in Nat
    PROVE  /\ j * w \in Nat /\ (j + 1) * w = j * w + w
           /\ j <= k => j * w <= k * w
<1>1. j * w \in Nat /\ k * w \in Nat /\ (j + 1) * w = j * w + w
  OBVIOUS
<1>2. ASSUME j <= k PROVE j * w <= k * w
  <2>1. PICK d \in Nat : k = j + d
    <3>1. k - j \in Nat /\ k = j + (k - j)
      BY <1>2
    <3>. QED
      BY <3>1
  <2>2. (j + d) * w = j * w + d * w /\ d * w \in Nat
    OBVIOUS
  <2>. QED
    BY <2>1, <2>2, <1>1
<1>. QED
  BY <1>1, <1>2

\* A sum of aligned numbers is aligned.
LEMMA AlignedSum ==
    ASSUME NEW al \in Nat, NEW x \in Nat, NEW y \in Nat, IsAligned(x, al), IsAligned(y, al)
    PROVE  IsAligned(x + y, al)
<1>1. CASE al = 0
  BY <1>1 DEF IsAligned
<1>2. CASE al # 0
  <2>1. x % al = 0 /\ y % al = 0 /\ al > 0
    BY <1>2 DEF IsAligned
  <2>2. PICK p \in Int : x = al * p
    <3>1. x = al * (x \div al) + (x % al) /\ x \div al \in Int
      BY <2>1
    <3>. QED
      BY <2>1, <3>1
  <2>3. PICK q \in Int : y = al * q
    <3>1. y = al * (y \div al) + (y % al) /\ y \div al \in Int
      BY <2>1
    <3>. QED
      BY <2>1, <3>1
  <2>4. x + y = al * (p + q)
    BY <2>2, <2>3
  <2>5. ASSUME NEW r, r = (x + y) % al, NEW d, d = (x + y) \div al PROVE r = 0
    <3>1. r \in Int /\ d \in Int /\ 0 <= r /\ r < al /\ x + y = al * d + r
      BY <2>1, <2>5
    <3>2. r = al * (p + q - d)
      BY <2>4, <3>1
    <3>3. p + q - d \in Int
      BY <3>1
    <3>4. ASSUME NEW z \in Int, r = al * z PROVE r = 0
      <4>1. CASE z <= 0 - 1
        <5>1. al * z <= 0 - al
          BY <4>1, <2>1
        <5>. QED
          BY <5>1, <3>1, <3>4, <2>1
      <4>2. CASE z >= 1
        <5>1. al * z >= al
          BY <4>2, <2>1
        <5>. QED
          BY <5>1, <3>1, <3>4, <2>1
      <4>3. CASE z = 0
        BY <4>3, <3>4
      <4>. QED
        BY <4>1, <4>2, <4>3
    <3>. QED
      BY <3>2, <3>3, <3>4
  <2>6. (x + y) % al = 0
    BY <2>5
  <2>. QED
    BY <2>6 DEF IsAligned
<1>. QED
  BY <1>1, <1>2

\* What accepted arguments guarantee: the computations of buffer_set_initx() do
\* not wrap while there is a slot to make, all slots fit the region, and the
\* parts of a slot are aligned.
LEMMA AcceptedArgs ==
    ASSUME RegionAligned, NoWrap, a \in Args, Accepted
    PROVE  /\ a.buf_size > 0
           /\ a.nbufs * Width < SizeMod /\ a.nbufs * Width <= a.region_size
           /\ a.nbufs > 0 => SlotSize(a) = Width
           /\ IsAligned(a.base, Align(a)) /\ IsAligned(a.prologue_size, Align(a))
           /\ IsAligned(Width, Align(a))
<1>0. /\ a.nbufs \in Nat /\ a.buf_size \in Nat /\ a.prologue_size \in Nat
      /\ a.region_size \in Nat /\ a.base \in Nat /\ Align(a) \in Nat /\ Width \in Nat
  BY ArgTypes
<1>1. SizeMod \in Nat \ {0}
  BY BufferInitAssumption
<1>2. a.nbufs * Width < SizeMod
  BY DEF Args, Width
<1>3. a.buf_size # 0 /\ CheckSize(a) /\ CheckAlign(a)
  BY DEF Accepted, CheckArgs
<1>4. a.nbufs > 0 => SlotSize(a) = Width
  <2>1. ASSUME a.nbufs > 0 PROVE Width < SizeMod
    <3>1. 1 * Width <= a.nbufs * Width /\ 1 * Width = Width
      BY <1>0, <2>1, ProductsGrow
    <3>2. a.nbufs * Width \in Nat
      BY <1>0, ProductsGrow
    <3>. QED
      BY <1>0, <1>1, <1>2, <3>1, <3>2
  <2>2. ASSUME NEW w \in Nat, w < SizeMod PROVE w % SizeMod = w
    BY <1>1, <2>2
  <2>. QED
    BY <1>0, <2>1, <2>2 DEF SlotSize, Plus, Width
<1>5. a.nbufs * Width <= a.region_size
  <2>1. CASE a.nbufs = 0
    <3>1. 0 * Width = 0
      BY <1>0
    <3>. QED
      BY <1>0, <2>1, <3>1
  <2>2. CASE a.nbufs > 0
    <3>1. a.nbufs * Width \in Nat
      BY <1>0, ProductsGrow
    <3>2. ASSUME NEW w \in Nat, w < SizeMod PROVE w % SizeMod = w
      BY <1>1, <3>2
    <3>. QED
      BY <1>0, <1>2, <1>3, <1>4, <2>2, <3>1, <3>2 DEF CheckSize, Times
  <2>. QED
    BY <1>0, <2>1, <2>2
<1>6. /\ IsAligned(a.base, Align(a)) /\ IsAligned(a.buf_size, Align(a))
      /\ IsAligned(a.prologue_size, Align(a))
  BY <1>0, <1>3 DEF CheckAlign, IsAligned
<1>7. IsAligned(Width, Align(a))
  BY <1>0, <1>6, AlignedSum DEF Width
<1>. QED
  BY <1>0, <1>2, <1>3, <1>4, <1>5, <1>6, <1>7

\* The arguments pass or are refused.
LEMMA LayoutCheck ==
    ASSUME RegionAligned, NoWrap, LayoutInv, check_args PROVE LayoutInv'
<1>1. /\ step = "check" /\ items = <<>> /\ off = 0 /\ a \in Args
      /\ UNCHANGED <<a, off, items, used_off>> /\ rc' = CheckArgs(a)
  BY DEF check_args, LayoutInv
<1>2. IsAligned(a.region_size, Align(a))
  BY <1>1 DEF Args
<1>3. aborted' = FALSE /\ step' = IF rc' = "ok" THEN "loop" ELSE "end"
  BY <1>1, <1>2 DEF check_args
<1>4. Accepted' <=> rc' = "ok"
  BY <1>1 DEF Accepted
<1>. QED
  BY <1>1, <1>3, <1>4 DEF LayoutInv, BuffersAligned, Width, Accepted

\* One more slot, behind the others.
LEMMA LayoutItem ==
    ASSUME RegionAligned, NoWrap, LayoutInv, make_item PROVE LayoutInv'
<1> DEFINE n == Len(items)
<1>1. /\ step = "loop" /\ n < a.nbufs /\ n \in Nat /\ a \in Args /\ items \in Seq(Nat)
      /\ off = n * Width /\ ~aborted /\ Accepted /\ UNCHANGED <<a, used_off, rc>>
  BY LenProperties DEF make_item, LayoutInv
<1>0. /\ a.nbufs \in Nat /\ a.buf_size \in Nat /\ a.prologue_size \in Nat
      /\ a.region_size \in Nat /\ a.base \in Nat /\ Align(a) \in Nat /\ Width \in Nat
  BY <1>1, ArgTypes
<1>2. off \in Nat /\ off + Width = (n + 1) * Width /\ off + Width <= a.nbufs * Width
  <2>1. n + 1 <= a.nbufs /\ n + 1 \in Nat
    BY <1>0, <1>1
  <2>2. (n + 1) * Width = n * Width + Width /\ n * Width \in Nat
    BY <1>0, <1>1, ProductsGrow
  <2>3. (n + 1) * Width <= a.nbufs * Width
    BY <1>0, <1>1, <2>1, ProductsGrow
  <2>. QED
    BY <1>0, <1>1, <2>2, <2>3
<1>3. /\ a.nbufs * Width < SizeMod /\ a.nbufs * Width <= a.region_size /\ SlotSize(a) = Width
      /\ IsAligned(a.base, Align(a)) /\ IsAligned(a.prologue_size, Align(a))
      /\ IsAligned(Width, Align(a)) /\ a.nbufs * Width \in Nat
  BY <1>0, <1>1, AcceptedArgs, ProductsGrow
<1>4. /\ Plus(off, SlotSize(a)) = off + Width
      /\ Plus(off, a.prologue_size) = off + a.prologue_size
  <2>1. SizeMod \in Nat \ {0}
    BY BufferInitAssumption
  <2>2. ASSUME NEW w \in Nat, w < SizeMod PROVE w % SizeMod = w
    BY <2>1, <2>2
  <2>3. off + Width \in Nat /\ off + Width < SizeMod
    BY <1>0, <1>1, <1>2, <1>3, <2>1
  <2>4. off + a.prologue_size \in Nat /\ off + a.prologue_size <= off + Width
    BY SMTT(30), <1>0, <1>2 DEF Width
  <2>5. off + a.prologue_size < SizeMod
    BY <1>0, <1>1, <1>2, <2>1, <2>3, <2>4
  <2>. QED
    BY <1>3, <2>2, <2>3, <2>4, <2>5 DEF Plus
<1>5. /\ items' = Append(items, off + a.prologue_size) /\ off' = off + Width
      /\ UNCHANGED <<step, aborted>>
  <2>1. off + Width <= a.region_size
    BY <1>0, <1>1, <1>2, <1>3
  <2>. QED
    BY <1>4, <2>1 DEF make_item
<1>6. /\ items' \in Seq(Nat) /\ Len(items') = n + 1
      /\ items'[n + 1] = n * Width + a.prologue_size
      /\ \A k \in 1..n : items'[k] = items[k]
  <2>1. off + a.prologue_size \in Nat /\ off = n * Width
    BY <1>0, <1>1, <1>2
  <2>. QED
    BY <1>1, <1>5, <2>1
<1>7. DOMAIN items' = 1..(n + 1) /\ DOMAIN items = 1..n
  BY <1>1, <1>6, LenProperties
<1>8. IsAligned(off, Align(a)) /\ BuffersAligned
  BY <1>1 DEF LayoutInv
<1>9. IsAligned(off + Width, Align(a))
  BY <1>0, <1>2, <1>3, <1>8, AlignedSum
<1>10. IsAligned(a.base + off, Align(a)) /\ IsAligned(a.base + off + a.prologue_size, Align(a))
  <2>1. IsAligned(a.base + off, Align(a))
    BY <1>0, <1>2, <1>3, <1>8, AlignedSum
  <2>2. a.base + off \in Nat
    BY <1>0, <1>2
  <2>3. IsAligned((a.base + off) + a.prologue_size, Align(a))
    BY <1>0, <1>3, <2>1, <2>2, AlignedSum
  <2>. QED
    BY <2>1, <2>3
<1> HIDE DEF n
<1>11. BuffersAligned'
  <2>0. items'[n + 1] = off + a.prologue_size
    BY <1>1, <1>6
  <2>1. /\ a.base + items'[n + 1] = a.base + off + a.prologue_size
        /\ a.base + items'[n + 1] - a.prologue_size = a.base + off
    BY <1>0, <1>2, <2>0
  <2>2. \A k \in 1..(n + 1) : k \in 1..n \/ k = n + 1
    BY <1>1
  <2>3. ASSUME NEW k \in 1..(n + 1)
        PROVE  /\ IsAligned(a.base + items'[k], Align(a))
               /\ IsAligned(a.base + items'[k] - a.prologue_size, Align(a))
    <3>1. CASE k = n + 1
      BY <3>1, <1>10, <2>1
    <3>2. CASE k \in 1..n
      BY <3>2, <1>6, <1>7, <1>8 DEF BuffersAligned
    <3>. QED
      BY <3>1, <3>2, <2>2
  <2>. QED
    BY <1>1, <1>7, <2>3 DEF BuffersAligned
<1>12. \A k \in 1..(n + 1) : items'[k] = (k - 1) * Width + a.prologue_size
  <2>1. \A k \in 1..n : items[k] = (k - 1) * Width + a.prologue_size
    BY DEF LayoutInv, n
  <2>2. \A k \in 1..(n + 1) : k \in 1..n \/ k = n + 1
    BY <1>1
  <2>3. (n + 1) - 1 = n
    BY <1>1
  <2>. QED
    BY <1>6, <2>1, <2>2, <2>3
<1>13. Width' = Width /\ Align(a)' = Align(a) /\ Accepted'
  BY <1>1 DEF Width, Accepted
<1>14. n + 1 <= a.nbufs /\ off' = (n + 1) * Width
  BY <1>0, <1>1, <1>2, <1>5
<1>15. step' = "loop" /\ ~aborted' /\ a' = a /\ a \in Args
  BY <1>1, <1>5
<1>. QED
  BY <1>5, <1>6, <1>9, <1>11, <1>12, <1>13, <1>14, <1>15 DEF LayoutInv

\* The places of LayoutInv are what LayoutSound asks for.
LEMMA LayoutInvSound ==
    ASSUME RegionAligned, NoWrap, LayoutInv PROVE LayoutSound
<1>1. /\ a \in Args /\ items \in Seq(Nat) /\ Len(items) \in Nat /\ DOMAIN items = 1..Len(items)
      /\ Len(items) <= a.nbufs
      /\ \A k \in 1..Len(items) : items[k] = (k - 1) * Width + a.prologue_size
  BY LenProperties DEF LayoutInv
<1>0. /\ a.nbufs \in Nat /\ a.buf_size \in Nat /\ a.prologue_size \in Nat
      /\ a.region_size \in Nat /\ a.base \in Nat /\ Align(a) \in Nat /\ Width \in Nat
  BY <1>1, ArgTypes
<1>2. SlotsDisjoint
  <2>1. ASSUME NEW k \in 1..Len(items)
        PROVE  /\ Slot(k) = ((k - 1) * Width)..((k - 1) * Width + Width - 1)
               /\ (k - 1) * Width \in Nat /\ (k - 1) * Width + Width <= a.region_size
    <3>1. items # <<>>
      BY <1>1
    <3>2. Accepted
      BY <3>1 DEF LayoutInv
    <3>3. k - 1 \in Nat /\ k \in Nat /\ k <= a.nbufs /\ (k - 1) + 1 = k
      BY <1>0, <1>1
    <3>4. (k - 1) * Width \in Nat /\ k * Width = (k - 1) * Width + Width
      BY <1>0, <3>3, ProductsGrow
    <3>5. k * Width <= a.nbufs * Width /\ a.nbufs * Width \in Nat
      BY <1>0, <3>3, ProductsGrow
    <3>6. a.nbufs * Width <= a.region_size
      BY <1>1, <3>2, AcceptedArgs
    <3>7. ASSUME NEW o \in Nat, items[k] = o + a.prologue_size
          PROVE  Slot(k) = o..(o + Width - 1)
      BY <1>0, <3>7 DEF Slot, Width
    <3>8. Slot(k) = ((k - 1) * Width)..((k - 1) * Width + Width - 1)
      BY <1>1, <3>4, <3>7
    <3>. QED
      BY <1>0, <3>4, <3>5, <3>6, <3>8
  <2>2. ASSUME NEW k \in 1..Len(items), NEW l \in 1..Len(items), k < l
        PROVE  (k - 1) * Width + Width <= (l - 1) * Width
    <3>1. k - 1 \in Nat /\ k \in Nat /\ l - 1 \in Nat /\ k <= l - 1 /\ (k - 1) + 1 = k
      BY <1>1, <2>2
    <3>2. k * Width = (k - 1) * Width + Width /\ k * Width <= (l - 1) * Width
      BY <1>0, <3>1, ProductsGrow
    <3>. QED
      BY <3>2
  <2>3. ASSUME NEW k \in 1..Len(items), NEW l \in 1..Len(items), k < l
        PROVE  Slot(k) \cap Slot(l) = {}
    <3>1. ASSUME NEW o \in Nat, NEW q \in Nat, o + Width <= q
          PROVE  (o..(o + Width - 1)) \cap (q..(q + Width - 1)) = {}
      BY <1>0, <3>1
    <3>. QED
      BY <2>1, <2>2, <2>3, <3>1
  <2>4. ASSUME NEW k \in 1..Len(items) PROVE Slot(k) \subseteq 0..(a.region_size - 1)
    <3>1. ASSUME NEW o \in Nat, o + Width <= a.region_size
          PROVE  o..(o + Width - 1) \subseteq 0..(a.region_size - 1)
      BY <1>0, <3>1
    <3>. QED
      BY <2>1, <3>1
  <2>5. ASSUME NEW k \in 1..Len(items), NEW l \in 1..Len(items), k # l
        PROVE  Slot(k) \cap Slot(l) = {}
    <3>1. k < l \/ l < k
      BY <1>1, <2>5
    <3>. QED
      BY <3>1, <2>3
  <2>. QED
    BY <1>1, <2>4, <2>5 DEF SlotsDisjoint
<1>3. BuffersAligned
  <2>1. CASE items = <<>>
    BY <2>1 DEF BuffersAligned
  <2>2. CASE items # <<>>
    BY <2>2 DEF LayoutInv
  <2>. QED
    BY <2>1, <2>2
<1>4. CompleteSet
  <2>. SUFFICES ASSUME step = "end", rc = "ok"
                PROVE  /\ Len(items) = a.nbufs /\ used_off = a.nbufs * Width
                       /\ used_off <= a.region_size
    BY DEF CompleteSet, Width
  <2>1. Accepted /\ Len(items) = a.nbufs /\ used_off = off /\ off = Len(items) * Width
    BY DEF LayoutInv
  <2>2. a.nbufs * Width <= a.region_size
    BY <1>1, <2>1, AcceptedArgs
  <2>. QED
    BY <2>1, <2>2
<1>. QED
  BY <1>2, <1>3, <1>4 DEF LayoutSound, LayoutInv

\* What buffer_set_initx() makes of a region: slots within it that are disjoint
\* and aligned, all of them or an error, and none of its assertions fails
\* (buffer.c:503-668), for any sizes, any alignment and any width of size_t,
\* provided the region's size is a multiple of the alignment and the slots' total
\* does not wrap.
THEOREM LayoutCorrect ==
    ASSUME RegionAligned, NoWrap
    PROVE  LayoutSpec => []LayoutSound
<1>1. LayoutInit => LayoutInv
  <2>. SUFFICES ASSUME LayoutInit PROVE LayoutInv
    OBVIOUS
  <2>1. a \in Args /\ a.nbufs \in Nat /\ Width \in Nat /\ Align(a) \in Nat
    BY ArgTypes DEF LayoutInit
  <2>2. /\ items = <<>> /\ items \in Seq(Nat) /\ Len(items) = 0 /\ off = 0
        /\ step = "check" /\ rc = "ok" /\ aborted = FALSE
    BY DEF LayoutInit
  <2>3. 0 * Width = 0 /\ IsAligned(0, Align(a)) /\ BuffersAligned
    BY <2>1, <2>2 DEF IsAligned, BuffersAligned
  <2>. QED
    BY <2>1, <2>2, <2>3 DEF LayoutInv
<1>2. LayoutInv /\ [LayoutNext]_layoutVars => LayoutInv'
  <2>. SUFFICES ASSUME LayoutInv, [LayoutNext]_layoutVars PROVE LayoutInv'
    OBVIOUS
  <2>1. CASE make_item_fails \/ finish \/ UNCHANGED layoutVars
    BY <2>1 DEF make_item_fails, finish, layoutVars, LayoutInv, Accepted, Width, BuffersAligned
  <2>. QED
    BY <2>1, LayoutCheck, LayoutItem DEF LayoutNext
<1>. QED
  BY <1>1, <1>2, LayoutInvSound, PTL DEF LayoutSpec

-------------------------------------------------------------------------------
(***************************************************************************)
(* The reference tree, for any threads, keys, memory and references: the   *)
(* counts are exact, elements under construction or destruction are        *)
(* private, a key has one element, and the tree implements KeyRefs.        *)
(***************************************************************************)
\* An element is in a thread's hands exactly while the thread inserts or
\* destroys it.
HandsMatchPc ==
    \A t \in Threads : elm[t] # None <=> pc[t] \in {"insert", "destroy"}

Inv == TypeOK /\ RefCntExact /\ PrivateElems /\ OnePerKey /\ HandsMatchPc

\* The references to an element are finitely many (there are finitely many).
LEMMA RefsToFinite ==
    \A e : IsFiniteSet(RefsTo(e)) /\ IsFiniteSet(RefsTo(e)')
<1>1. \A e : RefsTo(e) \subseteq Refs /\ RefsTo(e)' \subseteq Refs
  BY DEF RefsTo
<1>. QED
  BY <1>1, FS_Subset, RefTreeAssumption

\* The tree that REF_TREE_INIT() makes satisfies the invariant.
LEMMA InitInv == Init => Inv
<1>1. (CHOOSE k \in Keys : TRUE) \in Keys
  BY RefTreeAssumption
<1>. QED
  BY <1>1, RefTreeAssumption DEF Init, Inv, TypeOK, RefCntExact, PrivateElems,
      OnePerKey, HandsMatchPc, RefsTo

\* One more reference to an element of the tree (the body of
\* REF_TREE_REF_GET_ELEM_LOCKED()) keeps the counts exact.
LEMMA TakeRefExact ==
    ASSUME TypeOK, RefCntExact, NEW e \in tree, NEW r \in Refs, TakeRef(e, r),
           tree' = tree
    PROVE  RefCntExact' /\ ref' \in [Refs -> Elems \cup {None}]
             /\ rte_ref_cnt' \in [Elems -> Nat]
<1> USE RefTreeAssumption DEF TypeOK
<1>1. RefsTo(e)' = RefsTo(e) \cup {r} /\ r \notin RefsTo(e)
  BY DEF TakeRef, RefsTo
<1>2. Cardinality(RefsTo(e)') = Cardinality(RefsTo(e)) + 1
  BY <1>1, RefsToFinite, FS_AddElement
<1>3. \A f \in Elems : f # e => RefsTo(f)' = RefsTo(f)
  BY DEF TakeRef, RefsTo
<1>4. rte_ref_cnt'[e] = rte_ref_cnt[e] + 1
        /\ \A f \in Elems : f # e => rte_ref_cnt'[f] = rte_ref_cnt[f]
  BY DEF TakeRef
<1>5. /\ ref' \in [Refs -> Elems \cup {None}]
      /\ rte_ref_cnt' \in [Elems -> Nat]
  BY DEF TakeRef
<1>6. rte_ref_cnt[e] = Cardinality(RefsTo(e)) /\ rte_ref_cnt[e] > 0
  BY DEF RefCntExact
<1>. QED
  BY <1>2, <1>3, <1>4, <1>5, <1>6 DEF RefCntExact

\* One reference less: the count stays exact, also when it drops to zero.
LEMMA DropRefExact ==
    ASSUME TypeOK, RefCntExact, NEW r \in Refs, NEW e \in Elems, ref[r] = e,
           ref' = [ref EXCEPT ![r] = None],
           rte_ref_cnt' = [rte_ref_cnt EXCEPT ![e] = @ - 1]
    PROVE  /\ e \in tree
           /\ rte_ref_cnt'[e] = Cardinality(RefsTo(e)')
           /\ ref' \in [Refs -> Elems \cup {None}]
           /\ rte_ref_cnt' \in [Elems -> Nat]
           /\ \A f \in Elems : f # e =>
                  RefsTo(f)' = RefsTo(f) /\ rte_ref_cnt'[f] = rte_ref_cnt[f]
<1> USE RefTreeAssumption DEF TypeOK
<1>1. r \in RefsTo(e)
  BY DEF RefsTo
<1>2. e \in tree
  BY <1>1 DEF RefCntExact
<1>3. RefsTo(e)' = RefsTo(e) \ {r}
  BY DEF RefsTo
<1>4. Cardinality(RefsTo(e) \ {r}) = Cardinality(RefsTo(e)) - 1
  BY <1>1, RefsToFinite, FS_RemoveElement
<1>5. rte_ref_cnt[e] = Cardinality(RefsTo(e)) /\ rte_ref_cnt[e] > 0
  BY <1>2 DEF RefCntExact
<1>6. \A f \in Elems : f # e => RefsTo(f)' = RefsTo(f)
  BY DEF RefsTo
<1>7. rte_ref_cnt'[e] = Cardinality(RefsTo(e) \ {r})
  BY <1>4, <1>5
<1>8. rte_ref_cnt' \in [Elems -> Nat]
  BY <1>5
<1>. QED
  BY <1>2, <1>3, <1>6, <1>7, <1>8

\* A step that only takes a reference to an element of the tree.
LEMMA TakeRefInv ==
    ASSUME Inv, NEW e \in tree, NEW r \in Refs, TakeRef(e, r),
           UNCHANGED <<tree, key, lookup, elm, births>>,
           NEW t \in Threads, pc[t] = "idle", pc' = [pc EXCEPT ![t] = "idle"]
    PROVE  Inv'
<1>1. RefCntExact' /\ ref' \in [Refs -> Elems \cup {None}]
        /\ rte_ref_cnt' \in [Elems -> Nat]
  BY TakeRefExact DEF Inv
<1>. QED
  BY <1>1 DEF Inv, TypeOK, PrivateElems, OnePerKey, HandsMatchPc

\* The invariant is preserved by every critical section of GET and PUT and by
\* the constructor and the destructor.
LEMMA ThreadInv == ASSUME Inv, NEW t \in Threads, Thread(t) PROVE Inv'
<1> USE RefTreeAssumption DEF FirstRefs, RB_REMOVE
<1>0. TypeOK /\ RefCntExact /\ PrivateElems /\ OnePerKey /\ HandsMatchPc
  BY DEF Inv
<1>1. ASSUME NEW k \in Keys, GET_add(t, k) PROVE Inv'
  BY <1>0, <1>1 DEF GET_add, ThreadAt, Inv, TypeOK, RefCntExact, RefsTo,
      PrivateElems, OnePerKey, HandsMatchPc
<1>2. ASSUME NEW k \in Keys, NEW r \in Refs, GET_found(t, k, r) PROVE Inv'
  BY <1>2, TakeRefInv DEF GET_found, ThreadAt, Found
<1>3. CASE GET_constructor(t)
  BY <1>0, <1>3 DEF GET_constructor, ThreadAt, Unused, Inv, TypeOK,
      RefCntExact, RefsTo, PrivateElems, OnePerKey, HandsMatchPc
<1>4. CASE Destructor(t)
  BY <1>0, <1>4 DEF Destructor, ThreadAt, Inv, TypeOK, RefCntExact, RefsTo,
      PrivateElems, OnePerKey, HandsMatchPc
<1>5. ASSUME NEW R \in FirstRefs, GET_insert(t, R) PROVE Inv'
  <2>1. PICK e \in Elems : elm[t] = e
    BY <1>0, <1>5 DEF GET_insert, ThreadAt, HandsMatchPc, TypeOK
  <2>2. e \notin tree /\ RefsTo(e) = {}
    BY <1>0, <2>1 DEF PrivateElems, RefCntExact, TypeOK
  <2>3. RefsTo(e)' = R
    BY <1>0, <1>5, <2>1, <2>2 DEF GET_insert, RefsTo, TypeOK
  <2>4. \A f \in Elems : f # e => RefsTo(f)' = RefsTo(f)
    BY <1>0, <1>5, <2>1 DEF GET_insert, RefsTo, TypeOK
  <2>5. RefCntExact'
    BY <1>0, <1>5, <2>1, <2>2, <2>3, <2>4 DEF GET_insert, RefCntExact, TypeOK
  <2>6. TypeOK'
    BY <1>0, <1>5, <2>1 DEF GET_insert, ThreadAt, TypeOK
  <2>7. OnePerKey'
    BY <1>0, <1>5, <2>1 DEF GET_insert, Already, Found, OnePerKey, TypeOK
  <2>8. PrivateElems' /\ HandsMatchPc'
    BY <1>0, <1>5, <2>1 DEF GET_insert, ThreadAt, PrivateElems, HandsMatchPc,
        TypeOK
  <2>. QED
    BY <2>5, <2>6, <2>7, <2>8 DEF Inv
<1>6. ASSUME NEW r \in Refs, GET_already(t, r) PROVE Inv'
  <2>1. PICK e \in tree : TakeRef(e, r)
    BY <1>6 DEF GET_already, Already, Found
  <2>2. RefCntExact' /\ ref' \in [Refs -> Elems \cup {None}]
          /\ rte_ref_cnt' \in [Elems -> Nat]
    BY <1>0, <1>6, <2>1, TakeRefExact DEF GET_already
  <2>. QED
    BY <1>0, <1>6, <2>2 DEF GET_already, ThreadAt, Inv, TypeOK, PrivateElems,
        OnePerKey, HandsMatchPc
<1>7. ASSUME NEW r \in Refs, PUT(t, r) PROVE Inv'
  <2>1. PICK e \in Elems : ref[r] = e
    BY <1>0, <1>7 DEF PUT, TypeOK
  <2>2. /\ e \in tree
        /\ rte_ref_cnt'[e] = Cardinality(RefsTo(e)')
        /\ ref' \in [Refs -> Elems \cup {None}]
        /\ rte_ref_cnt' \in [Elems -> Nat]
        /\ \A f \in Elems : f # e =>
              RefsTo(f)' = RefsTo(f) /\ rte_ref_cnt'[f] = rte_ref_cnt[f]
    BY <1>0, <1>7, <2>1, DropRefExact DEF PUT, AfterPut
  <2>3. rte_ref_cnt'[e] = AfterPut(e)
    BY <1>0, <1>7, <2>1 DEF PUT, TypeOK
  <2>4. TypeOK'
    BY <1>0, <1>7, <2>1, <2>2 DEF PUT, ThreadAt, TypeOK
  <2>5. OnePerKey'
    BY <1>0, <1>7 DEF PUT, OnePerKey
  <2>6. PrivateElems' /\ HandsMatchPc'
    BY <1>0, <1>7, <2>1, <2>2 DEF PUT, ThreadAt, PrivateElems, HandsMatchPc,
        TypeOK
  <2>7. CASE LastPut(e)
    <3>1. RefsTo(e)' = {}
      BY <2>2, <2>3, <2>7, RefsToFinite, FS_EmptySet DEF LastPut
    <3>. QED
      BY <1>0, <1>7, <2>1, <2>2, <2>4, <2>5, <2>6, <2>7, <3>1
         DEF PUT, Inv, RefCntExact, TypeOK
  <2>8. CASE ~LastPut(e)
    <3>1. rte_ref_cnt'[e] > 0
      BY <2>2, <2>3, <2>8 DEF LastPut
    <3>. QED
      BY <1>0, <1>7, <2>1, <2>2, <2>4, <2>5, <2>6, <2>8, <3>1
         DEF PUT, Inv, RefCntExact, TypeOK
  <2>. QED
    BY <2>7, <2>8
<1>8. ASSUME NEW r \in Refs, REF_TREE_MIN(t, r) PROVE Inv'
  BY <1>8, TakeRefInv DEF REF_TREE_MIN, ThreadAt
<1>9. ASSUME NEW r \in Refs, NEW s \in Refs, REF_GET_ELEM(t, s, r) PROVE Inv'
  <2>1. ref[s] \in tree
    BY <1>0, <1>9 DEF REF_GET_ELEM, RefCntExact, RefsTo, TypeOK
  <2>. QED
    BY <1>9, <2>1, TakeRefInv DEF REF_GET_ELEM, ThreadAt
<1>10. ASSUME NEW r \in Refs, NEW s \in Refs, REF_PUT_ELEM(t, r, s) PROVE Inv'
  <2>1. PICK e \in Elems : ref[r] = e
    BY <1>0, <1>10 DEF REF_PUT_ELEM, TypeOK
  <2>2. /\ e \in tree
        /\ rte_ref_cnt'[e] = Cardinality(RefsTo(e)')
        /\ ref' \in [Refs -> Elems \cup {None}]
        /\ rte_ref_cnt' \in [Elems -> Nat]
        /\ \A f \in Elems : f # e =>
              RefsTo(f)' = RefsTo(f) /\ rte_ref_cnt'[f] = rte_ref_cnt[f]
    BY <1>0, <1>10, <2>1, DropRefExact DEF REF_PUT_ELEM
  <2>3. s \in RefsTo(e)'
    BY <1>0, <1>10, <2>1 DEF REF_PUT_ELEM, RefsTo, TypeOK
  <2>4. rte_ref_cnt'[e] > 0
    BY <2>2, <2>3, RefsToFinite, FS_EmptySet
  <2>. QED
    BY <1>0, <1>10, <2>2, <2>4 DEF REF_PUT_ELEM, ThreadAt, Inv, TypeOK,
        RefCntExact, PrivateElems, OnePerKey, HandsMatchPc
<1>. QED
  BY <1>1, <1>2, <1>3, <1>4, <1>5, <1>6, <1>7, <1>8, <1>9, <1>10 DEF Thread

\* A step of the specification preserves the invariant.
LEMMA StepInv == Inv /\ [Next]_vars => Inv'
<1>1. Inv /\ UNCHANGED vars => Inv'
  BY DEF vars, Inv, TypeOK, RefCntExact, RefsTo, PrivateElems, OnePerKey,
      HandsMatchPc
<1>. QED
  BY <1>1, ThreadInv DEF Next

\* Every variable keeps its type; in particular no count falls below zero.
THEOREM TypeCorrect == Spec => []TypeOK
<1>1. Inv => TypeOK
  BY DEF Inv
<1>. QED
  BY InitInv, StepInv, <1>1, PTL DEF Spec

\* rte_ref_cnt is exact: no reference outlives its element, and no element
\* outlives its references.
THEOREM RefCntCorrect == Spec => []RefCntExact
<1>1. Inv => RefCntExact
  BY DEF Inv
<1>. QED
  BY InitInv, StepInv, <1>1, PTL DEF Spec

\* An element is constructed and destroyed by one thread, out of reach of all
\* others, although neither is done under the mutex.
THEOREM PrivateElemsCorrect == Spec => []PrivateElems
<1>1. Inv => PrivateElems
  BY DEF Inv
<1>. QED
  BY InitInv, StepInv, <1>1, PTL DEF Spec

\* The object of each reference as KeyRefs sees it.
KeyOf == [r \in Refs |-> IF ref[r] = None THEN None ELSE key[ref[r]]]

\* Somebody refers to the key of every element of the tree.
LEMMA TreeReferred ==
    ASSUME Inv, NEW e \in tree
    PROVE  \E s \in Refs : KeyOf[s] = key[e]
<1>1. RefsTo(e) # {}
  BY FS_EmptySet DEF Inv, RefCntExact
<1>2. PICK s \in Refs : ref[s] = e
  BY <1>1 DEF RefsTo
<1>. QED
  BY <1>2, RefTreeAssumption DEF KeyOf, Inv, TypeOK

\* Taking a reference to an element of the tree is a Share() of its key.
LEMMA TakeRefShares ==
    ASSUME Inv, NEW e \in tree, NEW r \in Refs, TakeRef(e, r),
           key' = key, births' = births
    PROVE  \E k \in Keys, s \in Refs : Promise!Share(k, s)
<1>1. key[e] \in Keys
  BY DEF Inv, TypeOK
<1>2. KeyOf[r] = None /\ KeyOf' = [KeyOf EXCEPT ![r] = key[e]]
  BY RefTreeAssumption DEF TakeRef, KeyOf, Inv, TypeOK
<1>3. Promise!Share(key[e], r)
  BY <1>2, TreeReferred DEF Promise!Share, Promise!Referred, KeyOf
<1>. QED
  BY <1>1, <1>3

\* Giving a reference back is a Drop().
LEMMA PutDrops ==
    ASSUME Inv, NEW r \in Refs, ref[r] # None,
           ref' = [ref EXCEPT ![r] = None], key' = key, births' = births
    PROVE  Promise!Drop(r)
<1>1. ref[r] \in Elems /\ key[ref[r]] \in Keys
  BY DEF Inv, TypeOK
<1>2. KeyOf[r] # None /\ KeyOf' = [KeyOf EXCEPT ![r] = None]
  BY <1>1, RefTreeAssumption DEF KeyOf, Inv, TypeOK
<1>. QED
  BY <1>2 DEF Promise!Drop, KeyOf

\* Every step of a thread is a step of KeyRefs, or invisible to it.
LEMMA ThreadPromise ==
    ASSUME Inv, NEW t \in Threads, Thread(t)
    PROVE  Promise!Next \/ UNCHANGED <<KeyOf, births>>
<1> USE RefTreeAssumption DEF FirstRefs, RB_REMOVE
<1>0. TypeOK /\ RefCntExact /\ PrivateElems /\ OnePerKey /\ HandsMatchPc
  BY DEF Inv
<1>1. ASSUME NEW e \in tree, NEW r \in Refs, TakeRef(e, r), key' = key,
             births' = births
      PROVE  Promise!Next
  BY <1>1, TakeRefShares DEF Promise!Next
<1>2. ASSUME NEW r \in Refs, ref[r] # None, ref' = [ref EXCEPT ![r] = None],
             key' = key, births' = births
      PROVE  Promise!Next
  BY <1>2, PutDrops DEF Promise!Next
<1>3. ASSUME NEW k \in Keys, GET_add(t, k) PROVE UNCHANGED <<KeyOf, births>>
  BY <1>3 DEF GET_add, KeyOf
<1>4. CASE Destructor(t)
  BY <1>4 DEF Destructor, KeyOf
<1>5. ASSUME GET_constructor(t) PROVE UNCHANGED <<KeyOf, births>>
  <2>1. \A r \in Refs : ref[r] # None => ref[r] \in tree
    BY <1>0 DEF RefCntExact, RefsTo, TypeOK
  <2>2. \A r \in Refs : ref[r] # None => key'[ref[r]] = key[ref[r]]
    BY <1>0, <1>5, <2>1 DEF GET_constructor, Unused, TypeOK
  <2>. QED
    BY <1>5, <2>2 DEF GET_constructor, KeyOf
<1>6. ASSUME NEW R \in FirstRefs, GET_insert(t, R) PROVE Promise!Next
  <2>1. PICK e \in Elems : elm[t] = e
    BY <1>0, <1>6 DEF GET_insert, ThreadAt, HandsMatchPc, TypeOK
  <2>2. key[e] \in Keys
    BY <1>0 DEF TypeOK
  <2>3. \A r \in Refs : KeyOf[r] # key[e]
    BY <1>0, <1>6, <2>1, <2>2 DEF KeyOf, GET_insert, Already, Found,
        RefCntExact, RefsTo, TypeOK
  <2>4. \A r \in R : KeyOf[r] = None
    BY <1>6 DEF GET_insert, KeyOf
  <2>5. KeyOf' = [r \in Refs |-> IF r \in R THEN key[e] ELSE KeyOf[r]]
    BY <1>0, <1>6, <2>1 DEF GET_insert, KeyOf, TypeOK
  <2>6. Promise!Create(key[e], R)
    <3>1. births' = births + 1
      BY <1>6 DEF GET_insert
    <3>2. ~Promise!Referred(key[e])
      BY <2>3 DEF Promise!Referred, KeyOf
    <3>. QED
      BY <2>4, <2>5, <3>1, <3>2, Zenon DEF Promise!Create, KeyOf
  <2>. QED
    BY <2>2, <2>6 DEF Promise!Next
<1>7. ASSUME NEW r \in Refs, NEW s \in Refs, REF_GET_ELEM(t, s, r)
      PROVE  Promise!Next
  <2>1. ref[s] \in tree
    BY <1>0, <1>7 DEF REF_GET_ELEM, RefCntExact, RefsTo, TypeOK
  <2>. QED
    BY <1>1, <1>7, <2>1 DEF REF_GET_ELEM
<1>8. ASSUME NEW k \in Keys, NEW r \in Refs, GET_found(t, k, r)
      PROVE  Promise!Next
  BY <1>1, <1>8 DEF GET_found, Found
<1>9. ASSUME NEW r \in Refs, GET_already(t, r) \/ REF_TREE_MIN(t, r)
      PROVE  Promise!Next
  BY <1>1, <1>9 DEF GET_already, Already, Found, REF_TREE_MIN
<1>10. ASSUME NEW r \in Refs, NEW s \in Refs,
              PUT(t, r) \/ REF_PUT_ELEM(t, r, s)
       PROVE  Promise!Next
  BY <1>2, <1>10 DEF PUT, REF_PUT_ELEM
<1>. QED
  BY <1>3, <1>4, <1>5, <1>6, <1>7, <1>8, <1>9, <1>10 DEF Thread

\* The tree implements KeyRefs: everybody who refers to a key at the same time
\* shares one object, from the first reference to the last.
THEOREM PromiseCorrect == Spec => PromiseKept
<1>1. Init => Promise!Init
  BY DEF Init, Promise!Init
<1>2. Inv /\ [Next]_vars => [Promise!Next]_<<KeyOf, births>>
  <2>1. UNCHANGED vars => UNCHANGED <<KeyOf, births>>
    BY DEF vars, KeyOf
  <2>. QED
    BY <2>1, ThreadPromise DEF Next
<1>3. Inv /\ [Next]_vars => [Promise!Next]_<<
          [r \in Refs |-> IF ref[r] = None THEN None ELSE key[ref[r]]],
          births>>
  BY <1>2 DEF KeyOf
<1>. QED
  BY InitInv, StepInv, <1>1, <1>3, PTL DEF Spec, PromiseKept, Promise!Spec

-------------------------------------------------------------------------------
\* The parser of paths (CtlPath), for texts of any length.  The invariant of its
\* loop says what the flags, the cuts and the segments are behind the first i
\* characters, in the words of the delimiters and the letters of the text.

PathStates(n) ==
    [rc : {"ok", "EBADMSG", "E2BIG"}, esc : BOOLEAN, sep : BOOLEAN, at : BOOLEAN,
     cuts : SUBSET (1..n), segs : Seq([key : 1..n, val : 0..n])]

\* A character leaves a state of the loop.
LEMMA PathCharKept ==
    ASSUME NEW n \in Nat, NEW i \in 1..n, NEW tok, NEW s, NEW st \in PathStates(n)
    PROVE  PathChar(tok, s, st, i) \in PathStates(n)
<1> DEFINE Seg == [key : 1..n, val : 0..n]
           g == st.segs
<1>1. /\ st = [rc |-> st.rc, esc |-> st.esc, sep |-> st.sep, at |-> st.at,
               cuts |-> st.cuts, segs |-> g]
      /\ st.rc \in {"ok", "EBADMSG", "E2BIG"} /\ st.esc \in BOOLEAN /\ st.sep \in BOOLEAN
      /\ st.at \in BOOLEAN /\ st.cuts \in SUBSET (1..n) /\ g \in Seq(Seg)
  BY DEF PathStates
<1>2. [key |-> i, val |-> 0] \in Seg
  OBVIOUS
<1> HIDE DEF Seg, g
<1>3. Append(g, [key |-> i, val |-> 0]) \in Seq(Seg)
  BY <1>1, <1>2, AppendProperties
<1>4. ASSUME g # <<>> PROVE [g EXCEPT ![Len(g)].val = i] \in Seq(Seg)
  <2> DEFINE w == Len(g)
             x == [g[w] EXCEPT !.val = i]
  <2>1. w \in 1..Len(g) /\ Len(g) \in Nat
    BY <1>1, <1>4, LenProperties, EmptySeq
  <2>2. g[w] \in Seg
    BY <1>1, <2>1, ElementOfSeq
  <2>3. x \in Seg
    <3> HIDE DEF w
    <3>. QED
      BY <2>2 DEF Seg
  <2>4. [g EXCEPT ![w].val = i] = [g EXCEPT ![w] = x]
    BY <1>1, <2>1
  <2> HIDE DEF w, x
  <2>5. [g EXCEPT ![w] = x] \in Seq(Seg)
    BY <1>1, <2>1, <2>3, ExceptSeq
  <2>. QED
    BY <2>4, <2>5 DEF w
<1>5. CutSeparator(st, i) \in PathStates(n)
  BY <1>1 DEF PathStates, CutSeparator, Seg, g
<1>6. NewKey(st, i) \in PathStates(n)
  BY <1>1, <1>3 DEF PathStates, NewKey, Plainly, Seg, g
<1>7. NewVal(st, i) \in PathStates(n)
  BY <1>1, <1>4 DEF PathStates, NewVal, Plainly, Seg, g
<1>8. Plainly(st) \in PathStates(n)
  BY <1>1 DEF PathStates, Plainly, Seg, g
<1>9. /\ [st EXCEPT !.esc = TRUE] \in PathStates(n)
      /\ [st EXCEPT !.at = TRUE, !.cuts = @ \cup {i}] \in PathStates(n)
  BY <1>1 DEF PathStates, Seg, g
<1>. QED
  BY <1>5, <1>6, <1>7, <1>8, <1>9 DEF PathChar

\* r is the state behind the last character, f the states behind each.
FoldsPath(tok, s, r) ==
    r = FoldLeft(LAMBDA st, i : PathChar(tok, s, st, i), PathStart, [i \in 1..Len(s) |-> i])
PathRun(f, tok, s, r) ==
    /\ f \in [0..Len(s) -> PathStates(Len(s))] /\ f[0] = PathStart /\ f[Len(s)] = r
    /\ \A k \in 1..Len(s) : f[k] = PathChar(tok, s, f[k - 1], k)

LEMMA PathRuns ==
    ASSUME NEW tok, NEW s, NEW n \in Nat, n = Len(s), NEW r, FoldsPath(tok, s, r)
    PROVE  \E f : PathRun(f, tok, s, r)
<1> DEFINE N == PathStates(n)
           zero == PathStart
           D == 1..n
           v == [i \in 1..Len(s) |-> i]
           g == [k \in D |-> [b \in N |-> PathChar(tok, s, b, k)]]
           IsFold(it) == it = [t \in SUBSET (DOMAIN v) |->
                                 IF t = {} THEN PathStart
                                 ELSE PathChar(tok, s, it[t \ {Max(t)}], v[Max(t)])]
           jt == CHOOSE it : IsFold(it)
<1>1. DOMAIN v = D /\ \A k \in D : v[k] = k
  OBVIOUS
<1>2. Steps(g, D, N) /\ zero \in N
  <2>1. \A k \in D : \A b \in N : PathChar(tok, s, b, k) \in N
    BY PathCharKept
  <2>2. zero \in N
    <3>1. <<>> \in Seq([key : 1..n, val : 0..n])
      OBVIOUS
    <3>. QED
      BY <3>1 DEF PathStart, PathStates
  <2> HIDE DEF D, N
  <2>. QED
    BY <2>1, <2>2 DEF Steps
<1>3. \A t \in SUBSET D : t # {} => Max(t) \in D
  <2>1. \A t \in SUBSET D : t # {} => Max(t) \in t
    BY MaxOfPositions
  <2> HIDE DEF D
  <2>. QED
    BY <2>1
<1>4. \A k \in D : \A b \in N : g[k][b] = PathChar(tok, s, b, k)
  <2> HIDE DEF D, N
  <2>. QED
    OBVIOUS
<1>5. PICK it \in [SUBSET D -> N] : FoldsBack(it, zero, g, n, N)
  <2>1. \E it \in [SUBSET (1..n) -> N] : FoldsBack(it, zero, g, n, N)
    <3>1. Steps(g, 1..n, N)
      BY <1>2 DEF D
    <3> HIDE DEF g, N, zero, D
    <3>. QED
      BY <1>2, <3>1, FoldExists
  <2>. QED
    BY <2>1 DEF D
<1>6. \A t \in SUBSET D :
         it[t] = IF t = {} THEN PathStart ELSE PathChar(tok, s, it[t \ {Max(t)}], v[Max(t)])
  <2>1. ASSUME NEW t \in SUBSET D, t # {}
        PROVE  it[t] = PathChar(tok, s, it[t \ {Max(t)}], v[Max(t)])
    <3>1. it[t \ {Max(t)}] \in N
      <4> HIDE DEF D, N
      <4>. QED
        BY <1>5
    <3>2. it[t] = g[Max(t)][it[t \ {Max(t)}]]
      BY <1>5, <2>1, <3>1 DEF FoldsBack, D
    <3> HIDE DEF g, D, N, v
    <3>. QED
      BY <1>1, <1>3, <1>4, <2>1, <3>1, <3>2
  <2>2. it[{}] = PathStart
    BY <1>5 DEF FoldsBack
  <2> HIDE DEF D, v
  <2>. QED
    BY <2>1, <2>2
<1>7. IsFold(it)
  <2> HIDE DEF D, v
  <2>. QED
    BY <1>1, <1>5, <1>6
<1>8. IsFold(jt)
  <2> HIDE DEF IsFold
  <2>. QED
    BY <1>7
<1>9. r = jt[D]
  <2>1. r = jt[DOMAIN v]
    BY Zenon DEF FoldsPath, FoldLeft, MapThenFoldSet
  <2>. QED
    BY <1>1, <2>1
<1>10. FoldsBack(jt, zero, g, n, N)
  <2>1. \A t \in SUBSET D :
           jt[t] = IF t = {} THEN zero ELSE PathChar(tok, s, jt[t \ {Max(t)}], v[Max(t)])
    <3> HIDE DEF jt, D, v
    <3>. QED
      BY <1>1, <1>8
  <2> HIDE DEF jt, g, D, N, v, zero
  <2>2. ASSUME NEW t \in SUBSET D, t # {}, jt[t \ {Max(t)}] \in N
        PROVE  jt[t] = g[Max(t)][jt[t \ {Max(t)}]]
    <3>1. Max(t) \in D /\ v[Max(t)] = Max(t)
      BY <1>1, <1>3, <2>2
    <3>2. jt[t] = PathChar(tok, s, jt[t \ {Max(t)}], Max(t))
      BY <2>1, <2>2, <3>1
    <3>. QED
      BY <1>4, <2>2, <3>1, <3>2
  <2>3. jt[{}] = zero
    BY <2>1
  <2>. QED
    BY <2>2, <2>3 DEF FoldsBack, D
<1>11. PICK f : ValuesUpTo(f, zero, g, n, N) /\ f[n] = jt[1..n]
  <2>1. Steps(g, 1..n, N)
    BY <1>2 DEF D
  <2> HIDE DEF jt, g, D, N, zero
  <2>. QED
    BY <1>2, <1>10, <2>1, FoldValues
<1>12. f \in [0..n -> N] /\ f[0] = zero /\ f[n] = r
  BY <1>9, <1>11 DEF ValuesUpTo, D
<1>13. \A k \in 1..n : f[k] = PathChar(tok, s, f[k - 1], k)
  <2>1. \A k \in 1..n : f[k - 1] \in N /\ f[k] = g[k][f[k - 1]]
    <3> HIDE DEF g, jt, N, zero
    <3>1. \A k \in 1..n : k - 1 \in 0..n /\ f[k] = g[k][f[k - 1]]
      BY <1>11 DEF ValuesUpTo
    <3>. QED
      BY <1>12, <3>1
  <2> HIDE DEF g, jt, N
  <2>. QED
    BY <1>4, <2>1 DEF D
<1>14. PathRun(f, tok, s, r)
  <2> HIDE DEF g, jt
  <2>. QED
    BY <1>12, <1>13 DEF PathRun
<1>. QED
  BY <1>14

\* The characters of a text of n that starts with "/": delimiters, letters, keys
\* and values.
Marks(tok, s, n, D, L, K, V) ==
    /\ n \in Nat \ {0} /\ n = Len(s) /\ 1 \in D /\ s[1] = "/"
    /\ D \subseteq 1..n /\ L \subseteq 1..n /\ K \subseteq L /\ V \subseteq L /\ K \cap V = {}
    /\ \A i \in 1..n : i \in D <=> /\ s[i] # ESC /\ (Separator(tok, s[i]) \/ s[i] = "@")
                                   /\ ~(i > 1 /\ s[i - 1] = ESC)
    /\ \A i \in 1..n : i \in L <=> s[i] # ESC /\ i \notin D
    /\ \A i \in L : i \in K <=> \E j \in RunBefore(D, L, i) : s[j] # "@"
    /\ \A i \in L : i \in V <=> /\ \E j \in RunBefore(D, L, i) : s[j] = "@"
                                /\ ~ \E j \in RunBefore(D, L, i) : s[j] # "@"

LEMMA PathMarks ==
    ASSUME NEW tok, NEW s \in Seq(STRING), s # <<>>, s[1] = "/",
           NEW D, D = Delims(tok, s), NEW L, L = Letters(s, D),
           NEW K, K = KeyStarts(s, D, L), NEW V, V = Starts(D, L) \ K
    PROVE  Marks(tok, s, Len(s), D, L, K, V)
<1> DEFINE n == Len(s)
<1>1. n \in Nat \ {0} /\ DOMAIN s = 1..n
  BY LenProperties, EmptySeq
<1> HIDE DEF n
<1>2. \A i \in 1..n : i \in D <=> /\ s[i] # ESC /\ (Separator(tok, s[i]) \/ s[i] = "@")
                                  /\ ~(i > 1 /\ s[i - 1] = ESC)
  BY <1>1 DEF Delims, Separator, ESC
<1>3. 1 \in 1..n /\ D \subseteq 1..n /\ L \subseteq 1..n
  BY <1>1 DEF Delims, Letters
<1>4. 1 \in D
  BY <1>2, <1>3 DEF Separator, ESC
<1>5. \A i \in 1..n : i \in L <=> s[i] # ESC /\ i \notin D
  BY <1>1 DEF Letters
<1>6. K \subseteq L /\ V \subseteq L /\ K \cap V = {}
  BY DEF KeyStarts, Starts
<1>7. \A i \in L : i \in K <=> \E j \in RunBefore(D, L, i) : s[j] # "@"
  BY DEF KeyStarts, Starts
<1>8. \A i \in L : i \in V <=> /\ \E j \in RunBefore(D, L, i) : s[j] = "@"
                               /\ ~ \E j \in RunBefore(D, L, i) : s[j] # "@"
  BY DEF KeyStarts, Starts
<1>9. n = Len(s)
  BY DEF n
<1>. QED
  BY <1>1, <1>2, <1>3, <1>4, <1>5, <1>6, <1>7, <1>8, <1>9 DEF Marks

\* How the delimiters that are pending change with a character.
LEMMA RunSteps ==
    ASSUME NEW tok, NEW s, NEW n, NEW D, NEW L, NEW K, NEW V, Marks(tok, s, n, D, L, K, V),
           NEW i \in 1..n
    PROVE  /\ i \in L => RunBefore(D, L, i + 1) = {}
           /\ i \in D => RunBefore(D, L, i + 1) = RunBefore(D, L, i) \cup {i}
           /\ i \notin D /\ i \notin L => RunBefore(D, L, i + 1) = RunBefore(D, L, i)
<1> DEFINE R == RunBefore(D, L, i)
           Q == RunBefore(D, L, i + 1)
<1>1. n \in Nat /\ i \in Nat /\ D \subseteq Nat /\ L \subseteq Nat /\ (i \in L => i \notin D)
  BY DEF Marks
<1>2. \A j \in Nat : j \in R <=> j \in D /\ j < i /\ \A l \in L : ~(j < l /\ l < i)
  BY <1>1 DEF RunBefore
<1>3. \A j \in Nat : j \in Q <=> j \in D /\ j <= i /\ \A l \in L : ~(j < l /\ l <= i)
  BY <1>1 DEF RunBefore
<1>4. R \subseteq Nat /\ Q \subseteq Nat
  BY <1>1 DEF RunBefore
<1> HIDE DEF R, Q
<1>5. i \in L => Q = {}
  <2>1. ASSUME i \in L, NEW j \in Q PROVE FALSE
    <3>1. j \in Nat /\ j \in D /\ j <= i /\ ~(j < i)
      BY <1>1, <1>3, <1>4, <2>1
    <3>. QED
      BY <1>1, <2>1, <3>1
  <2>. QED
    BY <2>1
<1>6. i \in D => Q = R \cup {i}
  <2>1. ASSUME i \in D, NEW j \in Nat PROVE j \in Q <=> j \in R \/ j = i
    <3>1. i \notin L
      BY <1>1, <2>1
    <3>2. \A l \in L : l <= i <=> l < i
      BY <1>1, <3>1
    <3>. QED
      BY <1>1, <1>2, <1>3, <2>1, <3>2
  <2>. QED
    BY <1>1, <1>4, <2>1
<1>7. i \notin D /\ i \notin L => Q = R
  <2>1. ASSUME i \notin D, i \notin L, NEW j \in Nat PROVE j \in Q <=> j \in R
    <3>2. \A l \in L : l <= i <=> l < i
      BY <1>1, <2>1
    <3>. QED
      BY <1>1, <1>2, <1>3, <2>1, <3>2
  <2>. QED
    BY <1>4, <2>1
<1>. QED
  BY <1>5, <1>6, <1>7 DEF R, Q

\* How many keys there are up to a position.
Numbered(K, n) ==
    /\ \A i \in 0..n : Ordinal(K, i) \in Nat
    /\ Ordinal(K, 0) = 0 /\ Ordinal(K, n) = Cardinality(K)
    /\ \A i \in 1..n : Ordinal(K, i) = IF i \in K THEN Ordinal(K, i - 1) + 1 ELSE Ordinal(K, i - 1)
    /\ \A i \in 0..n, j \in 0..n : i <= j => Ordinal(K, i) <= Ordinal(K, j)
    /\ \A i \in K, j \in K : i < j => Ordinal(K, i) < Ordinal(K, j)

LEMMA KeysCounted ==
    ASSUME NEW n \in Nat, NEW K \in SUBSET (1..n)
    PROVE  Numbered(K, n)
<1> DEFINE U(i) == {j \in K : j <= i}
<1>0. \A j \in K : j \in Nat /\ 1 <= j /\ j <= n
  OBVIOUS
<1>1. IsFiniteSet(K)
  <2> DEFINE D == 1..n
  <2>1. IsFiniteSet(D) /\ K \in SUBSET D
    BY FS_Interval
  <2> HIDE DEF D
  <2>. QED
    BY <2>1, FS_Subset
<1>2. \A i \in 0..n : IsFiniteSet(U(i)) /\ Ordinal(K, i) = Cardinality(U(i)) /\ Ordinal(K, i) \in Nat
  <2>1. ASSUME NEW i \in 0..n PROVE IsFiniteSet(U(i)) /\ Cardinality(U(i)) \in Nat
    <3> DEFINE u == U(i)
    <3>1. u \in SUBSET K
      OBVIOUS
    <3> HIDE DEF u
    <3>2. IsFiniteSet(u)
      BY <1>1, <3>1, FS_Subset
    <3>3. Cardinality(u) \in Nat
      BY <3>2, FS_CardinalityType
    <3>. QED
      BY <3>2, <3>3 DEF u
  <2>. QED
    BY <2>1 DEF Ordinal
<1>3. Ordinal(K, 0) = 0
  <2>0. \A j \in K : ~(j <= 0)
    BY <1>0
  <2>1. U(0) = {}
    BY <2>0
  <2>2. 0 \in 0..n
    BY n \in Nat
  <2>. QED
    BY <1>2, <2>1, <2>2, FS_EmptySet
<1>4. Ordinal(K, n) = Cardinality(K)
  <2>0. \A j \in K : j <= n
    BY <1>0
  <2>1. U(n) = K
    BY <2>0
  <2>2. n \in 0..n
    BY n \in Nat
  <2>. QED
    BY <1>2, <2>1, <2>2
<1>5. ASSUME NEW i \in 1..n
      PROVE  Ordinal(K, i) = IF i \in K THEN Ordinal(K, i - 1) + 1 ELSE Ordinal(K, i - 1)
  <2> DEFINE u == U(i)
             w == U(i - 1)
  <2>1. i \in 0..n /\ i - 1 \in 0..n
    OBVIOUS
  <2>2. Ordinal(K, i) = Cardinality(u) /\ Ordinal(K, i - 1) = Cardinality(w) /\ IsFiniteSet(w)
    BY <1>2, <2>1
  <2>3. i \notin w /\ u = IF i \in K THEN w \cup {i} ELSE w
    <3>1. \A j \in K : j <= i <=> j <= i - 1 \/ j = i
      BY <1>0
    <3>2. \A j : j \in u <=> j \in w \/ (i \in K /\ j = i)
      BY <3>1
    <3>3. i \notin w
      OBVIOUS
    <3> HIDE DEF u, w
    <3>. QED
      BY <3>2, <3>3
  <2> HIDE DEF u, w
  <2>4. Cardinality(w \cup {i}) = Cardinality(w) + 1
    BY <2>2, <2>3, FS_AddElement
  <2>. QED
    BY <2>2, <2>3, <2>4
<1>6. ASSUME NEW i \in 0..n, NEW j \in 0..n, i <= j PROVE Ordinal(K, i) <= Ordinal(K, j)
  <2> DEFINE u == U(i)
             w == U(j)
  <2>1. u \in SUBSET w /\ IsFiniteSet(w) /\ Ordinal(K, i) = Cardinality(u) /\ Ordinal(K, j) = Cardinality(w)
    <3>1. \A m \in K : m <= i => m <= j
      BY <1>0, <1>6
    <3>2. u \in SUBSET w
      BY <3>1
    <3>. QED
      BY <1>2, <3>2
  <2> HIDE DEF u, w
  <2>. QED
    BY <2>1, FS_Subset
<1>7. ASSUME NEW i \in K, NEW j \in K, i < j PROVE Ordinal(K, i) < Ordinal(K, j)
  <2>1. i \in 0..n /\ j \in 1..n /\ j - 1 \in 0..n /\ i <= j - 1
    BY <1>7
  <2>2. Ordinal(K, i) <= Ordinal(K, j - 1) /\ Ordinal(K, j) = Ordinal(K, j - 1) + 1
    BY <1>5, <1>6, <2>1
  <2>3. Ordinal(K, i) \in Nat /\ Ordinal(K, j - 1) \in Nat
    BY <1>2, <2>1
  <2>. QED
    BY <2>2, <2>3
<1> HIDE DEF U
<1>8. \A i \in 0..n : Ordinal(K, i) \in Nat
  BY <1>2
<1>. QED
  BY <1>3, <1>4, <1>5, <1>6, <1>7, <1>8 DEF Numbered

\* The segments behind the first i characters: v is the last value of S so far.
LastUpTo(v, S, i) ==
    \/ v = 0 /\ \A j \in S : ~(j <= i)
    \/ v \in S /\ v <= i /\ \A j \in S : j <= i => j <= v
SegAt(g, x, K, V, i) ==
    /\ g.key \in K /\ g.key <= i /\ Ordinal(K, g.key) = x
    /\ LastUpTo(g.val, ValuesOf(K, V, g.key), i)
SegsAt(g, K, V, i) ==
    /\ Len(g) = Ordinal(K, i) /\ Len(g) <= MAX_VALUE_DEPTH
    /\ \A x \in 1..Len(g) : SegAt(g[x], x, K, V, i)

Placed(K, V, n) ==
    n \in Nat /\ K \subseteq 1..n /\ V \subseteq 1..n /\ K \cap V = {} /\ Numbered(K, n)

LEMMA MarksPlaced ==
    ASSUME NEW tok, NEW s, NEW n, NEW D, NEW L, NEW K, NEW V, Marks(tok, s, n, D, L, K, V)
    PROVE  Placed(K, V, n)
<1>1. n \in Nat /\ K \in SUBSET (1..n) /\ V \subseteq 1..n /\ K \cap V = {}
  BY DEF Marks
<1>. QED
  BY <1>1, KeysCounted DEF Placed

\* A character that is no value of a key keeps the key's last value.
LEMMA LastStays ==
    ASSUME NEW n \in Nat, NEW i \in 1..n, NEW v, NEW S \in SUBSET (1..n),
           LastUpTo(v, S, i - 1), i \notin S
    PROVE  LastUpTo(v, S, i)
<1>1. \A j \in S : j <= i <=> j <= i - 1
  OBVIOUS
<1>2. CASE v = 0 /\ \A j \in S : ~(j <= i - 1)
  BY <1>1, <1>2 DEF LastUpTo
<1>3. CASE v \in S /\ v <= i - 1 /\ \A j \in S : j <= i - 1 => j <= v
  BY <1>1, <1>3 DEF LastUpTo
<1>. QED
  BY <1>2, <1>3 DEF LastUpTo

LEMMA SegStays ==
    ASSUME NEW n, NEW K, NEW V, Placed(K, V, n), NEW i \in 1..n, NEW g, NEW x,
           SegAt(g, x, K, V, i - 1), i \notin ValuesOf(K, V, g.key)
    PROVE  SegAt(g, x, K, V, i)
<1> DEFINE S == ValuesOf(K, V, g.key)
<1>1. n \in Nat /\ S \in SUBSET (1..n) /\ g.key \in K /\ K \subseteq 1..n
  BY DEF Placed, ValuesOf, SegAt
<1>2. LastUpTo(g.val, S, i - 1) /\ i \notin S /\ g.key <= i - 1
  BY DEF SegAt
<1> HIDE DEF S
<1>3. LastUpTo(g.val, S, i)
  BY <1>1, <1>2, LastStays
<1>4. g.key <= i
  <2> DEFINE k == g.key
  <2>1. k \in Nat /\ k <= i - 1
    <3>1. k \in 1..n
      BY <1>1
    <3> HIDE DEF k
    <3>2. k \in Nat
      BY <3>1
    <3>. QED
      BY <1>2, <3>2 DEF k
  <2> HIDE DEF k
  <2>2. k <= i
    BY <2>1
  <2>. QED
    BY <2>2 DEF k
<1>. QED
  BY <1>3, <1>4 DEF S, SegAt

LEMMA SegsStay ==
    ASSUME NEW n, NEW K, NEW V, Placed(K, V, n), NEW i \in 1..n, NEW g,
           SegsAt(g, K, V, i - 1), i \notin K, i \notin V
    PROVE  SegsAt(g, K, V, i)
<1>1. Ordinal(K, i) = Ordinal(K, i - 1)
  BY DEF Placed, Numbered
<1>2. ASSUME NEW x \in 1..Len(g) PROVE SegAt(g[x], x, K, V, i)
  <2>1. SegAt(g[x], x, K, V, i - 1) /\ i \notin ValuesOf(K, V, g[x].key)
    BY DEF SegsAt, ValuesOf
  <2>. QED
    BY <2>1, SegStays
<1>. QED
  BY <1>1, <1>2 DEF SegsAt

LEMMA SegsGrow ==
    ASSUME NEW n, NEW K, NEW V, Placed(K, V, n), NEW i \in 1..n, NEW Seg, NEW g \in Seq(Seg),
           SegsAt(g, K, V, i - 1), i \in K, Len(g) # MAX_VALUE_DEPTH,
           NEW x, x = [key |-> i, val |-> 0], x \in Seg
    PROVE  SegsAt(Append(g, x), K, V, i)
<1> DEFINE w == Len(g)
           h == Append(g, x)
<1>1. /\ w \in Nat /\ h \in Seq(Seg) /\ Len(h) = w + 1 /\ h[w + 1] = x
      /\ \A m \in 1..w : h[m] = g[m]
  BY LenProperties, AppendProperties
<1>2. /\ w = Ordinal(K, i - 1) /\ w <= MAX_VALUE_DEPTH
      /\ \A m \in 1..w : SegAt(g[m], m, K, V, i - 1)
  BY DEF SegsAt
<1>3. Ordinal(K, i) = Ordinal(K, i - 1) + 1 /\ i \notin V
  BY DEF Placed, Numbered
<1>4. MAX_VALUE_DEPTH \in Nat /\ w + 1 <= MAX_VALUE_DEPTH
  BY <1>1, <1>2, PathAssumption
<1>5. SegAt(x, w + 1, K, V, i)
  <2>1. x.key = i /\ x.val = 0 /\ i \in Nat
    OBVIOUS
  <2>2. \A j \in ValuesOf(K, V, i) : ~(j <= i)
    <3>1. V \subseteq Nat
      BY DEF Placed
    <3>. QED
      BY <2>1, <3>1 DEF ValuesOf
  <2>3. LastUpTo(x.val, ValuesOf(K, V, x.key), i)
    BY <2>1, <2>2 DEF LastUpTo
  <2>. QED
    BY <1>2, <1>3, <2>1, <2>3 DEF SegAt
<1>6. ASSUME NEW m \in 1..w PROVE SegAt(g[m], m, K, V, i)
  <2>1. SegAt(g[m], m, K, V, i - 1) /\ i \notin ValuesOf(K, V, g[m].key)
    BY <1>2, <1>3 DEF ValuesOf
  <2>. QED
    BY <2>1, SegStays
<1> HIDE DEF h, w
<1>7. \A m \in 1..(w + 1) : SegAt(h[m], m, K, V, i)
  <2>1. \A m \in 1..(w + 1) : m \in 1..w \/ m = w + 1
    BY <1>1
  <2>. QED
    BY <1>1, <1>5, <1>6, <2>1
<1>8. SegsAt(h, K, V, i)
  BY <1>1, <1>2, <1>3, <1>4, <1>7 DEF SegsAt
<1>. QED
  BY <1>8 DEF h

\* A value belongs to the last key, and to no other one.
LEMMA LastKey ==
    ASSUME NEW n, NEW K, NEW V, Placed(K, V, n), NEW i \in 1..n, NEW g, Len(g) \in Nat,
           SegsAt(g, K, V, i - 1), i \in V, Len(g) # 0, NEW k, k = g[Len(g)].key
    PROVE  /\ k \in K /\ Ordinal(K, k) = Len(g) /\ i \in ValuesOf(K, V, k)
           /\ \A j \in K : j # k => i \notin ValuesOf(K, V, j)
<1> DEFINE w == Len(g)
<1>1. /\ w \in 1..w /\ w = Ordinal(K, i - 1)
      /\ k \in K /\ k <= i - 1 /\ Ordinal(K, k) = w
  BY DEF SegsAt, SegAt
<1>2. K \subseteq 1..n /\ V \subseteq 1..n /\ i \notin K /\ n \in Nat
  BY DEF Placed
<1>3. /\ \A x \in K, y \in K : x < y => Ordinal(K, x) < Ordinal(K, y)
      /\ \A x \in 0..n, y \in 0..n : x <= y => Ordinal(K, x) <= Ordinal(K, y)
      /\ \A x \in 0..n : Ordinal(K, x) \in Nat
  BY DEF Placed, Numbered
<1> HIDE DEF w
<1>4. ASSUME NEW j \in K, k < j, j <= i PROVE FALSE
  <2>1. j <= i - 1 /\ j \in 0..n /\ i - 1 \in 0..n /\ k \in 0..n
    <3>1. j \in 1..n /\ k \in 1..n /\ j # i
      BY <1>1, <1>2
    <3>. QED
      BY <1>2, <1>4, <3>1
  <2>2. Ordinal(K, j) <= w /\ w < Ordinal(K, j)
    BY <1>1, <1>3, <1>4, <2>1
  <2>3. Ordinal(K, j) \in Nat /\ w \in Nat
    BY <1>1, <1>3, <2>1
  <2>. QED
    BY <2>2, <2>3
<1>5. i \in ValuesOf(K, V, k)
  BY <1>1, <1>2, <1>4 DEF ValuesOf
<1>6. ASSUME NEW j \in K, j # k PROVE i \notin ValuesOf(K, V, j)
  <2>1. CASE j < k
    BY <1>1, <1>2, <2>1 DEF ValuesOf
  <2>2. CASE k < j
    <3>1. ~(j <= i)
      BY <1>4, <2>2
    <3>. QED
      BY <1>2, <3>1 DEF ValuesOf
  <2>. QED
    BY <1>1, <1>2, <1>6, <2>1, <2>2
<1>. QED
  BY <1>1, <1>5, <1>6 DEF w

LEMMA SegsValue ==
    ASSUME NEW n, NEW K, NEW V, Placed(K, V, n), NEW i \in 1..n, NEW N, NEW M,
           NEW g \in Seq([key : N, val : M]), i \in M,
           SegsAt(g, K, V, i - 1), i \in V, Len(g) # 0
    PROVE  SegsAt([g EXCEPT ![Len(g)].val = i], K, V, i)
<1> DEFINE w == Len(g)
           h == [g EXCEPT ![w].val = i]
           x == [g[w] EXCEPT !.val = i]
           k == g[w].key
<1>1. /\ w \in Nat \ {0} /\ w = Ordinal(K, i - 1) /\ w <= MAX_VALUE_DEPTH
      /\ \A m \in 1..w : SegAt(g[m], m, K, V, i - 1) /\ g[m] \in [key : N, val : M]
      /\ DOMAIN g = 1..w
  BY LenProperties, ElementOfSeq DEF SegsAt
<1>2. /\ k \in K /\ Ordinal(K, k) = w /\ i \in ValuesOf(K, V, k)
      /\ \A j \in K : j # k => i \notin ValuesOf(K, V, j)
  BY <1>1, LastKey
<1>3. Ordinal(K, i) = Ordinal(K, i - 1) /\ K \subseteq Nat
  BY DEF Placed, Numbered
<1>4. /\ DOMAIN h = 1..w /\ Len(h) = w /\ h[w] = x
      /\ \A m \in 1..w : m # w => h[m] = g[m]
  <2>1. DOMAIN h = 1..w /\ h[w] = x /\ \A m \in 1..w : m # w => h[m] = g[m]
    BY <1>1
  <2> HIDE DEF h
  <2>2. Len(h) = w
    <3>1. h = [g EXCEPT ![w] = x]
      BY <1>1 DEF h
    <3> HIDE DEF x, w
    <3>2. x \in [key : N, val : M]
      BY <1>1 DEF x
    <3>3. h \in Seq([key : N, val : M]) /\ Len(h) = Len(g)
      BY <1>1, <3>1, <3>2, ExceptSeq
    <3>4. Len(h) = w
      BY <3>3 DEF w
    <3>. QED
      BY <3>4
  <2>. QED
    BY <2>1, <2>2
<1>5. x.key = k /\ x.val = i
  BY <1>1
<1>6. SegAt(x, w, K, V, i)
  <2>1. SegAt(g[w], w, K, V, i - 1)
    BY <1>1
  <2>2. k \in Nat /\ k <= i - 1
    BY <1>2, <1>3, <2>1 DEF SegAt
  <2>3. LastUpTo(i, ValuesOf(K, V, k), i)
    BY <1>2 DEF LastUpTo
  <2> HIDE DEF k, x, w
  <2>. QED
    BY <1>2, <1>5, <2>2, <2>3 DEF SegAt
<1>7. ASSUME NEW m \in 1..w, m # w PROVE SegAt(g[m], m, K, V, i)
  <2>1. SegAt(g[m], m, K, V, i - 1) /\ g[m].key \in K /\ Ordinal(K, g[m].key) = m
    BY <1>1 DEF SegAt
  <2>2. i \notin ValuesOf(K, V, g[m].key)
    BY <1>2, <1>7, <2>1
  <2>. QED
    BY <2>1, <2>2, SegStays
<1> HIDE DEF h, w, x, k
<1>8. \A m \in 1..w : SegAt(h[m], m, K, V, i)
  BY <1>4, <1>6, <1>7
<1>9. SegsAt(h, K, V, i)
  BY <1>1, <1>3, <1>4, <1>8 DEF SegsAt
<1>. QED
  BY <1>9 DEF h, w

\* The state of the loop behind the first i characters.
FlagsAt(st, s, D, L, i) ==
    /\ (st.esc = TRUE) <=> (i > 0 /\ s[i] = ESC)
    /\ (st.sep = TRUE) <=> \E j \in RunBefore(D, L, i + 1) : s[j] # "@"
    /\ (st.at = TRUE) <=> \E j \in RunBefore(D, L, i + 1) : s[j] = "@"
    /\ st.cuts = {j \in D : j <= i}
CleanUpTo(s, D, L, K, V, i) ==
    /\ \A k \in D : k <= i /\ s[k] # "@" => \A j \in RunBefore(D, L, k) : s[j] # "@"
    /\ \A k \in K : Ordinal(K, k) = MAX_VALUE_DEPTH =>
                       \A v \in ValuesOf(K, V, k) : ~(v <= i)
ParsedUpTo(st, s, D, L, K, V, i) ==
    /\ st.rc = "ok" /\ FlagsAt(st, s, D, L, i) /\ SegsAt(st.segs, K, V, i)
    /\ CleanUpTo(s, D, L, K, V, i)
    /\ Len(st.segs) = 0 /\ i > 0 => st.sep = TRUE
Refused(st, s, D, L, K, V) == st.rc # "ok" /\ (Dangling(s, D, L) \/ TooDeep(K, V))

LEMMA CleanStays ==
    ASSUME NEW tok, NEW s, NEW n, NEW D, NEW L, NEW K, NEW V, Marks(tok, s, n, D, L, K, V),
           NEW i \in 1..n, CleanUpTo(s, D, L, K, V, i - 1),
           i \in D /\ s[i] # "@" => \A j \in RunBefore(D, L, i) : s[j] # "@",
           \A k \in K : Ordinal(K, k) = MAX_VALUE_DEPTH => i \notin ValuesOf(K, V, k)
    PROVE  CleanUpTo(s, D, L, K, V, i)
<1>1. n \in Nat /\ D \subseteq 1..n /\ V \subseteq 1..n
  BY DEF Marks
<1>2. ASSUME NEW k \in D, k <= i, s[k] # "@", NEW j \in RunBefore(D, L, k) PROVE s[j] # "@"
  <2>1. k <= i - 1 \/ k = i
    BY <1>1, <1>2
  <2>. QED
    BY <1>2, <2>1 DEF CleanUpTo
<1>3. ASSUME NEW k \in K, Ordinal(K, k) = MAX_VALUE_DEPTH, NEW v \in ValuesOf(K, V, k), v <= i
      PROVE  FALSE
  <2>1. v \in 1..n
    BY <1>1 DEF ValuesOf
  <2>2. v # i
    BY <1>3
  <2>3. v <= i - 1
    BY <1>1, <1>3, <2>1, <2>2
  <2>. QED
    BY <1>3, <2>3 DEF CleanUpTo
<1>. QED
  BY <1>2, <1>3 DEF CleanUpTo

\* Every character keeps it, or the path is one that has to be refused.
LEMMA PathStep ==
    ASSUME NEW tok, NEW s, NEW n, NEW D, NEW L, NEW K, NEW V, Marks(tok, s, n, D, L, K, V),
           NEW st \in PathStates(n), NEW i \in 1..n, ParsedUpTo(st, s, D, L, K, V, i - 1),
           NEW y, y = PathChar(tok, s, st, i)
    PROVE  ParsedUpTo(y, s, D, L, K, V, i) \/ Refused(y, s, D, L, K, V)
<1> DEFINE g == st.segs
           R == RunBefore(D, L, i)
           Q == RunBefore(D, L, i + 1)
           Key == 1..n
           Val == 0..n
           Seg == [key : Key, val : Val]
           fresh == [key |-> i, val |-> 0]
           W == Len(g)
           C == CleanUpTo(s, D, L, K, V, i)
<1>1. /\ st = [rc |-> "ok", esc |-> st.esc, sep |-> st.sep, at |-> st.at,
               cuts |-> st.cuts, segs |-> g]
      /\ st.esc \in BOOLEAN /\ st.sep \in BOOLEAN /\ st.at \in BOOLEAN
      /\ g \in Seq(Seg) /\ st.rc = "ok"
  BY DEF PathStates, ParsedUpTo
<1>2. Placed(K, V, n)
  BY MarksPlaced
<1>3. /\ n \in Nat /\ 1 \in D /\ D \subseteq 1..n /\ L \subseteq 1..n
      /\ (i \in D <=> /\ s[i] # ESC /\ (Separator(tok, s[i]) \/ s[i] = "@")
                      /\ ~(i > 1 /\ s[i - 1] = ESC))
      /\ (i \in L <=> s[i] # ESC /\ i \notin D)
      /\ (i \in K <=> i \in L /\ \E j \in R : s[j] # "@")
      /\ (i \in V <=> i \in L /\ (\E j \in R : s[j] = "@") /\ ~ \E j \in R : s[j] # "@")
  BY DEF Marks
<1>4. /\ i \in L => Q = {}
      /\ i \in D => Q = R \cup {i}
      /\ i \notin D /\ i \notin L => Q = R
  BY RunSteps
<1>5. i - 1 + 1 = i /\ i \in Nat /\ i > 0
  BY <1>3
<1>6. /\ (st.esc = TRUE) <=> (i > 1 /\ s[i - 1] = ESC)
      /\ (st.sep = TRUE) <=> \E j \in R : s[j] # "@"
      /\ (st.at = TRUE) <=> \E j \in R : s[j] = "@"
      /\ st.cuts = {j \in D : j <= i - 1}
  <2>1. FlagsAt(st, s, D, L, i - 1)
    BY DEF ParsedUpTo
  <2>2. R = RunBefore(D, L, i - 1 + 1) /\ (i - 1 > 0 <=> i > 1)
    BY <1>5
  <2> HIDE DEF R
  <2>. QED
    BY <2>1, <2>2 DEF FlagsAt
<1>7. SegsAt(g, K, V, i - 1) /\ CleanUpTo(s, D, L, K, V, i - 1) /\ (W = 0 /\ i > 1 => st.sep = TRUE)
  <2>1. i - 1 > 0 <=> i > 1
    BY <1>5
  <2>. QED
    BY <2>1 DEF ParsedUpTo
<1>8. /\ i \in D => {j \in D : j <= i} = st.cuts \cup {i}
      /\ i \notin D => {j \in D : j <= i} = st.cuts
  <2>1. \A j \in D : j <= i <=> j <= i - 1 \/ j = i
    BY <1>3
  <2>. QED
    BY <1>6, <2>1
<1>9. W \in Nat /\ (g = <<>> <=> W = 0) /\ MAX_VALUE_DEPTH \in Nat \ {0}
  BY <1>1, LenProperties, EmptySeq, PathAssumption
<1>10. /\ W = Ordinal(K, i - 1) /\ W <= MAX_VALUE_DEPTH
  BY <1>7 DEF SegsAt
<1>11. i \in D <=> s[i] # ESC /\ (Separator(tok, s[i]) \/ s[i] = "@") /\ st.esc # TRUE
  BY <1>3, <1>6
<1>12. Separator(tok, s[i]) => s[i] # "@"
  BY DEF Separator
<1>13. i \notin V /\ (i \in D /\ s[i] # "@" => \A j \in R : s[j] # "@") => C
  <2>1. i \notin V => \A k \in K : i \notin ValuesOf(K, V, k)
    BY DEF ValuesOf
  <2>. QED
    BY <1>7, <2>1, CleanStays
<1>14. i \notin K /\ i \notin V => SegsAt(g, K, V, i)
  BY <1>2, <1>7, SegsStay
<1> HIDE DEF R, Q, C, W, g, Seg, Key, Val, fresh
<1>15. CASE s[i] = ESC
  <2>1. i \notin D /\ i \notin L /\ i \notin K /\ i \notin V /\ Q = R
    BY <1>3, <1>4, <1>15
  <2>2. y = [st EXCEPT !.esc = TRUE]
    BY <1>1, <1>15 DEF PathChar
  <2>3. y = [rc |-> "ok", esc |-> TRUE, sep |-> st.sep, at |-> st.at,
             cuts |-> st.cuts, segs |-> g]
    BY <1>1, <2>2 DEF g
  <2>4. y.rc = "ok" /\ y.esc = TRUE /\ y.sep = st.sep /\ y.at = st.at /\ y.cuts = st.cuts /\ y.segs = g
    BY <2>3
  <2>5. FlagsAt(y, s, D, L, i)
    BY <1>5, <1>6, <1>8, <1>15, <2>1, <2>4 DEF FlagsAt, Q
  <2>6. W = 0 /\ i > 0 => st.sep = TRUE
    BY <1>3, <1>5, <1>7, <2>1
  <2>. QED
    BY <1>13, <1>14, <2>1, <2>4, <2>5, <2>6 DEF ParsedUpTo, C, W
<1>16. CASE s[i] # ESC /\ Separator(tok, s[i]) /\ st.esc # TRUE
  <2>1. i \in D /\ i \notin L /\ i \notin K /\ i \notin V /\ s[i] # "@" /\ Q = R \cup {i}
    BY <1>3, <1>4, <1>11, <1>12, <1>16
  <2>2. y = CutSeparator(st, i)
    BY <1>1, <1>16 DEF PathChar
  <2>3. CASE st.at = TRUE
    <3>1. y.rc = "EBADMSG"
      BY <1>1, <2>2, <2>3 DEF CutSeparator
    <3>2. Dangling(s, D, L)
      BY <1>6, <2>1, <2>3 DEF Dangling, R
    <3>. QED
      BY <3>1, <3>2 DEF Refused
  <2>4. CASE st.at # TRUE
    <3>1. y = [st EXCEPT !.sep = TRUE, !.cuts = @ \cup {i}]
      BY <1>1, <2>2, <2>4 DEF CutSeparator
    <3>2. y = [rc |-> "ok", esc |-> st.esc, sep |-> TRUE, at |-> st.at,
               cuts |-> st.cuts \cup {i}, segs |-> g]
      BY <1>1, <3>1 DEF g
    <3>3. /\ y.rc = "ok" /\ y.esc = st.esc /\ y.sep = TRUE /\ y.at = st.at
          /\ y.cuts = st.cuts \cup {i} /\ y.segs = g
      BY <3>2
    <3>4. FlagsAt(y, s, D, L, i)
      <4>1. (y.sep = TRUE) <=> \E j \in Q : s[j] # "@"
        BY <2>1, <3>3
      <4>2. (y.at = TRUE) <=> \E j \in Q : s[j] = "@"
        BY <1>6, <2>1, <3>3
      <4>. QED
        BY <1>8, <1>16, <2>1, <3>3, <4>1, <4>2 DEF FlagsAt, Q
    <3>5. \A j \in R : s[j] # "@"
      BY <1>6, <2>4
    <3>. QED
      BY <1>13, <1>14, <2>1, <3>3, <3>4, <3>5 DEF ParsedUpTo, C, W
  <2>. QED
    BY <2>3, <2>4
<1>17. CASE s[i] # ESC /\ ~(Separator(tok, s[i]) /\ st.esc # TRUE) /\ s[i] = "@" /\ st.esc # TRUE
  <2>1. i \in D /\ i \notin L /\ i \notin K /\ i \notin V /\ Q = R \cup {i}
    BY <1>3, <1>4, <1>11, <1>17
  <2>2. y = [st EXCEPT !.at = TRUE, !.cuts = @ \cup {i}]
    BY <1>1, <1>17 DEF PathChar
  <2>3. y = [rc |-> "ok", esc |-> st.esc, sep |-> st.sep, at |-> TRUE,
             cuts |-> st.cuts \cup {i}, segs |-> g]
    BY <1>1, <2>2 DEF g
  <2>4. /\ y.rc = "ok" /\ y.esc = st.esc /\ y.sep = st.sep /\ y.at = TRUE
        /\ y.cuts = st.cuts \cup {i} /\ y.segs = g
    BY <2>3
  <2>5. FlagsAt(y, s, D, L, i)
    <3>1. (y.sep = TRUE) <=> \E j \in Q : s[j] # "@"
      BY <1>6, <1>17, <2>1, <2>4
    <3>2. (y.at = TRUE) <=> \E j \in Q : s[j] = "@"
      BY <1>17, <2>1, <2>4
    <3>. QED
      BY <1>8, <1>17, <2>1, <2>4, <3>1, <3>2 DEF FlagsAt, Q
  <2>6. W = 0 /\ i > 0 => st.sep = TRUE
    <3>1. i > 1
      <4>1. i # 1
        BY <1>17 DEF Marks
      <4>. QED
        BY <1>3, <4>1
    <3>. QED
      BY <1>7, <3>1
  <2>. QED
    BY <1>13, <1>14, <1>17, <2>1, <2>4, <2>5, <2>6 DEF ParsedUpTo, C, W
<1>18. CASE /\ s[i] # ESC /\ ~(Separator(tok, s[i]) /\ st.esc # TRUE)
            /\ ~(s[i] = "@" /\ st.esc # TRUE)
  <2>1. i \notin D /\ i \in L /\ Q = {} /\ i > 1
    <3>1. i \notin D /\ i \in L /\ Q = {}
      BY <1>3, <1>4, <1>11, <1>18
    <3>. QED
      BY <1>3, <3>1
  <2>2. y = IF st.sep THEN NewKey(st, i) ELSE IF st.at THEN NewVal(st, i) ELSE Plainly(st)
    BY <1>1, <1>18 DEF PathChar
  <2>3. \A h : LET z == [rc |-> "ok", esc |-> FALSE, sep |-> FALSE, at |-> FALSE,
                         cuts |-> st.cuts, segs |-> h]
               IN  /\ FlagsAt(z, s, D, L, i)
                   /\ SegsAt(h, K, V, i) /\ C /\ Len(h) # 0 => ParsedUpTo(z, s, D, L, K, V, i)
    <3>1. ASSUME NEW h, NEW z,
                 z = [rc |-> "ok", esc |-> FALSE, sep |-> FALSE, at |-> FALSE,
                      cuts |-> st.cuts, segs |-> h]
          PROVE  /\ FlagsAt(z, s, D, L, i)
                 /\ SegsAt(h, K, V, i) /\ C /\ Len(h) # 0 => ParsedUpTo(z, s, D, L, K, V, i)
      <4>1. /\ z.rc = "ok" /\ z.esc = FALSE /\ z.sep = FALSE /\ z.at = FALSE
            /\ z.cuts = st.cuts /\ z.segs = h
        BY <3>1
      <4>2. FlagsAt(z, s, D, L, i)
        BY <1>8, <1>18, <2>1, <4>1 DEF FlagsAt, Q
      <4>. QED
        BY <4>1, <4>2 DEF ParsedUpTo, C
    <3>. QED
      BY <3>1
  <2>4. CASE st.sep = TRUE
    <3>1. i \in K /\ i \notin V
      BY <1>3, <1>6, <2>1, <2>4
    <3>2. y = NewKey(st, i)
      BY <2>2, <2>4
    <3>3. CASE W = MAX_VALUE_DEPTH
      <4>1. y.rc = "E2BIG"
        BY <1>1, <3>2, <3>3 DEF NewKey, W, g
      <4>2. /\ Ordinal(K, i) = Ordinal(K, i - 1) + 1 /\ Ordinal(K, i) <= Ordinal(K, n)
            /\ Ordinal(K, n) = Cardinality(K) /\ Ordinal(K, n) \in Nat
        <5>1. i \in 0..n /\ n \in 0..n /\ i <= n
          BY <1>3
        <5>. QED
          BY <1>2, <3>1, <5>1 DEF Placed, Numbered
      <4>3. Cardinality(K) > MAX_VALUE_DEPTH
        BY <1>9, <1>10, <3>3, <4>2
      <4>. QED
        BY <4>1, <4>3 DEF Refused, TooDeep
    <3>4. CASE W # MAX_VALUE_DEPTH
      <4> DEFINE h == Append(g, fresh)
      <4>1. y = [rc |-> "ok", esc |-> FALSE, sep |-> FALSE, at |-> FALSE,
                 cuts |-> st.cuts, segs |-> h]
        BY <1>1, <3>2, <3>4 DEF NewKey, Plainly, W, g, fresh
      <4>2. fresh = [key |-> i, val |-> 0] /\ fresh \in Seg
        BY <1>3 DEF fresh, Seg, Key, Val
      <4>3. Len(h) # 0
        BY <1>1, <1>9, <4>2, AppendProperties DEF W
      <4>4. SegsAt(h, K, V, i)
        BY <1>1, <1>2, <1>7, <3>1, <3>4, <4>2, SegsGrow DEF W
      <4>5. C
        BY <1>13, <2>1, <3>1
      <4> HIDE DEF h
      <4>. QED
        BY <2>3, <4>1, <4>3, <4>4, <4>5
    <3>. QED
      BY <3>3, <3>4
  <2>5. CASE st.sep # TRUE /\ st.at = TRUE
    <3>1. i \notin K /\ i \in V
      BY <1>3, <1>6, <2>1, <2>5
    <3>2. y = NewVal(st, i)
      BY <1>1, <2>2, <2>5
    <3>3. W # 0
      BY <1>7, <2>1, <2>5
    <3> DEFINE k == g[W].key
    <3>4. /\ k \in K /\ Ordinal(K, k) = W /\ i \in ValuesOf(K, V, k)
          /\ \A j \in K : j # k => i \notin ValuesOf(K, V, j)
      BY <1>2, <1>7, <1>9, <3>1, <3>3, LastKey DEF W
    <3>5. CASE W >= MAX_VALUE_DEPTH
      <4>1. y.rc = "EBADMSG"
        BY <1>1, <3>2, <3>5 DEF NewVal, W, g
      <4>2. Ordinal(K, k) = MAX_VALUE_DEPTH
        BY <1>9, <1>10, <3>4, <3>5
      <4>. QED
        BY <3>4, <4>1, <4>2 DEF Refused, TooDeep
    <3>6. CASE ~(W >= MAX_VALUE_DEPTH)
      <4> DEFINE h == [g EXCEPT ![Len(g)].val = i]
      <4>1. y = [rc |-> "ok", esc |-> FALSE, sep |-> FALSE, at |-> FALSE,
                 cuts |-> st.cuts, segs |-> h]
        BY <1>1, <1>9, <3>2, <3>3, <3>6 DEF NewVal, Plainly, W, g
      <4>2. Len(h) # 0 /\ SegsAt(h, K, V, i)
        <5>1. i \in Val /\ g \in Seq([key : Key, val : Val])
          BY <1>1, <1>3 DEF Val, Seg
        <5>2. SegsAt(h, K, V, i)
          BY <1>2, <1>7, <3>1, <3>3, <5>1, SegsValue DEF W
        <5>3. Len(h) = Ordinal(K, i) /\ Ordinal(K, i) = Ordinal(K, i - 1)
          BY <1>2, <3>1, <5>2 DEF SegsAt, Placed, Numbered
        <5>. QED
          BY <1>10, <3>3, <5>2, <5>3
      <4>3. C
        <5>1. \A j \in K : Ordinal(K, j) = MAX_VALUE_DEPTH => i \notin ValuesOf(K, V, j)
          BY <1>9, <1>10, <3>4, <3>6
        <5>. QED
          BY <1>7, <2>1, <5>1, CleanStays DEF C
      <4> HIDE DEF h
      <4>. QED
        BY <2>3, <4>1, <4>2, <4>3
    <3>. QED
      BY <3>5, <3>6
  <2>6. CASE st.sep # TRUE /\ st.at # TRUE
    <3>1. i \notin K /\ i \notin V
      BY <1>3, <1>6, <2>6
    <3>2. y = Plainly(st)
      BY <1>1, <2>2, <2>6
    <3>3. y = [rc |-> "ok", esc |-> FALSE, sep |-> FALSE, at |-> FALSE,
               cuts |-> st.cuts, segs |-> g]
      BY <1>1, <3>2 DEF Plainly, g
    <3>4. W # 0
      BY <1>7, <2>1, <2>6
    <3>5. C /\ SegsAt(g, K, V, i)
      BY <1>13, <1>14, <2>1, <3>1
    <3>. QED
      BY <2>3, <3>3, <3>4, <3>5 DEF W
  <2>. QED
    BY <2>4, <2>5, <2>6
<1>. QED
  BY <1>15, <1>16, <1>17, <1>18

\* The state behind the last character.
LEMMA PathEnds ==
    ASSUME NEW tok, NEW s, NEW n, NEW D, NEW L, NEW K, NEW V, Marks(tok, s, n, D, L, K, V),
           NEW r, FoldsPath(tok, s, r)
    PROVE  /\ r \in PathStates(n)
           /\ ParsedUpTo(r, s, D, L, K, V, n) \/ Refused(r, s, D, L, K, V)
<1>1. n \in Nat /\ n = Len(s) /\ D \subseteq 1..n /\ K \subseteq 1..n /\ V \subseteq 1..n
  BY DEF Marks
<1>2. PICK f : PathRun(f, tok, s, r)
  BY <1>1, PathRuns
<1>3. /\ f \in [0..n -> PathStates(n)] /\ f[0] = PathStart /\ f[n] = r
      /\ \A k \in 1..n : f[k] = PathChar(tok, s, f[k - 1], k)
  BY <1>1, <1>2 DEF PathRun
<1> DEFINE Good == {k \in 0..n : \/ ParsedUpTo(f[k], s, D, L, K, V, k)
                                 \/ Refused(f[k], s, D, L, K, V)}
<1>4. ParsedUpTo(PathStart, s, D, L, K, V, 0)
  <2>1. RunBefore(D, L, 0 + 1) = {} /\ {j \in D : j <= 0} = {}
    <3>1. \A j \in D : ~(j < 0 + 1) /\ ~(j <= 0)
      BY <1>1
    <3>. QED
      BY <3>1 DEF RunBefore
  <2>2. FlagsAt(PathStart, s, D, L, 0)
    BY <2>1 DEF FlagsAt, PathStart
  <2>3. Len(<<>>) = 0 /\ MAX_VALUE_DEPTH \in Nat \ {0}
    BY PathAssumption
  <2>4. Ordinal(K, 0) = 0
    BY MarksPlaced DEF Placed, Numbered
  <2>5. SegsAt(PathStart.segs, K, V, 0)
    BY <2>3, <2>4 DEF SegsAt, PathStart
  <2>6. CleanUpTo(s, D, L, K, V, 0)
    <3>1. (\A k \in D : ~(k <= 0)) /\ \A v \in V : ~(v <= 0)
      BY <1>1
    <3>. QED
      BY <3>1 DEF CleanUpTo, ValuesOf
  <2>. QED
    BY <2>2, <2>5, <2>6 DEF ParsedUpTo, PathStart
<1>5. 0 \in Good
  BY <1>1, <1>3, <1>4
<1>6. ASSUME NEW k \in 0..(n - 1), k \in Good PROVE k + 1 \in Good
  <2> DEFINE i == k + 1
  <2>1. i \in 1..n /\ i - 1 = k /\ i \in 0..n /\ k \in 0..n
    BY <1>1
  <2>2. f[k] \in PathStates(n) /\ f[i] = PathChar(tok, s, f[k], i)
    BY <1>3, <2>1
  <2>3. CASE Refused(f[k], s, D, L, K, V)
    <3>1. f[i] = f[k]
      BY <2>2, <2>3 DEF PathChar, Refused
    <3> HIDE DEF i
    <3>. QED
      BY <2>1, <2>3, <3>1 DEF i
  <2>4. CASE ParsedUpTo(f[k], s, D, L, K, V, k)
    <3> HIDE DEF i
    <3>1. ParsedUpTo(f[k], s, D, L, K, V, i - 1)
      BY <2>1, <2>4
    <3>2. ParsedUpTo(f[i], s, D, L, K, V, i) \/ Refused(f[i], s, D, L, K, V)
      BY <2>1, <2>2, <3>1, PathStep
    <3>. QED
      BY <2>1, <3>2 DEF i
  <2>. QED
    BY <1>6, <2>3, <2>4
<1>7. n \in Good
  <2> HIDE DEF Good
  <2>1. \A k \in 0..n : k \in Good
    BY <1>1, <1>5, <1>6, Induction
  <2>. QED
    BY <1>1, <2>1
<1>. QED
  BY <1>1, <1>3, <1>7

\* The segment of a key.
LEMMA SegOfKey ==
    ASSUME NEW n, NEW K, NEW V, Placed(K, V, n), NEW g, SegsAt(g, K, V, n), NEW k \in K
    PROVE  /\ Ordinal(K, k) \in 1..Len(g) /\ g[Ordinal(K, k)].key = k
           /\ LastUpTo(g[Ordinal(K, k)].val, ValuesOf(K, V, k), n)
<1> DEFINE x == Ordinal(K, k)
<1>1. n \in Nat /\ K \subseteq 1..n /\ k \in 1..n /\ k \in 0..n /\ n \in 0..n /\ k <= n /\ k - 1 \in 0..n
  BY DEF Placed
<1>2. x \in Nat /\ x <= Ordinal(K, n) /\ Ordinal(K, n) \in Nat /\ x = Ordinal(K, k - 1) + 1
      /\ Ordinal(K, k - 1) \in Nat
  BY <1>1 DEF Placed, Numbered
<1>3. x \in 1..Len(g)
  BY <1>2 DEF SegsAt
<1> HIDE DEF x
<1>4. SegAt(g[x], x, K, V, n)
  BY <1>3 DEF SegsAt
<1> DEFINE j == g[x].key
<1>5. j \in K /\ Ordinal(K, j) = x
  BY <1>4 DEF SegAt
<1>6. j = k
  <2>1. \A p \in K, q \in K : p < q => Ordinal(K, p) < Ordinal(K, q)
    BY DEF Placed, Numbered
  <2>2. j \in Nat /\ k \in Nat /\ Ordinal(K, k) = x
    BY <1>1, <1>5 DEF x
  <2> HIDE DEF j
  <2>3. ~(j < k) /\ ~(k < j)
    <3>1. ~(x < x)
      BY <1>2 DEF x
    <3>. QED
      BY <1>5, <2>1, <2>2, <3>1
  <2>. QED
    BY <2>2, <2>3
<1>7. LastUpTo(g[x].val, ValuesOf(K, V, k), n)
  BY <1>4, <1>6 DEF SegAt
<1>. QED
  BY <1>3, <1>6, <1>7 DEF x

\* The C strings of its key and of its value.
LEMMA StringsOfKey ==
    ASSUME NEW n, NEW K, NEW V, Placed(K, V, n), NEW k \in K, NEW v,
           LastUpTo(v, ValuesOf(K, V, k), n), NEW s, NEW D
    PROVE  CString(s, D, k) = TextAt(s, D, k) /\ CString(s, D, v) = FilterOf(s, D, K, V, k)
<1> DEFINE S == ValuesOf(K, V, k)
<1>1. n \in Nat /\ S \in SUBSET (1..n) /\ k \in 1..n
  BY DEF Placed, ValuesOf
<1>2. CString(s, D, k) = TextAt(s, D, k)
  <2>1. k # 0
    BY <1>1
  <2>. QED
    BY <2>1, Zenon DEF CString, TextAt
<1>3. LastUpTo(v, S, n)
  OBVIOUS
<1> HIDE DEF S
<1>4. CASE S = {}
  <2>1. v = 0
    BY <1>3, <1>4 DEF LastUpTo
  <2>. QED
    BY <1>2, <1>4, <2>1 DEF CString, FilterOf, S
<1>5. CASE S # {}
  <2>1. \A j \in S : j \in Nat /\ j <= n /\ j # 0
    BY <1>1
  <2>2. v \in S /\ \A j \in S : j <= v
    BY <1>3, <1>5, <2>1 DEF LastUpTo
  <2>3. Max(S) \in S /\ \A j \in S : j <= Max(S)
    BY <1>1, <1>5, MaxOfPositions
  <2>4. Max(S) = v /\ v # 0
    BY <2>1, <2>2, <2>3
  <2>. QED
    BY <1>2, <1>5, <2>4 DEF CString, FilterOf, TextAt, S
<1>. QED
  BY <1>4, <1>5

\* What the parser gives back for a path whose text is well-formed, up to the
\* parts that do not compile.
LEMMA PathResult ==
    ASSUME NEW tok, NEW s, NEW n, NEW D, NEW L, NEW K, NEW V, Marks(tok, s, n, D, L, K, V),
           NEW st \in PathStates(n), ParsedUpTo(st, s, D, L, K, V, n), NEW r, r = Parsed(s, st)
    PROVE  /\ ~Dangling(s, D, L) /\ ~TooDeep(K, V)
           /\ IF \E k \in K : ~Compiles(TextAt(s, D, k)) \/ ~Compiles(FilterOf(s, D, K, V, k))
                THEN r.rc # "ok"
                ELSE /\ r.rc = "ok" /\ Len(r.segs) = Cardinality(K)
                     /\ \A k \in K : r.segs[Ordinal(K, k)] =
                           [key |-> TextAt(s, D, k), val |-> FilterOf(s, D, K, V, k)]
<1> DEFINE g == st.segs
           w == Len(g)
           q == [i \in DOMAIN g |-> [key |-> CString(s, D, g[i].key), val |-> CString(s, D, g[i].val)]]
           Fine(k) == Compiles(TextAt(s, D, k)) /\ Compiles(FilterOf(s, D, K, V, k))
<1>1. n \in Nat /\ D \subseteq 1..n /\ V \subseteq 1..n
  BY DEF Marks
<1>2. Placed(K, V, n)
  BY MarksPlaced
<1>3. SegsAt(g, K, V, n) /\ CleanUpTo(s, D, L, K, V, n) /\ st.cuts = {j \in D : j <= n} /\ st.rc = "ok"
  BY DEF ParsedUpTo, FlagsAt
<1>4. st.cuts = D
  <2>1. \A j \in D : j <= n
    BY <1>1
  <2>2. {j \in D : j <= n} = D
    BY <2>1
  <2>. QED
    BY <1>3, <2>2
<1>5. DOMAIN g = 1..w /\ w \in Nat
  <2>1. g \in Seq([key : 1..n, val : 0..n])
    BY DEF PathStates
  <2>. QED
    BY <2>1, LenProperties
<1>6. w = Cardinality(K) /\ w <= MAX_VALUE_DEPTH
  BY <1>2, <1>3 DEF SegsAt, Placed, Numbered
<1>7. ~Dangling(s, D, L)
  <2>1. \A k \in D : k <= n
    BY <1>1
  <2>. QED
    BY <1>3, <2>1 DEF Dangling, CleanUpTo
<1>8. ~TooDeep(K, V)
  <2>1. ~(Cardinality(K) > MAX_VALUE_DEPTH)
    BY <1>5, <1>6, PathAssumption
  <2>2. ASSUME NEW k \in K, Ordinal(K, k) = MAX_VALUE_DEPTH, NEW v \in ValuesOf(K, V, k) PROVE FALSE
    <3>1. v <= n
      BY <1>1 DEF ValuesOf
    <3>. QED
      BY <1>3, <2>2, <3>1 DEF CleanUpTo
  <2>. QED
    BY <2>1, <2>2 DEF TooDeep
<1>9. r = Compiled([rc |-> "ok", segs |-> q])
  BY <1>3, <1>4 DEF Parsed
<1> HIDE DEF w, g
<1>10. DOMAIN q = 1..w /\ \A i \in 1..w :
          q[i] = [key |-> CString(s, D, g[i].key), val |-> CString(s, D, g[i].val)]
  BY <1>5
<1>11. Len(q) = w
  <2> DEFINE T == {[key |-> CString(s, D, g[i].key), val |-> CString(s, D, g[i].val)] : i \in 1..w}
  <2>1. q \in [1..w -> T]
    BY <1>5
  <2> HIDE DEF q, T
  <2>2. q \in Seq(T)
    BY <1>5, <2>1, SeqDef
  <2>. QED
    BY <1>5, <1>10, <2>2, LenProperties
<1> HIDE DEF q
<1>12. ASSUME NEW k \in K
       PROVE  /\ Ordinal(K, k) \in 1..w
              /\ q[Ordinal(K, k)] = [key |-> TextAt(s, D, k), val |-> FilterOf(s, D, K, V, k)]
  <2> DEFINE x == Ordinal(K, k)
  <2>1. x \in 1..w /\ g[x].key = k /\ LastUpTo(g[x].val, ValuesOf(K, V, k), n)
    BY <1>2, <1>3, SegOfKey DEF w
  <2> HIDE DEF x
  <2>2. CString(s, D, k) = TextAt(s, D, k) /\ CString(s, D, g[x].val) = FilterOf(s, D, K, V, k)
    BY <1>2, <2>1, StringsOfKey
  <2>. QED
    BY <1>10, <2>1, <2>2 DEF x
<1>13. ASSUME NEW i \in 1..w PROVE \E k \in K : Ordinal(K, k) = i
  <2>1. SegAt(g[i], i, K, V, n)
    BY <1>3 DEF SegsAt, w
  <2>. QED
    BY <2>1 DEF SegAt
<1>14. (\A i \in 1..w : Compiles(q[i].key) /\ Compiles(q[i].val)) <=> \A k \in K : Fine(k)
  <2>1. \A k \in K : q[Ordinal(K, k)].key = TextAt(s, D, k) /\ q[Ordinal(K, k)].val = FilterOf(s, D, K, V, k)
    <3>1. ASSUME NEW k \in K
          PROVE  q[Ordinal(K, k)].key = TextAt(s, D, k) /\ q[Ordinal(K, k)].val = FilterOf(s, D, K, V, k)
      <4> DEFINE z == q[Ordinal(K, k)]
      <4>1. z = [key |-> TextAt(s, D, k), val |-> FilterOf(s, D, K, V, k)]
        BY <1>12
      <4> HIDE DEF z
      <4>. QED
        BY <4>1 DEF z
    <3>. QED
      BY <3>1
  <2>2. ASSUME \A i \in 1..w : Compiles(q[i].key) /\ Compiles(q[i].val), NEW k \in K PROVE Fine(k)
    BY <1>12, <2>1, <2>2
  <2>3. ASSUME \A k \in K : Fine(k), NEW i \in 1..w PROVE Compiles(q[i].key) /\ Compiles(q[i].val)
    BY <1>13, <2>1, <2>3
  <2>. QED
    BY <2>2, <2>3
<1>15. CASE \A k \in K : Fine(k)
  <2>1. r = [rc |-> "ok", segs |-> q]
    BY <1>9, <1>10, <1>14, <1>15 DEF Compiled
  <2>2. r.rc = "ok" /\ r.segs = q
    BY <2>1
  <2>. QED
    BY <1>6, <1>7, <1>8, <1>11, <1>12, <1>15, <2>2
<1>16. CASE ~ \A k \in K : Fine(k)
  <2>1. r = [rc |-> "EBADMSG", segs |-> <<>>]
    BY <1>9, <1>10, <1>14, <1>16 DEF Compiled
  <2>2. r.rc = "EBADMSG"
    BY <2>1
  <2>. QED
    BY <1>7, <1>8, <1>16, <2>2
<1>. QED
  BY <1>15, <1>16

\* What ctlic_parse_token_value_GET() returns for a text.
Means(tok, s, r) ==
    LET D == Delims(tok, s)
        L == Letters(s, D)
        K == KeyStarts(s, D, L)
        V == Starts(D, L) \ K
    IN  IF s = <<>> \/ s[1] # "/" \/ Malformed(s, D, L, K, V)
          THEN r.rc # "ok"
          ELSE /\ r.rc = "ok" /\ Len(r.segs) = Cardinality(K)
               /\ \A k \in K : r.segs[Ordinal(K, k)] =
                     [key |-> TextAt(s, D, k), val |-> FilterOf(s, D, K, V, k)]

LEMMA PathMeans ==
    ASSUME NEW tok, NEW s \in Seq(STRING), NEW r, r = parse_token_value_GET(tok, s)
    PROVE  Means(tok, s, r)
<1> DEFINE D == Delims(tok, s)
           L == Letters(s, D)
           K == KeyStarts(s, D, L)
           V == Starts(D, L) \ K
           n == Len(s)
           st == FoldLeft(LAMBDA st, i : PathChar(tok, s, st, i), PathStart, [i \in 1..Len(s) |-> i])
<1>1. CASE s = <<>> \/ s[1] # "/"
  <2>1. r = [rc |-> "EINVAL", segs |-> <<>>]
    BY <1>1 DEF parse_token_value_GET
  <2>2. r.rc = "EINVAL"
    BY <2>1
  <2>. QED
    BY <1>1, <2>2 DEF Means
<1>2. CASE s # <<>> /\ s[1] = "/"
  <2>1. r = Parsed(s, st)
    BY <1>2, Zenon DEF parse_token_value_GET
  <2>2. FoldsPath(tok, s, st)
    BY Zenon DEF FoldsPath
  <2> HIDE DEF D, st
  <2>3. Marks(tok, s, n, D, L, K, V)
    BY <1>2, PathMarks DEF D
  <2> HIDE DEF L, K, V, n
  <2>4. st \in PathStates(n) /\ (ParsedUpTo(st, s, D, L, K, V, n) \/ Refused(st, s, D, L, K, V))
    BY <2>2, <2>3, PathEnds
  <2>5. CASE Refused(st, s, D, L, K, V)
    <3>1. st.rc # "ok" /\ Malformed(s, D, L, K, V)
      BY <2>5 DEF Refused, Malformed
    <3>2. r = Compiled([rc |-> st.rc, segs |-> <<>>])
      BY <2>1, <3>1 DEF Parsed
    <3>3. r.rc # "ok"
      BY <3>1, <3>2 DEF Compiled
    <3>. QED
      BY <1>2, <3>1, <3>3 DEF Means, D, L, K, V
  <2>6. CASE ParsedUpTo(st, s, D, L, K, V, n)
    <3>1. /\ ~Dangling(s, D, L) /\ ~TooDeep(K, V)
          /\ IF \E k \in K : ~Compiles(TextAt(s, D, k)) \/ ~Compiles(FilterOf(s, D, K, V, k))
               THEN r.rc # "ok"
               ELSE /\ r.rc = "ok" /\ Len(r.segs) = Cardinality(K)
                    /\ \A k \in K : r.segs[Ordinal(K, k)] =
                          [key |-> TextAt(s, D, k), val |-> FilterOf(s, D, K, V, k)]
      BY <2>1, <2>3, <2>4, <2>6, PathResult
    <3>2. IF Malformed(s, D, L, K, V)
            THEN r.rc # "ok"
            ELSE /\ r.rc = "ok" /\ Len(r.segs) = Cardinality(K)
                 /\ \A k \in K : r.segs[Ordinal(K, k)] =
                       [key |-> TextAt(s, D, k), val |-> FilterOf(s, D, K, V, k)]
      BY <3>1 DEF Malformed
    <3>. QED
      BY <1>2, <3>2 DEF Means, D, L, K, V
  <2>. QED
    BY <2>4, <2>5, <2>6
<1>. QED
  BY <1>1, <1>2

\* What is parsed is what the parser returns.
PathInv ==
    /\ path \in PathTexts
    /\ parsed = <<>> \/ parsed = <<parse_token_value(path.tok, path.text)>>

LEMMA PathInvSays == ASSUME PathInv PROVE PathParsed
<1>1. CASE parsed = <<>> \/ path.tok = "APPLY"
  BY <1>1 DEF PathParsed
<1>2. CASE parsed # <<>> /\ path.tok # "APPLY"
  <2> DEFINE r == parsed[1]
  <2>1. r = parse_token_value_GET(path.tok, path.text)
    BY <1>2 DEF PathInv, parse_token_value
  <2>2. path.text \in Seq(STRING)
    BY PathAssumption DEF PathInv
  <2> HIDE DEF r
  <2>3. Means(path.tok, path.text, r)
    BY <2>1, <2>2, PathMeans
  <2>. QED
    BY <2>3, Zenon DEF Means, PathParsed, r
<1>. QED
  BY <1>1, <1>2

\* ctlic_parse_token_value_GET(): for a text of any length, the in-place cuts
\* give every segment the key and the value that the path means, and exactly the
\* paths that are malformed are refused.
THEOREM PathCorrect == PathSpec => []PathParsed
<1>1. PathInit => PathInv
  BY DEF PathInit, PathInv
<1>2. PathInv /\ [ParseValue]_pathVars => PathInv'
  BY DEF PathInv, ParseValue, pathVars
<1>3. PathInv => PathParsed
  BY PathInvSays
<1>. QED
  BY <1>1, <1>2, <1>3, PTL DEF PathSpec

-------------------------------------------------------------------------------
(***************************************************************************)
(* The configuration service, which keeps its nodes in such a tree: for    *)
(* any directories, UUIDs and users, the memory of a STORE has one owner   *)
(* and a node is in the tree while somebody may use it.                    *)
(***************************************************************************)
SvcTokens == [id : STRING, val : Nat, len : Nat]
Hosts == [1..HOST_NAME_MAX -> Nat]
SvcNodes ==
    [type : {"niosd", "peer", "raft", "raft_client"}, uuid : Nat, host : Hosts, ip : Nat,
     port : Nat, client_port : Nat, store : Nat, raft : Nat, peers : Seq(Nat),
     send : BOOLEAN, recv : BOOLEAN, from : Nat, ref : Nat]
StoreStates == {"stack", "tree", "freed", "leaked"}

SvcTypes ==
    /\ svcDir \in Seq(ConfFiles)
    /\ DOMAIN svcTree \subseteq SvcUuids /\ svcTree \in [DOMAIN svcTree -> SvcNodes]
    /\ svcStores \in Seq(StoreStates) /\ svcHeld \in [SvcUuids -> Nat]
    /\ svcFile.st \in {"file", "tokens", "end"}
    /\ AtFile("file") => svcFile.i \in Nat \ {0}
    /\ AtFile("tokens") =>
         /\ svcFile \in [st : {"tokens"}, i : Nat \ {0}, left : Seq(SvcTokens), csn : SvcNodes]
         /\ svcFile.csn.uuid \in SvcUuids

\* Each pointer to a STORE is the only one and agrees with what became of it; a
\* node that has one is of a kind whose members are released.
Stored(csn, state) ==
    csn.store # NoStore =>
       csn.store \in 1..Len(svcStores) /\ svcStores[csn.store] = state /\ is_peer(csn)
InTree(s) == \E u \in DOMAIN svcTree : svcTree[u].store = s
StoreOwners ==
    /\ \A u \in DOMAIN svcTree : Stored(svcTree[u], "tree")
    /\ AtFile("tokens") => Stored(svcFile.csn, "stack")
    /\ \A s \in 1..Len(svcStores) :
         /\ svcStores[s] = "tree" => InTree(s)
         /\ svcStores[s] = "stack" => AtFile("tokens") /\ svcFile.csn.store = s
    /\ \A u, v \in DOMAIN svcTree :
         svcTree[u].store = svcTree[v].store /\ svcTree[u].store # NoStore => u = v

\* The tree's own reference and those of the users.
NodeRefs ==
    /\ \A u \in DOMAIN svcTree : svcTree[u].ref > 0
    /\ SvcUp => \A u \in SvcUuids :
         IF u \in DOMAIN svcTree THEN svcTree[u].ref = 1 + svcHeld[u] ELSE svcHeld[u] = 0

SvcInv == SvcTypes /\ StoreOwners /\ NodeRefs

\* A node without a word said of it.
LEMMA BlankIsNode == BlankNode \in SvcNodes /\ BlankNode.store = NoStore /\ BlankNode.from = 0
<1>1. [i \in 1..HOST_NAME_MAX |-> NoVal] \in Hosts /\ <<>> \in Seq(Nat)
  BY DEF Hosts, NoVal
<1>. QED
  BY <1>1 DEF BlankNode, SvcNodes, NoVal, NoStore

\* A name that is copied, and what is left of the one before.
LEMMA CopyTypes ==
    ASSUME NEW h \in Hosts, NEW t \in SvcTokens
    PROVE  strncpy(h, t) \in Hosts
<1>1. t.val \in Nat
  BY DEF SvcTokens
<1>. QED
  BY <1>1 DEF strncpy, Hosts

LEMMA SmallestUuid ==
    ASSUME NEW S \in SUBSET Nat, S # {}
    PROVE  (CHOOSE u \in S : \A v \in S : u <= v) \in S
<1>1. PICK u \in S : \A v \in S : u <= v
  BY SmallestMember
<1>. QED
  BY <1>1

\* Where a node of the tree changes only what is not about its store.
SameStores(T) ==
    \A u \in T : svcTree'[u].store = svcTree[u].store /\ svcTree'[u].type = svcTree[u].type

\* A node gets another count.
LEMMA RefChanges ==
    ASSUME SvcTypes, NEW u \in DOMAIN svcTree, NEW n \in Nat \ {0}, Ref(u, n)
    PROVE  /\ DOMAIN svcTree' = DOMAIN svcTree /\ svcTree' \in [DOMAIN svcTree -> SvcNodes]
           /\ SameStores(DOMAIN svcTree)
           /\ \A v \in DOMAIN svcTree : svcTree'[v].ref = IF v = u THEN n ELSE svcTree[v].ref
<1>1. svcTree' = [svcTree EXCEPT ![u] = [svcTree[u] EXCEPT !.ref = n]]
  BY DEF Ref
<1>2. svcTree[u] \in SvcNodes /\ svcTree \in [DOMAIN svcTree -> SvcNodes]
  BY DEF SvcTypes
<1>3. ASSUME NEW x \in SvcNodes, NEW y, y = [x EXCEPT !.ref = n]
      PROVE  y \in SvcNodes /\ y.store = x.store /\ y.type = x.type /\ y.ref = n
  BY <1>3 DEF SvcNodes
<1>. QED
  BY <1>1, <1>2, <1>3 DEF SameStores

\* A step that takes no node out, puts none with a store in, and leaves the
\* stores and the file alone keeps the owners.
LEMMA OwnersKept ==
    ASSUME SvcTypes, StoreOwners, DOMAIN svcTree \subseteq DOMAIN svcTree',
           SameStores(DOMAIN svcTree),
           \A u \in DOMAIN svcTree' : u \notin DOMAIN svcTree => svcTree'[u].store = NoStore,
           UNCHANGED svcStores,
           svcFile' = svcFile \/ (~AtFile("tokens") /\ ~AtFile("tokens")')
             \/ (~AtFile("tokens") /\ svcFile'.csn.store = NoStore)
    PROVE  StoreOwners'
<1>1. \A u \in DOMAIN svcTree' : Stored(svcTree[u], "tree")' 
  BY DEF StoreOwners, Stored, SameStores, is_peer
<1>2. AtFile("tokens")' => Stored(svcFile.csn, "stack")'
  BY DEF StoreOwners, Stored, AtFile, is_peer
<1>3. \A s \in 1..Len(svcStores') :
         /\ svcStores'[s] = "tree" => InTree(s)'
         /\ svcStores'[s] = "stack" => AtFile("tokens")' /\ svcFile'.csn.store = s
  BY DEF StoreOwners, InTree, SameStores, AtFile
<1>4. \A u, v \in DOMAIN svcTree' :
         svcTree'[u].store = svcTree'[v].store /\ svcTree'[u].store # NoStore => u = v
  BY DEF StoreOwners, SameStores
<1>. QED
  BY <1>1, <1>2, <1>3, <1>4 DEF StoreOwners

\* The name of a file gives a node without a store.
LEMMA NameKeeps == ASSUME SvcInv, parse_input_file_name PROVE SvcInv'
<1>1. /\ AtFile("file") /\ svcFile.i \in 1..Len(svcDir) /\ svcDir \in Seq(ConfFiles)
      /\ UNCHANGED <<svcDir, svcTree, svcStores, svcHeld, svcScans>>
  BY DEF SvcInv, SvcTypes, parse_input_file_name
<1> DEFINE f == svcDir[svcFile.i]
           type == detect_node_type(f.suffix)
           csn == [BlankNode EXCEPT !.type = type, !.uuid = f.uuid, !.from = svcFile.i]
<1>2. f \in ConfFiles /\ f.uuid \in Nat /\ f.uuid \in SvcUuids /\ f.tokens \in Seq(SvcTokens)
  <2>1. f \in ConfFiles
    BY <1>1, ElementOfSeq
  <2> HIDE DEF f
  <2>. QED
    BY <2>1, CtlSvcAssumption DEF ConfFiles, SvcTokens
<1>3. \/ svcFile' = [st |-> "file", i |-> svcFile.i + 1]
      \/ type # "any" /\ svcFile' = [st |-> "tokens", i |-> svcFile.i, left |-> f.tokens, csn |-> csn]
  BY DEF parse_input_file_name, NextFile
<1>4. type # "any" => type \in {"niosd", "peer", "raft", "raft_client"}
  <2> DEFINE fits == {j \in DOMAIN NodeTypes : StartsWith(f.suffix, NodeTypes[j])}
  <2>1. fits \subseteq 1..4 /\ fits \subseteq Nat
    BY DEF NodeTypes
  <2>2. fits # {} => (CHOOSE j \in fits : \A k \in fits : j <= k) \in fits
    BY <2>1, SmallestUuid
  <2> HIDE DEF fits
  <2>3. \A j \in 1..4 : NodeTypes[j] \in {"niosd", "peer", "raft", "raft_client"}
    BY DEF NodeTypes
  <2>. QED
    BY <2>1, <2>2, <2>3 DEF detect_node_type, fits
<1>5. ASSUME type # "any" PROVE csn \in SvcNodes /\ csn.store = NoStore /\ csn.uuid = f.uuid
  <2>1. svcFile.i \in Nat
    BY <1>1
  <2> HIDE DEF f, type
  <2>. QED
    BY <1>2, <1>4, <1>5, <2>1, BlankIsNode DEF SvcNodes
<1> HIDE DEF f, type, csn
<1>6. SvcTypes'
  BY <1>1, <1>2, <1>3, <1>5 DEF SvcInv, SvcTypes, AtFile
<1>7. StoreOwners'
  BY <1>1, <1>3, <1>5, OwnersKept DEF SvcInv, SameStores, AtFile
<1>8. NodeRefs'
  BY <1>1, <1>3 DEF SvcInv, NodeRefs, SvcUp, AtFile
<1>. QED
  BY <1>6, <1>7, <1>8 DEF SvcInv

\* What an accepted token leaves of a node.
LEMMA TokenTypes ==
    ASSUME NEW c \in SvcNodes, NEW t \in SvcTokens, NEW s \in Nat
    PROVE  LET d == TokenApplied(c, t, s) IN
           /\ d \in SvcNodes /\ d.uuid = c.uuid /\ d.type = c.type /\ d.from = c.from
           /\ d.store = IF t.id = "STORE" THEN s ELSE c.store
<1>1. t.val \in Nat /\ c.peers \in Seq(Nat) /\ Append(c.peers, t.val) \in Seq(Nat)
  BY DEF SvcNodes, SvcTokens
<1>2. strncpy(c.host, t) \in Hosts
  BY CopyTypes DEF SvcNodes
<1>3. /\ c.port \in Nat /\ c.client_port \in Nat /\ c.host \in Hosts /\ c.ip \in Nat
      /\ c.raft \in Nat /\ c.store \in Nat
  BY DEF SvcNodes
<1> DEFINE p == IF t.id = "PORT" THEN t.val ELSE c.port
           cp == IF t.id = "CLIENT_PORT" THEN t.val ELSE c.client_port
           h == IF t.id = "HOSTNAME" THEN strncpy(c.host, t) ELSE c.host
           ip == IF t.id = "IPADDR" THEN t.val ELSE c.ip
           r == IF t.id = "RAFT" /\ ~is_raft(c) THEN t.val ELSE c.raft
           ps == IF t.id = "PEER" THEN Append(c.peers, t.val) ELSE c.peers
           st == IF t.id = "STORE" THEN s ELSE c.store
<1>4. /\ p \in Nat /\ cp \in Nat /\ h \in Hosts /\ ip \in Nat /\ r \in Nat
      /\ ps \in Seq(Nat) /\ st \in Nat
  BY <1>1, <1>2, <1>3
<1>5. TokenApplied(c, t, s) =
        [c EXCEPT !.port = p, !.client_port = cp, !.host = h, !.ip = ip, !.raft = r,
                  !.peers = ps, !.store = st]
  BY DEF TokenApplied
<1> HIDE DEF p, cp, h, ip, r, ps, st
<1> DEFINE d == TokenApplied(c, t, s)
<1>6. d = [c EXCEPT !.port = p, !.client_port = cp, !.host = h, !.ip = ip, !.raft = r,
                    !.peers = ps, !.store = st]
  BY <1>5
<1> HIDE DEF d
<1>7. /\ d \in SvcNodes /\ d.uuid = c.uuid /\ d.type = c.type /\ d.from = c.from
      /\ d.store = st
  BY <1>4, <1>6 DEF SvcNodes
<1>. QED
  BY <1>7 DEF d, st

\* Only a node that has no store takes one, and it is of a kind that frees it.
LEMMA StoreTaken ==
    ASSUME NEW c \in SvcNodes, NEW t \in SvcTokens, ~TokenRefused(c, t), t.id = "STORE"
    PROVE  c.store = NoStore /\ is_peer(c)
<1>1. c.store = NoStore
  BY DEF TokenRefused
<1>2. t.id \in NodeTypeTokens[c.type]
  BY DEF TokenRefused
<1>3. c.type \in {"niosd", "peer", "raft", "raft_client"}
  BY DEF SvcNodes
<1>. QED
  BY <1>1, <1>2, <1>3 DEF NodeTypeTokens, is_peer

\* A token is taken, or the file is refused and loses its store.
LEMMA TokenKeeps == ASSUME SvcInv, apply_token PROVE SvcInv'
<1> DEFINE t == Head(svcFile.left)
           c == svcFile.csn
           n == Len(svcStores)
<1>1. /\ AtFile("tokens") /\ svcFile.left \in Seq(SvcTokens) /\ svcFile.left # <<>>
      /\ svcFile \in [st : {"tokens"}, i : Nat \ {0}, left : Seq(SvcTokens), csn : SvcNodes]
      /\ c \in SvcNodes /\ c.uuid \in SvcUuids
      /\ UNCHANGED <<svcDir, svcTree, svcHeld, svcScans>>
  BY DEF SvcInv, SvcTypes, apply_token
<1>2. t \in SvcTokens /\ Tail(svcFile.left) \in Seq(SvcTokens)
  BY <1>1, HeadTailProperties
<1>3. n \in Nat /\ DOMAIN svcStores = 1..n /\ svcStores \in Seq(StoreStates)
      /\ \A s \in 1..n : svcStores[s] \in StoreStates
  BY LenProperties, ElementOfSeq DEF SvcInv, SvcTypes
<1>4. /\ \A u \in DOMAIN svcTree : Stored(svcTree[u], "tree")
      /\ Stored(c, "stack")
      /\ \A s \in 1..n : /\ svcStores[s] = "tree" => InTree(s)
                         /\ svcStores[s] = "stack" => c.store = s
      /\ \A u, v \in DOMAIN svcTree :
           svcTree[u].store = svcTree[v].store /\ svcTree[u].store # NoStore => u = v
  BY <1>1 DEF SvcInv, StoreOwners
<1>6. CASE TokenRefused(c, t)
  <2>1. svcStores' = Lose(svcStores, c.store) /\ svcFile' = [st |-> "file", i |-> svcFile.i + 1]
    BY <1>6 DEF apply_token, NextFile
  <2>2. svcFile.i + 1 \in Nat \ {0} /\ AtFile("file")' /\ ~AtFile("tokens")' /\ SvcUp'
    BY <1>1, <2>1 DEF AtFile, SvcUp
  <2>3. /\ svcStores' \in Seq(StoreStates) /\ Len(svcStores') = n
        /\ \A s \in 1..n : svcStores'[s] = IF s = c.store THEN "leaked" ELSE svcStores[s]
    <3>1. CASE c.store = NoStore
      BY <1>3, <1>4, <2>1, <3>1 DEF Lose, NoStore
    <3>2. CASE c.store # NoStore
      <4>1. svcStores' = [svcStores EXCEPT ![c.store] = "leaked"] /\ c.store \in 1..n
        BY <1>3, <1>4, <2>1, <3>2 DEF Lose, Stored
      <4> HIDE DEF c
      <4>. QED
        BY <1>3, <4>1 DEF StoreStates
    <3>. QED
      BY <3>1, <3>2
  <2>4. SvcTypes'
    BY <1>1, <2>1, <2>2, <2>3 DEF SvcInv, SvcTypes, AtFile
  <2>5. StoreOwners'
    <3>1. \A u \in DOMAIN svcTree : svcTree[u].store # NoStore => svcTree[u].store # c.store
      BY <1>4 DEF Stored
    <3>2. \A u \in DOMAIN svcTree' : Stored(svcTree[u], "tree")'
      BY <1>1, <1>4, <2>3, <3>1 DEF Stored
    <3>3. \A s \in 1..Len(svcStores') :
             svcStores'[s] # "stack" /\ (svcStores'[s] = "tree" => InTree(s)')
      BY <1>1, <1>4, <2>3 DEF InTree
    <3>. QED
      BY <1>1, <1>4, <2>2, <3>2, <3>3 DEF StoreOwners
  <2>6. NodeRefs'
    BY <1>1, <2>2 DEF SvcInv, NodeRefs, SvcUp, AtFile
  <2>. QED
    BY <2>4, <2>5, <2>6 DEF SvcInv
<1>7. CASE ~TokenRefused(c, t)
  <2> DEFINE d == TokenApplied(c, t, n + 1)
  <2>1. /\ svcStores' = IF t.id = "STORE" THEN Append(svcStores, "stack") ELSE svcStores
        /\ svcFile' = [svcFile EXCEPT !.left = Tail(svcFile.left), !.csn = d]
    BY <1>7 DEF apply_token
  <2>2. /\ d \in SvcNodes /\ d.uuid = c.uuid /\ d.type = c.type
        /\ d.store = IF t.id = "STORE" THEN n + 1 ELSE c.store
    <3>1. n + 1 \in Nat
      BY <1>3
    <3>2. ASSUME NEW k \in Nat
          PROVE  LET x == TokenApplied(c, t, k) IN
                 /\ x \in SvcNodes /\ x.uuid = c.uuid /\ x.type = c.type
                 /\ x.store = IF t.id = "STORE" THEN k ELSE c.store
      BY <1>1, <1>2, TokenTypes
    <3>. QED
      BY <3>1, <3>2
  <2>3. t.id = "STORE" => c.store = NoStore /\ is_peer(c)
    BY <1>1, <1>2, <1>7, StoreTaken
  <2> HIDE DEF d
  <2>4. /\ AtFile("tokens")' /\ SvcUp' /\ svcFile'.csn = d
        /\ svcFile' \in [st : {"tokens"}, i : Nat \ {0}, left : Seq(SvcTokens), csn : SvcNodes]
    BY <1>1, <1>2, <2>1, <2>2 DEF AtFile, SvcUp
  <2>5. CASE t.id # "STORE"
    <3>1. svcStores' = svcStores /\ d.store = c.store
      BY <2>1, <2>2, <2>5
    <3>2. SvcTypes'
      BY <1>1, <2>2, <2>4, <3>1 DEF SvcInv, SvcTypes, AtFile
    <3>3. StoreOwners'
      BY <1>1, <1>3, <1>4, <2>2, <2>4, <3>1 DEF StoreOwners, Stored, InTree, is_peer
    <3>4. NodeRefs'
      BY <1>1, <2>4 DEF SvcInv, NodeRefs, SvcUp, AtFile
    <3>. QED
      BY <3>2, <3>3, <3>4 DEF SvcInv
  <2>6. CASE t.id = "STORE"
    <3>1. svcStores' = Append(svcStores, "stack") /\ d.store = n + 1 /\ c.store = NoStore
      BY <2>1, <2>2, <2>3, <2>6
    <3>2. /\ svcStores' \in Seq(StoreStates) /\ Len(svcStores') = n + 1
          /\ svcStores'[n + 1] = "stack" /\ \A s \in 1..n : svcStores'[s] = svcStores[s]
      BY <1>3, <3>1 DEF StoreStates
    <3>3. SvcTypes'
      BY <1>1, <2>2, <2>4, <3>2 DEF SvcInv, SvcTypes, AtFile
    <3>4. \A s \in 1..(n + 1) : s = n + 1 \/ s \in 1..n
      BY <1>3
    <3>5. \A s \in 1..n : s \in 1..(n + 1) /\ s # n + 1 /\ svcStores[s] # "stack"
      BY <1>3, <1>4, <3>1 DEF NoStore
    <3>6. \A u \in DOMAIN svcTree' : Stored(svcTree[u], "tree")'
      BY <1>1, <1>4, <3>2, <3>5 DEF Stored
    <3>7. Stored(svcFile.csn, "stack")'
      BY <1>3, <2>2, <2>3, <2>4, <2>6, <3>1, <3>2 DEF Stored, is_peer
    <3>8. \A s \in 1..Len(svcStores') :
             /\ svcStores'[s] = "tree" => InTree(s)'
             /\ svcStores'[s] = "stack" => AtFile("tokens")' /\ svcFile'.csn.store = s
      BY <1>1, <1>4, <2>4, <3>1, <3>2, <3>4, <3>5 DEF InTree
    <3>9. StoreOwners'
      BY <1>1, <1>4, <3>6, <3>7, <3>8 DEF StoreOwners
    <3>10. NodeRefs'
      BY <1>1, <2>4 DEF SvcInv, NodeRefs, SvcUp, AtFile
    <3>. QED
      BY <3>3, <3>9, <3>10 DEF SvcInv
  <2>. QED
    BY <2>5, <2>6
<1>. QED
  BY <1>6, <1>7

\* A store that has an owner is freed, once.
LEMMA Frees ==
    ASSUME SvcTypes, NEW c, NEW state \in {"stack", "tree"}, Stored(c, state), c.store \in Nat
    PROVE  /\ FreeStore(svcStores, c) \in Seq(StoreStates)
           /\ Len(FreeStore(svcStores, c)) = Len(svcStores)
           /\ \A s \in 1..Len(svcStores) :
                FreeStore(svcStores, c)[s] = IF s = c.store THEN "freed" ELSE svcStores[s]
<1>1. /\ svcStores \in Seq(StoreStates) /\ Len(svcStores) \in Nat
      /\ DOMAIN svcStores = 1..Len(svcStores)
  BY LenProperties DEF SvcTypes
<1>2. CASE c.store = NoStore
  BY <1>1, <1>2 DEF FreeStore, NoStore
<1>3. CASE c.store # NoStore
  <2>1. FreeStore(svcStores, c) = [svcStores EXCEPT ![c.store] = "freed"]
    BY <1>3 DEF FreeStore, Stored
  <2>. QED
    BY <1>1, <1>3, <2>1 DEF Stored, StoreStates
<1>. QED
  BY <1>2, <1>3

\* A node's insertion settles who owns its store, whichever way the tree
\* answers.
LEMMA AddKeeps == ASSUME SvcInv, tree_add PROVE SvcInv'
<1> DEFINE c == svcFile.csn
           n == Len(svcStores)
<1>1. /\ AtFile("tokens") /\ svcFile.i \in Nat /\ c \in SvcNodes /\ c.uuid \in SvcUuids
      /\ svcFile' = [st |-> "file", i |-> svcFile.i + 1]
      /\ UNCHANGED <<svcDir, svcHeld, svcScans>>
  BY DEF SvcInv, SvcTypes, tree_add, NextFile
<1>2. /\ n \in Nat /\ DOMAIN svcStores = 1..n /\ svcStores \in Seq(StoreStates)
      /\ \A s \in 1..n : svcStores[s] \in StoreStates
  BY LenProperties, ElementOfSeq DEF SvcInv, SvcTypes
<1>3. /\ \A u \in DOMAIN svcTree : Stored(svcTree[u], "tree")
      /\ Stored(c, "stack") /\ c.store \in Nat
      /\ \A s \in 1..n : /\ svcStores[s] = "tree" => InTree(s)
                         /\ svcStores[s] = "stack" => c.store = s
      /\ \A u, v \in DOMAIN svcTree :
           svcTree[u].store = svcTree[v].store /\ svcTree[u].store # NoStore => u = v
  BY <1>1 DEF SvcInv, StoreOwners, SvcNodes
<1>4. /\ AtFile("file")' /\ ~AtFile("tokens")' /\ SvcUp' /\ SvcUp
      /\ svcFile'.st = "file" /\ svcFile'.i \in Nat \ {0}
  BY <1>1 DEF AtFile, SvcUp
<1>5. /\ DOMAIN svcTree \subseteq SvcUuids /\ svcTree \in [DOMAIN svcTree -> SvcNodes]
      /\ \A u \in DOMAIN svcTree : svcTree[u].ref > 0
      /\ \A u \in SvcUuids : IF u \in DOMAIN svcTree THEN svcTree[u].ref = 1 + svcHeld[u]
                                                     ELSE svcHeld[u] = 0
  BY <1>4 DEF SvcInv, SvcTypes, NodeRefs
<1> DEFINE Freed == /\ svcStores' \in Seq(StoreStates) /\ Len(svcStores') = n
                    /\ \A s \in 1..n : svcStores'[s] = IF s = c.store THEN "freed" ELSE svcStores[s]
           Empty == [BlankNode EXCEPT !.uuid = c.uuid]
<1>6. \/ /\ c.uuid \in DOMAIN svcTree /\ svcStores' = FreeStore(svcStores, c)
         /\ UNCHANGED svcTree
      \/ /\ c.uuid \notin DOMAIN svcTree /\ svcStores' = Own(svcStores, c)
         /\ svcTree' = Added(c)
      \/ /\ c.uuid \notin DOMAIN svcTree /\ svcStores' = FreeStore(svcStores, c)
         /\ svcTree' = Added(Empty)
  BY DEF tree_add, ReleasedByCaller
<1>7. svcStores' = FreeStore(svcStores, c) => Freed
  BY <1>3, Frees DEF SvcInv
<1>8. ASSUME NEW x \in SvcNodes, x.uuid = c.uuid, c.uuid \notin DOMAIN svcTree, svcTree' = Added(x)
      PROVE  /\ DOMAIN svcTree' = DOMAIN svcTree \cup {c.uuid} /\ DOMAIN svcTree' \subseteq SvcUuids
             /\ svcTree' \in [DOMAIN svcTree' -> SvcNodes]
             /\ svcTree'[c.uuid].store = x.store /\ svcTree'[c.uuid].type = x.type
             /\ \A u \in DOMAIN svcTree : svcTree'[u] = svcTree[u] /\ u # c.uuid
             /\ NodeRefs'
  <2> DEFINE y == [x EXCEPT !.ref = 1]
  <2>1. y \in SvcNodes /\ y.store = x.store /\ y.type = x.type /\ y.ref = 1
    BY DEF SvcNodes
  <2> HIDE DEF y
  <2>2. svcTree' = [u \in DOMAIN svcTree \cup {c.uuid} |-> IF u = c.uuid THEN y ELSE svcTree[u]]
    BY <1>8 DEF Added, y
  <2>3. /\ DOMAIN svcTree' = DOMAIN svcTree \cup {c.uuid} /\ svcTree'[c.uuid] = y
        /\ \A u \in DOMAIN svcTree : svcTree'[u] = svcTree[u] /\ u # c.uuid
    BY <1>8, <2>2
  <2>4. svcTree' \in [DOMAIN svcTree' -> SvcNodes]
    BY <1>5, <2>1, <2>2, <2>3
  <2>5. NodeRefs'
    <3>1. svcHeld[c.uuid] = 0
      BY <1>1, <1>5, <1>8
    <3>2. \A u \in DOMAIN svcTree' : svcTree'[u].ref > 0
      BY <1>5, <2>1, <2>3
    <3>3. \A u \in SvcUuids : IF u \in DOMAIN svcTree' THEN svcTree'[u].ref = 1 + svcHeld[u]
                                                       ELSE svcHeld[u] = 0
      BY <1>5, <2>1, <2>3, <3>1
    <3>. QED
      BY <1>1, <3>2, <3>3 DEF NodeRefs
  <2>. QED
    BY <1>1, <1>5, <2>1, <2>3, <2>4, <2>5
<1>9. CASE UNCHANGED svcTree /\ Freed
  <2>1. SvcTypes'
    BY <1>1, <1>4, <1>9 DEF SvcInv, SvcTypes, AtFile
  <2>2. StoreOwners'
    BY <1>2, <1>3, <1>4, <1>9 DEF StoreOwners, Stored, InTree
  <2>3. NodeRefs'
    BY <1>1, <1>4, <1>5, <1>9 DEF NodeRefs
  <2>. QED
    BY <2>1, <2>2, <2>3 DEF SvcInv
<1>10. CASE c.uuid \notin DOMAIN svcTree /\ svcStores' = Own(svcStores, c) /\ svcTree' = Added(c)
  <2>1. /\ svcStores' \in Seq(StoreStates) /\ Len(svcStores') = n
        /\ \A s \in 1..n : svcStores'[s] = IF s = c.store THEN "tree" ELSE svcStores[s]
    <3>1. CASE c.store = NoStore
      BY <1>2, <1>3, <1>10, <3>1 DEF Own, NoStore
    <3>2. CASE c.store # NoStore
      <4>1. svcStores' = [svcStores EXCEPT ![c.store] = "tree"] /\ c.store \in 1..n
        BY <1>2, <1>3, <1>10, <3>2 DEF Own, Stored
      <4> HIDE DEF c
      <4>. QED
        BY <1>2, <4>1 DEF StoreStates
    <3>. QED
      BY <3>1, <3>2
  <2>2. /\ DOMAIN svcTree' = DOMAIN svcTree \cup {c.uuid} /\ DOMAIN svcTree' \subseteq SvcUuids
        /\ svcTree' \in [DOMAIN svcTree' -> SvcNodes]
        /\ svcTree'[c.uuid].store = c.store /\ svcTree'[c.uuid].type = c.type
        /\ \A u \in DOMAIN svcTree : svcTree'[u] = svcTree[u] /\ u # c.uuid
        /\ NodeRefs'
    BY <1>1, <1>8, <1>10
  <2> HIDE DEF c, n
  <2>3. SvcTypes'
    BY <1>1, <1>4, <2>1, <2>2 DEF SvcInv, SvcTypes, AtFile
  <2>4. \A u \in DOMAIN svcTree : svcTree[u].store # NoStore => svcTree[u].store # c.store
    BY <1>3 DEF Stored
  <2>5. \A u \in DOMAIN svcTree' : Stored(svcTree[u], "tree")'
    <3>1. ASSUME NEW u \in DOMAIN svcTree PROVE Stored(svcTree[u], "tree")'
      BY <1>3, <2>1, <2>2, <2>4 DEF Stored, n
    <3>2. ASSUME NEW u, u = c.uuid PROVE Stored(svcTree[u], "tree")'
      BY <1>3, <2>1, <2>2, <3>2 DEF Stored, is_peer, n
    <3>. QED
      BY <2>2, <3>1, <3>2
  <2>6. \A s \in 1..Len(svcStores') : svcStores'[s] # "stack" /\ (svcStores'[s] = "tree" => InTree(s)')
    BY <1>3, <2>1, <2>2 DEF InTree
  <2>7. \A u, v \in DOMAIN svcTree' :
          svcTree'[u].store = svcTree'[v].store /\ svcTree'[u].store # NoStore => u = v
    BY <1>3, <2>2, <2>4
  <2>8. StoreOwners'
    BY <1>4, <2>5, <2>6, <2>7 DEF StoreOwners
  <2>. QED
    BY <2>2, <2>3, <2>8 DEF SvcInv
<1>11. CASE c.uuid \notin DOMAIN svcTree /\ Freed /\ svcTree' = Added(Empty)
  <2>1. Empty \in SvcNodes /\ Empty.uuid = c.uuid /\ Empty.store = NoStore
    BY <1>1, BlankIsNode DEF SvcNodes
  <2> HIDE DEF Empty
  <2>2. /\ DOMAIN svcTree' = DOMAIN svcTree \cup {c.uuid} /\ DOMAIN svcTree' \subseteq SvcUuids
        /\ svcTree' \in [DOMAIN svcTree' -> SvcNodes]
        /\ svcTree'[c.uuid].store = NoStore
        /\ \A u \in DOMAIN svcTree : svcTree'[u] = svcTree[u] /\ u # c.uuid
        /\ NodeRefs'
    BY <1>8, <1>11, <2>1
  <2>3. SvcTypes'
    BY <1>1, <1>4, <1>11, <2>2 DEF SvcInv, SvcTypes, AtFile
  <2>4. \A u \in DOMAIN svcTree' : Stored(svcTree[u], "tree")'
    BY <1>3, <1>11, <2>2 DEF Stored
  <2>5. \A s \in 1..Len(svcStores') : svcStores'[s] # "stack" /\ (svcStores'[s] = "tree" => InTree(s)')
    BY <1>3, <1>11, <2>2 DEF InTree
  <2>6. \A u, v \in DOMAIN svcTree' :
          svcTree'[u].store = svcTree'[v].store /\ svcTree'[u].store # NoStore => u = v
    BY <1>3, <2>2
  <2>7. StoreOwners'
    BY <1>4, <2>4, <2>5, <2>6 DEF StoreOwners
  <2>. QED
    BY <2>2, <2>3, <2>7 DEF SvcInv
<1>. QED
  BY <1>6, <1>7, <1>9, <1>10, <1>11

\* A reference is given back: the count falls, or the node goes with its store.
LEMMA PutKeeps ==
    ASSUME SvcInv, NEW u \in DOMAIN svcTree, Put(u), UNCHANGED <<svcDir, svcFile>>
    PROVE  /\ svcHeld' \in [SvcUuids -> Nat] => SvcTypes'
           /\ StoreOwners'
           /\ \A v \in DOMAIN svcTree' : v \in DOMAIN svcTree /\ svcTree'[v].ref > 0
           /\ svcTree[u].ref > 1 =>
                /\ DOMAIN svcTree' = DOMAIN svcTree
                /\ \A v \in DOMAIN svcTree :
                     svcTree'[v].ref = IF v = u THEN svcTree[u].ref - 1 ELSE svcTree[v].ref
<1>1. /\ svcTree \in [DOMAIN svcTree -> SvcNodes] /\ svcTree[u] \in SvcNodes
      /\ svcTree[u].ref \in Nat \ {0} /\ svcTree[u].store \in Nat
      /\ \A v \in DOMAIN svcTree : svcTree[v].ref > 0
  BY DEF SvcInv, SvcTypes, NodeRefs, SvcNodes
<1>2. CASE svcTree[u].ref > 1
  <2>1. Ref(u, svcTree[u].ref - 1) /\ svcStores' = svcStores
    BY <1>2 DEF Put
  <2>2. svcTree[u].ref - 1 \in Nat \ {0}
    BY <1>1, <1>2
  <2>3. /\ DOMAIN svcTree' = DOMAIN svcTree /\ svcTree' \in [DOMAIN svcTree -> SvcNodes]
        /\ SameStores(DOMAIN svcTree)
        /\ \A v \in DOMAIN svcTree :
             svcTree'[v].ref = IF v = u THEN svcTree[u].ref - 1 ELSE svcTree[v].ref
    BY <2>1, <2>2, RefChanges DEF SvcInv
  <2>4. StoreOwners'
    BY <2>1, <2>3, OwnersKept DEF SvcInv
  <2>5. svcHeld' \in [SvcUuids -> Nat] => SvcTypes'
    BY <2>1, <2>3 DEF SvcInv, SvcTypes, AtFile
  <2>. QED
    BY <1>1, <2>2, <2>3, <2>4, <2>5
<1>3. CASE ~(svcTree[u].ref > 1)
  <2>1. /\ svcTree' = [v \in DOMAIN svcTree \ {u} |-> svcTree[v]]
        /\ svcStores' = FreeStore(svcStores, svcTree[u])
    BY <1>3 DEF Put
  <2>2. Stored(svcTree[u], "tree")
    BY DEF SvcInv, StoreOwners
  <2>3. /\ svcStores' \in Seq(StoreStates) /\ Len(svcStores') = Len(svcStores)
        /\ \A s \in 1..Len(svcStores) :
             svcStores'[s] = IF s = svcTree[u].store THEN "freed" ELSE svcStores[s]
    BY <1>1, <2>1, <2>2, Frees DEF SvcInv
  <2>4. /\ DOMAIN svcTree' = DOMAIN svcTree \ {u} /\ svcTree' \in [DOMAIN svcTree' -> SvcNodes]
        /\ \A v \in DOMAIN svcTree' : svcTree'[v] = svcTree[v] /\ v \in DOMAIN svcTree /\ v # u
    BY <1>1, <2>1
  <2>5. svcHeld' \in [SvcUuids -> Nat] => SvcTypes'
    BY <2>3, <2>4 DEF SvcInv, SvcTypes, AtFile
  <2>6. \A v \in DOMAIN svcTree' : Stored(svcTree[v], "tree")'
    <3>1. \A v \in DOMAIN svcTree' : svcTree[v].store # NoStore => svcTree[v].store # svcTree[u].store
      BY <2>4 DEF SvcInv, StoreOwners
    <3>. QED
      BY <2>3, <2>4, <3>1 DEF SvcInv, StoreOwners, Stored
  <2>7. AtFile("tokens")' => Stored(svcFile.csn, "stack")'
    BY <2>2, <2>3 DEF SvcInv, StoreOwners, Stored, AtFile
  <2>8. \A s \in 1..Len(svcStores') :
          /\ svcStores'[s] = "tree" => InTree(s)'
          /\ svcStores'[s] = "stack" => AtFile("tokens")' /\ svcFile'.csn.store = s
    <3>1. \A s \in 1..Len(svcStores) : svcStores[s] = "tree" =>
             s = svcTree[u].store \/ \E v \in DOMAIN svcTree' : svcTree'[v].store = s
      BY <2>4 DEF SvcInv, StoreOwners, InTree
    <3>. QED
      BY <2>3, <3>1 DEF SvcInv, StoreOwners, InTree, AtFile
  <2>9. \A v, w \in DOMAIN svcTree' :
          svcTree'[v].store = svcTree'[w].store /\ svcTree'[v].store # NoStore => v = w
    BY <2>4 DEF SvcInv, StoreOwners
  <2>10. StoreOwners'
    BY <2>6, <2>7, <2>8, <2>9 DEF StoreOwners
  <2>. QED
    BY <1>1, <1>3, <2>4, <2>5, <2>10
<1>. QED
  BY <1>2, <1>3

\* The calls of the interface, the registry and the end.
LEMMA UsersKeep ==
    ASSUME SvcInv,
           \/ ctl_svc_scan \/ nodes_release \/ ReleaseMin
           \/ \E u \in SvcUuids : \/ node_lookup(u) \/ node_add(u) \/ node_put(u)
                                  \/ \E v \in BOOLEAN : write_val(u, v)
    PROVE  SvcInv'
<1>1. /\ SvcTypes /\ StoreOwners /\ NodeRefs /\ svcTree \in [DOMAIN svcTree -> SvcNodes]
      /\ DOMAIN svcTree \subseteq SvcUuids /\ svcHeld \in [SvcUuids -> Nat]
      /\ \A u \in DOMAIN svcTree : svcTree[u] \in SvcNodes /\ svcTree[u].ref \in Nat \ {0}
  BY DEF SvcInv, SvcTypes, NodeRefs, SvcNodes
<1>2. CASE ctl_svc_scan \/ nodes_release
  <2>1. /\ UNCHANGED <<svcDir, svcTree, svcStores, svcHeld>> /\ AtFile("file")
        /\ svcFile' = [st |-> "file", i |-> 1] \/ svcFile' = [st |-> "end"]
    BY <1>2 DEF ctl_svc_scan, nodes_release
  <2>2. ~AtFile("tokens") /\ ~AtFile("tokens")' /\ SvcUp
    BY <2>1 DEF AtFile, SvcUp
  <2>3. StoreOwners'
    BY <1>1, <2>1, <2>2, OwnersKept DEF SameStores
  <2>4. SvcTypes' /\ NodeRefs'
    BY <1>1, <2>1, <2>2 DEF SvcTypes, NodeRefs, AtFile
  <2>. QED
    BY <2>3, <2>4 DEF SvcInv
<1>3. CASE ReleaseMin
  <2> DEFINE u == CHOOSE u \in DOMAIN svcTree : \A v \in DOMAIN svcTree : u <= v
  <2>1. u \in DOMAIN svcTree
    BY <1>1, <1>3, SmallestUuid, CtlSvcAssumption DEF ReleaseMin
  <2>2. Put(u) /\ UNCHANGED <<svcDir, svcFile, svcHeld>> /\ AtFile("end")
    BY <1>3 DEF ReleaseMin
  <2> HIDE DEF u
  <2>3. SvcTypes' /\ StoreOwners' /\ \A v \in DOMAIN svcTree' : svcTree'[v].ref > 0
    BY <1>1, <2>1, <2>2, PutKeeps
  <2>4. ~SvcUp'
    BY <2>2 DEF SvcUp, AtFile
  <2>. QED
    BY <2>3, <2>4 DEF SvcInv, NodeRefs
<1>4. ASSUME NEW u \in SvcUuids, node_lookup(u) PROVE SvcInv'
  <2>1. /\ u \in DOMAIN svcTree /\ Ref(u, svcTree[u].ref + 1) /\ SvcUp
        /\ svcHeld' = [svcHeld EXCEPT ![u] = svcHeld[u] + 1]
        /\ UNCHANGED <<svcDir, svcStores, svcFile>>
    BY <1>4 DEF node_lookup
  <2>2. svcTree[u].ref + 1 \in Nat \ {0}
    BY <1>1, <2>1
  <2>3. /\ DOMAIN svcTree' = DOMAIN svcTree /\ svcTree' \in [DOMAIN svcTree -> SvcNodes]
        /\ SameStores(DOMAIN svcTree)
        /\ \A v \in DOMAIN svcTree :
             svcTree'[v].ref = IF v = u THEN svcTree[u].ref + 1 ELSE svcTree[v].ref
    BY <1>1, <2>1, <2>2, RefChanges
  <2>4. StoreOwners'
    BY <1>1, <2>1, <2>3, OwnersKept
  <2>5. SvcTypes'
    BY <1>1, <2>1, <2>3 DEF SvcTypes, AtFile
  <2>6. NodeRefs'
    BY <1>1, <2>1, <2>3 DEF NodeRefs, SvcUp, AtFile
  <2>. QED
    BY <2>4, <2>5, <2>6 DEF SvcInv
<1>5. ASSUME NEW u \in SvcUuids, node_add(u) PROVE SvcInv'
  <2> DEFINE x == [BlankNode EXCEPT !.uuid = u, !.ref = 2]
  <2>1. /\ u \notin DOMAIN svcTree /\ SvcUp
        /\ svcTree' = [v \in DOMAIN svcTree \cup {u} |-> IF v = u THEN x ELSE svcTree[v]]
        /\ svcHeld' = [svcHeld EXCEPT ![u] = svcHeld[u] + 1]
        /\ UNCHANGED <<svcDir, svcStores, svcFile>>
    BY <1>5 DEF node_add
  <2>2. x \in SvcNodes /\ x.store = NoStore /\ x.ref = 2
    BY CtlSvcAssumption, BlankIsNode DEF SvcNodes
  <2> HIDE DEF x
  <2>3. /\ DOMAIN svcTree' = DOMAIN svcTree \cup {u} /\ svcTree'[u] = x
        /\ \A v \in DOMAIN svcTree : svcTree'[v] = svcTree[v] /\ v # u
        /\ svcTree' \in [DOMAIN svcTree' -> SvcNodes] /\ DOMAIN svcTree' \subseteq SvcUuids
    BY <1>1, <2>1, <2>2
  <2>4. StoreOwners'
    BY <1>1, <2>1, <2>2, <2>3, OwnersKept DEF SameStores
  <2>5. SvcTypes'
    BY <1>1, <2>1, <2>3 DEF SvcTypes, AtFile
  <2>6. svcHeld[u] = 0
    BY <1>1, <2>1 DEF NodeRefs
  <2>7. NodeRefs'
    BY <1>1, <2>1, <2>2, <2>3, <2>6 DEF NodeRefs, SvcUp, AtFile
  <2>. QED
    BY <2>4, <2>5, <2>7 DEF SvcInv
<1>6. ASSUME NEW u \in SvcUuids, node_put(u) PROVE SvcInv'
  <2>1. /\ SvcUp /\ svcHeld[u] > 0 /\ Put(u) /\ UNCHANGED <<svcDir, svcFile>>
        /\ svcHeld' = [svcHeld EXCEPT ![u] = svcHeld[u] - 1]
    BY <1>6 DEF node_put
  <2>2. /\ u \in DOMAIN svcTree /\ svcTree[u].ref = 1 + svcHeld[u] /\ svcHeld[u] \in Nat
    BY <1>1, <2>1 DEF NodeRefs
  <2>3. svcTree[u].ref > 1 /\ svcHeld' \in [SvcUuids -> Nat]
    BY <1>1, <2>1, <2>2
  <2>4. /\ SvcTypes' /\ StoreOwners' /\ DOMAIN svcTree' = DOMAIN svcTree
        /\ \A v \in DOMAIN svcTree' : svcTree'[v].ref > 0
        /\ \A v \in DOMAIN svcTree :
             svcTree'[v].ref = IF v = u THEN svcTree[u].ref - 1 ELSE svcTree[v].ref
    BY <2>1, <2>2, <2>3, PutKeeps
  <2>5. NodeRefs'
    BY <1>1, <2>1, <2>2, <2>4 DEF NodeRefs, SvcUp, AtFile
  <2>. QED
    BY <2>4, <2>5 DEF SvcInv
<1>7. ASSUME NEW u \in SvcUuids, NEW v \in BOOLEAN, write_val(u, v) PROVE SvcInv'
  <2>1. /\ u \in DOMAIN svcTree /\ UNCHANGED <<svcDir, svcStores, svcFile, svcHeld>>
        /\ \/ svcTree' = [svcTree EXCEPT ![u] = [svcTree[u] EXCEPT !.send = v]]
           \/ svcTree' = [svcTree EXCEPT ![u] = [svcTree[u] EXCEPT !.recv = v]]
    BY <1>7 DEF write_val
  <2>2. ASSUME NEW x \in SvcNodes, NEW y,
               y = [x EXCEPT !.send = v] \/ y = [x EXCEPT !.recv = v]
        PROVE  y \in SvcNodes /\ y.store = x.store /\ y.type = x.type /\ y.ref = x.ref
    BY <2>2 DEF SvcNodes
  <2>3. PICK y : /\ y = [svcTree[u] EXCEPT !.send = v] \/ y = [svcTree[u] EXCEPT !.recv = v]
                 /\ svcTree' = [svcTree EXCEPT ![u] = y]
    BY <2>1
  <2>4. y \in SvcNodes /\ y.store = svcTree[u].store /\ y.type = svcTree[u].type
          /\ y.ref = svcTree[u].ref
    BY <1>1, <2>1, <2>2, <2>3
  <2>5. /\ DOMAIN svcTree' = DOMAIN svcTree /\ svcTree' \in [DOMAIN svcTree -> SvcNodes]
        /\ SameStores(DOMAIN svcTree)
        /\ \A w \in DOMAIN svcTree : svcTree'[w].ref = svcTree[w].ref
    BY <1>1, <2>1, <2>3, <2>4 DEF SameStores
  <2>6. StoreOwners'
    BY <1>1, <2>1, <2>5, OwnersKept
  <2>7. SvcTypes' /\ NodeRefs'
    BY <1>1, <2>1, <2>5 DEF SvcTypes, NodeRefs, SvcUp, AtFile
  <2>. QED
    BY <2>6, <2>7 DEF SvcInv
<1>. QED
  BY <1>2, <1>3, <1>4, <1>5, <1>6, <1>7

LEMMA SvcInvariant == SvcSpec => []SvcInv
<1>1. SvcInit => SvcInv
  <2>. SUFFICES ASSUME SvcInit PROVE SvcInv
    OBVIOUS
  <2>1. /\ svcDir \in Seq(ConfFiles) /\ DOMAIN svcTree = {} /\ svcStores = <<>>
        /\ svcTree = [u \in {} |-> 0]
        /\ svcFile = [st |-> "file", i |-> 1] /\ svcHeld = [u \in SvcUuids |-> 0]
    BY CtlSvcAssumption DEF SvcInit
  <2>2. SvcTypes
    BY <2>1 DEF SvcTypes, AtFile
  <2>3. StoreOwners
    BY <2>1 DEF StoreOwners, AtFile
  <2>4. NodeRefs
    BY <2>1 DEF NodeRefs
  <2>. QED
    BY <2>2, <2>3, <2>4 DEF SvcInv
<1>2. SvcInv /\ [SvcNext]_svcVars => SvcInv'
  <2>. SUFFICES ASSUME SvcInv, [SvcNext]_svcVars PROVE SvcInv'
    OBVIOUS
  <2>1. CASE UNCHANGED svcVars
    BY <2>1 DEF svcVars, SvcInv, SvcTypes, StoreOwners, NodeRefs, Stored, InTree, AtFile, SvcUp
  <2>2. CASE SvcNext
    BY <2>2, NameKeeps, TokenKeeps, AddKeeps, UsersKeep DEF SvcNext
  <2>. QED
    BY <2>1, <2>2
<1>. QED
  BY <1>1, <1>2, PTL DEF SvcSpec

\* The memory of every STORE has one owner at any time, is freed once and never
\* while a node points to it, and a node is in the tree exactly while it has
\* the tree's reference and those of its users (ctl_svc.c:440-466, 784-803,
\* 1000-1015, 1142-1146), for any directories, UUIDs and numbers of users.
THEOREM StoresCorrect == SvcSpec => []StoresOwned
<1>1. ASSUME SvcInv PROVE StoresOwned
  <2>1. /\ svcStores \in Seq(StoreStates) /\ DOMAIN svcStores = 1..Len(svcStores)
        /\ \A s \in 1..Len(svcStores) : svcStores[s] \in StoreStates /\ s # NoStore
    BY <1>1, LenProperties, ElementOfSeq DEF SvcInv, SvcTypes, NoStore
  <2>2. ASSUME NEW s \in DOMAIN svcStores, NEW owners, NEW onStack,
               owners = {u \in DOMAIN svcTree : svcTree[u].store = s},
               onStack = (AtFile("tokens") /\ svcFile.csn.store = s)
        PROVE  /\ svcStores[s] # "freed twice"
               /\ svcStores[s] = "tree" <=> Cardinality(owners) = 1
               /\ svcStores[s] \in {"freed", "leaked"} <=> owners = {} /\ ~onStack
    <3>1. /\ \A u \in owners : svcStores[s] = "tree"
          /\ onStack => svcStores[s] = "stack"
          /\ svcStores[s] = "tree" => owners # {}
          /\ svcStores[s] = "stack" => onStack
          /\ \A u, v \in owners : u = v
      <4>1. StoreOwners
        BY <1>1 DEF SvcInv
      <4>2. \A u \in owners : u \in DOMAIN svcTree /\ svcTree[u].store = s /\ s # NoStore
        BY <2>1, <2>2
      <4>3. svcStores[s] = "tree" => owners # {}
        BY <2>1, <2>2, <4>1 DEF StoreOwners, InTree
      <4>4. onStack <=> svcStores[s] = "stack"
        BY <2>1, <2>2, <4>1 DEF StoreOwners, Stored
      <4>. QED
        BY <4>1, <4>2, <4>3, <4>4 DEF StoreOwners, Stored
    <3>2. Cardinality(owners) = 1 <=> owners # {}
      <4>1. CASE owners = {}
        BY <4>1, FS_EmptySet
      <4>2. CASE owners # {}
        <5>1. PICK u : owners = {u}
          BY <3>1, <4>2
        <5>. QED
          BY <5>1, FS_Singleton
      <4>. QED
        BY <4>1, <4>2
    <3>. QED
      BY <2>1, <2>2, <3>1, <3>2 DEF StoreStates
  <2>3. \A s \in DOMAIN svcStores :
          LET owners == {u \in DOMAIN svcTree : svcTree[u].store = s}
              onStack == AtFile("tokens") /\ svcFile.csn.store = s
          IN /\ svcStores[s] # "freed twice"
             /\ svcStores[s] = "tree" <=> Cardinality(owners) = 1
             /\ svcStores[s] \in {"freed", "leaked"} <=> owners = {} /\ ~onStack
    BY <2>2
  <2>. QED
    BY <1>1, <2>3 DEF StoresOwned, SvcInv, NodeRefs
<1>. QED
  BY <1>1, SvcInvariant, PTL

-------------------------------------------------------------------------------
(***************************************************************************)
(* What a node says is what its file says.  The invariant follows the      *)
(* tokens of a file one by one: after k of them the node is what the first *)
(* k say.                                                                  *)
(***************************************************************************)
SaidTo(f, id, k) == {j \in 1..k : f.tokens[j].id = id}
IsLastOf(v, f, S) ==
    \/ S = {} /\ v = NoVal
    \/ \E j \in S : v = f.tokens[j].val /\ \A i \in S : i <= j
IsLast(v, f, id, k) == IsLastOf(v, f, SaidTo(f, id, k))

\* The names that have an i-th byte, and a host of whose bytes each is of the
\* last of those.
HostTo(f, i, k) == {j \in SaidTo(f, "HOSTNAME", k) : f.tokens[j].len >= i}
IsHost(h, f, k) == \A i \in 1..HOST_NAME_MAX : IsLastOf(h[i], f, HostTo(f, i, k))

ArePeers(ps, f, k) ==
    /\ Len(ps) = Cardinality(SaidTo(f, "PEER", k))
    /\ \A j \in SaidTo(f, "PEER", k) :
         ps[Cardinality({i \in SaidTo(f, "PEER", k) : i <= j})] = f.tokens[j].val

\* The token may be in file f.
TokenFits(f, t) ==
    /\ t.id \in NodeTypeTokens[f.suffix]
    /\ t.id \in {"HOSTNAME", "IPADDR"} => ~TooLong(t)
    /\ t.id \in {"PORT", "CLIENT_PORT"} => t.val \in 1..MaxPort
    /\ t.id = "UUID" \/ (t.id = "RAFT" /\ f.suffix = "raft") => t.val = f.uuid

FromPrefix(f, k, c) ==
    /\ c.type = f.suffix /\ c.uuid = f.uuid
    /\ \A j \in 1..k : TokenFits(f, f.tokens[j])
    /\ IsHost(c.host, f, k) /\ IsLast(c.ip, f, "IPADDR", k)
    /\ IsLast(c.port, f, "PORT", k) /\ IsLast(c.client_port, f, "CLIENT_PORT", k)
    /\ IF f.suffix = "raft" THEN c.raft = NoVal ELSE IsLast(c.raft, f, "RAFT", k)
    /\ ArePeers(c.peers, f, k) /\ Len(c.peers) <= MaxPeers
    /\ IF c.store = NoStore THEN SaidTo(f, "STORE", k) = {}
                            ELSE Cardinality(SaidTo(f, "STORE", k)) = 1

\* The tokens that are left are those behind the first k.
LeftBehind(left, f, k) ==
    /\ k + Len(left) = Len(f.tokens)
    /\ \A i \in 1..Len(left) : left[i] = f.tokens[k + i]

FilesRead ==
    /\ \A u \in DOMAIN svcTree : svcTree[u].from > 0 =>
         /\ svcTree[u].from \in 1..Len(svcDir) /\ svcTree[u].uuid = u
         /\ FromPrefix(svcDir[svcTree[u].from], Len(svcDir[svcTree[u].from].tokens), svcTree[u])
    /\ AtFile("tokens") =>
         /\ svcFile.i \in 1..Len(svcDir) /\ svcFile.csn.from = svcFile.i
         /\ \E k \in Nat : /\ LeftBehind(svcFile.left, svcDir[svcFile.i], k)
                           /\ FromPrefix(svcDir[svcFile.i], k, svcFile.csn)

\* A file of the directory.
LEMMA FileTypes ==
    ASSUME SvcTypes, NEW i \in 1..Len(svcDir), NEW f, f = svcDir[i]
    PROVE  /\ f.uuid \in SvcUuids /\ f.tokens \in Seq(SvcTokens) /\ Len(f.tokens) \in Nat
           /\ DOMAIN f.tokens = 1..Len(f.tokens)
           /\ \A j \in 1..Len(f.tokens) : f.tokens[j] \in SvcTokens
<1>1. f \in ConfFiles
  BY ElementOfSeq DEF SvcTypes
<1>2. f.uuid \in SvcUuids /\ f.tokens \in Seq(SvcTokens)
  BY <1>1 DEF ConfFiles, SvcTokens
<1>. QED
  BY <1>2, ElementOfSeq, LenProperties

\* What one more token adds to the places of tokens of one kind.
LEMMA SaidNext ==
    ASSUME NEW f, NEW id, NEW k \in Nat
    PROVE  /\ f.tokens[k + 1].id = id => SaidTo(f, id, k + 1) = SaidTo(f, id, k) \cup {k + 1}
           /\ f.tokens[k + 1].id # id => SaidTo(f, id, k + 1) = SaidTo(f, id, k)
           /\ k + 1 \notin SaidTo(f, id, k)
           /\ SaidTo(f, id, k) \subseteq 1..k /\ IsFiniteSet(SaidTo(f, id, k))
<1>1. 1..(k + 1) = (1..k) \cup {k + 1} /\ k + 1 \notin 1..k
  OBVIOUS
<1>2. SaidTo(f, id, k) \subseteq 1..k
  BY DEF SaidTo
<1>3. IsFiniteSet(1..k)
  BY FS_Interval
<1>4. IsFiniteSet(SaidTo(f, id, k))
  BY <1>2, <1>3, FS_Subset
<1>5. k + 1 \in 1..(k + 1)
  OBVIOUS
<1>. QED
  BY <1>1, <1>2, <1>4, <1>5 DEF SaidTo

\* The last value of a kind, after one more token.
LEMMA LastNext ==
    ASSUME NEW f, NEW id, NEW k \in Nat, NEW v, IsLast(v, f, id, k),
           NEW t, t = f.tokens[k + 1]
    PROVE  IsLast(IF t.id = id THEN t.val ELSE v, f, id, k + 1)
<1>1. CASE t.id # id
  <2>1. SaidTo(f, id, k + 1) = SaidTo(f, id, k)
    BY <1>1, SaidNext
  <2>. QED
    BY <1>1, <2>1 DEF IsLast, IsLastOf
<1>2. CASE t.id = id
  <2>1. SaidTo(f, id, k + 1) = SaidTo(f, id, k) \cup {k + 1} /\ SaidTo(f, id, k) \subseteq 1..k
    BY <1>2, SaidNext
  <2>2. \A i \in SaidTo(f, id, k + 1) : i <= k + 1
    BY <2>1
  <2>. QED
    BY <1>2, <2>1, <2>2 DEF IsLast, IsLastOf
<1>. QED
  BY <1>1, <1>2

\* The host, after one more token.
LEMMA HostNext ==
    ASSUME NEW f, NEW k \in Nat, NEW h \in Hosts, IsHost(h, f, k),
           NEW t \in SvcTokens, t = f.tokens[k + 1]
    PROVE  IsHost(IF t.id = "HOSTNAME" THEN strncpy(h, t) ELSE h, f, k + 1)
<1> DEFINE g == IF t.id = "HOSTNAME" THEN strncpy(h, t) ELSE h
<1>1. ASSUME NEW i \in 1..HOST_NAME_MAX PROVE IsLastOf(g[i], f, HostTo(f, i, k + 1))
  <2> DEFINE S == HostTo(f, i, k)
             U == HostTo(f, i, k + 1)
  <2>1. IsLastOf(h[i], f, S) /\ S \subseteq 1..k
    BY SaidNext DEF IsHost, HostTo
  <2>2. CASE t.id = "HOSTNAME" /\ t.len >= i
    <3>1. SaidTo(f, "HOSTNAME", k + 1) = SaidTo(f, "HOSTNAME", k) \cup {k + 1}
      BY <2>2, SaidNext
    <3>2. U = S \cup {k + 1}
      BY <2>2, <3>1 DEF HostTo
    <3>3. g[i] = t.val
      <4>1. i <= t.len
        BY <2>2 DEF SvcTokens
      <4>. QED
        BY <2>2, <4>1 DEF strncpy
    <3>4. \A j \in U : j <= k + 1
      BY <2>1, <3>2
    <3>5. k + 1 \in U /\ g[i] = f.tokens[k + 1].val
      BY <3>2, <3>3
    <3> HIDE DEF S, g
    <3>. QED
      BY <3>4, <3>5 DEF IsLastOf
  <2>3. CASE ~(t.id = "HOSTNAME" /\ t.len >= i)
    <3>1. U = S
      <4>1. CASE t.id # "HOSTNAME"
        BY <4>1, SaidNext DEF HostTo
      <4>2. CASE t.id = "HOSTNAME" /\ ~(t.len >= i)
        <5>1. SaidTo(f, "HOSTNAME", k + 1) = SaidTo(f, "HOSTNAME", k) \cup {k + 1}
          BY <4>2, SaidNext
        <5>. QED
          BY <4>2, <5>1 DEF HostTo
      <4>. QED
        BY <2>3, <4>1, <4>2
    <3>2. g[i] = h[i]
      <4>1. t.id = "HOSTNAME" => ~(i <= t.len)
        BY <2>3 DEF SvcTokens
      <4>. QED
        BY <4>1 DEF strncpy
    <3>. QED
      BY <2>1, <3>1, <3>2
  <2>. QED
    BY <2>2, <2>3
<1>. QED
  BY <1>1 DEF IsHost

\* The peers, after one more.
LEMMA PeersNext ==
    ASSUME NEW f, NEW k \in Nat, NEW ps \in Seq(Nat), ArePeers(ps, f, k),
           NEW t, t = f.tokens[k + 1], t.val \in Nat
    PROVE  ArePeers(IF t.id = "PEER" THEN Append(ps, t.val) ELSE ps, f, k + 1)
<1> DEFINE S == SaidTo(f, "PEER", k)
           U == SaidTo(f, "PEER", k + 1)
<1>0. S \subseteq 1..k /\ IsFiniteSet(S) /\ k + 1 \notin S
  BY SaidNext
<1>1. CASE t.id # "PEER"
  <2>1. U = S
    BY <1>1, SaidNext
  <2>. QED
    BY <1>1, <2>1 DEF ArePeers
<1>2. CASE t.id = "PEER"
  <2>1. U = S \cup {k + 1}
    BY ZenonT(30), <1>2, SaidNext
  <2>2. Len(ps) = Cardinality(S) /\ Len(ps) \in Nat
    BY LenProperties DEF ArePeers
  <2>3. Cardinality(U) = Len(ps) + 1
    <3>1. Cardinality(S \cup {k + 1}) = Cardinality(S) + 1
      BY <1>0, FS_AddElement
    <3>. QED
      BY <2>1, <2>2, <3>1
  <2> DEFINE l == Append(ps, t.val)
  <2>4. Len(l) = Len(ps) + 1 /\ l[Len(ps) + 1] = t.val /\ \A i \in 1..Len(ps) : l[i] = ps[i]
    BY <2>2
  <2> HIDE DEF S, U, l
  <2>5. ASSUME NEW j \in U PROVE l[Cardinality({i \in U : i <= j})] = f.tokens[j].val
    <3>1. CASE j = k + 1
      <4>1. {i \in U : i <= j} = U
        <5>1. \A i \in S : i <= k + 1
          BY <1>0
        <5>2. \A i \in U : i <= j
          BY <2>1, <3>1, <5>1
        <5>. QED
          BY <5>2
      <4>. QED
        BY <2>3, <2>4, <3>1, <4>1
    <3>2. CASE j \in S
      <4> DEFINE R == {i \in S : i <= j}
      <4>1. {i \in U : i <= j} = R
        BY <1>0, <2>1, <3>2
      <4>2. R \subseteq S /\ j \in R
        BY <1>0, <3>2
      <4>3. IsFiniteSet(R) /\ Cardinality(R) <= Cardinality(S) /\ Cardinality(R) \in Nat
        BY <1>0, <4>2, FS_Subset, FS_CardinalityType
      <4>4. Cardinality(R) # 0
        BY <4>2, <4>3, FS_EmptySet
      <4>5. Cardinality(R) \in 1..Len(ps)
        BY <2>2, <4>3, <4>4
      <4>6. ps[Cardinality(R)] = f.tokens[j].val
        BY <3>2 DEF ArePeers, S
      <4>. QED
        BY <2>4, <4>1, <4>5, <4>6
    <3>. QED
      BY <2>1, <3>1, <3>2
  <2>. QED
    BY <1>2, <2>3, <2>4, <2>5 DEF ArePeers, U, l
<1>. QED
  BY <1>1, <1>2

\* What the handlers of the tokens have seen to.
LEMMA TokenSeen ==
    ASSUME NEW c \in SvcNodes, NEW t \in SvcTokens, ~TokenRefused(c, t)
    PROVE  /\ t.id \in NodeTypeTokens[c.type]
           /\ t.id \in {"HOSTNAME", "IPADDR"} => ~TooLong(t)
           /\ t.id \in {"PORT", "CLIENT_PORT"} => t.val \in 1..MaxPort
           /\ t.id = "UUID" \/ (t.id = "RAFT" /\ c.type = "raft") => t.val = c.uuid
           /\ t.id = "PEER" => Len(c.peers) # MaxPeers
<1>1. t.id \in NodeTypeTokens[c.type]
  BY DEF TokenRefused
<1>2. t.id \in {"HOSTNAME", "IPADDR"} => ~TooLong(t)
  BY DEF TokenRefused
<1>3. t.id \in {"PORT", "CLIENT_PORT"} => t.val \in 1..MaxPort
  BY DEF TokenRefused
<1>4. t.id = "UUID" => t.val = c.uuid
  BY DEF TokenRefused
<1>5. t.id = "RAFT" /\ c.type = "raft" => t.val = c.uuid
  BY DEF TokenRefused, is_raft
<1>6. t.id = "PEER" => Len(c.peers) # MaxPeers
  BY DEF TokenRefused
<1>. QED
  BY <1>1, <1>2, <1>3, <1>4, <1>5, <1>6

\* One token more.
LEMMA PrefixNext ==
    ASSUME NEW f, NEW k \in Nat, NEW c \in SvcNodes, FromPrefix(f, k, c),
           NEW t \in SvcTokens, t = f.tokens[k + 1], ~TokenRefused(c, t),
           NEW s \in Nat \ {0}, MaxPeers \in Nat
    PROVE  FromPrefix(f, k + 1, TokenApplied(c, t, s))
<1> DEFINE d == TokenApplied(c, t, s)
<1>1. /\ c.type = f.suffix /\ c.uuid = f.uuid /\ c.peers \in Seq(Nat) /\ t.val \in Nat
      /\ \A j \in 1..k : TokenFits(f, f.tokens[j])
  BY DEF FromPrefix, SvcNodes, SvcTokens
<1>2. /\ d.type = c.type /\ d.uuid = c.uuid
      /\ d.port = IF t.id = "PORT" THEN t.val ELSE c.port
      /\ d.client_port = IF t.id = "CLIENT_PORT" THEN t.val ELSE c.client_port
      /\ d.host = IF t.id = "HOSTNAME" THEN strncpy(c.host, t) ELSE c.host
      /\ d.ip = IF t.id = "IPADDR" THEN t.val ELSE c.ip
      /\ d.raft = IF t.id = "RAFT" /\ ~is_raft(c) THEN t.val ELSE c.raft
      /\ d.peers = IF t.id = "PEER" THEN Append(c.peers, t.val) ELSE c.peers
      /\ d.store = IF t.id = "STORE" THEN s ELSE c.store
  BY DEF TokenApplied, SvcNodes
<1> HIDE DEF d
<1>3. TokenFits(f, t)
  <2>1. /\ t.id \in NodeTypeTokens[f.suffix]
        /\ t.id \in {"HOSTNAME", "IPADDR"} => ~TooLong(t)
        /\ t.id \in {"PORT", "CLIENT_PORT"} => t.val \in 1..MaxPort
        /\ t.id = "UUID" \/ (t.id = "RAFT" /\ f.suffix = "raft") => t.val = f.uuid
    BY <1>1, TokenSeen
  <2>. QED
    BY <2>1 DEF TokenFits
<1>4. \A j \in 1..(k + 1) : TokenFits(f, f.tokens[j])
  <2>1. \A j \in 1..(k + 1) : j \in 1..k \/ j = k + 1
    OBVIOUS
  <2>. QED
    BY <1>1, <1>3, <2>1
<1>5. /\ IsHost(d.host, f, k + 1) /\ IsLast(d.ip, f, "IPADDR", k + 1)
      /\ IsLast(d.port, f, "PORT", k + 1) /\ IsLast(d.client_port, f, "CLIENT_PORT", k + 1)
  <2>1. c.host \in Hosts /\ IsHost(c.host, f, k)
    BY DEF FromPrefix, SvcNodes
  <2>2. IsHost(d.host, f, k + 1)
    BY <1>2, <2>1, HostNext
  <2>. QED
    BY <1>2, <2>2, LastNext DEF FromPrefix
<1>6. IF f.suffix = "raft" THEN d.raft = NoVal ELSE IsLast(d.raft, f, "RAFT", k + 1)
  BY <1>1, <1>2, LastNext DEF FromPrefix, is_raft
<1>7. ArePeers(d.peers, f, k + 1)
  BY <1>1, <1>2, PeersNext DEF FromPrefix
<1>8. Len(d.peers) <= MaxPeers
  <2>1. t.id = "PEER" => Len(c.peers) # MaxPeers
    BY TokenSeen
  <2>2. Len(c.peers) \in Nat /\ Len(c.peers) <= MaxPeers
    BY <1>1, LenProperties DEF FromPrefix
  <2>3. Len(Append(c.peers, t.val)) = Len(c.peers) + 1
    BY <1>1
  <2>. QED
    BY <1>2, <2>1, <2>2, <2>3
<1>9. IF d.store = NoStore THEN SaidTo(f, "STORE", k + 1) = {}
                           ELSE Cardinality(SaidTo(f, "STORE", k + 1)) = 1
  <2>1. CASE t.id = "STORE"
    <3>1. c.store = NoStore /\ d.store = s /\ s # NoStore
      BY <1>2, <2>1, StoreTaken DEF NoStore
    <3>2. SaidTo(f, "STORE", k) = {}
      BY <3>1 DEF FromPrefix
    <3>3. SaidTo(f, "STORE", k + 1) = {k + 1}
      BY <2>1, <3>2, SaidNext
    <3>. QED
      BY <3>1, <3>3, FS_Singleton
  <2>2. CASE t.id # "STORE"
    <3>1. SaidTo(f, "STORE", k + 1) = SaidTo(f, "STORE", k)
      BY <2>2, SaidNext
    <3>. QED
      BY <1>2, <2>2, <3>1 DEF FromPrefix
  <2>. QED
    BY <2>1, <2>2
<1>. QED
  BY <1>1, <1>2, <1>4, <1>5, <1>6, <1>7, <1>8, <1>9 DEF FromPrefix, d

\* Before the first token.
LEMMA PrefixStart ==
    ASSUME NEW f, NEW c, c.type = f.suffix, c.uuid = f.uuid,
           c.host = [i \in 1..HOST_NAME_MAX |-> NoVal], c.ip = NoVal,
           c.port = NoVal, c.client_port = NoVal, c.raft = NoVal, c.peers = <<>>, c.store = NoStore,
           MaxPeers \in Nat
    PROVE  FromPrefix(f, 0, c)
<1>1. \A id : SaidTo(f, id, 0) = {}
  BY DEF SaidTo
<1>2. Cardinality({}) = 0 /\ Len(<<>>) = 0
  BY FS_EmptySet
<1>3. \A id : IsLast(NoVal, f, id, 0)
  BY <1>1 DEF IsLast, IsLastOf
<1>6. IsHost(c.host, f, 0)
  BY <1>1 DEF IsHost, HostTo, IsLastOf
<1>4. ArePeers(<<>>, f, 0)
  BY <1>1, <1>2 DEF ArePeers
<1>5. \A j \in 1..0 : TokenFits(f, f.tokens[j])
  OBVIOUS
<1>. QED
  BY <1>1, <1>2, <1>3, <1>4, <1>5, <1>6 DEF FromPrefix

\* What FromPrefix says does not depend on the count and the two switches.
SameWords(x, y) ==
    /\ x.type = y.type /\ x.uuid = y.uuid /\ x.host = y.host /\ x.ip = y.ip
    /\ x.port = y.port /\ x.client_port = y.client_port /\ x.raft = y.raft
    /\ x.peers = y.peers /\ x.store = y.store /\ x.from = y.from

LEMMA WordsKept ==
    ASSUME FilesRead, UNCHANGED svcDir,
           \A u \in DOMAIN svcTree' :
              \/ svcTree'[u].from = 0
              \/ u \in DOMAIN svcTree /\ SameWords(svcTree'[u], svcTree[u])
    PROVE  \A u \in DOMAIN svcTree' : svcTree'[u].from > 0 =>
             /\ svcTree'[u].from \in 1..Len(svcDir') /\ svcTree'[u].uuid = u
             /\ FromPrefix(svcDir'[svcTree'[u].from], Len(svcDir'[svcTree'[u].from].tokens), svcTree'[u])
<1>1. ASSUME NEW f, NEW k, NEW x, NEW y, SameWords(x, y), FromPrefix(f, k, y)
      PROVE  FromPrefix(f, k, x)
  BY <1>1 DEF SameWords, FromPrefix
<1>2. \A u \in DOMAIN svcTree' : svcTree'[u].from = 0 => ~(svcTree'[u].from > 0)
  OBVIOUS
<1>3. ASSUME NEW u \in DOMAIN svcTree', u \in DOMAIN svcTree, SameWords(svcTree'[u], svcTree[u]),
             svcTree'[u].from > 0
      PROVE  /\ svcTree'[u].from \in 1..Len(svcDir) /\ svcTree'[u].uuid = u
             /\ FromPrefix(svcDir[svcTree'[u].from], Len(svcDir[svcTree'[u].from].tokens), svcTree'[u])
  <2>1. svcTree'[u].from = svcTree[u].from /\ svcTree'[u].uuid = svcTree[u].uuid
    BY <1>3 DEF SameWords
  <2>. QED
    BY <1>1, <1>3, <2>1 DEF FilesRead
<1>. QED
  BY <1>2, <1>3

\* A step that leaves the file's node alone, or is between files.
LEMMA OthersKeep ==
    ASSUME FilesRead, UNCHANGED svcDir, svcFile' = svcFile \/ ~AtFile("tokens")',
           \A u \in DOMAIN svcTree' :
              \/ svcTree'[u].from = 0
              \/ u \in DOMAIN svcTree /\ SameWords(svcTree'[u], svcTree[u])
    PROVE  FilesRead'
<1>1. \A u \in DOMAIN svcTree' : svcTree'[u].from > 0 =>
         /\ svcTree'[u].from \in 1..Len(svcDir') /\ svcTree'[u].uuid = u
         /\ FromPrefix(svcDir'[svcTree'[u].from], Len(svcDir'[svcTree'[u].from].tokens), svcTree'[u])
  BY WordsKept
<1>2. AtFile("tokens")' =>
         /\ svcFile'.i \in 1..Len(svcDir') /\ svcFile'.csn.from = svcFile'.i
         /\ \E k \in Nat : /\ LeftBehind(svcFile'.left, svcDir'[svcFile'.i], k)
                           /\ FromPrefix(svcDir'[svcFile'.i], k, svcFile'.csn)
  BY DEF FilesRead, AtFile
<1>. QED
  BY <1>1, <1>2 DEF FilesRead

\* A node is the same but for its count and its switches.
LEMMA CountsApart ==
    ASSUME NEW x \in SvcNodes, NEW y, NEW v,
           \/ y = [x EXCEPT !.ref = v] \/ y = [x EXCEPT !.send = v] \/ y = [x EXCEPT !.recv = v]
    PROVE  SameWords(y, x)
<1>1. CASE y = [x EXCEPT !.ref = v]
  BY <1>1 DEF SvcNodes, SameWords
<1>2. CASE y = [x EXCEPT !.send = v]
  BY <1>2 DEF SvcNodes, SameWords
<1>3. CASE y = [x EXCEPT !.recv = v]
  BY <1>3 DEF SvcNodes, SameWords
<1>. QED
  BY <1>1, <1>2, <1>3

\* The suffix of a file names its type, also where one suffix starts another.
LEMMA SuffixIsType ==
    ASSUME NEW ext, detect_node_type(ext) # "any"
    PROVE  detect_node_type(ext) = ext
<1> DEFINE fits == {j \in DOMAIN NodeTypes : StartsWith(ext, NodeTypes[j])}
           m == CHOOSE j \in fits : \A k \in fits : j <= k
<1>1. DOMAIN NodeTypes = 1..4 /\ NodeTypes[1] = "niosd" /\ NodeTypes[2] = "peer"
        /\ NodeTypes[3] = "raft_client" /\ NodeTypes[4] = "raft"
  BY DEF NodeTypes
<1>2. fits # {} /\ fits \subseteq Nat /\ detect_node_type(ext) = NodeTypes[m]
  BY <1>1 DEF detect_node_type
<1>3. PICK x \in fits : \A k \in fits : x <= k
  BY <1>2, SmallestMember
<1>4. m \in fits /\ \A k \in fits : m <= k
  BY <1>3
<1>5. m \in 1..4 /\ StartsWith(ext, NodeTypes[m])
  BY <1>1, <1>4
<1>6. ext = "raft_client" => 3 \in fits
  BY <1>1 DEF StartsWith
<1>7. ~(m <= 3) => NodeTypes[m] = "raft"
  BY <1>1, <1>5
<1>8. NodeTypes[m] = "raft" => m = 4
  BY <1>1, <1>5
<1> HIDE DEF m, fits
<1>. QED
  BY <1>2, <1>4, <1>5, <1>6, <1>8 DEF StartsWith

\* The name of a file starts its node.
LEMMA NameReads == ASSUME SvcInv, FilesRead, parse_input_file_name PROVE FilesRead'
<1> DEFINE i == svcFile.i
           f == svcDir[i]
           type == detect_node_type(f.suffix)
           c == [BlankNode EXCEPT !.type = type, !.uuid = f.uuid, !.from = i]
<1>1. /\ AtFile("file") /\ i \in 1..Len(svcDir) /\ SvcTypes
      /\ UNCHANGED <<svcDir, svcTree, svcStores, svcHeld, svcScans>>
  BY DEF SvcInv, SvcTypes, parse_input_file_name
<1>2. \A u \in DOMAIN svcTree' : u \in DOMAIN svcTree /\ SameWords(svcTree'[u], svcTree[u])
  BY <1>1 DEF SameWords
<1>3. CASE type = "any"
  <2>1. ~AtFile("tokens")'
    BY <1>3 DEF parse_input_file_name, NextFile, AtFile
  <2>. QED
    BY <1>1, <1>2, <2>1, OthersKeep
<1>4. CASE type # "any"
  <2>1. svcFile' = [st |-> "tokens", i |-> i, left |-> f.tokens, csn |-> c]
    BY <1>4 DEF parse_input_file_name
  <2>2. type = f.suffix
    BY <1>4, SuffixIsType
  <2>3. /\ c.type = type /\ c.uuid = f.uuid /\ c.from = i /\ c.ip = NoVal
        /\ c.host = [j \in 1..HOST_NAME_MAX |-> NoVal]
        /\ c.port = NoVal /\ c.client_port = NoVal /\ c.raft = NoVal /\ c.peers = <<>>
        /\ c.store = NoStore
    BY DEF BlankNode
  <2>4. Len(f.tokens) \in Nat
    BY <1>1, FileTypes
  <2> HIDE DEF i, f, type, c
  <2>5. FromPrefix(f, 0, c)
    BY <2>2, <2>3, PrefixStart, CtlSvcAssumption
  <2>6. LeftBehind(f.tokens, f, 0)
    BY <2>4 DEF LeftBehind
  <2>7. /\ svcFile'.i \in 1..Len(svcDir') /\ svcFile'.csn.from = svcFile'.i
        /\ LeftBehind(svcFile'.left, svcDir'[svcFile'.i], 0)
        /\ FromPrefix(svcDir'[svcFile'.i], 0, svcFile'.csn)
    BY <1>1, <2>1, <2>3, <2>5, <2>6 DEF f
  <2>8. \A u \in DOMAIN svcTree' : svcTree'[u].from > 0 =>
          /\ svcTree'[u].from \in 1..Len(svcDir') /\ svcTree'[u].uuid = u
          /\ FromPrefix(svcDir'[svcTree'[u].from], Len(svcDir'[svcTree'[u].from].tokens), svcTree'[u])
    BY <1>1, <1>2, WordsKept
  <2>9. 0 \in Nat
    OBVIOUS
  <2>. QED
    BY <2>7, <2>8, <2>9 DEF FilesRead
<1>. QED
  BY <1>3, <1>4

\* A token that is taken.
LEMMA TokenReads == ASSUME SvcInv, FilesRead, apply_token PROVE FilesRead'
<1> DEFINE i == svcFile.i
           f == svcDir[i]
           t == Head(svcFile.left)
           c == svcFile.csn
           n == Len(svcStores) + 1
<1>1. /\ AtFile("tokens") /\ svcFile.left \in Seq(SvcTokens) /\ svcFile.left # <<>>
      /\ svcFile \in [st : {"tokens"}, i : Nat \ {0}, left : Seq(SvcTokens), csn : SvcNodes]
      /\ c \in SvcNodes /\ SvcTypes /\ n \in Nat \ {0}
      /\ UNCHANGED <<svcDir, svcTree, svcHeld, svcScans>>
  BY LenProperties DEF SvcInv, SvcTypes, apply_token
<1>2. \A u \in DOMAIN svcTree' : u \in DOMAIN svcTree /\ SameWords(svcTree'[u], svcTree[u])
  BY <1>1 DEF SameWords
<1>3. CASE TokenRefused(c, t)
  <2>1. ~AtFile("tokens")'
    BY <1>3 DEF apply_token, NextFile, AtFile
  <2>. QED
    BY <1>1, <1>2, <2>1, OthersKeep
<1>4. CASE ~TokenRefused(c, t)
  <2> DEFINE d == TokenApplied(c, t, n)
  <2>1. svcFile' = [svcFile EXCEPT !.left = Tail(svcFile.left), !.csn = d]
    BY <1>4 DEF apply_token
  <2>2. PICK k \in Nat : LeftBehind(svcFile.left, f, k) /\ FromPrefix(f, k, c)
    BY <1>1 DEF FilesRead
  <2>3. i \in 1..Len(svcDir) /\ c.from = i
    BY <1>1 DEF FilesRead
  <2>4. /\ t \in SvcTokens /\ t = svcFile.left[1] /\ Len(svcFile.left) \in Nat \ {0}
        /\ Len(Tail(svcFile.left)) = Len(svcFile.left) - 1
        /\ \A j \in 1..Len(Tail(svcFile.left)) : Tail(svcFile.left)[j] = svcFile.left[j + 1]
    BY <1>1, HeadTailProperties, LenProperties, EmptySeq
  <2>5. Len(f.tokens) \in Nat
    BY <1>1, <2>3, FileTypes
  <2>6. /\ svcFile'.i = i /\ svcFile'.left = Tail(svcFile.left) /\ svcFile'.csn = d
    BY <1>1, <2>1
  <2>7. d.from = c.from
    BY <1>1, <2>4, TokenTypes
  <2> HIDE DEF f, t, c, n, d, i
  <2>8. t = f.tokens[k + 1]
    BY <2>2, <2>4 DEF LeftBehind
  <2>9. FromPrefix(f, k + 1, d)
    BY <1>1, <1>4, <2>2, <2>4, <2>8, PrefixNext, CtlSvcAssumption DEF d
  <2>10. LeftBehind(Tail(svcFile.left), f, k + 1)
    <3>1. k + 1 + (Len(svcFile.left) - 1) = Len(f.tokens)
      <4>1. k + Len(svcFile.left) = Len(f.tokens)
        BY <2>2 DEF LeftBehind
      <4>2. ASSUME NEW l \in Nat, NEW m, k + l = m PROVE k + 1 + (l - 1) = m
        BY <4>2
      <4>. QED
        BY <2>4, <4>1, <4>2
    <3>2. ASSUME NEW j \in 1..Len(Tail(svcFile.left))
          PROVE  Tail(svcFile.left)[j] = f.tokens[k + 1 + j]
      <4>1. j + 1 \in 1..Len(svcFile.left) /\ k + (j + 1) = k + 1 + j
        BY <2>4
      <4>2. svcFile.left[j + 1] = f.tokens[k + (j + 1)]
        BY <2>2, <4>1 DEF LeftBehind
      <4>. QED
        BY <2>4, <4>1, <4>2
    <3>. QED
      BY <2>4, <3>1, <3>2 DEF LeftBehind
  <2>11. k + 1 \in Nat
    OBVIOUS
  <2>12. /\ svcFile'.i \in 1..Len(svcDir') /\ svcFile'.csn.from = svcFile'.i
         /\ LeftBehind(svcFile'.left, svcDir'[svcFile'.i], k + 1)
         /\ FromPrefix(svcDir'[svcFile'.i], k + 1, svcFile'.csn)
    BY <1>1, <2>3, <2>6, <2>7, <2>9, <2>10 DEF f
  <2>13. \A u \in DOMAIN svcTree' : svcTree'[u].from > 0 =>
          /\ svcTree'[u].from \in 1..Len(svcDir') /\ svcTree'[u].uuid = u
          /\ FromPrefix(svcDir'[svcTree'[u].from], Len(svcDir'[svcTree'[u].from].tokens), svcTree'[u])
    BY <1>1, <1>2, WordsKept
  <2>. QED
    BY <2>11, <2>12, <2>13 DEF FilesRead
<1>. QED
  BY <1>3, <1>4

\* A node goes into the tree when its file has no tokens left.
LEMMA AddReads == ASSUME SvcInv, FilesRead, tree_add PROVE FilesRead'
<1> DEFINE c == svcFile.csn
           i == svcFile.i
<1>1. /\ AtFile("tokens") /\ svcFile.left = <<>> /\ c \in SvcNodes /\ c.uuid \in SvcUuids
      /\ svcFile' = [st |-> "file", i |-> i + 1] /\ SvcTypes /\ svcDir' = svcDir
  BY DEF SvcInv, SvcTypes, tree_add, NextFile
<1>2. ~AtFile("tokens")' /\ \A u \in DOMAIN svcTree : SameWords(svcTree[u], svcTree[u])
  BY <1>1 DEF AtFile, SameWords
<1>3. i \in 1..Len(svcDir) /\ c.from = i /\ FromPrefix(svcDir[i], Len(svcDir[i].tokens), c)
  <2>1. PICK k \in Nat : LeftBehind(<<>>, svcDir[i], k) /\ FromPrefix(svcDir[i], k, c)
    BY <1>1 DEF FilesRead
  <2>2. i \in 1..Len(svcDir) /\ c.from = i
    BY <1>1 DEF FilesRead
  <2>3. Len(<<>>) = 0 /\ k + 0 = k
    OBVIOUS
  <2>4. k = Len(svcDir[i].tokens)
    BY <2>1, <2>3 DEF LeftBehind
  <2>. QED
    BY <2>1, <2>2, <2>4
<1> HIDE DEF c, i
<1>4. CASE svcTree' = svcTree
  BY <1>1, <1>2, <1>4, OthersKeep
<1>5. ASSUME NEW d, d.uuid = c.uuid, c.uuid \notin DOMAIN svcTree, svcTree' = Added(d)
      PROVE  /\ DOMAIN svcTree' = DOMAIN svcTree \cup {c.uuid}
             /\ svcTree'[c.uuid] = [d EXCEPT !.ref = 1]
             /\ \A u \in DOMAIN svcTree : u # c.uuid /\ svcTree'[u] = svcTree[u]
  BY <1>5 DEF Added
<1>6. CASE c.uuid \notin DOMAIN svcTree /\ svcTree' = Added([BlankNode EXCEPT !.uuid = c.uuid])
  <2> DEFINE d == [BlankNode EXCEPT !.uuid = c.uuid]
  <2>1. d.uuid = c.uuid /\ [d EXCEPT !.ref = 1].from = 0
    BY DEF BlankNode
  <2> HIDE DEF d
  <2>2. /\ DOMAIN svcTree' = DOMAIN svcTree \cup {c.uuid}
        /\ svcTree'[c.uuid] = [d EXCEPT !.ref = 1]
        /\ \A u \in DOMAIN svcTree : svcTree'[u] = svcTree[u]
    BY <1>5, <1>6, <2>1 DEF d
  <2>3. \A u \in DOMAIN svcTree' :
          svcTree'[u].from = 0 \/ (u \in DOMAIN svcTree /\ SameWords(svcTree'[u], svcTree[u]))
    BY <1>2, <2>1, <2>2
  <2>. QED
    BY <1>1, <1>2, <2>3, OthersKeep
<1>7. CASE c.uuid \notin DOMAIN svcTree /\ svcTree' = Added(c)
  <2> DEFINE d == [c EXCEPT !.ref = 1]
  <2>1. SameWords(d, c)
    BY <1>1, CountsApart
  <2> HIDE DEF d
  <2>2. /\ DOMAIN svcTree' = DOMAIN svcTree \cup {c.uuid} /\ svcTree'[c.uuid] = d
        /\ \A u \in DOMAIN svcTree : svcTree'[u] = svcTree[u]
    BY <1>5, <1>7 DEF d
  <2>3. d.from = i /\ d.uuid = c.uuid /\ FromPrefix(svcDir[i], Len(svcDir[i].tokens), d)
    BY <1>3, <2>1 DEF SameWords, FromPrefix
  <2>4. \A u \in DOMAIN svcTree' : svcTree'[u].from > 0 =>
          /\ svcTree'[u].from \in 1..Len(svcDir) /\ svcTree'[u].uuid = u
          /\ FromPrefix(svcDir[svcTree'[u].from], Len(svcDir[svcTree'[u].from].tokens), svcTree'[u])
    BY <1>3, <2>2, <2>3 DEF FilesRead
  <2>. QED
    BY <1>1, <1>2, <2>4 DEF FilesRead
<1>. QED
  BY <1>4, <1>6, <1>7 DEF tree_add, c

\* The other steps change counts and switches, take nodes away or add some
\* that are of no file.
LEMMA UsersRead ==
    ASSUME SvcInv, FilesRead,
           \/ ctl_svc_scan \/ nodes_release \/ ReleaseMin
           \/ \E u \in SvcUuids : \/ node_lookup(u) \/ node_add(u) \/ node_put(u)
                                  \/ \E v \in BOOLEAN : write_val(u, v)
    PROVE  FilesRead'
<1>1. \A u \in DOMAIN svcTree : svcTree[u] \in SvcNodes /\ SameWords(svcTree[u], svcTree[u])
  BY DEF SvcInv, SvcTypes, SameWords
<1>2. ASSUME NEW u, NEW x, x \in DOMAIN svcTree, NEW y, svcTree' = [svcTree EXCEPT ![x] = y],
             SameWords(y, svcTree[x]), u \in DOMAIN svcTree'
      PROVE  u \in DOMAIN svcTree /\ SameWords(svcTree'[u], svcTree[u])
  BY <1>1, <1>2
<1>3. ASSUME NEW x \in DOMAIN svcTree, Put(x), NEW u \in DOMAIN svcTree'
      PROVE  u \in DOMAIN svcTree /\ SameWords(svcTree'[u], svcTree[u])
  <2>1. CASE svcTree[x].ref > 1
    <3>1. svcTree' = [svcTree EXCEPT ![x] = [svcTree[x] EXCEPT !.ref = svcTree[x].ref - 1]]
      BY <1>3, <2>1 DEF Put, Ref
    <3>. QED
      BY <1>1, <1>2, <1>3, <3>1, CountsApart
  <2>2. CASE ~(svcTree[x].ref > 1)
    BY <1>1, <1>3, <2>2 DEF Put
  <2>. QED
    BY <2>1, <2>2
<1>4. CASE ctl_svc_scan \/ nodes_release
  <2>1. svcDir' = svcDir /\ svcTree' = svcTree /\ ~AtFile("tokens")'
    BY <1>4 DEF ctl_svc_scan, nodes_release, AtFile
  <2>. QED
    BY <1>1, <2>1, OthersKeep
<1>5. CASE ReleaseMin
  <2> DEFINE x == CHOOSE u \in DOMAIN svcTree : \A v \in DOMAIN svcTree : u <= v
  <2>1. x \in DOMAIN svcTree
    BY <1>5, SmallestUuid, CtlSvcAssumption DEF ReleaseMin, SvcInv, SvcTypes
  <2>2. Put(x) /\ svcDir' = svcDir /\ svcFile' = svcFile
    BY <1>5 DEF ReleaseMin
  <2> HIDE DEF x
  <2>. QED
    BY <1>3, <2>1, <2>2, OthersKeep
<1>6. ASSUME NEW x \in SvcUuids, node_lookup(x) PROVE FilesRead'
  <2>1. /\ x \in DOMAIN svcTree /\ svcDir' = svcDir /\ svcFile' = svcFile
        /\ svcTree' = [svcTree EXCEPT ![x] = [svcTree[x] EXCEPT !.ref = svcTree[x].ref + 1]]
    BY <1>6 DEF node_lookup, Ref
  <2>2. SameWords([svcTree[x] EXCEPT !.ref = svcTree[x].ref + 1], svcTree[x])
    BY <1>1, <2>1, CountsApart
  <2>. QED
    BY <1>2, <2>1, <2>2, OthersKeep
<1>7. ASSUME NEW x \in SvcUuids, node_add(x) PROVE FilesRead'
  <2> DEFINE y == [BlankNode EXCEPT !.uuid = x, !.ref = 2]
  <2>1. /\ x \notin DOMAIN svcTree /\ svcDir' = svcDir /\ svcFile' = svcFile
        /\ svcTree' = [v \in DOMAIN svcTree \cup {x} |-> IF v = x THEN y ELSE svcTree[v]]
    BY <1>7 DEF node_add
  <2>2. y.from = 0
    BY DEF BlankNode
  <2> HIDE DEF y
  <2>3. \A u \in DOMAIN svcTree' :
          svcTree'[u].from = 0 \/ (u \in DOMAIN svcTree /\ SameWords(svcTree'[u], svcTree[u]))
    BY <1>1, <2>1, <2>2
  <2>. QED
    BY <2>1, <2>3, OthersKeep
<1>8. ASSUME NEW x \in SvcUuids, node_put(x) PROVE FilesRead'
  <2>1. Put(x) /\ svcDir' = svcDir /\ svcFile' = svcFile /\ SvcUp /\ svcHeld[x] > 0
    BY <1>8 DEF node_put
  <2>2. x \in DOMAIN svcTree
    BY <2>1 DEF SvcInv, NodeRefs
  <2>. QED
    BY <1>3, <2>1, <2>2, OthersKeep
<1>9. ASSUME NEW x \in SvcUuids, NEW v \in BOOLEAN, write_val(x, v) PROVE FilesRead'
  <2>1. /\ x \in DOMAIN svcTree /\ svcDir' = svcDir /\ svcFile' = svcFile
        /\ \/ svcTree' = [svcTree EXCEPT ![x] = [svcTree[x] EXCEPT !.send = v]]
           \/ svcTree' = [svcTree EXCEPT ![x] = [svcTree[x] EXCEPT !.recv = v]]
    BY <1>9 DEF write_val
  <2>2. PICK y : /\ y = [svcTree[x] EXCEPT !.send = v] \/ y = [svcTree[x] EXCEPT !.recv = v]
                 /\ svcTree' = [svcTree EXCEPT ![x] = y]
    BY <2>1
  <2>3. SameWords(y, svcTree[x])
    BY <1>1, <2>1, <2>2, CountsApart
  <2>. QED
    BY <1>2, <2>1, <2>2, <2>3, OthersKeep
<1>. QED
  BY <1>4, <1>5, <1>6, <1>7, <1>8, <1>9

LEMMA FilesAreRead == SvcSpec => []FilesRead
<1>1. SvcInit => FilesRead
  BY DEF SvcInit, FilesRead, AtFile
<1>2. SvcInv /\ FilesRead /\ [SvcNext]_svcVars => FilesRead'
  <2>. SUFFICES ASSUME SvcInv, FilesRead, [SvcNext]_svcVars PROVE FilesRead'
    OBVIOUS
  <2>1. CASE UNCHANGED svcVars
    BY <2>1 DEF svcVars, FilesRead, AtFile
  <2>2. CASE SvcNext
    BY <2>2, NameReads, TokenReads, AddReads, UsersRead DEF SvcNext
  <2>. QED
    BY <2>1, <2>2
<1>. QED
  BY <1>1, <1>2, SvcInvariant, PTL DEF SvcSpec

\* The last of some places is the largest.
LEMMA LastIsLast ==
    ASSUME NEW f, NEW S \in SUBSET Nat, NEW v, IsLastOf(v, f, S)
    PROVE  v = LastOf(f, S)
<1>1. CASE S = {}
  BY <1>1 DEF IsLastOf, LastOf
<1>2. CASE S # {}
  <2>1. PICK j \in S : v = f.tokens[j].val /\ \A k \in S : k <= j
    BY <1>2 DEF IsLastOf
  <2> DEFINE m == CHOOSE i \in S : \A k \in S : k <= i
  <2>2. m \in S /\ \A k \in S : k <= m
    BY <2>1
  <2>3. m <= j /\ j <= m /\ m \in Nat /\ j \in Nat
    BY <2>1, <2>2
  <2>4. LastOf(f, S) = f.tokens[m].val
    BY <1>2 DEF LastOf
  <2> HIDE DEF m
  <2>5. m = j
    BY <2>3
  <2>. QED
    BY <2>1, <2>4, <2>5
<1>. QED
  BY <1>1, <1>2

-------------------------------------------------------------------------------
(***************************************************************************)
(* Which file that is.  A file that was passed may not be used, or its     *)
(* UUID has a node: so no earlier file of a node's UUID may be used.       *)
(***************************************************************************)
FilesPassed ==
    /\ svcScans \in Nat \ {0}
    /\ SvcUp => \A j \in 1..Len(svcDir) :
         (j < svcFile.i \/ svcScans > 1) /\ Acceptable(svcDir[j]) =>
            svcDir[j].uuid \in DOMAIN svcTree
    /\ \A u \in DOMAIN svcTree : \A j \in 1..Len(svcDir) :
         j < svcTree[u].from /\ svcDir[j].uuid = u => ~Acceptable(svcDir[j])

\* A token of a kind is one more than those before it.
LEMMA MoreSaid ==
    ASSUME NEW f, NEW id, NEW k \in Nat, Len(f.tokens) \in Nat, DOMAIN f.tokens = 1..Len(f.tokens),
           k + 1 \in 1..Len(f.tokens), f.tokens[k + 1].id = id
    PROVE  /\ Cardinality(Said(f, id)) \in Nat /\ Cardinality(SaidTo(f, id, k)) \in Nat
           /\ Cardinality(SaidTo(f, id, k)) + 1 <= Cardinality(Said(f, id))
<1> DEFINE S == SaidTo(f, id, k)
           U == SaidTo(f, id, k + 1)
           A == Said(f, id)
<1>1. U = S \cup {k + 1} /\ k + 1 \notin S /\ IsFiniteSet(S)
  BY SaidNext
<1>2. Cardinality(U) = Cardinality(S) + 1 /\ Cardinality(S) \in Nat
  BY <1>1, FS_AddElement, FS_CardinalityType
<1>3. A \subseteq 1..Len(f.tokens) /\ U \subseteq A
  <2>1. \A j \in 1..(k + 1) : j \in 1..Len(f.tokens)
    OBVIOUS
  <2>. QED
    BY <2>1 DEF Said, SaidTo
<1>4. IsFiniteSet(A)
  <2>1. IsFiniteSet(1..Len(f.tokens))
    BY FS_Interval
  <2>. QED
    BY <1>3, <2>1, FS_Subset
<1>5. Cardinality(A) \in Nat /\ Cardinality(U) <= Cardinality(A)
  BY <1>3, <1>4, FS_Subset, FS_CardinalityType
<1>. QED
  BY <1>2, <1>5

\* A file with a token that is refused may not be used.
LEMMA RefusedIsNot ==
    ASSUME NEW f, NEW k \in Nat, Len(f.tokens) \in Nat, DOMAIN f.tokens = 1..Len(f.tokens),
           k + 1 \in 1..Len(f.tokens), NEW c \in SvcNodes, FromPrefix(f, k, c),
           NEW t, t = f.tokens[k + 1], TokenRefused(c, t), MaxPeers \in Nat
    PROVE  ~Acceptable(f)
<1>. SUFFICES ASSUME Acceptable(f) PROVE FALSE
  OBVIOUS
<1>1. /\ t.id \in NodeTypeTokens[f.suffix]
      /\ t.id \in {"HOSTNAME", "IPADDR"} => ~TooLong(t)
      /\ t.id \in {"PORT", "CLIENT_PORT"} => t.val \in 1..MaxPort
      /\ t.id = "UUID" \/ (t.id = "RAFT" /\ f.suffix = "raft") => t.val = f.uuid
  BY DEF Acceptable
<1>2. Cardinality(Said(f, "STORE")) <= 1 /\ Cardinality(Said(f, "PEER")) <= MaxPeers
  BY DEF Acceptable
<1>3. /\ c.type = f.suffix /\ c.uuid = f.uuid
      /\ Len(c.peers) = Cardinality(SaidTo(f, "PEER", k))
      /\ c.store # NoStore => Cardinality(SaidTo(f, "STORE", k)) = 1
  BY DEF FromPrefix, ArePeers
<1>4. CASE t.id = "PEER" /\ Len(c.peers) = MaxPeers
  <2>1. /\ Cardinality(Said(f, "PEER")) \in Nat
        /\ Cardinality(SaidTo(f, "PEER", k)) + 1 <= Cardinality(Said(f, "PEER"))
    BY <1>4, MoreSaid
  <2>2. Cardinality(SaidTo(f, "PEER", k)) = MaxPeers
    BY <1>3, <1>4
  <2>. QED
    BY <1>2, <2>1, <2>2
<1>5. CASE t.id = "STORE" /\ c.store # NoStore
  <2>1. /\ Cardinality(Said(f, "STORE")) \in Nat
        /\ Cardinality(SaidTo(f, "STORE", k)) + 1 <= Cardinality(Said(f, "STORE"))
    BY <1>5, MoreSaid
  <2>2. Cardinality(SaidTo(f, "STORE", k)) = 1
    BY <1>3, <1>5
  <2>. QED
    BY <1>2, <2>1, <2>2
<1>. QED
  BY <1>1, <1>3, <1>4, <1>5 DEF TokenRefused, is_raft

\* A file whose suffix is of no type may not be used.
LEMMA UnknownIsNot ==
    ASSUME NEW f, detect_node_type(f.suffix) = "any"
    PROVE  ~Acceptable(f)
<1> DEFINE fits == {j \in DOMAIN NodeTypes : StartsWith(f.suffix, NodeTypes[j])}
           m == CHOOSE j \in fits : \A k \in fits : j <= k
<1>1. DOMAIN NodeTypes = 1..4 /\ NodeTypes[1] = "niosd" /\ NodeTypes[2] = "peer"
        /\ NodeTypes[3] = "raft_client" /\ NodeTypes[4] = "raft"
  BY DEF NodeTypes
<1>2. fits = {}
  <2>. SUFFICES ASSUME fits # {} PROVE FALSE
    OBVIOUS
  <2>1. fits \subseteq Nat
    BY <1>1
  <2>2. m \in fits
    BY <2>1, SmallestUuid
  <2>3. m \in 1..4 /\ detect_node_type(f.suffix) = NodeTypes[m]
    BY <1>1, <2>2 DEF detect_node_type
  <2> HIDE DEF m, fits
  <2>. QED
    BY <1>1, <2>3
<1>3. \A j \in 1..4 : f.suffix # NodeTypes[j]
  BY <1>1, <1>2 DEF StartsWith
<1>. QED
  BY <1>1, <1>3 DEF Acceptable, NodeTypeTokens

\* A step of a user, or one in a file.
LEMMA PassedKept ==
    ASSUME FilesPassed, UNCHANGED <<svcDir, svcScans>>,
           ~SvcUp' \/ (SvcUp /\ svcFile'.i = svcFile.i /\ DOMAIN svcTree \subseteq DOMAIN svcTree'),
           \A u \in DOMAIN svcTree' :
              \/ svcTree'[u].from = 0
              \/ u \in DOMAIN svcTree /\ svcTree'[u].from = svcTree[u].from
    PROVE  FilesPassed'
<1>1. SvcUp' => \A j \in 1..Len(svcDir') :
         (j < svcFile'.i \/ svcScans' > 1) /\ Acceptable(svcDir'[j]) =>
            svcDir'[j].uuid \in DOMAIN svcTree'
  BY DEF FilesPassed
<1>2. \A u \in DOMAIN svcTree' : \A j \in 1..Len(svcDir') :
         j < svcTree'[u].from /\ svcDir'[j].uuid = u => ~Acceptable(svcDir'[j])
  <2>1. \A j \in 1..Len(svcDir) : ~(j < 0)
    OBVIOUS
  <2>. QED
    BY <2>1 DEF FilesPassed
<1>3. svcScans' \in Nat \ {0}
  BY DEF FilesPassed
<1>. QED
  BY <1>1, <1>2, <1>3 DEF FilesPassed, Acceptable, Said, TooLong

\* A file is passed.
LEMMA FilePassed ==
    ASSUME FilesPassed, UNCHANGED <<svcDir, svcScans>>, SvcUp, svcFile.i \in Nat,
           svcFile' = [st |-> "file", i |-> svcFile.i + 1], DOMAIN svcTree \subseteq DOMAIN svcTree',
           Acceptable(svcDir[svcFile.i]) => svcDir[svcFile.i].uuid \in DOMAIN svcTree',
           \A u \in DOMAIN svcTree' : \A j \in 1..Len(svcDir) :
              j < svcTree'[u].from /\ svcDir[j].uuid = u => ~Acceptable(svcDir[j])
    PROVE  FilesPassed'
<1>1. \A j \in 1..Len(svcDir) : j < svcFile.i + 1 => j < svcFile.i \/ j = svcFile.i
  OBVIOUS
<1>2. SvcUp' => \A j \in 1..Len(svcDir') :
         (j < svcFile'.i \/ svcScans' > 1) /\ Acceptable(svcDir'[j]) =>
            svcDir'[j].uuid \in DOMAIN svcTree'
  BY <1>1 DEF FilesPassed
<1>3. svcScans' \in Nat \ {0}
  BY DEF FilesPassed
<1>4. \A u \in DOMAIN svcTree' : \A j \in 1..Len(svcDir') :
         j < svcTree'[u].from /\ svcDir'[j].uuid = u => ~Acceptable(svcDir'[j])
  OBVIOUS
<1>. QED
  BY <1>2, <1>3, <1>4 DEF FilesPassed, Acceptable, Said, TooLong

\* The steps of the scan.
LEMMA NamePasses == ASSUME SvcInv, FilesPassed, parse_input_file_name PROVE FilesPassed'
<1>1. /\ AtFile("file") /\ SvcUp /\ svcFile.i \in Nat
      /\ UNCHANGED <<svcDir, svcTree, svcScans>>
  BY DEF SvcInv, SvcTypes, parse_input_file_name, AtFile, SvcUp
<1>2. CASE detect_node_type(svcDir[svcFile.i].suffix) = "any"
  <2>1. ~Acceptable(svcDir[svcFile.i])
    BY <1>2, UnknownIsNot
  <2>2. svcFile' = [st |-> "file", i |-> svcFile.i + 1]
    BY <1>2 DEF parse_input_file_name, NextFile
  <2>. QED
    BY <1>1, <2>1, <2>2, FilePassed DEF FilesPassed
<1>3. CASE detect_node_type(svcDir[svcFile.i].suffix) # "any"
  <2>1. svcFile'.i = svcFile.i
    BY <1>3 DEF parse_input_file_name
  <2>. QED
    BY <1>1, <2>1, PassedKept
<1>. QED
  BY <1>2, <1>3

LEMMA TokenPasses == ASSUME SvcInv, FilesRead, FilesPassed, apply_token PROVE FilesPassed'
<1> DEFINE i == svcFile.i
           f == svcDir[i]
           t == Head(svcFile.left)
           c == svcFile.csn
<1>1. /\ AtFile("tokens") /\ SvcUp /\ i \in Nat /\ c \in SvcNodes /\ SvcTypes
      /\ svcFile \in [st : {"tokens"}, i : Nat \ {0}, left : Seq(SvcTokens), csn : SvcNodes]
      /\ svcFile.left \in Seq(SvcTokens) /\ svcFile.left # <<>>
      /\ UNCHANGED <<svcDir, svcTree, svcScans>>
  BY DEF SvcInv, SvcTypes, apply_token, AtFile, SvcUp
<1>2. CASE TokenRefused(c, t)
  <2>1. svcFile' = [st |-> "file", i |-> i + 1]
    BY <1>2 DEF apply_token, NextFile
  <2>2. PICK k \in Nat : LeftBehind(svcFile.left, f, k) /\ FromPrefix(f, k, c)
    BY <1>1 DEF FilesRead
  <2>3. i \in 1..Len(svcDir)
    BY <1>1 DEF FilesRead
  <2>4. t = svcFile.left[1] /\ Len(svcFile.left) \in Nat \ {0}
    BY <1>1, HeadTailProperties, LenProperties, EmptySeq
  <2>5. Len(f.tokens) \in Nat /\ DOMAIN f.tokens = 1..Len(f.tokens)
    BY <1>1, <2>3, FileTypes
  <2>6. t = f.tokens[k + 1] /\ k + 1 \in 1..Len(f.tokens)
    <3>1. 1 \in 1..Len(svcFile.left)
      BY <2>4
    <3>2. t = f.tokens[k + 1] /\ k + Len(svcFile.left) = Len(f.tokens)
      BY <2>2, <2>4, <3>1 DEF LeftBehind
    <3> HIDE DEF f, t
    <3>. QED
      BY <2>4, <2>5, <3>2
  <2>7. ~Acceptable(f)
    BY <1>1, <1>2, <2>2, <2>5, <2>6, RefusedIsNot, CtlSvcAssumption
  <2>. QED
    BY <1>1, <2>1, <2>7, FilePassed DEF FilesPassed
<1>3. CASE ~TokenRefused(c, t)
  <2>1. svcFile'.i = i /\ SvcUp'
    BY <1>1, <1>3 DEF apply_token, SvcUp, AtFile
  <2>. QED
    BY <1>1, <2>1, PassedKept
<1>. QED
  BY <1>2, <1>3

LEMMA AddPasses == ASSUME SvcInv, FilesRead, FilesPassed, tree_add PROVE FilesPassed'
<1> DEFINE c == svcFile.csn
           i == svcFile.i
<1>1. /\ AtFile("tokens") /\ SvcUp /\ i \in Nat /\ c \in SvcNodes
      /\ svcFile' = [st |-> "file", i |-> i + 1] /\ UNCHANGED <<svcDir, svcScans>>
  BY DEF SvcInv, SvcTypes, tree_add, NextFile, AtFile, SvcUp
<1>2. c.from = i /\ c.uuid = svcDir[i].uuid
  BY <1>1 DEF FilesRead, FromPrefix
<1> HIDE DEF c, i
<1>3. CASE c.uuid \in DOMAIN svcTree /\ svcTree' = svcTree
  BY <1>1, <1>2, <1>3, FilePassed DEF FilesPassed, i
<1>4. ASSUME NEW d, d.uuid = c.uuid, c.uuid \notin DOMAIN svcTree, svcTree' = Added(d),
             [d EXCEPT !.ref = 1].from \in {0, i}
      PROVE  FilesPassed'
  <2>1. /\ DOMAIN svcTree' = DOMAIN svcTree \cup {c.uuid}
        /\ svcTree'[c.uuid].from \in {0, i}
        /\ \A u \in DOMAIN svcTree : u # c.uuid /\ svcTree'[u] = svcTree[u]
    BY <1>4 DEF Added
  <2>2. \A j \in 1..Len(svcDir) : j < svcTree'[c.uuid].from => j < i
    BY <1>1, <2>1
  <2>3. \A j \in 1..Len(svcDir) : j < i /\ svcDir[j].uuid = c.uuid => ~Acceptable(svcDir[j])
    BY <1>1, <1>4 DEF FilesPassed, i
  <2>4. \A u \in DOMAIN svcTree' : \A j \in 1..Len(svcDir) :
           j < svcTree'[u].from /\ svcDir[j].uuid = u => ~Acceptable(svcDir[j])
    BY <2>1, <2>2, <2>3 DEF FilesPassed
  <2>. QED
    BY <1>1, <1>2, <2>1, <2>4, FilePassed DEF i
<1>5. CASE c.uuid \notin DOMAIN svcTree /\ svcTree' = Added([BlankNode EXCEPT !.uuid = c.uuid])
  <2> DEFINE d == [BlankNode EXCEPT !.uuid = c.uuid]
  <2>1. d.uuid = c.uuid /\ [d EXCEPT !.ref = 1].from = 0
    BY DEF BlankNode
  <2> HIDE DEF d
  <2>. QED
    BY <1>4, <1>5, <2>1 DEF d
<1>6. CASE c.uuid \notin DOMAIN svcTree /\ svcTree' = Added(c)
  <2>1. [c EXCEPT !.ref = 1].from = i
    BY <1>1, <1>2 DEF SvcNodes
  <2>. QED
    BY <1>4, <1>6, <2>1
<1>. QED
  BY <1>3, <1>5, <1>6 DEF tree_add, c

\* While there are files to come no node is taken out.
LEMMA UsersPass ==
    ASSUME SvcInv, FilesPassed,
           \/ ctl_svc_scan \/ nodes_release \/ ReleaseMin
           \/ \E u \in SvcUuids : \/ node_lookup(u) \/ node_add(u) \/ node_put(u)
                                  \/ \E v \in BOOLEAN : write_val(u, v)
    PROVE  FilesPassed'
<1>1. \A u \in DOMAIN svcTree : svcTree[u] \in SvcNodes /\ svcTree[u].ref \in Nat
  BY DEF SvcInv, SvcTypes, SvcNodes
<1>2. ASSUME NEW x \in DOMAIN svcTree, NEW y, svcTree' = [svcTree EXCEPT ![x] = y],
             y.from = svcTree[x].from, SvcUp, UNCHANGED <<svcDir, svcFile, svcScans>>
      PROVE  FilesPassed'
  <2>1. /\ DOMAIN svcTree' = DOMAIN svcTree
        /\ \A u \in DOMAIN svcTree : svcTree'[u].from = svcTree[u].from
    BY <1>2
  <2>. QED
    BY <1>2, <2>1, PassedKept
<1>3. ASSUME NEW x \in DOMAIN svcTree, NEW v,
             \/ svcTree' = [svcTree EXCEPT ![x] = [svcTree[x] EXCEPT !.ref = v]]
             \/ svcTree' = [svcTree EXCEPT ![x] = [svcTree[x] EXCEPT !.send = v]]
             \/ svcTree' = [svcTree EXCEPT ![x] = [svcTree[x] EXCEPT !.recv = v]],
             SvcUp, UNCHANGED <<svcDir, svcFile, svcScans>>
      PROVE  FilesPassed'
  <2>1. PICK y : /\ svcTree' = [svcTree EXCEPT ![x] = y]
                 /\ \/ y = [svcTree[x] EXCEPT !.ref = v] \/ y = [svcTree[x] EXCEPT !.send = v]
                    \/ y = [svcTree[x] EXCEPT !.recv = v]
    BY <1>3
  <2>2. SameWords(y, svcTree[x])
    BY <1>1, <2>1, CountsApart
  <2>. QED
    BY <1>2, <1>3, <2>1, <2>2 DEF SameWords
<1>4. CASE ctl_svc_scan
  <2>1. /\ UNCHANGED <<svcDir, svcTree>> /\ svcScans' = svcScans + 1 /\ SvcUp
        /\ svcFile.i \in Nat /\ svcFile.i > Len(svcDir) /\ svcScans \in Nat \ {0}
        /\ Len(svcDir) \in Nat
    BY <1>4, LenProperties DEF ctl_svc_scan, SvcInv, SvcTypes, FilesPassed, SvcUp, AtFile
  <2>2. \A j \in 1..Len(svcDir) : j < svcFile.i
    BY <2>1
  <2>3. \A j \in 1..Len(svcDir) : Acceptable(svcDir[j]) => svcDir[j].uuid \in DOMAIN svcTree
    BY <2>1, <2>2 DEF FilesPassed
  <2>4. svcScans' \in Nat \ {0}
    BY <2>1
  <2>5. \A u \in DOMAIN svcTree : \A j \in 1..Len(svcDir) :
           j < svcTree[u].from /\ svcDir[j].uuid = u => ~Acceptable(svcDir[j])
    BY DEF FilesPassed
  <2>. QED
    BY <2>1, <2>3, <2>4, <2>5 DEF FilesPassed, Acceptable, Said, TooLong
<1>5. CASE nodes_release
  <2>1. UNCHANGED <<svcDir, svcTree, svcScans>> /\ ~SvcUp'
    BY <1>5 DEF nodes_release, SvcUp, AtFile
  <2>. QED
    BY <2>1, PassedKept
<1>6. CASE ReleaseMin
  <2> DEFINE x == CHOOSE u \in DOMAIN svcTree : \A v \in DOMAIN svcTree : u <= v
  <2>1. x \in DOMAIN svcTree
    BY <1>6, SmallestUuid, CtlSvcAssumption DEF ReleaseMin, SvcInv, SvcTypes
  <2>2. Put(x) /\ UNCHANGED <<svcDir, svcFile, svcScans>> /\ ~SvcUp'
    BY <1>6 DEF ReleaseMin, SvcUp, AtFile
  <2> HIDE DEF x
  <2>3. \A u \in DOMAIN svcTree' : u \in DOMAIN svcTree /\ svcTree'[u].from = svcTree[u].from
    <3>1. CASE svcTree[x].ref > 1
      <4> DEFINE y == [svcTree[x] EXCEPT !.ref = svcTree[x].ref - 1]
      <4>1. svcTree' = [svcTree EXCEPT ![x] = y]
        BY <2>2, <3>1 DEF Put, Ref
      <4>2. y.from = svcTree[x].from
        BY <1>1, <2>1 DEF SvcNodes
      <4> HIDE DEF y
      <4>. QED
        BY <4>1, <4>2
    <3>2. CASE ~(svcTree[x].ref > 1)
      BY <2>2, <3>2 DEF Put
    <3>. QED
      BY <3>1, <3>2
  <2>. QED
    BY <2>2, <2>3, PassedKept
<1>7. ASSUME NEW x \in SvcUuids, node_lookup(x) PROVE FilesPassed'
  BY <1>3, <1>7 DEF node_lookup, Ref
<1>8. ASSUME NEW x \in SvcUuids, node_add(x) PROVE FilesPassed'
  <2> DEFINE y == [BlankNode EXCEPT !.uuid = x, !.ref = 2]
  <2>1. /\ x \notin DOMAIN svcTree /\ UNCHANGED <<svcDir, svcFile, svcScans>> /\ SvcUp
        /\ svcTree' = [v \in DOMAIN svcTree \cup {x} |-> IF v = x THEN y ELSE svcTree[v]]
    BY <1>8 DEF node_add
  <2>2. y.from = 0
    BY DEF BlankNode
  <2> HIDE DEF y
  <2>3. DOMAIN svcTree \subseteq DOMAIN svcTree' /\ \A u \in DOMAIN svcTree' :
          svcTree'[u].from = 0 \/ (u \in DOMAIN svcTree /\ svcTree'[u].from = svcTree[u].from)
    BY <2>1, <2>2
  <2>. QED
    BY <2>1, <2>3, PassedKept
<1>9. ASSUME NEW x \in SvcUuids, node_put(x) PROVE FilesPassed'
  <2>1. Put(x) /\ UNCHANGED <<svcDir, svcFile, svcScans>> /\ SvcUp /\ svcHeld[x] > 0
    BY <1>9 DEF node_put
  <2>2. x \in DOMAIN svcTree /\ svcTree[x].ref = 1 + svcHeld[x] /\ svcHeld[x] \in Nat
    BY <2>1 DEF SvcInv, NodeRefs, SvcTypes
  <2>3. svcTree[x].ref > 1
    BY <2>1, <2>2
  <2>. QED
    BY <1>3, <2>1, <2>2, <2>3 DEF Put, Ref
<1>10. ASSUME NEW x \in SvcUuids, NEW v \in BOOLEAN, write_val(x, v) PROVE FilesPassed'
  BY <1>3, <1>10 DEF write_val
<1>. QED
  BY <1>4, <1>5, <1>6, <1>7, <1>8, <1>9, <1>10

LEMMA FilesArePassed == SvcSpec => []FilesPassed
<1>1. SvcInit => FilesPassed
  <2>. SUFFICES ASSUME SvcInit PROVE FilesPassed
    OBVIOUS
  <2>1. DOMAIN svcTree = {} /\ svcScans = 1 /\ svcFile.i = 1
    BY DEF SvcInit
  <2>2. \A j \in 1..Len(svcDir) : ~(j < 1)
    OBVIOUS
  <2>. QED
    BY <2>1, <2>2 DEF FilesPassed
<1>2. SvcInv /\ FilesRead /\ FilesPassed /\ [SvcNext]_svcVars => FilesPassed'
  <2>. SUFFICES ASSUME SvcInv, FilesRead, FilesPassed, [SvcNext]_svcVars PROVE FilesPassed'
    OBVIOUS
  <2>1. CASE UNCHANGED svcVars
    BY <2>1 DEF svcVars, FilesPassed, SvcUp, AtFile, Acceptable, Said, TooLong
  <2>2. CASE SvcNext
    BY <2>2, NamePasses, TokenPasses, AddPasses, UsersPass DEF SvcNext
  <2>. QED
    BY <2>1, <2>2
<1>. QED
  BY <1>1, <1>2, SvcInvariant, FilesAreRead, PTL DEF SvcSpec

\* What node n of UUID u has from file f.
Tells(n, u, f) ==
    /\ Acceptable(f) /\ n.type = f.suffix /\ n.uuid = u /\ f.uuid = u
    /\ \A j \in 1..(n.from - 1) : svcDir[j].uuid = u => ~Acceptable(svcDir[j])
    /\ n.host = [i \in 1..HOST_NAME_MAX |-> LastOf(f, Reaching(f, i))]
    /\ n.ip = LastSaid(f, "IPADDR")
    /\ n.port = LastSaid(f, "PORT") /\ n.client_port = LastSaid(f, "CLIENT_PORT")
    /\ n.raft = IF f.suffix = "raft" THEN NoVal ELSE LastSaid(f, "RAFT")
    /\ Len(n.peers) = Cardinality(Said(f, "PEER"))
    /\ \A j \in Said(f, "PEER") :
          n.peers[Cardinality({k \in Said(f, "PEER") : k <= j})] = f.tokens[j].val
    /\ (n.store # NoStore) = (Said(f, "STORE") # {})

\* Every node that a file made says what the file says: the type its suffix
\* names, the last value of each token, the peers in their order, and of the
\* host name each byte from the last of the names that are so long, as they are
\* copied over one another; the file may be used and is the first of its UUID
\* that may (ctl_svc.c:257-270, 325-507, 733-804).  For any directories and any
\* users that work while they are scanned.
THEOREM NodesCorrect == SvcSpec => []NodesFromFiles
<1>1. ASSUME SvcInv, FilesRead, FilesPassed, NEW u \in DOMAIN svcTree, svcTree[u].from > 0,
             NEW n, n = svcTree[u], NEW f, f = svcDir[n.from]
      PROVE  Tells(n, u, f)
  <2> DEFINE k == Len(f.tokens)
  <2>1. /\ n.from \in 1..Len(svcDir) /\ n.uuid = u /\ FromPrefix(f, k, n) /\ n \in SvcNodes
    BY <1>1 DEF FilesRead, SvcInv, SvcTypes
  <2>2. k \in Nat /\ DOMAIN f.tokens = 1..k
    BY <1>1, <2>1, FileTypes DEF SvcInv
  <2> HIDE DEF k
  <2>3. \A id : Said(f, id) = SaidTo(f, id, k)
    BY <2>2 DEF Said, SaidTo
  <2>4. \A v, id : IsLast(v, f, id, k) => v = LastSaid(f, id)
    <3>1. \A id : Said(f, id) \subseteq Nat
      BY <2>2 DEF Said
    <3>. QED
      BY <2>3, <3>1, LastIsLast DEF IsLast, LastSaid
  <2>5. Cardinality(Said(f, "STORE")) <= 1 /\ (n.store # NoStore) = (Said(f, "STORE") # {})
    <3>1. Cardinality({}) = 0
      BY FS_EmptySet
    <3>2. IF n.store = NoStore THEN Said(f, "STORE") = {} ELSE Cardinality(Said(f, "STORE")) = 1
      BY <2>1, <2>3 DEF FromPrefix
    <3>. QED
      BY <3>1, <3>2
  <2>6. /\ Len(n.peers) = Cardinality(Said(f, "PEER")) /\ Len(n.peers) <= MaxPeers
        /\ \A j \in Said(f, "PEER") :
              n.peers[Cardinality({i \in Said(f, "PEER") : i <= j})] = f.tokens[j].val
    BY <2>1, <2>3 DEF FromPrefix, ArePeers
  <2>7. f.suffix \in DOMAIN NodeTypeTokens /\ n.type = f.suffix /\ n.uuid = f.uuid
    BY <2>1 DEF FromPrefix, SvcNodes, NodeTypeTokens
  <2>8. \A j \in DOMAIN f.tokens : TokenFits(f, f.tokens[j])
    BY <2>1, <2>2 DEF FromPrefix
  <2>9. Acceptable(f)
    BY <2>5, <2>6, <2>7, <2>8 DEF Acceptable, TokenFits
  <2>10. /\ n.ip = LastSaid(f, "IPADDR")
         /\ n.port = LastSaid(f, "PORT") /\ n.client_port = LastSaid(f, "CLIENT_PORT")
         /\ n.raft = IF f.suffix = "raft" THEN NoVal ELSE LastSaid(f, "RAFT")
    BY <2>1, <2>4 DEF FromPrefix
  <2>11. n.host = [i \in 1..HOST_NAME_MAX |-> LastOf(f, Reaching(f, i))]
    <3>1. ASSUME NEW i \in 1..HOST_NAME_MAX PROVE n.host[i] = LastOf(f, Reaching(f, i))
      <4>1. Reaching(f, i) = HostTo(f, i, k)
        BY <2>3 DEF Reaching, HostTo
      <4>2. Reaching(f, i) \subseteq Nat
        BY <2>2 DEF Reaching, Said
      <4>3. IsLastOf(n.host[i], f, Reaching(f, i))
        BY <2>1, <4>1 DEF FromPrefix, IsHost
      <4>. QED
        BY <4>2, <4>3, LastIsLast
    <3>2. n.host \in Hosts
      BY <2>1 DEF SvcNodes
    <3>. QED
      BY <3>1, <3>2 DEF Hosts
  <2>12. \A j \in 1..(n.from - 1) : svcDir[j].uuid = u => ~Acceptable(svcDir[j])
    <3>1. \A j \in 1..(n.from - 1) : j \in 1..Len(svcDir) /\ j < n.from
      BY <2>1
    <3>. QED
      BY <1>1, <3>1 DEF FilesPassed
  <2>. QED
    BY <2>1, <2>5, <2>6, <2>7, <2>9, <2>10, <2>11, <2>12 DEF Tells
<1>2. ASSUME SvcInv, FilesRead, FilesPassed PROVE NodesFromFiles
  <2>1. \A u \in DOMAIN svcTree : svcTree[u].from > 0 =>
           Tells(svcTree[u], u, svcDir[svcTree[u].from])
    BY <1>1, <1>2
  <2>. QED
    BY <2>1 DEF NodesFromFiles, Tells
<1>. QED
  BY <1>2, SvcInvariant, FilesAreRead, FilesArePassed, PTL
================================================================================
