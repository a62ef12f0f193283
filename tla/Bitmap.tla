------------------------------- MODULE Bitmap -------------------------------
(***************************************************************************)
(* The allocation bitmap (src/src/include/bitmap.h): a map of words, of    *)
(* which the bits below nb_max_idx are in use, with a hint where the last  *)
(* bit was handed out.  A word is the set of its one bits, 0..WordBits-1.  *)
(*                                                                         *)
(* used is what the callers know from the return codes alone: the bits     *)
(* they have set or were given and have not cleared.  last is the outcome  *)
(* of the last operation.                                                  *)
(***************************************************************************)
EXTENDS Integers, Sequences, FiniteSets, SequencesExt, FiniteSetsExt

CONSTANTS
    WordBits,    \* NB_WORD_TYPE_SZ_BITS
    NWords,      \* nb_nwords
    BitmapSizes, \* the values of nb_max_idx
    Widths       \* widths of the range operations

\* niova_bitmap_init() makes a limit of 0 the whole map and refuses one past it;
\* the range operations assert a width.
ASSUME BitmapAssumption ==
    /\ WordBits \in Nat \ {0} /\ NWords \in Nat \ {0}
    /\ BitmapSizes \subseteq 1..NWords * WordBits
    /\ Widths \subseteq Nat \ {0}

VARIABLES nb, src, used, last

bitmapVars == <<nb, src, used, last>>

Word == SUBSET (0..WordBits-1)
AllOnes == 0..WordBits-1                 \* NB_WORD_ANY
WordIdx(i) == i \div WordBits            \* NB_MAP_WORD_IDX
NumWords(n) == (n + WordBits - 1) \div WordBits
Nop == [op |-> "none", rc |-> "ok", idx |-> 0, ok |-> TRUE]

max_word == NumWords(nb.max)

\* The bits of a map below a limit.
Bits(map, n) == {i \in 0..n-1 : i % WordBits \in map[WordIdx(i)]}

BitmapInit ==
    /\ \E n \in BitmapSizes :
         /\ nb = [max |-> n, hint |-> 0, map |-> [w \in 0..NWords-1 |-> {}]]
         /\ src \in {m \in [0..NWords-1 -> Word] :
                       \A w \in 0..NWords-1 : \A b \in m[w] : w * WordBits + b < n}
    /\ used = {} /\ last = Nop

\* An operation that failed leaves everything alone.
Fails(op, rc, ok) == /\ last' = [op |-> op, rc |-> rc, idx |-> 0, ok |-> ok]
                     /\ UNCHANGED <<nb, src, used>>

Succeeds(op, map, now, ok) ==
    /\ nb' = [nb EXCEPT !.map = map] /\ used' = now
    /\ last' = [op |-> op, rc |-> "ok", idx |-> 0, ok |-> ok]
    /\ UNCHANGED src

\* niova_bitmap_set_unset() with set
Set(i) ==
    LET w == WordIdx(i)
        b == i % WordBits
    IN  IF i >= nb.max THEN Fails("set", "ERANGE", TRUE)
        ELSE IF b \in nb.map[w] THEN Fails("set", "EBUSY", i \in used)
        ELSE Succeeds("set", [nb.map EXCEPT ![w] = @ \cup {b}], used \cup {i},
                      i \notin used)

\* ... and without
Unset(i) ==
    LET w == WordIdx(i)
        b == i % WordBits
    IN  IF i >= nb.max THEN Fails("unset", "ERANGE", TRUE)
        ELSE IF b \notin nb.map[w] THEN Fails("unset", "EALREADY", i \notin used)
        ELSE Succeeds("unset", [nb.map EXCEPT ![w] = @ \ {b}], used \ {i}, i \in used)

\* niova_bitmap_range_mask(), for ranges that niova_bitmap_range_validate()
\* lets through.
RangeMask(i, width) == {b \in AllOnes : i % WordBits <= b /\ b < (i % WordBits) + width}

RangeValid(i, width) == (i % WordBits) + width <= WordBits /\ i + width <= nb.max

RangeSet(i, width, ebusy_ok) ==
    LET w == WordIdx(i)
        mask == RangeMask(i, width)
        range == i..(i + width - 1)
    IN  /\ RangeValid(i, width)
        /\ IF ~ebusy_ok /\ nb.map[w] \cap mask # {}
             THEN Fails("range_set", "EBUSY", range \cap used # {})
             ELSE Succeeds("range_set", [nb.map EXCEPT ![w] = @ \cup mask],
                           used \cup range, ebusy_ok \/ range \cap used = {})

RangeUnset(i, width) ==
    LET w == WordIdx(i)
        mask == RangeMask(i, width)
        range == i..(i + width - 1)
    IN  /\ RangeValid(i, width)
        /\ IF ~(mask \subseteq nb.map[w])
             THEN Fails("range_unset", "EALREADY", ~(range \subseteq used))
             ELSE Succeeds("range_unset", [nb.map EXCEPT ![w] = @ \ mask],
                           used \ range, range \subseteq used)

\* niova_bitmap_exclusive(): x ^ y & y = y, word by word
Exclusive == \A w \in 0..NWords-1 :
                (SymDiff(nb.map[w], src[w]) \cap src[w]) = src[w]
Shared == \A w \in 0..NWords-1 : (nb.map[w] \cap src[w]) = src[w]

Merge ==
    LET s == Bits(src, nb.max) IN
    IF Exclusive
      THEN Succeeds("merge", [w \in 0..NWords-1 |-> nb.map[w] \cup src[w]],
                    used \cup s, used \cap s = {})
      ELSE Fails("merge", "EALREADY", used \cap s # {})

BulkUnset ==
    LET s == Bits(src, nb.max) IN
    IF Shared
      THEN Succeeds("bulk_unset", [w \in 0..NWords-1 |-> nb.map[w] \ src[w]],
                    used \ s, s \subseteq used)
      ELSE Fails("bulk_unset", "ENOENT", ~(s \subseteq used))

Copy == Succeeds("copy", src, Bits(src, nb.max), TRUE)

\* niova_bitmap_lowest_free_bit_assign().  The bits of the last word past the
\* limit are set while the word is searched and cleared again.
PastLimit(w) == IF w = max_word - 1 /\ nb.max % WordBits # 0
                  THEN {b \in AllOnes : b >= nb.max % WordBits} ELSE {}

LowestFree(w) ==
    LET free == AllOnes \ (nb.map[w] \cup PastLimit(w))
    IN  CHOOSE b \in free : \A c \in free : b <= c

AssignWord_last(w, b) == nb.map[w] \cup PastLimit(w) \cup {b}   \* mutant: not cleared again
AssignWord(w, b) == (nb.map[w] \cup PastLimit(w) \cup {b}) \ PastLimit(w)

LowestFreeBitAssign ==
    LET start == IF max_word > nb.hint THEN nb.hint ELSE 0
        at(k) == (start + k) % max_word
        hits == {k \in 0..max_word-1 :
                   nb.map[at(k)] \cup PastLimit(at(k)) # AllOnes}
        w == at(CHOOSE k \in hits : \A j \in hits : k <= j)
        i == w * WordBits + LowestFree(w)
    IN  IF hits = {} THEN Fails("assign", "ENOSPC", used = 0..nb.max-1)
        ELSE /\ nb' = [nb EXCEPT !.map[w] = AssignWord(w, LowestFree(w)), !.hint = w]
             /\ used' = used \cup {i}
             /\ last' = [op |-> "assign", rc |-> "ok", idx |-> i,
                         ok |-> i < nb.max /\ i \notin used]
             /\ UNCHANGED src

LowestUsedBitRelease ==
    LET ws == {w \in 0..NWords-1 : nb.map[w] # {}}
        w == CHOOSE x \in ws : \A y \in ws : x <= y
        b == CHOOSE x \in nb.map[w] : \A y \in nb.map[w] : x <= y
        i == w * WordBits + b
    IN  IF ws = {} THEN Fails("release", "ENOENT", used = {})
        ELSE /\ nb' = [nb EXCEPT !.map[w] = @ \ {b}]
             /\ used' = used \ {i}
             /\ last' = [op |-> "release", rc |-> "ok", idx |-> i,
                         ok |-> i \in used /\ \A j \in used : i <= j]
             /\ UNCHANGED src

\* niova_bitmap_inuse(), niova_bitmap_full()
inuse == MapThenSumSet(LAMBDA w : Cardinality(nb.map[w]), 0..max_word-1)
full == inuse = nb.max

\* niova_bitmap_iterate(): the calls of the callback, <<start, length>>.
IterateBit(r, i) ==
    IF i % WordBits \in nb.map[WordIdx(i)]
      THEN IF r.idx < 0 THEN [r EXCEPT !.idx = i, !.len = 1] ELSE [r EXCEPT !.len = @ + 1]
      ELSE IF r.idx >= 0 THEN [r EXCEPT !.idx = -1, !.calls = Append(@, <<r.idx, r.len>>)]
                         ELSE r
iterate ==
    LET r == FoldLeft(IterateBit, [idx |-> -1, len |-> 0, calls |-> <<>>],
                      [k \in 1..nb.max |-> k - 1])
    IN  IF r.idx >= 0 THEN Append(r.calls, <<r.idx, r.len>>) ELSE r.calls

BitmapNext ==
    \/ \E i \in 0..NWords * WordBits : Set(i)
    \/ \E i \in 0..NWords * WordBits : Unset(i)
    \/ \E i \in 0..nb.max-1, width \in Widths :
         \/ \E e \in BOOLEAN : RangeSet(i, width, e)
         \/ RangeUnset(i, width)
    \/ Merge \/ BulkUnset \/ Copy \/ LowestFreeBitAssign \/ LowestUsedBitRelease

BitmapSpec == BitmapInit /\ [][BitmapNext]_bitmapVars

-------------------------------------------------------------------------------
\* bitmap.h: through any sequence of single, range and whole-map operations
\* the map holds exactly the bits that the return codes gave out, so that no
\* bit has two owners, none is lost, ENOSPC means that all are taken, the
\* counts agree with the bits below the limit, and an iteration reports the
\* maximal runs.
BitmapExact ==
    /\ last.ok
    /\ Bits(nb.map, NWords * WordBits) = used
    /\ inuse = Cardinality(used) /\ full = (used = 0..nb.max-1)
    /\ LET calls == iterate
           runs == {r \in used \X (1..nb.max) :
                      /\ r[1]..(r[1] + r[2] - 1) \subseteq used
                      /\ r[1] - 1 \notin used /\ r[1] + r[2] \notin used}
       IN  Range(calls) = runs /\ Len(calls) = Cardinality(runs)
================================================================================
