------------------------------ MODULE BufferInit ------------------------------
(***************************************************************************)
(* buffer_set_initx() (src/src/buffer.c): validates the caller's arguments *)
(* and cuts a region of memory into nbufs slots, each one a prologue       *)
(* followed by the buffer.  Sizes are size_t: arithmetic is modulo SizeMod.*)
(* Addresses are offsets from the start of the region, which itself lies   *)
(* at address base.                                                        *)
(***************************************************************************)
EXTENDS Integers, Sequences, FiniteSets

CONSTANTS
    SizeMod,     \* 2^w for a size_t of w bits
    NBufs, BufSizes, PrologueSizes, RegionSizes, Bases,
    Alignments,  \* the values of bsa_alignment; 0 leaves it to the options
    RegionAligned, \* callers pass a region whose size is a multiple of align
    NoWrap       \* callers pass sizes whose product fits a size_t

\* The alignment that each option of bsa_opts asks for, scaled down.
OptAlign == [L2 |-> 2, SECTOR |-> 4, PAGE |-> 8]

ASSUME BufferInitAssumption ==
    /\ SizeMod \in Nat \ {0}
    /\ \A S \in {NBufs, BufSizes, PrologueSizes, RegionSizes, Bases,
                 Alignments} : S \subseteq 0..(SizeMod - 1)
    /\ {RegionAligned, NoWrap} \subseteq BOOLEAN

VARIABLES
    a,         \* struct buffer_set_args
    step,      \* "check", "loop" or "end"
    off,       \* the offset of the next slot
    items,     \* bi_iov.iov_base of the items made so far
    used_off,  \* bsa_used_off
    rc,        \* what the function returns
    aborted   \* an assertion of the function has failed

layoutVars == <<a, step, off, items, used_off, rc, aborted>>

Plus(x, y)  == (x + y) % SizeMod
Times(x, y) == (x * y) % SizeMod

IsPower2(x)      == \E k \in 0..x : x = 2^k
IsAligned(x, al) == al = 0 \/ x % al = 0

\* The largest alignment that the options ask for, or none.
buffer_get_alignment(opts) ==
    IF "PAGE" \in opts THEN OptAlign.PAGE
    ELSE IF "SECTOR" \in opts THEN OptAlign.SECTOR
    ELSE IF "L2" \in opts THEN OptAlign.L2
    ELSE 0

Align(x) == IF x.alignment # 0 THEN x.alignment
                               ELSE buffer_get_alignment(x.opts)

SlotSize(x) == Plus(x.buf_size, x.prologue_size)

-------------------------------------------------------------------------------
\* The tests of the arguments, in the order in which they are made.
CheckSize(x) == x.region_size >= Times(x.nbufs, SlotSize(x))

CheckAlign_noPrologue(x) ==      \* mutant: the prologue may have any size
    LET al == Align(x) IN
    al # 0 => /\ IsPower2(al) /\ IsAligned(x.base, al)
              /\ IsAligned(x.buf_size, al)
CheckAlign(x) ==
    LET al == Align(x) IN
    al # 0 => /\ IsPower2(al) /\ IsAligned(x.base, al)
              /\ IsAligned(x.buf_size, al)
              /\ IsAligned(x.prologue_size, al)

CheckArgs(x) ==
    IF x.buf_size = 0 \/ x.region_size = 0 \/ x.used_off # 0 THEN "EINVAL"
    ELSE IF ~CheckSize(x) THEN "EOVERFLOW"
    ELSE IF Cardinality(x.opts) > 1 THEN "EINVAL"
    ELSE IF ~CheckAlign(x) THEN "EFAULT"
    ELSE "ok"

Args ==
    {x \in [nbufs : NBufs, buf_size : BufSizes, prologue_size : PrologueSizes,
            region_size : RegionSizes, base : Bases, alignment : Alignments,
            opts : SUBSET DOMAIN OptAlign, used_off : {0, 1}] :
       /\ RegionAligned => IsAligned(x.region_size, Align(x))
       /\ NoWrap => x.nbufs * (x.buf_size + x.prologue_size) < SizeMod}

LayoutInit ==
    /\ a \in Args
    /\ step = "check" /\ off = 0 /\ items = <<>>
    /\ used_off = a.used_off
    /\ rc = "ok" /\ aborted = FALSE

check_args ==
    /\ step = "check"
    /\ rc' = CheckArgs(a)
    /\ aborted' = (rc' = "ok" /\ ~IsAligned(a.region_size, Align(a)))
    /\ step' = IF rc' = "ok" /\ ~aborted' THEN "loop" ELSE "end"
    /\ UNCHANGED <<a, off, items, used_off>>

\* One turn of the loop: the slot must lie within the region and start where
\* the previous one ended or later.
make_item ==
    LET end == Plus(off, SlotSize(a)) IN
    /\ step = "loop" /\ Len(items) < a.nbufs
    /\ IF end <= a.region_size
         THEN /\ items' = Append(items, Plus(off, a.prologue_size))
              /\ off' = end
              /\ UNCHANGED <<step, aborted>>
         ELSE /\ aborted' = TRUE /\ step' = "end"
              /\ UNCHANGED <<items, off>>
    /\ UNCHANGED <<a, used_off, rc>>

\* calloc() fails.  The error path calls buffer_set_destroy(), which does
\* nothing since bs_init is not set yet.
make_item_fails ==
    /\ step = "loop" /\ Len(items) < a.nbufs
    /\ rc' = "ENOMEM" /\ step' = "end"
    /\ UNCHANGED <<a, off, items, used_off, aborted>>

finish ==
    /\ step = "loop" /\ Len(items) = a.nbufs
    /\ used_off' = off
    /\ step' = "end"
    /\ UNCHANGED <<a, off, items, rc, aborted>>

LayoutNext == check_args \/ make_item \/ make_item_fails \/ finish

LayoutSpec == LayoutInit /\ [][LayoutNext]_layoutVars

-------------------------------------------------------------------------------
\* The bytes of slot k: its prologue and its buffer.
Slot(k) == (items[k] - a.prologue_size)..(items[k] + a.buf_size - 1)

\* No two slots share a byte, and every slot lies within the region that the
\* caller gave to buffer_set_initx().
SlotsDisjoint ==
    \A k \in DOMAIN items :
       /\ Slot(k) \subseteq 0..(a.region_size - 1)
       /\ \A l \in DOMAIN items : k # l => Slot(k) \cap Slot(l) = {}

\* Every buffer, and every prologue there is, starts on the alignment that was
\* asked for (the fatal errors of buffer_set_initx()'s loop).
BuffersAligned ==
    \A k \in DOMAIN items :
       /\ IsAligned(a.base + items[k], Align(a))
       /\ IsAligned(a.base + items[k] - a.prologue_size, Align(a))

\* A set that was made has all its buffers, and bsa_used_off tells the caller
\* where the unused rest of the region starts.
CompleteSet ==
    step = "end" /\ rc = "ok" /\ ~aborted =>
       /\ Len(items) = a.nbufs
       /\ used_off = a.nbufs * (a.buf_size + a.prologue_size)
       /\ used_off <= a.region_size

\* What buffer_set_initx() makes of a region that it accepts: slots that are
\* disjoint, within the region and aligned, and as many as were asked for.
\* Arguments that pass the tests never make an assertion of the function
\* fail: "NIOVA_ASSERT(!align || IS_ALIGNED(s_region_size, align))" and
\* "NIOVA_ASSERT(off + buf_size + prologue_size <= s_region_size)".
LayoutSound == SlotsDisjoint /\ BuffersAligned /\ CompleteSet /\ ~aborted
===============================================================================
