------------------------------- MODULE VBasic -------------------------------
(***************************************************************************)
(* The "very basic allocator" (src/src/include/alloc.h) over the bit-field *)
(* helpers of src/src/include/common.h: a region is cut into at most       *)
(* VbaBits units, one bit each, and an allocation is a run of units.       *)
(*                                                                         *)
(* vba is [unit, nunits, regsz, ptr, align, bits]; bits is the set of      *)
(* taken units.  end is the first address behind the caller's memory and   *)
(* blocks the allocations that the callers hold, <<address, bytes>>.       *)
(***************************************************************************)
EXTENDS Integers, Sequences, FiniteSets, FiniteSetsExt

CONSTANTS
    VbaBits,       \* NIOVA_VBA_MAX_BITS
    Regions,       \* how an allocator is set up: [raw, size, unit, align]
    AllocSizes     \* what callers ask for, in bytes

\* A request for no bytes is refused (-EINVAL) before anything is looked at.
ASSUME VbaAssumption ==
    /\ VbaBits \in Nat \ {0}
    /\ Regions \subseteq [raw : Nat, size : Nat, unit : Nat, align : Nat]
    /\ AllocSizes \subseteq Nat \ {0}

VARIABLES vba, end, blocks, vbaOk

vbaVars == <<vba, end, blocks, vbaOk>>

VbaUnits == 0..VbaBits-1
IsPowerOf2(a) == a # 0 /\ \A d \in 2..a : a % d = 0 => d % 2 = 0
AlignUp(x, a) == ((x + a - 1) \div a) * a
AlignDown(x, a) == (x \div a) * a

\* niova_vbasic_init()
init(raw, size) ==
    IF size \div VbaBits = 0 THEN {}
    ELSE {[unit |-> size \div VbaBits, nunits |-> VbaBits, regsz |-> size,
           ptr |-> raw, align |-> 0, bits |-> {}]}

\* niova_vbasic_init_aligned(): the allocator, or none on an error.
init_aligned(raw, size, unit_size, align) ==
    LET ptr == AlignUp(raw, align)
        left == size - (ptr - raw)
        unit == IF unit_size = 0 THEN AlignDown(left \div VbaBits, align) ELSE unit_size
        nunits == left \div unit
    IN  IF \/ size = 0 \/ align = 0 \/ ~IsPowerOf2(align)
           \/ ptr - raw >= size
           \/ unit = 0 \/ unit < align \/ unit % align # 0
           \/ nunits = 0
          THEN {}
          ELSE {[unit |-> unit,
                 nunits |-> IF nunits > VbaBits THEN VbaBits ELSE nunits,
                 regsz |-> IF nunits > VbaBits THEN VbaBits * unit ELSE left,
                 ptr |-> ptr, align |-> align,
                 bits |-> {b \in VbaUnits : b >= nunits}]}

VbaInit ==
    /\ \E r \in Regions :
         /\ vba \in init(r.raw, r.size) \cup init_aligned(r.raw, r.size, r.unit, r.align)
         /\ end = r.raw + r.size
    /\ blocks = {} /\ vbaOk = TRUE

\* nconsective_bits_avail_offset(): the lowest run of n clear bits at or above
\* offset, VbaBits when there is none.
avail_offset(bits, n, offset) ==
    LET at == {i \in offset..(VbaBits - n) : \A b \in i..(i + n - 1) : b \notin bits}
    IN  IF n = 0 \/ n > VbaBits \/ at = {} THEN VbaBits ELSE Min(at)

\* nconsective_bits_assign() finds the same run, and takes it.
assign_bits(bits, n) == bits \cup (avail_offset(bits, n, 0)..(avail_offset(bits, n, 0) + n - 1))

NUnits(bytes) == (bytes \div vba.unit) + (IF bytes % vba.unit = 0 THEN 0 ELSE 1)

\* niova_vbasic_space_avail_nitems() looks for each item behind the one before.
space_avail_nitems(bytes, items) ==
    LET n == NUnits(bytes)
        offset[k \in Nat] ==
            IF k = 0 THEN 0 ELSE avail_offset(vba.bits, n, offset[k - 1]) + n
    IN  /\ n * items <= VbaBits
        /\ \A k \in 0..items-1 : avail_offset(vba.bits, n, offset[k]) < VbaBits

\* niova_vbasic_malloc(); it must fail only when no run of units is free.
Malloc(bytes) ==
    LET n == NUnits(bytes)
        i == avail_offset(vba.bits, n, 0)
    IN  IF n > VbaBits \/ i = VbaBits
          THEN /\ vbaOk' = \A k \in VbaUnits :
                             \/ k + n > vba.nunits
                             \/ \E x \in blocks :
                                  /\ x[1] < vba.ptr + (k + n) * vba.unit
                                  /\ vba.ptr + k * vba.unit < x[1] + NUnits(x[2]) * vba.unit
               /\ UNCHANGED <<vba, end, blocks>>
          ELSE /\ vba' = [vba EXCEPT !.bits = assign_bits(@, n)]
               /\ blocks' = blocks \cup {<<vba.ptr + i * vba.unit, bytes>>}
               /\ vbaOk' = TRUE /\ UNCHANGED end

\* niova_vbasic_free() of a block that the caller holds.
release_bits_short(bits, i, n) == bits \ (i..(i + n - 2))   \* mutant: the last unit stays taken
release_bits(bits, i, n) == bits \ (i..(i + n - 1))

Free(x) ==
    LET diff == x[1] - vba.ptr
        i == diff \div vba.unit
        n == NUnits(x[2])
        refused == \/ x[1] < vba.ptr \/ x[1] >= vba.ptr + vba.regsz
                   \/ diff % vba.unit # 0
                   \/ i >= VbaBits \/ i + n > VbaBits
                   \/ ~(i..(i + n - 1) \subseteq vba.bits)
    IN  /\ x \in blocks
        /\ IF refused THEN vbaOk' = FALSE /\ UNCHANGED <<vba, end, blocks>>
           ELSE /\ vba' = [vba EXCEPT !.bits = release_bits(@, i, n)]
                /\ blocks' = blocks \ {x}
                /\ vbaOk' = TRUE /\ UNCHANGED end

VbaNext == \/ \E b \in AllocSizes : Malloc(b)
           \/ \E x \in blocks : Free(x)

VbaSpec == VbaInit /\ [][VbaNext]_vbaVars

-------------------------------------------------------------------------------
\* items allocations of n units fit, one after the other.
Fit(bits, n, items) ==
    LET taken[k \in Nat] == IF k = 0 THEN bits ELSE assign_bits(taken[k - 1], n)
    IN  \A k \in 0..items-1 : avail_offset(taken[k], n, 0) < VbaBits

\* alloc.h: whatever the alignment costs at the front and whatever is left at
\* the end, blocks are aligned, lie inside the caller's memory and never
\* overlap, a held block can always be freed, an allocation fails only when
\* no run is free, a full release gives every unit back, and when
\* niova_vbasic_space_avail_nitems says that some allocations fit, they do.
VbaSound ==
    /\ vbaOk
    /\ \A x \in blocks :
         /\ vba.ptr <= x[1] /\ x[1] + x[2] <= end
         /\ vba.align # 0 => x[1] % vba.align = 0
         /\ \A y \in blocks \ {x} : x[1] + x[2] <= y[1] \/ y[1] + y[2] <= x[1]
    /\ blocks = {} => vba.bits = {b \in VbaUnits : b >= vba.nunits}
    /\ \A b \in AllocSizes, items \in 1..VbaBits :
         space_avail_nitems(b, items) => Fit(vba.bits, NUnits(b), items)
================================================================================
