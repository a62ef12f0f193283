------------------------------ MODULE Histogram ------------------------------
(***************************************************************************)
(* The power-of-two histogram (src/src/include/binary_hist.h): hist holds  *)
(* the counts of the buckets, added the values that went in.               *)
(***************************************************************************)
EXTENDS Integers, Sequences, FiniteSets, SequencesExt

CONSTANTS
    HistShapes,   \* <<bh_start_bit, bh_num_buckets>>
    HistValues,   \* the values incorporated
    MaxAdded      \* bound on the number of values

Pow2[k \in Nat] == IF k = 0 THEN 1 ELSE 2 * Pow2[k - 1]    \* 1ULL << k

\* binary_hist_init() wants a bucket; that all shifts stay within the width
\* is left to its callers.
ASSUME HistAssumption ==
    /\ HistShapes \subseteq Nat \X (Nat \ {0})
    /\ \A s \in HistShapes : s[1] + s[2] <= 64
    /\ \A v \in HistValues : v \in Nat /\ \E k \in 0..64 : v < Pow2[k]

VARIABLES bh, added

histVars == <<bh, added>>

HistInit ==
    /\ \E s \in HistShapes : bh = [start |-> s[1], n |-> s[2],
                                   values |-> [p \in 0..s[2]-1 |-> 0]]
    /\ added = <<>>

\* The number of significant bits: 64 - clz(v).
BitLength(v) == CHOOSE k \in 0..64 : Pow2[k] > v /\ (k = 0 \/ Pow2[k-1] <= v)

\* The bucket of a value, in binary_hist_incorporate_val(_multi)().
BucketOf_top(val) ==    \* mutant: a large value may pass the last bucket
    BitLength(val \div Pow2[bh.start]) % bh.n
BucketOf(val) ==
    LET k == BitLength(val \div Pow2[bh.start])
    IN  IF k < bh.n - 1 THEN k ELSE bh.n - 1

IncorporateVal(val, cnt) ==
    /\ Len(added) < MaxAdded
    /\ bh' = [bh EXCEPT !.values[BucketOf(val)] = @ + cnt]
    /\ added' = Append(added, <<val, cnt>>)

\* binary_hist_lower_bucket_range(), binary_hist_upper_bucket_range()
Lower(p) == IF p = 0 THEN 0 ELSE Pow2[p - 1 + bh.start]
Upper(p) == IF p = bh.n - 1 THEN -1 ELSE Pow2[p + bh.start] - 1

HistNext == \E v \in HistValues, c \in 1..2 : IncorporateVal(v, c)

HistSpec == HistInit /\ [][HistNext]_histVars

\* binary_hist.h: the range that a bucket is printed with holds exactly the
\* values that were counted there, and the ranges leave no gap.
HistRanges ==
    /\ \A p \in 0..bh.n-1 :
         bh.values[p] = FoldLeft(LAMBDA n, a :
             IF Lower(p) <= a[1] /\ (Upper(p) = -1 \/ a[1] <= Upper(p)) THEN n + a[2] ELSE n,
             0, added)
    /\ \A p \in 0..bh.n-2 : Lower(p + 1) = Upper(p) + 1
================================================================================
