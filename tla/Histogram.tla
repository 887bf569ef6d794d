------------------------------- MODULE Histogram -------------------------------
(***************************************************************************)
(* Histogram (src/src/retransmit.js): the last MaxNumValues samples in a   *)
(* circular buffer, and how many of them fall in each bucket.              *)
(***************************************************************************)
EXTENDS Integers, Sequences, FiniteSets

CONSTANTS NumBuckets,       \* opts.reorderBuckets, 10
          MaxNumValues      \* opts.reorderValues, 128

ASSUME HistogramAssumption ==
    NumBuckets \in Nat \ {0} /\ MaxNumValues \in Nat \ {0}

Buckets == 0 .. NumBuckets - 1

EmptyHistogram == [values |-> <<>>, index |-> 0, buckets |-> [b \in Buckets |-> 0]]

HistogramAddLeaky(h, sample) ==     \* slip: the overwritten sample stays counted
    LET v == IF sample > NumBuckets - 1 THEN NumBuckets - 1 ELSE sample
    IN  [values  |-> IF h.index < Len(h.values) THEN [h.values EXCEPT ![h.index + 1] = v]
                     ELSE Append(h.values, v),
         index   |-> (h.index + 1) % MaxNumValues,
         buckets |-> [h.buckets EXCEPT ![v] = @ + 1]]

(* add: the sample replaces the oldest one once the buffer is full.        *)
HistogramAdd(h, sample) ==
    LET v    == IF sample > NumBuckets - 1 THEN NumBuckets - 1 ELSE sample
        full == h.index < Len(h.values)
        left == IF full THEN [h.buckets EXCEPT ![h.values[h.index + 1]] = @ - 1]
                ELSE h.buckets
    IN  [values  |-> IF full THEN [h.values EXCEPT ![h.index + 1] = v]
                     ELSE Append(h.values, v),
         index   |-> (h.index + 1) % MaxNumValues,
         buckets |-> [left EXCEPT ![v] = @ + 1]]

(* inverseCdf(0.5): the least number of buckets that hold half the samples.*)
Median(h) ==
    LET below[b \in 0 .. NumBuckets] ==
            IF b = 0 THEN 0 ELSE below[b - 1] + h.buckets[b - 1]
        reaching == {b \in 0 .. NumBuckets : 2 * below[b] >= Len(h.values)}
    IN  IF h.values = <<>> THEN 0
        ELSE IF reaching = {} THEN NumBuckets
             ELSE CHOOSE b \in reaching : \A c \in reaching : b <= c

(* The counts are those of the samples in the buffer, and the slot to      *)
(* overwrite next is the oldest one.                                       *)
HistogramExact(h) ==
    /\ Len(h.values) <= MaxNumValues
    /\ Len(h.values) < MaxNumValues => h.index = Len(h.values)
    /\ \A b \in Buckets : h.buckets[b] = Cardinality({k \in DOMAIN h.values : h.values[k] = b})
=============================================================================
