--------------------------- MODULE LatencyHistogram ---------------------------
(***************************************************************************)
(* latency_hist.hpp: a histogram of latencies in one bucket per bit of the *)
(* sample, with exact count, sum, minimum and maximum.  The word has       *)
(* kBuckets bits, 64 in the code.  A percentile is asked for as a fraction *)
(* <<num, den>>; the double it is in the code may fall on either side when *)
(* p * count is an exact half.                                             *)
(***************************************************************************)
EXTENDS Integers, FiniteSetsExt, Functions

CONSTANTS
    kBuckets,   \* bits of a sample
    Percents,   \* fractions that are asked for
    MaxSamples  \* bound: samples between two resets

ASSUME WordAssumption == kBuckets \in Nat \ {0}
ASSUME PercentsAssumption == Percents \subseteq Int \X (Nat \ {0})

VARIABLES
    buckets_, count_, sum_, min_, max_,
    samples  \* ghost: value -> how often it was added since the last reset

histogramVars == <<buckets_, count_, sum_, min_, max_, samples>>

\* 1 << b; the last is the number of words.
Pow2[b \in 0..kBuckets] == IF b = 0 THEN 1 ELSE 2 * Pow2[b - 1]

Word == Pow2[kBuckets]
Values == 0..Word - 1
Buckets == 0..kBuckets - 1

-----------------------------------------------------------------------------
\* 63 - clz(ns | 1), the index of the highest bit set.
BucketOf(ns) ==
    LET odd == IF ns % 2 = 0 THEN ns + 1 ELSE ns
    IN  CHOOSE b \in Buckets : Pow2[b] <= odd /\ odd < Pow2[b + 1]

Empty ==
    [buckets |-> [b \in Buckets |-> 0], count |-> 0, sum |-> 0, min |-> Word - 1, max |-> 0]

Become(h) ==
    /\ buckets_' = h.buckets /\ count_' = h.count /\ sum_' = h.sum
    /\ min_' = h.min /\ max_' = h.max

\* Mutant of reset: the smallest sample so far is kept.
resetKeepsMin ==
    /\ Become([Empty EXCEPT !.min = min_])
    /\ samples' = [v \in Values |-> 0]

reset ==
    /\ Become(Empty)
    /\ samples' = [v \in Values |-> 0]

add(ns) ==
    /\ count_ < MaxSamples
    /\ Become([buckets |-> [buckets_ EXCEPT ![BucketOf(ns)] = @ + 1],
               count   |-> count_ + 1,
               sum     |-> (sum_ + ns) % Word,
               min     |-> IF ns < min_ THEN ns ELSE min_,
               max     |-> IF ns > max_ THEN ns ELSE max_])
    /\ samples' = [samples EXCEPT ![ns] = @ + 1]

minimum == IF count_ = 0 THEN 0 ELSE min_
maximum == IF count_ = 0 THEN 0 ELSE max_

\* Mutant of Rank: the fraction is cut off, not rounded.
RankFloor(p) ==
    LET target == (p[1] * count_) \div p[2]
    IN  IF target = 0 THEN 1 ELSE IF target > count_ THEN count_ ELSE target

\* (uint64) (p * count + 0.5), kept in 1..count.
Rank(p) ==
    LET target == (2 * p[1] * count_ + p[2]) \div (2 * p[2])
    IN  IF target = 0 THEN 1 ELSE IF target > count_ THEN count_ ELSE target

LowerEdge(b) == IF b = 0 THEN 0 ELSE Pow2[b]

\* The first bucket at which the running sum reaches the rank.
percentile_ns(p) ==
    LET reached == {b \in Buckets : SumFunctionOnSet(buckets_, 0..b) >= Rank(p)}
    IN  IF count_ = 0 THEN 0
        ELSE IF p[1] <= 0 THEN min_
        ELSE IF p[1] >= p[2] \/ reached = {} THEN max_
        ELSE LowerEdge(Min(reached))

-----------------------------------------------------------------------------
HistogramInit ==
    /\ buckets_ = Empty.buckets /\ count_ = 0 /\ sum_ = 0
    /\ min_ = Empty.min /\ max_ = 0
    /\ samples = [v \in Values |-> 0]

HistogramNext == reset \/ \E ns \in Values : add(ns)

HistogramSpec == HistogramInit /\ [][HistogramNext]_histogramVars

-----------------------------------------------------------------------------
Seen == {v \in Values : samples[v] > 0}
UpTo(v) == SumFunctionOnSet(samples, 0..v)

\* Count, sum (in its word), minimum and maximum are those of the samples since the
\* last reset, whatever was added before it, also when the only sample is 0 or the
\* largest value, from which min_ and max_ start.
AccumulatorsExact ==
    /\ count_ = UpTo(Word - 1)
    /\ sum_ = SumFunction([v \in Seen |-> v * samples[v]]) % Word
    /\ minimum = IF Seen = {} THEN 0 ELSE Min(Seen)
    /\ maximum = IF Seen = {} THEN 0 ELSE Max(Seen)

\* A percentile strictly between 0 and 1 is the lower edge of the bucket of a sample
\* whose place among the sorted samples is nearest to p * count (the first or the last
\* place when that lies outside): at most that sample, and more than half of it.  The
\* fractions 0 and 1, and those beyond, give the exact extremes, as min() and max() do.
PercentileOfNearestRank ==
    \A p \in Percents :
        LET Off(r) == LET d == r * p[2] - p[1] * count_ IN IF d < 0 THEN -d ELSE d
            edge == percentile_ns(p)
            Sample(r) == Min({v \in Values : UpTo(v) >= r})
        IN  /\ p[1] <= 0 => edge = minimum
            /\ p[1] >= p[2] => edge = maximum
            /\ count_ > 0 /\ 0 < p[1] /\ p[1] < p[2] =>
                  \E r \in 1..count_ :
                      /\ \A q \in 1..count_ : Off(r) <= Off(q)
                      /\ Sample(r) \in edge..(IF edge = 0 THEN 1 ELSE 2 * edge - 1)
=============================================================================
