------------------------------- MODULE Report -------------------------------
(***************************************************************************)
(* The figures given for latencies by the client's and server's report     *)
(* (shared/src/report.rs) and for round trips by the probe's               *)
(* (ci/src/client.rs).  The code computes with floats; here an             *)
(* interpolated percentile is in hundredths of the unit of its values,     *)
(* which makes it exact.                                                   *)
(***************************************************************************)
EXTENDS Integers, Sequences, FiniteSets, Functions

\* percentile: between the values at the two ranks around p percent of the way
\* from the first to the last, weighted by how far it is from the lower one.
Percentile(sorted, p) ==
    IF sorted = <<>> THEN 0
    ELSE LET index == p * (Len(sorted) - 1)
             lower == index \div 100
             upper == (index + 99) \div 100
             weight == index % 100
         IN  sorted[lower + 1] * (100 - weight) + sorted[upper + 1] * weight

\* The sort before it: at k is the value that k of them do not exceed and fewer
\* are below.
Sorted(values) ==
    LET upTo(x) == {i \in DOMAIN values : values[i] <= x}
        below(x) == {i \in DOMAIN values : values[i] < x}
    IN  [k \in DOMAIN values |->
            CHOOSE x \in Range(values) :
                Cardinality(upTo(x)) >= k /\ Cardinality(below(x)) < k]

\* Mutant: the values are taken in the order in which they came.
UnsortedBand(values) ==
    [p50 |-> Percentile(values, 50), p95 |-> Percentile(values, 95),
     p99 |-> Percentile(values, 99)]

\* The percentiles of a performance summary and of a latency band.
LatencyBand(values) ==
    LET sorted == Sorted(values)
    IN  [p50 |-> Percentile(sorted, 50), p95 |-> Percentile(sorted, 95),
         p99 |-> Percentile(sorted, 99)]

\* The probe's summary: the value at the nearest rank, a half rounded up.
RttSummary(samples) ==
    LET sorted == Sorted(samples)
        pick(q) == sorted[((Len(samples) - 1) * q + 50) \div 100 + 1]
    IN  [p50 |-> 100 * pick(50), p95 |-> 100 * pick(95), p99 |-> 100 * pick(99)]

-----------------------------------------------------------------------------
AtMost(values, v) == {i \in DOMAIN values : values[i] * 100 <= v}
AtLeast(values, v) == {i \in DOMAIN values : values[i] * 100 >= v}

\* What a reader takes the figures for: p50 is a median, at least half of the
\* values are on either side of it; p95 and p99 follow in order, with no more
\* than their share of the values beyond them, but for the last one, and none
\* of the three is outside the values.
Faithful(band, values) ==
    LET n == Len(values)
        beyond(v) == n - Cardinality(AtMost(values, v))
    IN  /\ 2 * Cardinality(AtMost(values, band.p50)) >= n
        /\ 2 * Cardinality(AtLeast(values, band.p50)) >= n
        /\ band.p50 <= band.p95 /\ band.p95 <= band.p99
        /\ 100 * (beyond(band.p95) - 1) <= 5 * n
        /\ 100 * (beyond(band.p99) - 1) <= n
        /\ AtMost(values, band.p50) # {} /\ AtLeast(values, band.p99) # {}
=============================================================================
