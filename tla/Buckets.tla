------------------------------- MODULE Buckets -------------------------------
(***************************************************************************)
(* The bars of the Latency tab: their edges, from the [metrics] settings   *)
(* (internal/metrics/buckets.go), and the latencies counted in them        *)
(* (internal/metrics/histogram.go).  Latencies are in microseconds.        *)
(***************************************************************************)
EXTENDS Integers, Sequences, SequencesExt

CONSTANT Exact  \* the last latency the histogram tells from the next one

\* Appends what rounding gave.
AppendStrictlyIncreasing_Plain(edges, e) == Append(edges, e)

\* An edge that rounding has pushed onto its predecessor moves up by one.
AppendStrictlyIncreasing(edges, e) ==
  Append(edges, IF Len(edges) > 0 /\ e <= edges[Len(edges)]
                THEN edges[Len(edges)] + 1 ELSE e)

StrictlyIncreasing(edges) ==
  \A i, j \in 1..Len(edges) : i < j => edges[i] < edges[j]

AppendAll(edges, new) == FoldLeft(AppendStrictlyIncreasing, edges, new)

\* The configured edges, in halves of a microsecond, are rounded.
ManualEdgesToUs(halves) ==
  AppendAll(<<>>, [i \in DOMAIN halves |->
                    IF halves[i] < 1 THEN 1 ELSE (halves[i] + 1) \div 2])

\* Three quarters of the buckets share the first half of the range.
AutoBucketEdgesUs(wanted, limit) ==
  LET count == IF wanted < 2 THEN 20 ELSE wanted
      maxUs == IF limit < 2 THEN 2 ELSE limit
      share == (3 * count + 2) \div 4
      fineParts == IF share >= count THEN count - 1 ELSE share
      coarseParts == count - fineParts
      half == maxUs \div 2
      fineMax == IF half >= fineParts THEN half
                 ELSE IF fineParts > maxUs THEN maxUs ELSE fineParts
  IN AppendAll(<<>>,
       [i \in 1..fineParts |-> (fineMax * i) \div fineParts]
       \o [i \in 1..coarseParts |-> fineMax + ((maxUs - fineMax) * i) \div coarseParts])

\* layout: the configured edges, or a count.
ResolveBuckets(layout, maxUs) ==
  IF layout.edges # <<>> THEN ManualEdgesToUs(layout.edges)
  ELSE AutoBucketEdgesUs(layout.count, maxUs)

\* What each bar says it covers, the last one whatever is above the edges.
BucketLabels(edges) ==
  [i \in 1..Len(edges) + 1 |->
    [above |-> IF i = 1 THEN 0 ELSE edges[i - 1],
     upTo |-> IF i > Len(edges) THEN -1 ELSE edges[i]]]

\* LatencyHistogram.Record: what the histogram cannot store, which is above
\* top, counts as the end of the range.
Clamp(us, maxUs, top) == IF us < 1 THEN 1 ELSE IF us > top THEN maxUs ELSE us

\* The histogram's own bars are wider than one above Exact; what it gives back
\* is the upper end.
UpperEnd(us) == IF us <= Exact \/ us % 2 = 1 THEN us ELSE us + 1

\* The bar that Buckets puts a recorded value in: the first edge not below it.
BarOf(us, edges) ==
  LET fits == {i \in 1..Len(edges) : us <= edges[i]}
  IN IF fits = {} THEN Len(edges) + 1 ELSE CHOOSE i \in fits : \A j \in fits : i <= j
=============================================================================
