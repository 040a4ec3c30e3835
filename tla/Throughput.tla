----------------------------- MODULE Throughput -----------------------------
(***************************************************************************)
(* The ring of counters behind MSG/SEC (internal/metrics/throughput.go).   *)
(* Time is counted in slots of bucketDur; a clock reading is a slot.       *)
(***************************************************************************)
EXTENDS Integers, Functions

CONSTANT BucketCount  \* slots of the ring; ten in the code

ASSUME RingAssumption == BucketCount \in Nat \ {0}

Never == -1

\* NewThroughput and Reset.
FreshRing(now) ==
  [slots |-> [i \in 0..BucketCount - 1 |-> 0], lastSlot |-> now, firstRecord |-> Never]

AdvanceWith(t, now, stale) ==
  LET gap == now - t.lastSlot
  IN IF gap <= 0 THEN t
     ELSE [t EXCEPT
             !.slots = [i \in 0..BucketCount - 1 |->
                         IF gap >= BucketCount \/ i \in stale THEN 0 ELSE @[i]],
             !.lastSlot = now]

\* Clears from the slot the clock has left.
Advance_OneEarly(t, now) ==
  AdvanceWith(t, now, {(t.lastSlot + i) % BucketCount : i \in 0..now - t.lastSlot})

\* advance: the slots the clock has moved through are cleared; a reading older
\* than the last one clears nothing.
Advance(t, now) ==
  AdvanceWith(t, now, {(t.lastSlot + i) % BucketCount : i \in 1..now - t.lastSlot})

\* Record, with the clock read before the lock is taken.
RecordEvent(t, now) ==
  LET a == Advance(t, now)
  IN [a EXCEPT !.slots[now % BucketCount] = @ + 1,
               !.firstRecord = IF @ = Never THEN now ELSE @]

\* Rate: the events of the ring over the part of a second, in slots, since the
\* first of them; the code takes a microsecond for zero.
Rate(t, now) ==
  LET a == Advance(t, now)
      since == now - a.firstRecord
  IN [events |-> IF a.firstRecord = Never THEN 0 ELSE SumFunction(a.slots),
      over |-> IF since > BucketCount THEN BucketCount
               ELSE IF since < 0 THEN 0 ELSE since]
=============================================================================
