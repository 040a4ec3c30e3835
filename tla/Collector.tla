------------------------------ MODULE Collector ------------------------------
(***************************************************************************)
(* The metrics collector of a scenario (internal/metrics/collector.go).    *)
(*                                                                         *)
(* Sessions count a request with SubmitSent and hand its outcome over with *)
(* Submit, which never blocks: it drops on a full buffer.  A drain         *)
(* goroutine, one per Start, applies the outcomes.  Stop closes c.done,    *)
(* waits for the drain to close c.doneAck and then puts a new pair of      *)
(* channels into the two fields.  The drain reads the fields, not copies   *)
(* of them, so the pair is numbered: pair is the one in the fields, and    *)
(* listens[d] the one whose done channel drain d is selecting on.          *)
(*                                                                         *)
(* Next obeys the rule at collector.go:164-166: no Submit after Stop until *)
(* Start.  Runner composes these actions with the callers the program has. *)
(***************************************************************************)
EXTENDS Integers, Sequences

CONSTANTS
  Capacity,   \* of the results channel
  Kinds,      \* the outcomes the sessions report
  MaxStarts,  \* bound: Start calls
  MaxSent     \* bound: SubmitSent and render failures between two ResetAlls

\* An error, a fire-and-forget send, a reply no predicate or some predicate matches.
AllKinds == {"err", "faf", "plain", "matched"}

ASSUME CollectorAssumption ==
  /\ Capacity \in Nat
  /\ Kinds \subseteq AllKinds
  /\ MaxStarts \in Nat \ {0}
  /\ MaxSent \in Nat

Drains   == 1 .. MaxStarts   \* the goroutine of each Start
Stoppers == 0 .. MaxStarts   \* who may call Stop: 0 for Runner.Stop, or a watcher

VARIABLES
  sent, received, errors, dropped,  \* the atomic counters
  recorded,    \* latencies in the global histogram
  matched,     \* total of the predicate counters
  results,     \* the buffered channel
  starts,      \* Start calls so far
  stopwatch,   \* c.startTime is set: Snapshot adds live time to elapsedBank
  drain,       \* where each drain goroutine is
  hand,        \* the outcome a drain goroutine is applying
  closing,     \* the drain goroutine is in its inner loop
  listens,     \* the pair of channels a drain goroutine selects on
  pair,        \* the pair of channels in c.done and c.doneAck
  doneClosed,  \* pairs whose done channel is closed
  ackClosed,   \* pairs whose doneAck channel is closed
  awaits,      \* the pair whose doneAck a caller of Stop awaits, 0 when in none
  inFlight,    \* history: requests counted by SubmitSent, outcome not submitted
  unsent,      \* history: outcomes submitted without a SubmitSent (render errors)
  panicked     \* a channel was closed twice and the process is gone

counters == <<sent, received, errors, dropped, recorded, matched>>
handover == <<doneClosed, ackClosed, awaits, pair, stopwatch>>
history  == <<inFlight, unsent>>
colState == <<counters, results, starts, drain, hand, closing, listens, handover,
              history>>
colVars  == <<colState, panicked>>

DrainPhases == {"none", "loop", "take", "count", "record", "gone"}

TypeOK ==
  /\ {sent, received, errors, dropped, recorded, matched} \subseteq Nat
  /\ results \in Seq(Kinds)
  /\ Len(results) <= Capacity
  /\ starts \in 0 .. MaxStarts
  /\ stopwatch \in BOOLEAN
  /\ drain \in [Drains -> DrainPhases]
  /\ hand \in [Drains -> Kinds \union {"nothing"}]
  /\ closing \in [Drains -> BOOLEAN]
  /\ listens \in [Drains -> Nat]
  /\ pair \in Nat \ {0}
  /\ doneClosed \subseteq Nat
  /\ ackClosed \subseteq Nat
  /\ awaits \in [Stoppers -> Nat]
  /\ inFlight \in Nat
  /\ unsent \in Nat
  /\ panicked \in BOOLEAN

Init ==
  /\ sent = 0 /\ received = 0 /\ errors = 0 /\ dropped = 0
  /\ recorded = 0 /\ matched = 0
  /\ results = <<>>
  /\ starts = 0
  /\ stopwatch = FALSE
  /\ drain = [d \in Drains |-> "none"]
  /\ hand = [d \in Drains |-> "nothing"]
  /\ closing = [d \in Drains |-> FALSE]
  /\ listens = [d \in Drains |-> 0]
  /\ pair = 1
  /\ doneClosed = {}
  /\ ackClosed = {}
  /\ awaits = [x \in Stoppers |-> 0]
  /\ inFlight = 0
  /\ unsent = 0
  /\ panicked = FALSE

-----------------------------------------------------------------------------
(***************************************************************************)
(* What the sessions call.                                                 *)
(***************************************************************************)
SubmitSent ==
  /\ sent' = sent + 1
  /\ inFlight' = inFlight + 1
  /\ UNCHANGED <<received, errors, dropped, recorded, matched, results, starts, drain,
                 hand, closing, listens, handover, unsent, panicked>>

\* The select with a default: room says whether the buffer takes k.
Post(k, room, drop) ==
  IF room
    THEN results' = Append(results, k) /\ UNCHANGED dropped
    ELSE dropped' = dropped + drop /\ UNCHANGED results

\* Loses the outcome on a full buffer without counting it.
Offer_Uncounted(k) == Post(k, Len(results) < Capacity, 0)
Offer_OffByOne(k) == Post(k, Len(results) <= Capacity, 1)

Offer(k) == Post(k, Len(results) < Capacity, 1)

\* The outcome of a request that was counted as sent.
Submit(k) ==
  /\ Offer(k)
  /\ inFlight' = inFlight - 1
  /\ UNCHANGED <<sent, received, errors, recorded, matched, starts, drain, hand,
                 closing, listens, handover, unsent, panicked>>

\* The outcome of a step that failed before it sent anything.
SubmitUnsent ==
  /\ Offer("err")
  /\ unsent' = unsent + 1
  /\ UNCHANGED <<sent, received, errors, recorded, matched, starts, drain, hand,
                 closing, listens, handover, inFlight, panicked>>

-----------------------------------------------------------------------------
(***************************************************************************)
(* The drain goroutine d.                                                  *)
(***************************************************************************)
DrainAt(d, phase) == drain' = [drain EXCEPT ![d] = phase]

\* `go c.drain()`: the goroutine runs later.
Start ==
  LET d == starts + 1 IN
  /\ starts < MaxStarts
  /\ starts' = d
  /\ stopwatch' = TRUE
  /\ DrainAt(d, "loop")
  /\ UNCHANGED <<counters, results, hand, closing, listens, doneClosed, ackClosed, awaits,
                 pair, history, panicked>>

\* The outer select reads the field c.done and then blocks.
Select(d) ==
  /\ drain[d] = "loop"
  /\ listens' = [listens EXCEPT ![d] = pair]
  /\ DrainAt(d, "take")
  /\ UNCHANGED <<counters, results, starts, hand, closing, handover, history, panicked>>

Take(d) ==
  /\ drain[d] = "take"
  /\ results # <<>>
  /\ results' = Tail(results)
  /\ hand' = [hand EXCEPT ![d] = Head(results)]
  /\ DrainAt(d, "count")
  /\ UNCHANGED <<counters, starts, closing, listens, handover, history, panicked>>

SeeDone(d) ==
  /\ drain[d] = "take"
  /\ ~ closing[d]
  /\ listens[d] \in doneClosed
  /\ closing' = [closing EXCEPT ![d] = TRUE]
  /\ UNCHANGED <<counters, results, starts, drain, hand, listens, handover, history,
                 panicked>>

\* Back at the top of the loop that the goroutine is in.
LoopAgain(d) ==
  /\ DrainAt(d, IF closing[d] THEN "take" ELSE "loop")
  /\ hand' = [hand EXCEPT ![d] = "nothing"]

\* The first half of apply.
Count(d) ==
  /\ drain[d] = "count"
  /\ IF hand[d] = "err"
       THEN errors' = errors + 1 /\ UNCHANGED received
       ELSE received' = received + 1 /\ UNCHANGED errors
  /\ IF hand[d] \in {"err", "faf"}
       THEN LoopAgain(d)
       ELSE DrainAt(d, "record") /\ UNCHANGED hand
  /\ UNCHANGED <<sent, dropped, recorded, matched, results, starts, closing, listens,
                 handover, history, panicked>>

\* The second half, for replies with a latency.
Record(d) ==
  /\ drain[d] = "record"
  /\ recorded' = recorded + 1
  /\ matched' = IF hand[d] = "matched" THEN matched + 1 ELSE matched
  /\ LoopAgain(d)
  /\ UNCHANGED <<sent, received, errors, dropped, results, starts, closing, listens,
                 handover, history, panicked>>

\* The inner loop's default: close(c.doneAck), the field.
Finish(d, emptied) ==
  /\ drain[d] = "take"
  /\ closing[d]
  /\ emptied
  /\ IF pair \in ackClosed
       THEN panicked' = TRUE /\ UNCHANGED <<ackClosed, drain>>
       ELSE /\ ackClosed' = ackClosed \union {pair}
            /\ DrainAt(d, "gone")
            /\ UNCHANGED panicked
  /\ UNCHANGED <<counters, results, starts, hand, closing, listens, doneClosed, awaits,
                 pair, stopwatch, history>>

\* Acknowledges as soon as done is seen, without the inner loop.
Acknowledge_NoInnerLoop(d) == Finish(d, TRUE)

Acknowledge(d) == Finish(d, results = <<>>)

-----------------------------------------------------------------------------
(***************************************************************************)
(* Stop by x, in two steps, and ResetAll.                                  *)
(***************************************************************************)
\* next is the pair the fields hold while Stop waits.
CloseAndAwait(x, next) ==
  /\ awaits[x] = 0
  /\ IF pair \in doneClosed
       THEN panicked' = TRUE /\ UNCHANGED <<doneClosed, awaits, pair>>
       ELSE /\ doneClosed' = doneClosed \union {pair}
            /\ pair' = next
            /\ awaits' = [awaits EXCEPT ![x] = next]
            /\ UNCHANGED panicked
  /\ UNCHANGED <<counters, results, starts, drain, hand, closing, listens, ackClosed,
                 stopwatch, history>>

\* Recreates the channels before the wait instead of after it.
CloseDone_EarlySwap(x) == CloseAndAwait(x, pair + 1)

CloseDone(x) == CloseAndAwait(x, pair)

Return(x, next) ==
  /\ awaits[x] # 0
  /\ awaits[x] \in ackClosed
  /\ stopwatch' = FALSE
  /\ pair' = next
  /\ awaits' = [awaits EXCEPT ![x] = 0]
  /\ UNCHANGED <<counters, results, starts, drain, hand, closing, listens, doneClosed,
                 ackClosed, history, panicked>>

\* Leaves the closed channels in the fields.
AckReceived_KeepsChannels(x) == Return(x, pair)

AckReceived(x) == Return(x, pair + 1)

\* Leaves the buffer and startTime alone.
ResetAll ==
  /\ sent' = 0 /\ received' = 0 /\ errors' = 0 /\ dropped' = 0
  /\ recorded' = 0 /\ matched' = 0
  /\ unsent' = 0
  /\ UNCHANGED <<results, starts, drain, hand, closing, listens, handover, inFlight,
                 panicked>>

-----------------------------------------------------------------------------
\* Every Stop has returned, and every drain goroutine with it.
Stopped ==
  /\ \A d \in Drains : drain[d] \in {"none", "gone"}
  /\ \A x \in Stoppers : awaits[x] = 0

\* A drain goroutine is there, and no Stop has begun.
Open ==
  /\ ~ Stopped
  /\ \A x \in Stoppers : awaits[x] = 0

Sessions ==
  \/ Open /\ sent + unsent < MaxSent /\ SubmitSent
  \/ Open /\ inFlight > 0 /\ \E k \in Kinds : Submit(k)
  \/ Open /\ "err" \in Kinds /\ sent + unsent < MaxSent /\ SubmitUnsent

DrainStep(d) ==
  \/ Select(d) \/ Take(d) \/ SeeDone(d)
  \/ Count(d) \/ Record(d) \/ Acknowledge(d)

Owner ==
  \/ Stopped /\ Start
  \/ Stopped /\ ResetAll
  \/ Open /\ inFlight = 0 /\ \E x \in Stoppers : CloseDone(x)

StopStep(x) == AckReceived(x)

Next ==
  /\ ~ panicked
  /\ \/ Sessions
     \/ Owner
     \/ \E d \in Drains : DrainStep(d)
     \/ \E x \in Stoppers : StopStep(x)

SafeSpec == Init /\ [][Next]_colVars

-----------------------------------------------------------------------------
\* Outcomes between results and the counters; Next has one drain at a time.
InHand == IF starts # 0 /\ drain[starts] = "count" THEN 1 ELSE 0

(* At every moment each request that was counted as sent, and each step    *)
(* that failed before sending, is in flight, in the buffer, in the drain's *)
(* hand or in exactly one of received, errors, dropped: the full buffer,   *)
(* the two-step apply and the hand-over at Stop lose none and count none   *)
(* twice (collector.go:210-267).                                           *)
NothingLost ==
  sent + unsent = inFlight + Len(results) + InHand + received + errors + dropped

(* When Stop has returned the figures are final: the buffer is empty,      *)
(* every outcome is in a counter and the clock behind Elapsed has stopped  *)
(* (collector.go:164-183, 225-245).                                        *)
FinalWhenStopped ==
  Stopped =>
    /\ results = <<>>
    /\ sent + unsent = received + errors + dropped
    /\ ~ stopwatch

(* Alternating Start and Stop never closes c.done or c.doneAck twice.      *)
NoDoubleClose == ~ panicked
=============================================================================
