--------------------------- MODULE CollectorProofs ---------------------------
(***************************************************************************)
(* Proofs about Collector, for every buffer size, set of outcomes and      *)
(* number of starts.                                                       *)
(***************************************************************************)
EXTENDS Collector, TLAPS

Active(d) == drain[d] \notin {"none", "gone"}
Stopping  == \E x \in Stoppers : awaits[x] # 0

(***************************************************************************)
(* The inductive invariant.  The only drain goroutine that can be active   *)
(* is that of the last Start; it listens on the pair in the fields, and    *)
(* the done channel of that pair is closed exactly while a Stop waits.     *)
(***************************************************************************)
OneDrain ==
  \A d \in Drains :
    /\ d < starts => drain[d] = "gone"
    /\ d = starts => drain[d] # "none"
    /\ d > starts => drain[d] = "none" /\ ~ closing[d]

OneStop ==
  /\ \A x \in Stoppers : awaits[x] \in {0, pair}
  /\ \A x, y \in Stoppers : awaits[x] # 0 /\ awaits[y] # 0 => x = y
  /\ pair \in doneClosed <=> Stopping

FreshChannels ==
  /\ doneClosed \subseteq 1 .. pair
  /\ ackClosed \subseteq 1 .. pair
  /\ pair \in ackClosed => pair \in doneClosed

Listening ==
  \A d \in Drains : Active(d) =>
    /\ pair \notin ackClosed
    /\ drain[d] # "loop" => listens[d] = pair
    /\ closing[d] => pair \in doneClosed

\* Nothing is left to do without a drain goroutine, and nothing arrives during Stop.
Quiet ==
  /\ (\A d \in Drains : ~ Active(d)) => results = <<>> /\ inFlight = 0
  /\ pair \in doneClosed => inFlight = 0
  /\ stopwatch => ~ Stopped

HandOver == OneDrain /\ OneStop /\ FreshChannels /\ Listening /\ Quiet /\ ~ panicked

-----------------------------------------------------------------------------
(***************************************************************************)
(* Types.                                                                  *)
(***************************************************************************)
LEMMA InitTyped == Init => TypeOK
<1>. SUFFICES ASSUME Init PROVE TypeOK
  OBVIOUS
<1>1. stopwatch \in BOOLEAN /\ panicked \in BOOLEAN
  BY Zenon DEF Init
<1>2. closing \in [Drains -> BOOLEAN]
  BY DEF Init
<1>3. results \in Seq(Kinds) /\ Len(results) <= Capacity
  BY CollectorAssumption DEF Init
<1>. QED
  BY <1>1, <1>2, <1>3, CollectorAssumption DEF Init, TypeOK, DrainPhases

LEMMA OfferTyped ==
  ASSUME TypeOK, NEW k \in Kinds, Offer(k)
  PROVE  /\ results' \in Seq(Kinds)
         /\ Len(results') <= Capacity
         /\ dropped' \in Nat
         /\ Len(results') + dropped' = Len(results) + dropped + 1
<1>. USE CollectorAssumption DEF TypeOK
<1>1. CASE Len(results) < Capacity
  <2>1. results' = Append(results, k) /\ dropped' = dropped
    BY <1>1 DEF Offer, Post
  <2>. QED
    BY <1>1, <2>1
<1>2. CASE ~ (Len(results) < Capacity)
  <2>1. results' = results /\ dropped' = dropped + 1
    BY <1>2 DEF Offer, Post
  <2>. QED
    BY <2>1
<1>. QED
  BY <1>1, <1>2

LEMMA DrainStepTyped ==
  ASSUME TypeOK, NEW d \in Drains, DrainStep(d)
  PROVE  TypeOK'
<1>. USE CollectorAssumption DEF TypeOK, DrainPhases, DrainAt, LoopAgain, handover, history, counters
<1>1. CASE Select(d)
  BY <1>1 DEF Select
<1>2. CASE Take(d)
  <2>1. /\ Head(results) \in Kinds
        /\ results' \in Seq(Kinds)
        /\ Len(results') <= Capacity
    BY <1>2 DEF Take
  <2>. QED
    BY <1>2, <2>1 DEF Take
<1>3. CASE SeeDone(d)
  BY <1>3 DEF SeeDone
<1>4. CASE Count(d)
  <2>1. errors' \in Nat /\ received' \in Nat
    BY <1>4 DEF Count
  <2>2. drain' \in [Drains -> DrainPhases] /\ hand' \in [Drains -> Kinds \union {"nothing"}]
    BY <1>4 DEF Count
  <2>. QED
    BY <1>4, <2>1, <2>2 DEF Count
<1>5. CASE Record(d)
  BY <1>5 DEF Record
<1>6. CASE Acknowledge(d)
  <2>1. panicked' \in BOOLEAN
    BY <1>6, Zenon DEF Acknowledge, Finish
  <2>2. drain' \in [Drains -> DrainPhases] /\ ackClosed' \subseteq Nat
    BY <1>6 DEF Acknowledge, Finish
  <2>. QED
    BY <1>6, <2>1, <2>2 DEF Acknowledge, Finish
<1>. QED
  BY <1>1, <1>2, <1>3, <1>4, <1>5, <1>6 DEF DrainStep

LEMMA StepTyped ==
  ASSUME TypeOK, Next
  PROVE  TypeOK'
<1>. USE CollectorAssumption DEF TypeOK, DrainPhases, handover, history, counters
<1>1. CASE Open /\ SubmitSent
  BY <1>1 DEF SubmitSent
<1>2. ASSUME inFlight > 0, NEW k \in Kinds, Submit(k)
      PROVE  TypeOK'
  <2>1. /\ results' \in Seq(Kinds)
        /\ Len(results') <= Capacity
        /\ dropped' \in Nat
    BY <1>2, OfferTyped DEF Submit
  <2>. QED
    BY <1>2, <2>1 DEF Submit
<1>3. CASE "err" \in Kinds /\ SubmitUnsent
  <2>1. /\ results' \in Seq(Kinds)
        /\ Len(results') <= Capacity
        /\ dropped' \in Nat
    BY <1>3, OfferTyped DEF SubmitUnsent
  <2>. QED
    BY <1>3, <2>1 DEF SubmitUnsent
<1>4. CASE Start
  BY <1>4 DEF Start, DrainAt, Drains
<1>5. CASE ResetAll
  BY <1>5 DEF ResetAll
<1>6. ASSUME NEW x \in Stoppers, CloseDone(x)
      PROVE  TypeOK'
  <2>1. panicked' \in BOOLEAN
    BY <1>6, Zenon DEF CloseDone, CloseAndAwait
  <2>2. /\ doneClosed' \subseteq Nat
        /\ awaits' \in [Stoppers -> Nat]
        /\ pair' = pair
    BY <1>6 DEF CloseDone, CloseAndAwait
  <2>. QED
    BY <1>6, <2>1, <2>2 DEF CloseDone, CloseAndAwait
<1>7. ASSUME NEW d \in Drains, DrainStep(d)
      PROVE  TypeOK'
  BY <1>7, DrainStepTyped
<1>8. ASSUME NEW x \in Stoppers, AckReceived(x)
      PROVE  TypeOK'
  <2>1. stopwatch' \in BOOLEAN
    BY <1>8, Zenon DEF AckReceived, Return
  <2>. QED
    BY <1>8, <2>1 DEF AckReceived, Return
<1>. QED
  BY <1>1, <1>2, <1>3, <1>4, <1>5, <1>6, <1>7, <1>8 DEF Next, Sessions, Owner, StopStep

(* The collector's variables keep their types; in particular the buffer    *)
(* never holds more than its capacity (collector.go:43-107, 217-223).      *)
THEOREM CollectorTypeCorrect == SafeSpec => []TypeOK
<1>1. TypeOK /\ [Next]_colVars => TypeOK'
  <2>1. ASSUME TypeOK, UNCHANGED colVars
        PROVE  TypeOK'
    BY <2>1 DEF colVars, colState, counters, handover, history, TypeOK
  <2>. QED
    BY <2>1, StepTyped
<1>. QED
  BY <1>1, InitTyped, PTL DEF SafeSpec

-----------------------------------------------------------------------------
(***************************************************************************)
(* The hand-over.                                                          *)
(***************************************************************************)
\* Whoever is active was spawned by the last Start.
LEMMA OnlyOne ==
  ASSUME TypeOK, OneDrain, NEW d \in Drains, Active(d)
  PROVE  d = starts
BY CollectorAssumption DEF TypeOK, OneDrain, Active, Drains

LEMMA OpenMeansActive ==
  ASSUME TypeOK, OneStop, Open
  PROVE  pair \notin doneClosed /\ \E d \in Drains : Active(d)
BY DEF Open, Stopped, OneStop, Stopping, Active

LEMMA StoppedMeansIdle ==
  ASSUME TypeOK, OneDrain, OneStop, FreshChannels, Stopped
  PROVE  /\ pair \notin doneClosed /\ pair \notin ackClosed
         /\ \A d \in Drains : ~ Active(d) /\ (d <= starts => drain[d] = "gone")
<1>1. pair \notin doneClosed
  BY DEF Stopped, OneStop, Stopping
<1>2. \A d \in Drains : d <= starts => drain[d] = "gone"
  BY CollectorAssumption DEF Stopped, OneDrain, TypeOK, Drains
<1>. QED
  BY <1>1, <1>2 DEF Stopped, Active, FreshChannels

\* What the sessions do leaves the channels alone.
LEMMA SessionsKeepHandOver ==
  ASSUME TypeOK, HandOver, Open,
         UNCHANGED <<starts, drain, closing, listens, pair, doneClosed, ackClosed, awaits,
                     stopwatch, panicked>>
  PROVE  HandOver'
<1>1. OneDrain' /\ OneStop' /\ FreshChannels' /\ Listening' /\ ~ panicked'
  BY DEF HandOver, OneDrain, OneStop, FreshChannels, Listening, Stopping, Active
<1>2. Quiet'
  BY OpenMeansActive DEF HandOver, Quiet, Active, Stopped
<1>. QED
  BY <1>1, <1>2 DEF HandOver

LEMMA StartHandOver ==
  ASSUME TypeOK, HandOver, Stopped, Start
  PROVE  HandOver'
<1>. USE CollectorAssumption DEF TypeOK, HandOver
<1>. DEFINE e == starts + 1
<1>1. /\ e \in Drains /\ starts' = e
      /\ drain' = [drain EXCEPT ![e] = "loop"]
      /\ UNCHANGED <<results, inFlight, closing, listens, doneClosed, ackClosed, awaits, pair,
                     panicked>>
  BY DEF Start, DrainAt, Drains, history
<1>2. /\ pair \notin doneClosed /\ pair \notin ackClosed
      /\ \A d \in Drains : ~ Active(d) /\ (d <= starts => drain[d] = "gone")
  BY StoppedMeansIdle
<1>3. OneDrain'
  BY <1>1, <1>2 DEF OneDrain, Drains
<1>4. OneStop' /\ FreshChannels'
  BY <1>1 DEF OneStop, FreshChannels, Stopping
<1>5. Listening'
  BY <1>1, <1>2 DEF Listening, Active, OneDrain, Drains
<1>6. drain'[e] = "loop"
  BY <1>1
<1>7. Quiet'
  BY <1>1, <1>2, <1>6 DEF Quiet, Active, Stopped
<1>. QED
  BY <1>1, <1>3, <1>4, <1>5, <1>7

\* A step of the drain goroutine that neither takes nor finishes.
LEMMA BusyDrainHandOver ==
  ASSUME TypeOK, HandOver, NEW d \in Drains, Active(d), Active(d)',
         \A c \in Drains \ {d} : drain'[c] = drain[c] /\ closing'[c] = closing[c]
                                 /\ listens'[c] = listens[c],
         (drain'[d] # "loop") => listens'[d] = pair,
         closing'[d] => pair \in doneClosed,
         UNCHANGED <<starts, inFlight, pair, doneClosed, ackClosed, awaits, stopwatch, panicked>>
  PROVE  HandOver'
<1>. USE CollectorAssumption DEF TypeOK, HandOver
<1>1. d = starts
  BY OnlyOne
<1>2. OneDrain'
  BY <1>1 DEF OneDrain, Active, Drains
<1>3. OneStop' /\ FreshChannels'
  BY DEF OneStop, FreshChannels, Stopping
<1>4. pair \notin ackClosed
  BY DEF Listening
<1>5. Listening'
  BY <1>4 DEF Listening, Active
<1>6. Quiet'
  BY DEF Quiet, Active, Stopped
<1>. QED
  BY <1>2, <1>3, <1>5, <1>6

LEMMA DrainStepHandOver ==
  ASSUME TypeOK, HandOver, NEW d \in Drains, DrainStep(d)
  PROVE  HandOver'
<1>. USE CollectorAssumption DEF TypeOK
<1>1. pair \notin ackClosed \/ ~ Active(d)
  BY DEF HandOver, Listening
<1>2. CASE Select(d)
  <2>1. Active(d) /\ Active(d)' /\ listens'[d] = pair /\ (closing'[d] => pair \in doneClosed)
    BY <1>2 DEF Select, DrainAt, Active, HandOver, Listening
  <2>. QED
    BY <1>2, <2>1, BusyDrainHandOver DEF Select, DrainAt, history, handover
<1>3. CASE Take(d)
  <2>1. Active(d) /\ Active(d)' /\ listens'[d] = pair /\ (closing'[d] => pair \in doneClosed)
    BY <1>3 DEF Take, DrainAt, Active, HandOver, Listening
  <2>. QED
    BY <1>3, <2>1, BusyDrainHandOver DEF Take, DrainAt, history, handover
<1>4. CASE SeeDone(d)
  <2>1. Active(d) /\ Active(d)' /\ listens'[d] = pair /\ pair \in doneClosed
    BY <1>4 DEF SeeDone, Active, HandOver, Listening
  <2>. QED
    BY <1>4, <2>1, BusyDrainHandOver DEF SeeDone, history, handover
<1>5. CASE Count(d) \/ Record(d)
  <2>1. /\ Active(d)
        /\ listens[d] = pair
        /\ closing[d] => pair \in doneClosed
    BY <1>5 DEF Count, Record, Active, HandOver, Listening
  <2>2. /\ drain'[d] \in {"loop", "take", "record"}
        /\ \A c \in Drains \ {d} : drain'[c] = drain[c]
    BY <1>5 DEF Count, Record, LoopAgain, DrainAt
  <2>3. UNCHANGED <<closing, listens, starts, inFlight, pair, doneClosed, ackClosed, awaits,
                    stopwatch, panicked>>
    BY <1>5 DEF Count, Record, handover, history
  <2>4. Active(d)'
    BY <2>2 DEF Active
  <2>. QED
    BY <2>1, <2>2, <2>3, <2>4, BusyDrainHandOver
<1>6. CASE Acknowledge(d)
  <2>1. Active(d) /\ closing[d] /\ results = <<>> /\ pair \notin ackClosed /\ pair \in doneClosed
    BY <1>6 DEF Acknowledge, Finish, Active, HandOver, Listening
  <2>2. /\ ackClosed' = ackClosed \union {pair}
        /\ drain' = [drain EXCEPT ![d] = "gone"]
        /\ UNCHANGED <<results, starts, closing, listens, doneClosed, awaits, pair, stopwatch,
                       inFlight, panicked>>
    BY <1>6, <2>1 DEF Acknowledge, Finish, DrainAt, history
  <2>3. d = starts /\ \A c \in Drains : Active(c) => c = d
    BY <2>1, OnlyOne DEF HandOver
  <2>4. \A c \in Drains : ~ Active(c)'
    BY <2>2, <2>3 DEF Active
  <2>5. OneDrain' /\ OneStop' /\ FreshChannels'
    BY <2>1, <2>2, <2>3 DEF HandOver, OneDrain, OneStop, FreshChannels, Stopping
  <2>6. Quiet'
    BY <2>1, <2>2 DEF HandOver, Quiet, OneStop, Stopping, Stopped
  <2>. QED
    BY <2>2, <2>4, <2>5, <2>6 DEF HandOver, Listening
<1>. QED
  BY <1>2, <1>3, <1>4, <1>5, <1>6 DEF DrainStep

LEMMA StopHandOver ==
  ASSUME TypeOK, HandOver, NEW x \in Stoppers,
         (Open /\ inFlight = 0 /\ CloseDone(x)) \/ AckReceived(x)
  PROVE  HandOver'
<1>. USE CollectorAssumption DEF TypeOK
<1>1. CASE Open /\ inFlight = 0 /\ CloseDone(x)
  <2>1. pair \notin doneClosed
    BY <1>1, OpenMeansActive DEF HandOver
  <2>2. /\ doneClosed' = doneClosed \union {pair}
        /\ awaits' = [awaits EXCEPT ![x] = pair]
        /\ UNCHANGED <<results, starts, drain, closing, listens, ackClosed, pair, stopwatch,
                       inFlight, panicked>>
    BY <1>1, <2>1 DEF CloseDone, CloseAndAwait, history
  <2>3. \A y \in Stoppers : awaits[y] = 0
    BY <1>1 DEF Open
  <2>4. OneStop'
    BY <2>2, <2>3 DEF OneStop, Stopping
  <2>5. OneDrain' /\ FreshChannels' /\ Listening'
    BY <2>2 DEF HandOver, OneDrain, FreshChannels, Listening, Active
  <2>6. Quiet'
    BY <1>1, <2>2 DEF HandOver, Quiet, Active, Stopped
  <2>. QED
    BY <2>2, <2>4, <2>5, <2>6 DEF HandOver
<1>2. CASE AckReceived(x)
  <2>1. /\ awaits[x] = pair /\ pair \in ackClosed
        /\ \A y \in Stoppers \ {x} : awaits[y] = 0
    BY <1>2 DEF AckReceived, Return, HandOver, OneStop
  <2>2. /\ pair' = pair + 1
        /\ awaits' = [awaits EXCEPT ![x] = 0]
        /\ ~ stopwatch'
        /\ UNCHANGED <<results, starts, drain, closing, listens, doneClosed, ackClosed, inFlight,
                       panicked>>
    BY <1>2 DEF AckReceived, Return, history
  <2>3. pair' \notin doneClosed /\ pair' \notin ackClosed
    BY <2>2 DEF HandOver, FreshChannels
  <2>4. OneStop'
    BY <2>1, <2>2, <2>3 DEF OneStop, Stopping
  <2>5. OneDrain' /\ FreshChannels'
    BY <2>2, <2>3 DEF HandOver, OneDrain, FreshChannels
  <2>6. Listening'
    BY <2>1, <2>2 DEF HandOver, Listening, Active
  <2>7. Quiet'
    BY <2>2, <2>3 DEF HandOver, Quiet, Active
  <2>. QED
    BY <2>2, <2>4, <2>5, <2>6, <2>7 DEF HandOver
<1>. QED
  BY <1>1, <1>2

LEMMA StepHandOver ==
  ASSUME TypeOK, HandOver, Next
  PROVE  HandOver'
<1>1. CASE Sessions
  <2>1. Open /\ UNCHANGED <<starts, drain, closing, listens, pair, doneClosed, ackClosed, awaits,
                           stopwatch, panicked>>
    BY <1>1 DEF Sessions, SubmitSent, Submit, SubmitUnsent, handover
  <2>. QED
    BY <2>1, SessionsKeepHandOver
<1>2. CASE Stopped /\ Start
  BY <1>2, StartHandOver
<1>3. CASE Stopped /\ ResetAll
  <2>1. UNCHANGED <<results, starts, drain, closing, listens, pair, doneClosed, ackClosed, awaits,
                    stopwatch, inFlight, panicked>>
    BY <1>3 DEF ResetAll, handover
  <2>. QED
    BY <2>1 DEF HandOver, OneDrain, OneStop, FreshChannels, Listening, Quiet, Stopping, Stopped,
                Active
<1>4. CASE \E d \in Drains : DrainStep(d)
  BY <1>4, DrainStepHandOver
<1>5. ASSUME NEW x \in Stoppers, (Open /\ inFlight = 0 /\ CloseDone(x)) \/ AckReceived(x)
      PROVE  HandOver'
  BY <1>5, StopHandOver
<1>. QED
  BY <1>1, <1>2, <1>3, <1>4, <1>5 DEF Next, Owner, StopStep

LEMMA AlwaysHandOver == SafeSpec => []HandOver
<1>1. Init => HandOver
  BY CollectorAssumption DEF Init, HandOver, OneDrain, OneStop, FreshChannels, Listening, Quiet,
     Stopping, Active, Drains
<1>2. TypeOK /\ HandOver /\ [Next]_colVars => HandOver'
  <2>1. ASSUME HandOver, UNCHANGED colVars
        PROVE  HandOver'
    BY <2>1 DEF colVars, colState, counters, handover, history, HandOver, OneDrain, OneStop,
       FreshChannels, Listening, Quiet, Stopping, Stopped, Active
  <2>. QED
    BY <2>1, StepHandOver
<1>. QED
  BY <1>1, <1>2, CollectorTypeCorrect, PTL DEF SafeSpec

(* Alternating Start and Stop, by whichever callers, never closes c.done   *)
(* or c.doneAck twice (collector.go:167-183, 239).                         *)
THEOREM ChannelsClosedOnce == SafeSpec => []NoDoubleClose
<1>1. HandOver => NoDoubleClose
  BY DEF HandOver, NoDoubleClose
<1>. QED
  BY <1>1, AlwaysHandOver, PTL

-----------------------------------------------------------------------------
(***************************************************************************)
(* The account.                                                            *)
(***************************************************************************)
LEMMA Numbers ==
  ASSUME TypeOK
  PROVE  /\ sent \in Nat /\ received \in Nat /\ errors \in Nat /\ dropped \in Nat
         /\ unsent \in Nat /\ inFlight \in Nat /\ Len(results) \in Nat /\ InHand \in Nat
<1>1. InHand \in Nat
  BY DEF InHand
<1>. QED
  BY <1>1 DEF TypeOK

LEMMA SessionsAccount ==
  ASSUME TypeOK, NothingLost, Sessions
  PROVE  NothingLost'
<1>. /\ sent \in Nat /\ received \in Nat /\ errors \in Nat /\ dropped \in Nat
     /\ unsent \in Nat /\ inFlight \in Nat /\ Len(results) \in Nat /\ InHand \in Nat
  BY Numbers
<1>. USE DEF NothingLost
<1>0. InHand' = InHand
  BY DEF Sessions, SubmitSent, Submit, SubmitUnsent, InHand
<1>1. CASE SubmitSent
  <2>1. /\ sent' = sent + 1 /\ inFlight' = inFlight + 1
        /\ UNCHANGED <<unsent, results, received, errors, dropped>>
    BY <1>1 DEF SubmitSent
  <2>. QED
    BY <1>0, <2>1
<1>2. ASSUME inFlight > 0, NEW k \in Kinds, Submit(k)
      PROVE  NothingLost'
  <2>1. Len(results') + dropped' = Len(results) + dropped + 1
        /\ Len(results') \in Nat /\ dropped' \in Nat
    <3>1. Offer(k)
      BY <1>2 DEF Submit
    <3>2. results' \in Seq(Kinds)
      BY <3>1, OfferTyped
    <3>. QED
      BY <3>1, <3>2, OfferTyped
  <2>2. inFlight' = inFlight - 1 /\ UNCHANGED <<sent, unsent, received, errors>>
    BY <1>2 DEF Submit
  <2>. QED
    BY <1>0, <2>1, <2>2
<1>3. CASE "err" \in Kinds /\ SubmitUnsent
  <2>1. Len(results') + dropped' = Len(results) + dropped + 1
        /\ Len(results') \in Nat /\ dropped' \in Nat
    <3>1. Offer("err")
      BY <1>3 DEF SubmitUnsent
    <3>2. results' \in Seq(Kinds)
      BY <1>3, <3>1, OfferTyped
    <3>. QED
      BY <1>3, <3>1, <3>2, OfferTyped
  <2>2. unsent' = unsent + 1 /\ UNCHANGED <<sent, inFlight, received, errors>>
    BY <1>3 DEF SubmitUnsent
  <2>. QED
    BY <1>0, <2>1, <2>2
<1>. QED
  BY <1>1, <1>2, <1>3 DEF Sessions

LEMMA DrainStepAccount ==
  ASSUME TypeOK, HandOver, NothingLost, NEW d \in Drains, DrainStep(d)
  PROVE  NothingLost'
<1>. /\ sent \in Nat /\ received \in Nat /\ errors \in Nat /\ dropped \in Nat
     /\ unsent \in Nat /\ inFlight \in Nat /\ Len(results) \in Nat /\ InHand \in Nat
  BY Numbers
<1>. USE DEF NothingLost
<1>1. d = starts /\ starts # 0 /\ starts' = starts
  <2>1. Active(d) /\ starts' = starts
    BY DEF DrainStep, Select, Take, SeeDone, Count, Record, Acknowledge, Finish, Active,
           counters
  <2>2. d = starts
    BY <2>1, OnlyOne DEF HandOver
  <2>. QED
    BY <2>1, <2>2 DEF Drains
<1>2. CASE Select(d) \/ SeeDone(d) \/ Record(d) \/ Acknowledge(d)
  <2>1. drain[d] # "count" /\ drain'[d] # "count"
    <3>1. CASE Select(d) \/ SeeDone(d) \/ Record(d)
      BY <3>1 DEF Select, SeeDone, Record, LoopAgain, DrainAt, TypeOK
    <3>2. CASE Acknowledge(d)
      BY <3>2 DEF Acknowledge, Finish, DrainAt, TypeOK
    <3>. QED
      BY <1>2, <3>1, <3>2
  <2>2. InHand = 0 /\ InHand' = 0
    BY <1>1, <2>1 DEF InHand
  <2>3. UNCHANGED <<sent, unsent, inFlight, results, received, errors, dropped>>
    BY <1>2 DEF Select, SeeDone, Record, Acknowledge, Finish, history, counters
  <2>. QED
    BY <2>2, <2>3
<1>3. CASE Take(d)
  <2>1. drain[d] = "take" /\ drain'[d] = "count"
    BY <1>3 DEF Take, DrainAt, TypeOK
  <2>2. InHand = 0 /\ InHand' = 1
    BY <1>1, <2>1 DEF InHand
  <2>3. Len(results') = Len(results) - 1 /\ UNCHANGED <<sent, unsent, inFlight, received, errors, dropped>>
    BY <1>3 DEF Take, history, counters, TypeOK
  <2>. QED
    BY <2>2, <2>3
<1>4. CASE Count(d)
  <2>1. drain[d] = "count" /\ drain'[d] # "count"
    BY <1>4 DEF Count, LoopAgain, DrainAt, TypeOK
  <2>2. InHand = 1 /\ InHand' = 0
    BY <1>1, <2>1 DEF InHand
  <2>3. UNCHANGED <<sent, unsent, inFlight, results, dropped>>
    BY <1>4 DEF Count, history
  <2>4. \/ errors' = errors + 1 /\ received' = received
        \/ received' = received + 1 /\ errors' = errors
    BY <1>4 DEF Count
  <2>. QED
    BY <2>2, <2>3, <2>4
<1>. QED
  BY <1>2, <1>3, <1>4 DEF DrainStep

LEMMA IdleMeansEmptyHand ==
  ASSUME TypeOK, HandOver, Stopped
  PROVE  InHand = 0 /\ results = <<>> /\ inFlight = 0
<1>1. \A d \in Drains : ~ Active(d)
  BY DEF Stopped, Active
<1>2. results = <<>> /\ inFlight = 0
  BY <1>1 DEF HandOver, Quiet
<1>3. InHand = 0
  <2>1. starts # 0 => starts \in Drains
    BY CollectorAssumption DEF TypeOK, Drains
  <2>2. starts # 0 => drain[starts] # "count"
    BY <1>1, <2>1 DEF Active
  <2>. QED
    BY <2>2 DEF InHand
<1>. QED
  BY <1>2, <1>3

LEMMA StepAccount ==
  ASSUME TypeOK, HandOver, NothingLost, Next
  PROVE  NothingLost'
<1>. USE CollectorAssumption DEF TypeOK, NothingLost
<1>1. CASE Sessions
  BY <1>1, SessionsAccount
<1>2. CASE Stopped /\ Start
  <2>1. InHand = 0
    BY <1>2, IdleMeansEmptyHand
  <2>2. InHand' = 0
    BY <1>2 DEF Start, DrainAt, InHand, Drains
  <2>. QED
    BY <1>2, <2>1, <2>2 DEF Start, counters, history
<1>3. CASE Stopped /\ ResetAll
  <2>1. InHand' = InHand
    BY <1>3 DEF ResetAll, InHand
  <2>. QED
    BY <1>3, <2>1, IdleMeansEmptyHand DEF ResetAll
<1>4. CASE \E d \in Drains : DrainStep(d)
  BY <1>4, DrainStepAccount
<1>5. CASE \E x \in Stoppers : CloseDone(x) \/ AckReceived(x)
  <2>1. InHand' = InHand
    BY <1>5 DEF CloseDone, CloseAndAwait, AckReceived, Return, InHand
  <2>. QED
    BY <1>5, <2>1 DEF CloseDone, CloseAndAwait, AckReceived, Return, counters, history
<1>. QED
  BY <1>1, <1>2, <1>3, <1>4, <1>5 DEF Next, Owner, StopStep

(* Every request is in flight, in the buffer, in the drain goroutine's     *)
(* hand or in exactly one of received, errors, dropped, for every buffer   *)
(* size and any number of starts (collector.go:210-267).                   *)
THEOREM EveryOutcomeCounted == SafeSpec => []NothingLost
<1>1. Init => NothingLost
  BY DEF Init, NothingLost, InHand
<1>2. TypeOK /\ HandOver /\ NothingLost /\ [Next]_colVars => NothingLost'
  <2>1. ASSUME NothingLost, UNCHANGED colVars
        PROVE  NothingLost'
    BY <2>1 DEF colVars, colState, counters, handover, history, NothingLost, InHand
  <2>. QED
    BY <2>1, StepAccount
<1>. QED
  BY <1>1, <1>2, CollectorTypeCorrect, AlwaysHandOver, PTL DEF SafeSpec

LEMMA HandOverSuffices ==
  ASSUME TypeOK, HandOver, NothingLost
  PROVE  FinalWhenStopped
<1>. SUFFICES ASSUME Stopped
              PROVE  results = <<>> /\ ~ stopwatch
                     /\ sent + unsent = received + errors + dropped
  BY DEF FinalWhenStopped
<1>1. InHand = 0 /\ results = <<>> /\ inFlight = 0
  BY IdleMeansEmptyHand
<1>2. ~ stopwatch
  BY DEF HandOver, Quiet
<1>. QED
  BY <1>1, <1>2 DEF TypeOK, NothingLost

(* When Stop has returned the buffer is empty, every outcome is in a       *)
(* counter and the clock behind Elapsed has stopped                        *)
(* (collector.go:164-183, 225-245).                                        *)
THEOREM StopLeavesFinalFigures == SafeSpec => []FinalWhenStopped
<1>1. TypeOK /\ HandOver /\ NothingLost => FinalWhenStopped
  BY HandOverSuffices
<1>. QED
  BY <1>1, CollectorTypeCorrect, AlwaysHandOver, EveryOutcomeCounted, PTL
=============================================================================
