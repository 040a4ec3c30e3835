---------------------------- MODULE SnapshotProofs ----------------------------
(***************************************************************************)
(* Proofs about Snapshot.  A reader changes nothing of the collector, so   *)
(* what CollectorProofs shows holds beside it.                             *)
(***************************************************************************)
EXTENDS Snapshot, CollectorProofs

\* Snapshot's steps are steps of the collector or leave it alone.
LEMMA ReaderIsInnocent == SnapSpec => SafeSpec
<1>1. SnapInit => Init
  BY DEF SnapInit
<1>2. [SnapNext]_<<colVars, snapVars>> => [Next]_colVars
  BY DEF SnapNext, CallSnapshot, ReadFigure, ReturnSnapshot, CollectorStep
<1>. QED
  BY <1>1, <1>2, PTL DEF SnapSpec, SafeSpec

(***************************************************************************)
(* apply counts a reply before it counts its predicate, so the matches     *)
(* never overtake the replies.                                             *)
(***************************************************************************)
Recording == IF starts # 0 /\ drain[starts] = "record" THEN 1 ELSE 0

MatchesBehind == matched + Recording <= received

LEMMA StepMatches ==
  ASSUME TypeOK, HandOver, MatchesBehind, Next
  PROVE  MatchesBehind'
<1>. /\ matched \in Nat /\ received \in Nat /\ Recording \in {0, 1}
  BY DEF TypeOK, Recording
<1>. USE DEF MatchesBehind
<1>1. CASE Sessions
  BY <1>1 DEF Sessions, SubmitSent, Submit, SubmitUnsent, Recording
<1>2. CASE Stopped /\ Start
  <2>1. Recording' = 0
    BY <1>2, CollectorAssumption DEF Start, DrainAt, TypeOK, Drains, Recording
  <2>. QED
    BY <1>2, <2>1 DEF Start, counters
<1>3. CASE Stopped /\ ResetAll
  <2>1. Recording' = 0
    <3>1. starts # 0 => starts \in Drains
      BY CollectorAssumption DEF TypeOK, Drains
    <3>. QED
      BY <1>3, <3>1 DEF ResetAll, Stopped, Recording
  <2>. QED
    BY <1>3, <2>1 DEF ResetAll
<1>4. ASSUME NEW x \in Stoppers, CloseDone(x) \/ AckReceived(x)
      PROVE  MatchesBehind'
  BY <1>4 DEF CloseDone, CloseAndAwait, AckReceived, Return, counters, Recording
<1>5. ASSUME NEW d \in Drains, DrainStep(d)
      PROVE  MatchesBehind'
  <2>1. d = starts /\ starts # 0 /\ starts' = starts
    <3>1. Active(d) /\ starts' = starts
      BY <1>5 DEF DrainStep, Select, Take, SeeDone, Count, Record, Acknowledge, Finish, Active,
                  counters
    <3>2. d = starts
      BY <3>1, OnlyOne DEF HandOver
    <3>. QED
      BY <3>1, <3>2 DEF Drains
  <2>2. CASE Select(d) \/ Take(d) \/ SeeDone(d) \/ Acknowledge(d)
    <3>1. Recording' = 0
      <4>1. CASE Select(d) \/ Take(d) \/ SeeDone(d)
        BY <2>1, <4>1 DEF Select, Take, SeeDone, DrainAt, TypeOK, Recording
      <4>2. CASE Acknowledge(d)
        BY <2>1, <4>2 DEF Acknowledge, Finish, DrainAt, TypeOK, Recording
      <4>. QED
        BY <2>2, <4>1, <4>2
    <3>. QED
      BY <2>2, <3>1 DEF Select, Take, SeeDone, Acknowledge, Finish, counters
  <2>3. CASE Count(d)
    <3>1. matched' = matched /\ Recording = 0
      BY <2>1, <2>3 DEF Count, Recording
    <3>2. CASE hand[d] = "err"
      <4>1. received' = received /\ Recording' = 0
        BY <2>1, <2>3, <3>2 DEF Count, LoopAgain, DrainAt, TypeOK, Recording
      <4>. QED
        BY <3>1, <4>1
    <3>3. CASE hand[d] # "err"
      <4>1. received' = received + 1 /\ (Recording' = 0 \/ Recording' = 1)
        BY <2>3, <3>3 DEF Count, Recording
      <4>. QED
        BY <3>1, <4>1
    <3>. QED
      BY <3>2, <3>3
  <2>4. CASE Record(d)
    <3>1. Recording = 1 /\ Recording' = 0 /\ received' = received
      BY <2>1, <2>4 DEF Record, LoopAgain, DrainAt, TypeOK, Recording
    <3>2. CASE matched' = matched
      BY <3>1, <3>2
    <3>3. CASE matched' = matched + 1
      BY <3>1, <3>3
    <3>. QED
      BY <2>4, <3>2, <3>3 DEF Record
  <2>. QED
    BY <1>5, <2>2, <2>3, <2>4 DEF DrainStep
<1>. QED
  BY <1>1, <1>2, <1>3, <1>4, <1>5 DEF Next, Owner, StopStep

(***************************************************************************)
(* The snapshot in progress: what it has read of the matches stays behind  *)
(* the replies, unless a ResetAll intervenes.                              *)
(***************************************************************************)
SeenBehind ==
  ~ wasReset =>
    /\ reading >= 1 => seen["matched"] <= received
    /\ reading >= 3 => seen["matched"] <= seen["received"]

SnapTyped ==
  /\ reading \in {Idle} \union 0 .. 4
  /\ seen \in [Figures -> Nat]

LEMMA SnapInitHolds == SnapInit => MatchesBehind /\ SnapTyped /\ SeenBehind
BY DEF SnapInit, Init, MatchesBehind, Recording, SnapTyped, SeenBehind, Idle

LEMMA ReceivedGrows ==
  ASSUME TypeOK, Next, ~ (Stopped /\ ResetAll)
  PROVE  received <= received'
<1>. received \in Nat
  BY DEF TypeOK
<1>1. received' = received \/ received' = received + 1
  <2>1. CASE Sessions \/ (Stopped /\ Start)
    BY <2>1 DEF Sessions, SubmitSent, Submit, SubmitUnsent, Start, counters
  <2>2. CASE \E x \in Stoppers : CloseDone(x) \/ AckReceived(x)
    BY <2>2 DEF CloseDone, CloseAndAwait, AckReceived, Return, counters
  <2>3. CASE \E d \in Drains : DrainStep(d)
    BY <2>3 DEF DrainStep, Select, Take, SeeDone, Count, Record, Acknowledge, Finish, counters
  <2>. QED
    BY <2>1, <2>2, <2>3 DEF Next, Owner, StopStep
<1>. QED
  BY <1>1

LEMMA StepSeen ==
  ASSUME TypeOK, HandOver, MatchesBehind, SnapTyped, SeenBehind, SnapNext
  PROVE  MatchesBehind' /\ SnapTyped' /\ SeenBehind'
<1>. /\ received \in Nat /\ matched \in Nat /\ sent \in Nat /\ errors \in Nat
     /\ matched <= received
  BY DEF TypeOK, MatchesBehind, Recording
<1>. USE DEF SnapTyped, SeenBehind, Idle
<1>1. CASE CollectorStep
  <2>1. UNCHANGED <<reading, seen>> /\ wasReset' = (wasReset \/ (Stopped /\ ResetAll))
    BY <1>1 DEF CollectorStep
  <2>2. MatchesBehind'
    BY <1>1, StepMatches DEF CollectorStep
  <2>3. ~ wasReset' => ~ wasReset /\ received <= received'
    BY <1>1, <2>1, ReceivedGrows DEF CollectorStep
  <2>4. received' \in Nat /\ seen["matched"] \in Nat
    BY <1>1, StepTyped DEF CollectorStep, TypeOK, Figures
  <2>. QED
    BY <2>1, <2>2, <2>3, <2>4
<1>2. ASSUME CallSnapshot \/ ReadFigure \/ ReturnSnapshot
      PROVE  MatchesBehind'
  BY <1>2 DEF CallSnapshot, ReadFigure, ReturnSnapshot, colVars, colState, counters, MatchesBehind,
              Recording
<1>3. CASE CallSnapshot
  <2>1. reading' = 0 /\ seen' = [f \in Figures |-> 0]
    BY <1>3 DEF CallSnapshot
  <2>. QED
    BY <1>2, <1>3, <2>1
<1>4. CASE ReturnSnapshot
  BY <1>2, <1>4 DEF ReturnSnapshot
<1>5. CASE ReadFigure
  <2>1. reading \in 0 .. 3 /\ reading' = reading + 1 /\ UNCHANGED <<received, wasReset>>
    BY <1>5 DEF ReadFigure, ReadOrder, colVars, colState, counters
  <2>2. CASE reading = 0
    <3>1. seen' = [seen EXCEPT !["matched"] = matched]
      BY <1>5, <2>2 DEF ReadFigure, ReadOrder, Value
    <3>. QED
      BY <1>2, <1>5, <2>1, <2>2, <3>1 DEF Figures
  <2>3. CASE reading = 1
    <3>1. seen' = [seen EXCEPT !["sent"] = sent]
      BY <1>5, <2>3 DEF ReadFigure, ReadOrder, Value
    <3>. QED
      BY <1>2, <1>5, <2>1, <2>3, <3>1 DEF Figures
  <2>4. CASE reading = 2
    <3>1. seen' = [seen EXCEPT !["received"] = received]
      BY <1>5, <2>4 DEF ReadFigure, ReadOrder, Value
    <3>. QED
      BY <1>2, <1>5, <2>1, <2>4, <3>1 DEF Figures
  <2>5. CASE reading = 3
    <3>1. seen' = [seen EXCEPT !["errors"] = errors]
      BY <1>5, <2>5 DEF ReadFigure, ReadOrder, Value
    <3>. QED
      BY <1>2, <1>5, <2>1, <2>5, <3>1 DEF Figures
  <2>. QED
    BY <2>1, <2>2, <2>3, <2>4, <2>5
<1>. QED
  BY <1>1, <1>3, <1>4, <1>5 DEF SnapNext

(* A snapshot never shows more predicate matches than replies, for every   *)
(* buffer size and any number of sessions and starts, unless a Restart     *)
(* resets the figures while it is being taken                              *)
(* (collector.go:248-267, 300-337).                                        *)
THEOREM MatchesNeverOvertakeReplies == SnapSpec => []MatchedWithinReceived
<1>1. TypeOK /\ HandOver /\ MatchesBehind /\ SnapTyped /\ SeenBehind /\ [SnapNext]_<<colVars, snapVars>>
        => (MatchesBehind /\ SnapTyped /\ SeenBehind)'
  <2>1. ASSUME MatchesBehind, SnapTyped, SeenBehind, UNCHANGED <<colVars, snapVars>>
        PROVE  MatchesBehind' /\ SnapTyped' /\ SeenBehind'
    BY <2>1 DEF colVars, colState, counters, snapVars, MatchesBehind, Recording, SnapTyped,
                SeenBehind
  <2>. QED
    BY <2>1, StepSeen
<1>2. MatchesBehind /\ SnapTyped /\ SeenBehind => MatchedWithinReceived
  BY DEF SeenBehind, MatchedWithinReceived, Complete, ReadOrder
<1>3. SnapSpec => [](TypeOK /\ HandOver)
  BY ReaderIsInnocent, CollectorTypeCorrect, AlwaysHandOver, PTL
<1>. QED
  BY <1>1, <1>2, <1>3, SnapInitHolds, PTL DEF SnapSpec
=============================================================================
