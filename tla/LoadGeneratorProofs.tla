------------------------- MODULE LoadGeneratorProofs -------------------------
(***************************************************************************)
(* Proofs about LoadGenerator, for every pool size, cap, time limit and    *)
(* number of cycles.                                                       *)
(***************************************************************************)
EXTENDS LoadGenerator, FiniteSetTheorems, TLAPS

(***************************************************************************)
(* A step of Next, spelled out once for all the proofs below.              *)
(***************************************************************************)
Steps ==
  \/ Quiescent /\ Start
  \/ ~ running /\ WgIdle /\ Reset
  \/ Cancel
  \/ \E x \in Waiters : CallWait(x) \/ Released(x) \/ WaitReturns(x)
  \/ \E w \in Workers : WorkerStep(w)
  \/ \E c \in Cycles : TimerFires(c)
  \/ Tick

LEMMA NextIsSteps ==
  ASSUME TypeOK, Next
  PROVE  Steps
<1>1. CASE Owner
  <2>1. ASSUME cycle > 0, NEW x \in {Stopper, cycle}, CallWait(x)
        PROVE  Steps
    <3>1. x \in Waiters
      BY <2>1, GeneratorAssumption DEF Waiters, Cycles, Stopper, TypeOK
    <3>. QED
      BY <2>1, <3>1 DEF Steps
  <2>. QED
    BY <1>1, <2>1 DEF Owner, Steps
<1>2. CASE \E w \in Workers : WorkerStep(w)
  BY <1>2 DEF Steps
<1>3. CASE \E x \in Waiters : WaiterStep(x)
  BY <1>3 DEF Steps, WaiterStep
<1>4. CASE (\E c \in Cycles : TimerFires(c)) \/ Tick
  BY <1>4 DEF Steps
<1>. QED
  BY <1>1, <1>2, <1>3, <1>4 DEF Next

-----------------------------------------------------------------------------
(***************************************************************************)
(* Types.  elapsedBank stays a natural number because a cycle never starts *)
(* in the future.                                                          *)
(***************************************************************************)
Typed == TypeOK /\ startTime <= now

LEMMA InitTyped == Init => Typed
<1>. SUFFICES ASSUME Init PROVE Typed
  OBVIOUS
<1>. USE GeneratorAssumption DEF Init
<1>1. cycle \in 0 .. MaxCycles
  OBVIOUS
<1>2. /\ acceptDone \in [Cycles -> BOOLEAN]
      /\ sessionDone \in [Cycles -> BOOLEAN]
      /\ deadline \in [Cycles -> Nat]
      /\ ticket \in [Workers -> Nat]
  OBVIOUS
<1>3. /\ worker \in [Workers -> WorkerPhases]
      /\ waiter \in [Waiters -> WaiterPhases]
  BY DEF WorkerPhases, WaiterPhases
<1>4. running \in BOOLEAN /\ panicked \in BOOLEAN
  BY Zenon
<1>5. /\ ran \in Nat /\ startTime \in Nat /\ elapsedBank \in Nat /\ totalSent \in Nat
      /\ sessions \in Nat /\ now \in Nat /\ startTime <= now
  OBVIOUS
<1>. QED
  BY <1>1, <1>2, <1>3, <1>4, <1>5 DEF Typed, TypeOK

LEMMA StepTyped ==
  ASSUME Typed, Next
  PROVE  Typed'
<1>. USE GeneratorAssumption DEF Typed, TypeOK, WorkerPhases, WaiterPhases
<1>0. Steps
  BY NextIsSteps
<1>1. CASE Quiescent /\ Start
  <2>1. cycle + 1 \in Cycles /\ cycle' = cycle + 1
    BY <1>1 DEF Start, Open, Cycles
  <2>2. startTime' \in Nat /\ now' \in Nat /\ startTime' <= now'
    BY <1>1 DEF Start, Open
  <2>3. deadline' \in [Cycles -> Nat]
    <3>1. (IF Duration > 0 /\ ~ SpentBudget THEN now + Remaining ELSE 0) \in Nat
      BY DEF SpentBudget, Remaining
    <3>. QED
      BY <1>1, <2>1, <3>1 DEF Start, Open
  <2>4. SpentBudget \in BOOLEAN
    BY DEF SpentBudget
  <2>5. acceptDone' \in [Cycles -> BOOLEAN]
    BY <1>1, <2>4 DEF Start, Open
  <2>6. worker' \in [Workers -> WorkerPhases]
    BY <1>1 DEF Start, Open
  <2>. QED
    BY <1>1, <2>1, <2>2, <2>3, <2>5, <2>6 DEF Start, Open, Cycles
<1>2. CASE ~ running /\ WgIdle /\ Reset
  BY <1>2 DEF Reset
<1>3. CASE Cancel
  BY <1>3 DEF Cancel
<1>4. ASSUME NEW x \in Waiters, CallWait(x) \/ Released(x) \/ WaitReturns(x)
      PROVE  Typed'
  <2>1. CASE CallWait(x)
    BY <1>4, <2>1 DEF CallWait, EnterWait, MoveWaiter
  <2>2. CASE Released(x)
    BY <1>4, <2>2 DEF Released, MoveWaiter
  <2>3. CASE WaitReturns(x)
    <3>1. elapsedBank' \in Nat
      BY <2>3 DEF WaitReturns, Bank
    <3>2. running' \in BOOLEAN
      BY <2>3, Zenon DEF WaitReturns, Bank
    <3>3. waiter' \in [Waiters -> WaiterPhases]
      BY <2>3 DEF WaitReturns, Bank, MoveWaiter
    <3>4. UNCHANGED <<cycle, startTime, totalSent, acceptDone, sessionDone, deadline,
                      worker, ticket, sessions, now, ran, panicked>>
      BY <2>3 DEF WaitReturns, Bank
    <3>. QED
      BY <3>1, <3>2, <3>3, <3>4
  <2>. QED
    BY <1>4, <2>1, <2>2, <2>3
<1>5. ASSUME NEW w \in Workers, WorkerStep(w)
      PROVE  Typed'
  <2>1. CASE Accepting(w)
    BY <2>1 DEF Accepting, Goto
  <2>2. CASE NotAccepting(w)
    BY <2>2 DEF NotAccepting, Leave, Depart, Goto
  <2>3. CASE TakeNumber(w)
    BY <2>3 DEF TakeNumber, Number, Goto
  <2>4. CASE BeginSession(w)
    BY <2>4 DEF BeginSession, Goto
  <2>5. CASE CapReached(w)
    BY <2>5 DEF CapReached, EndPool, Leave, Depart, Goto
  <2>6. CASE EndSession(w)
    BY <2>6 DEF EndSession, Goto
  <2>. QED
    BY <1>5, <2>1, <2>2, <2>3, <2>4, <2>5, <2>6 DEF WorkerStep
<1>6. ASSUME NEW c \in Cycles, TimerFires(c)
      PROVE  Typed'
  BY <1>6 DEF TimerFires
<1>7. CASE Tick
  BY <1>7 DEF Tick
<1>. QED
  BY <1>0, <1>1, <1>2, <1>3, <1>4, <1>5, <1>6, <1>7 DEF Steps

LEMMA AlwaysTyped == SafeSpec => []Typed
<1>1. Init => Typed
  BY InitTyped
<1>2. Typed /\ [Next]_genVars => Typed'
  <2>1. CASE Next
    BY <2>1, StepTyped
  <2>2. CASE UNCHANGED genVars
    BY <2>2 DEF genVars, genState, Typed, TypeOK
  <2>. QED
    BY <2>1, <2>2
<1>. QED
  BY <1>1, <1>2, PTL DEF SafeSpec

(* The variables of the generator keep their types (load_generator.go:30-55). *)
THEOREM TypeCorrect == SafeSpec => []TypeOK
<1>1. Typed => TypeOK
  BY DEF Typed
<1>. QED
  BY <1>1, AlwaysTyped, PTL

-----------------------------------------------------------------------------
(***************************************************************************)
(* The pool and its waiters.  A goroutine that has been let out of wg.Wait *)
(* finds the pool empty, because nobody opens it while someone is inside.  *)
(***************************************************************************)
LetOut(x) == waiter[x] \in {"woken", "draining"}

Pool ==
  /\ ~ running => WgIdle
  /\ \A x \in Waiters : LetOut(x) => WgIdle
  /\ ~ panicked

\* A step of a worker leaves no more workers alive than before, and lets
\* waiters out only with the last one.
LEMMA WorkerStepKeepsPool ==
  ASSUME Typed, NEW w \in Workers, WorkerStep(w)
  PROVE  /\ WgIdle => WgIdle'
         /\ \A x \in Waiters : LetOut(x)' => LetOut(x) \/ WgIdle'
         /\ UNCHANGED <<running, cycle, startTime, elapsedBank, deadline, panicked>>
<1>. USE DEF Typed, TypeOK, Alive, WgIdle, LetOut
<1>1. CASE Accepting(w)
  BY <1>1 DEF Accepting, Goto
<1>2. CASE NotAccepting(w)
  BY <1>2 DEF NotAccepting, Leave, Depart, Goto
<1>3. CASE TakeNumber(w)
  BY <1>3 DEF TakeNumber, Number, Goto
<1>4. CASE BeginSession(w)
  BY <1>4 DEF BeginSession, Goto
<1>5. CASE CapReached(w)
  BY <1>5 DEF CapReached, EndPool, Leave, Depart, Goto
<1>6. CASE EndSession(w)
  BY <1>6 DEF EndSession, Goto
<1>. QED
  BY <1>1, <1>2, <1>3, <1>4, <1>5, <1>6 DEF WorkerStep

LEMMA StepPool ==
  ASSUME Typed, Pool, Next
  PROVE  Pool'
<1>. USE DEF Typed, TypeOK, Pool
<1>0. Steps
  BY NextIsSteps
<1>1. CASE Quiescent /\ Start
  <2>1. running' /\ ~ panicked'
    BY <1>1 DEF Start, Open
  <2>2. \A x \in Waiters : ~ LetOut(x)'
    BY <1>1 DEF Start, Open, Quiescent, LetOut
  <2>. QED
    BY <2>1, <2>2
<1>2. CASE (~ running /\ WgIdle /\ Reset) \/ Cancel \/ Tick \/ \E c \in Cycles : TimerFires(c)
  BY <1>2 DEF Reset, Cancel, Tick, TimerFires, WgIdle, Alive, LetOut
<1>3. ASSUME NEW x \in Waiters, CallWait(x) \/ Released(x) \/ WaitReturns(x)
      PROVE  Pool'
  <2>1. CASE CallWait(x)
    BY <1>3, <2>1 DEF CallWait, EnterWait, MoveWaiter, WgIdle, Alive, LetOut
  <2>2. CASE Released(x)
    <3>1. WgIdle
      BY <2>2 DEF Released, LetOut
    <3>. QED
      BY <2>2, <3>1 DEF Released, MoveWaiter, WgIdle, Alive
  <2>3. CASE WaitReturns(x)
    <3>1. WgIdle
      BY <2>3 DEF WaitReturns, Bank, LetOut
    <3>. QED
      BY <2>3, <3>1 DEF WaitReturns, Bank, MoveWaiter, WgIdle, Alive
  <2>. QED
    BY <1>3, <2>1, <2>2, <2>3
<1>4. ASSUME NEW w \in Workers, WorkerStep(w)
      PROVE  Pool'
  BY <1>4, WorkerStepKeepsPool
<1>. QED
  BY <1>0, <1>1, <1>2, <1>3, <1>4 DEF Steps

LEMMA AlwaysPool == SafeSpec => []Pool
<1>1. Init => Pool
  BY DEF Init, Pool, WgIdle, Alive, LetOut
<1>2. Typed /\ Pool /\ [Next]_genVars => Pool'
  <2>1. ASSUME Pool, UNCHANGED genVars
        PROVE  Pool'
    BY <2>1 DEF genVars, genState, Pool, WgIdle, Alive, LetOut
  <2>. QED
    BY <2>1, StepPool
<1>. QED
  BY <1>1, <1>2, AlwaysTyped, PTL DEF SafeSpec

(* When Wait has returned to its first caller no worker of any cycle is    *)
(* left, whatever the number of workers, cycles and callers of Wait        *)
(* (load_generator.go:183-191).                                            *)
THEOREM WaitDrainsPool == SafeSpec => []DrainedWhenNotRunning
<1>1. Pool => DrainedWhenNotRunning
  BY DEF Pool, DrainedWhenNotRunning
<1>. QED
  BY <1>1, AlwaysPool, PTL

(* The WaitGroup is never refilled under a goroutine that it has released, *)
(* as long as Start is called when the pool is Quiescent                   *)
(* (load_generator.go:119-123, 183-184).                                   *)
THEOREM WaitGroupNotReused == SafeSpec => []NoWaitGroupReuse
<1>1. Pool => NoWaitGroupReuse
  BY DEF Pool, NoWaitGroupReuse
<1>. QED
  BY <1>1, AlwaysPool, PTL

-----------------------------------------------------------------------------
(***************************************************************************)
(* The cap.  A worker that holds a number within the cap has a session to  *)
(* its name already; each number up to totalSent was given out once.       *)
(***************************************************************************)
Admitted == {w \in Workers : worker[w] = "numbered" /\ ticket[w] <= TotalMessages}

Cap ==
  TotalMessages > 0 =>
    /\ sessions + Cardinality(Admitted) <= totalSent
    /\ sessions + Cardinality(Admitted) <= TotalMessages

LEMMA WorkersFinite == IsFiniteSet(Workers)
<1>1. IsFiniteSet(1 .. MaxCycles) /\ IsFiniteSet(1 .. Concurrency)
  BY FS_Interval, GeneratorAssumption
<1>. QED
  BY <1>1, FS_Product DEF Workers, Cycles

LEMMA AdmittedFinite == IsFiniteSet(Admitted) /\ Cardinality(Admitted) \in Nat
<1>1. Admitted \subseteq Workers
  BY DEF Admitted
<1>2. IsFiniteSet(Admitted)
  BY <1>1, WorkersFinite, FS_Subset
<1>. QED
  BY <1>2, FS_CardinalityType

\* What leaves the numbers alone leaves Cap alone.
LEMMA SameNumbers ==
  ASSUME Cap, Admitted' = Admitted, UNCHANGED <<sessions, totalSent>>
  PROVE  Cap'
BY DEF Cap

LEMMA WorkerStepCap ==
  ASSUME Typed, Cap, NEW w \in Workers, WorkerStep(w)
  PROVE  Cap'
<1>. USE GeneratorAssumption DEF Typed, TypeOK
<1>1. CASE TakeNumber(w)
  <2>. SUFFICES ASSUME TotalMessages > 0
                PROVE  /\ sessions' + Cardinality(Admitted') <= totalSent'
                       /\ sessions' + Cardinality(Admitted') <= TotalMessages
    BY DEF Cap
  <2>0. w \notin Admitted
    BY <1>1 DEF TakeNumber, Number, Admitted
  <2>1. CASE totalSent + 1 <= TotalMessages
    <3>1. Admitted' = Admitted \union {w}
      BY <1>1, <2>1 DEF TakeNumber, Number, Goto, Admitted
    <3>2. Cardinality(Admitted') = Cardinality(Admitted) + 1
      BY <2>0, <3>1, AdmittedFinite, FS_AddElement
    <3>. QED
      BY <1>1, <2>1, <3>2, AdmittedFinite DEF TakeNumber, Number, Cap
  <2>2. CASE ~ (totalSent + 1 <= TotalMessages)
    <3>1. Admitted' = Admitted
      BY <1>1, <2>2 DEF TakeNumber, Number, Goto, Admitted
    <3>. QED
      BY <1>1, <3>1, AdmittedFinite DEF TakeNumber, Number, Cap
  <2>. QED
    BY <2>1, <2>2
<1>2. CASE BeginSession(w)
  <2>. SUFFICES ASSUME TotalMessages > 0
                PROVE  /\ sessions' + Cardinality(Admitted') <= totalSent'
                       /\ sessions' + Cardinality(Admitted') <= TotalMessages
    BY DEF Cap
  <2>1. w \in Admitted
    BY <1>2 DEF BeginSession, OverCap, Admitted
  <2>2. Admitted' = Admitted \ {w}
    BY <1>2 DEF BeginSession, Goto, Admitted
  <2>3. Cardinality(Admitted') = Cardinality(Admitted) - 1
    BY <2>1, <2>2, AdmittedFinite, FS_RemoveElement
  <2>. QED
    BY <1>2, <2>3, AdmittedFinite DEF BeginSession, Cap
<1>3. CASE CapReached(w)
  <2>1. Admitted' = Admitted
    BY <1>3 DEF CapReached, EndPool, OverCap, Leave, Depart, Goto, Admitted
  <2>. QED
    BY <1>3, <2>1, SameNumbers DEF CapReached, EndPool
<1>4. CASE Accepting(w) \/ NotAccepting(w) \/ EndSession(w)
  <2>1. Admitted' = Admitted
    BY <1>4 DEF Accepting, NotAccepting, EndSession, Leave, Depart, Goto, Admitted
  <2>. QED
    BY <1>4, <2>1, SameNumbers DEF Accepting, NotAccepting, EndSession
<1>. QED
  BY <1>1, <1>2, <1>3, <1>4 DEF WorkerStep

LEMMA StepCap ==
  ASSUME Typed, Cap, Next
  PROVE  Cap'
<1>. USE GeneratorAssumption DEF Typed, TypeOK
<1>0. Steps
  BY NextIsSteps
<1>1. CASE Quiescent /\ Start
  <2>1. \A w \in Workers : worker[w] # "numbered" /\ worker'[w] # "numbered"
    BY <1>1 DEF Start, Open, Quiescent, WgIdle, Alive
  <2>2. Admitted' = Admitted
    BY <2>1 DEF Admitted
  <2>. QED
    BY <1>1, <2>2, SameNumbers DEF Start, Open
<1>2. CASE ~ running /\ WgIdle /\ Reset
  <2>1. Admitted' = {}
    BY <1>2 DEF Reset, WgIdle, Alive, Admitted
  <2>2. Cardinality(Admitted') = 0
    BY <2>1, FS_EmptySet
  <2>. QED
    BY <1>2, <2>2 DEF Reset, Cap
<1>3. CASE Cancel \/ Tick \/ \E c \in Cycles : TimerFires(c)
  <2>1. UNCHANGED <<worker, ticket, sessions, totalSent>>
    BY <1>3 DEF Cancel, Tick, TimerFires
  <2>. QED
    BY <2>1, SameNumbers DEF Admitted
<1>4. CASE \E x \in Waiters : CallWait(x) \/ Released(x) \/ WaitReturns(x)
  <2>1. UNCHANGED <<worker, ticket, sessions, totalSent>>
    BY <1>4 DEF CallWait, EnterWait, Released, WaitReturns, Bank
  <2>. QED
    BY <2>1, SameNumbers DEF Admitted
<1>5. CASE \E w \in Workers : WorkerStep(w)
  BY <1>5, WorkerStepCap
<1>. QED
  BY <1>0, <1>1, <1>2, <1>3, <1>4, <1>5 DEF Steps

LEMMA InitCap == Init => Cap
<1>. SUFFICES ASSUME Init PROVE Cap
  OBVIOUS
<1>1. Admitted = {}
  BY DEF Init, Admitted
<1>2. Cardinality(Admitted) = 0
  BY <1>1, FS_EmptySet
<1>. QED
  BY <1>2, GeneratorAssumption DEF Init, Cap

LEMMA CapUntouched ==
  ASSUME Cap, UNCHANGED genVars
  PROVE  Cap'
BY SameNumbers DEF genVars, genState, Admitted

LEMMA CapSuffices ==
  ASSUME Typed, Cap
  PROVE  CapHeld
BY AdmittedFinite, GeneratorAssumption DEF Typed, TypeOK, Cap, CapHeld

LEMMA AlwaysCap == SafeSpec => []Cap
<1>1. Typed /\ Cap /\ [Next]_genVars => Cap'
  BY StepCap, CapUntouched
<1>. QED
  BY <1>1, InitCap, AlwaysTyped, PTL DEF SafeSpec

(* No more than TotalMessages sessions start between two Resets, for every *)
(* number of workers and of Stops and Resumes in between, although workers *)
(* take their number and test it in separate steps                         *)
(* (load_generator.go:143-157).                                            *)
THEOREM CapNeverExceeded == SafeSpec => []CapHeld
<1>1. Typed /\ Cap => CapHeld
  BY CapSuffices
<1>. QED
  BY <1>1, AlwaysTyped, AlwaysCap, PTL

-----------------------------------------------------------------------------
(***************************************************************************)
(* Time.  The bank and the current cycle add up to the time the pool ran,  *)
(* and the timer is set to the moment at which that will be Duration.      *)
(***************************************************************************)
BankIsExact == ran = elapsedBank + (IF running THEN now - startTime ELSE 0)

TimerIsRight ==
  (running /\ deadline[cycle] # 0) =>
    Duration > 0 /\ deadline[cycle] = startTime + (Duration - elapsedBank)

NumbersAreDrawn ==
  \A w \in Workers : worker[w] = "numbered" => ticket[w] <= totalSent

\* A cycle without any time left is closed before its first worker looks.
ClosedWhenSpent ==
  (running /\ Duration > 0 /\ elapsedBank >= Duration) =>
    /\ acceptDone[cycle]
    /\ \A w \in Workers : w[1] = cycle =>
         worker[w] \notin {"limiter", "numbered", "session"}

Time ==
  /\ running => cycle \in Cycles
  /\ BankIsExact
  /\ TimerIsRight
  /\ NumbersAreDrawn
  /\ NaturalEndHasReason
  /\ ClosedWhenSpent

LEMMA OpenTime ==
  ASSUME Typed, Pool, Time, Quiescent, Start
  PROVE  Time'
<1>. USE GeneratorAssumption DEF Typed, TypeOK
<1>. DEFINE c == cycle + 1
<1>1. /\ c \in Cycles /\ cycle' = c /\ ~ running
      /\ startTime' = now /\ UNCHANGED <<now, elapsedBank, ran>>
  BY DEF Start, Open, Cycles
<1>2. acceptDone'[c] = SpentBudget
  BY <1>1, Zenon DEF Start, Open
<1>3. deadline'[c] = IF Duration > 0 /\ ~ SpentBudget THEN now + Remaining ELSE 0
  BY <1>1 DEF Start, Open
<1>4. \A w \in Workers : worker[w] # "numbered"
  BY DEF Quiescent, WgIdle, Alive
<1>5. worker' = [w \in Workers |-> IF w[1] = c THEN "loop" ELSE worker[w]]
  BY DEF Start, Open
<1>6. ran = elapsedBank /\ BankIsExact'
  BY <1>1 DEF Time, BankIsExact
<1>7. TimerIsRight'
  BY <1>1, <1>3 DEF TimerIsRight, SpentBudget, Remaining
<1>8. NumbersAreDrawn'
  BY <1>4, <1>5 DEF NumbersAreDrawn
<1>9. NaturalEndHasReason'
  BY <1>1, <1>2, <1>6 DEF NaturalEndHasReason, SpentBudget, Remaining
<1>10. ClosedWhenSpent'
  <2>1. \A w \in Workers : w[1] = c => worker'[w] = "loop"
    BY <1>5
  <2>2. (Duration > 0 /\ elapsedBank >= Duration) => acceptDone'[c]
    <3>1. (Duration > 0 /\ elapsedBank >= Duration) => SpentBudget
      BY DEF SpentBudget, Remaining
    <3>. QED
      BY <1>2, <3>1, Zenon
  <2>. QED
    BY <1>1, <2>1, <2>2 DEF ClosedWhenSpent
<1>. QED
  BY <1>1, <1>6, <1>7, <1>8, <1>9, <1>10 DEF Time

LEMMA WorkerStepTime ==
  ASSUME Typed, Time, NEW w \in Workers, WorkerStep(w)
  PROVE  Time'
<1>. USE GeneratorAssumption DEF Typed, TypeOK
<1>1. UNCHANGED <<running, cycle, startTime, elapsedBank, deadline, now, ran>>
  BY DEF WorkerStep, Accepting, NotAccepting, TakeNumber, Number, BeginSession,
         CapReached, EndPool, EndSession
<1>2. (running => cycle \in Cycles)' /\ BankIsExact' /\ TimerIsRight'
  BY <1>1 DEF Time, BankIsExact, TimerIsRight
<1>3. CASE CapReached(w)
  <2>1. /\ worker' = [worker EXCEPT ![w] = "gone"]
        /\ ticket' = [ticket EXCEPT ![w] = 0]
        /\ totalSent' = totalSent
        /\ acceptDone' = [acceptDone EXCEPT ![cycle] = TRUE]
    BY <1>3 DEF CapReached, EndPool, Leave, Depart, Goto
  <2>2. TotalMessages > 0 /\ totalSent > TotalMessages
    BY <1>3 DEF CapReached, EndPool, OverCap, Time, NumbersAreDrawn
  <2>3. NumbersAreDrawn'
    BY <2>1 DEF Time, NumbersAreDrawn
  <2>4. NaturalEndHasReason'
    BY <2>1, <2>2 DEF NaturalEndHasReason
  <2>5. ClosedWhenSpent'
    BY <1>1, <1>2, <2>1 DEF Time, ClosedWhenSpent
  <2>. QED
    BY <1>2, <2>3, <2>4, <2>5 DEF Time
<1>4. CASE TakeNumber(w)
  <2>1. /\ worker[w] = "limiter"
        /\ worker' = [worker EXCEPT ![w] = "numbered"]
        /\ ticket' = [ticket EXCEPT ![w] = totalSent + 1]
        /\ totalSent' = totalSent + 1
        /\ UNCHANGED <<acceptDone, sessionDone>>
    BY <1>4 DEF TakeNumber, Number, Goto
  <2>2. NumbersAreDrawn'
    BY <2>1 DEF Time, NumbersAreDrawn
  <2>3. NaturalEndHasReason'
    BY <1>1, <2>1 DEF Time, NaturalEndHasReason
  <2>4. ClosedWhenSpent'
    BY <1>1, <2>1 DEF Time, ClosedWhenSpent
  <2>. QED
    BY <1>2, <2>2, <2>3, <2>4 DEF Time
<1>5. CASE Accepting(w) \/ NotAccepting(w) \/ BeginSession(w) \/ EndSession(w)
  <2>1. UNCHANGED <<totalSent, acceptDone, sessionDone>>
    BY <1>5 DEF Accepting, NotAccepting, BeginSession, EndSession
  <2>2. NumbersAreDrawn'
    BY <1>5 DEF Accepting, NotAccepting, Leave, Depart, BeginSession, EndSession, Goto, Time,
                NumbersAreDrawn
  <2>3. NaturalEndHasReason'
    BY <1>1, <2>1 DEF Time, NaturalEndHasReason
  <2>4. ClosedWhenSpent'
    BY <1>1, <1>5, <2>1 DEF Accepting, NotAccepting, Leave, Depart, BeginSession,
       EndSession, Goto, Time, ClosedWhenSpent
  <2>. QED
    BY <1>2, <2>2, <2>3, <2>4 DEF Time
<1>. QED
  BY <1>3, <1>4, <1>5 DEF WorkerStep

LEMMA StepTime ==
  ASSUME Typed, Pool, Time, Next
  PROVE  Time'
<1>. USE GeneratorAssumption DEF Typed, TypeOK
<1>0. Steps
  BY NextIsSteps
<1>1. CASE Quiescent /\ Start
  BY <1>1, OpenTime
<1>2. CASE ~ running /\ WgIdle /\ Reset
  BY <1>2 DEF Reset, WgIdle, Alive, Time, BankIsExact, TimerIsRight, NumbersAreDrawn,
              NaturalEndHasReason, ClosedWhenSpent
<1>3. CASE Cancel
  BY <1>3 DEF Cancel, Time, BankIsExact, TimerIsRight, NumbersAreDrawn, NaturalEndHasReason,
              ClosedWhenSpent
<1>4. CASE Tick
  BY <1>4 DEF Tick, Time, BankIsExact, TimerIsRight, NumbersAreDrawn, NaturalEndHasReason,
              ClosedWhenSpent
<1>5. ASSUME NEW c \in Cycles, TimerFires(c)
      PROVE  Time'
  <2>1. UNCHANGED <<running, cycle, startTime, elapsedBank, totalSent, sessionDone,
                    deadline, worker, ticket, now, ran>>
    BY <1>5 DEF TimerFires
  <2>2. acceptDone' = [acceptDone EXCEPT ![c] = TRUE]
    BY <1>5 DEF TimerFires
  <2>3. NaturalEndHasReason'
    BY <1>5, <2>1, <2>2 DEF TimerFires, Time, BankIsExact, TimerIsRight, NaturalEndHasReason
  <2>4. ClosedWhenSpent'
    BY <2>1, <2>2 DEF Time, ClosedWhenSpent
  <2>. QED
    BY <2>1, <2>3, <2>4 DEF Time, BankIsExact, TimerIsRight, NumbersAreDrawn
<1>6. ASSUME NEW x \in Waiters, CallWait(x) \/ Released(x)
      PROVE  Time'
  <2>1. UNCHANGED <<running, cycle, startTime, elapsedBank, totalSent, acceptDone,
                    sessionDone, deadline, worker, ticket, now, ran>>
    BY <1>6 DEF CallWait, EnterWait, Released
  <2>. QED
    BY <2>1 DEF Time, BankIsExact, TimerIsRight, NumbersAreDrawn, NaturalEndHasReason,
                ClosedWhenSpent
<1>7. ASSUME NEW x \in Waiters, WaitReturns(x)
      PROVE  Time'
  BY <1>7 DEF WaitReturns, Bank, Time, BankIsExact, TimerIsRight, NumbersAreDrawn,
              NaturalEndHasReason, ClosedWhenSpent
<1>8. CASE \E w \in Workers : WorkerStep(w)
  BY <1>8, WorkerStepTime
<1>. QED
  BY <1>0, <1>1, <1>2, <1>3, <1>4, <1>5, <1>6, <1>7, <1>8 DEF Steps

LEMMA InitTime == Init => Time
BY DEF Init, Time, BankIsExact, TimerIsRight, NumbersAreDrawn, NaturalEndHasReason, ClosedWhenSpent

LEMMA TimeUntouched ==
  ASSUME Time, UNCHANGED genVars
  PROVE  Time'
BY DEF genVars, genState, Time, BankIsExact, TimerIsRight, NumbersAreDrawn,
       NaturalEndHasReason, ClosedWhenSpent

LEMMA TimeSuffices ==
  ASSUME Time
  PROVE  NaturalEndHasReason /\ NoSessionOnSpentBudget
BY DEF Time, ClosedWhenSpent, NoSessionOnSpentBudget

LEMMA AlwaysTime == SafeSpec => []Time
<1>1. Typed /\ Pool /\ Time /\ [Next]_genVars => Time'
  BY StepTime, TimeUntouched
<1>. QED
  BY <1>1, InitTime, AlwaysTyped, AlwaysPool, PTL DEF SafeSpec

(* A cycle that stops accepting of its own accord has used up the cap, or  *)
(* the run time of all cycles since Reset has reached Duration, for every  *)
(* number of Stops and Resumes (load_generator.go:102-117, 183-191).       *)
THEOREM NoCycleEndsEarly == SafeSpec => []NaturalEndHasReason
<1>1. Time => NaturalEndHasReason
  BY TimeSuffices
<1>. QED
  BY <1>1, AlwaysTime, PTL

(* A Resume whose banked time already uses up Duration starts no session   *)
(* (load_generator.go:103-106).                                            *)
THEOREM SpentBudgetStartsNothing == SafeSpec => []NoSessionOnSpentBudget
<1>1. Time => NoSessionOnSpentBudget
  BY TimeSuffices
<1>. QED
  BY <1>1, AlwaysTime, PTL
=============================================================================
