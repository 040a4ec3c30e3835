---------------------------- MODULE LoadGenerator ----------------------------
(***************************************************************************)
(* The worker pool of a scenario (internal/engine/load_generator.go).      *)
(*                                                                         *)
(* A Start call opens a cycle: it makes a session context and an accept    *)
(* context, arms the duration timer and spawns Concurrency workers.  Each  *)
(* worker loops: check accept, wait for a token, take a number from        *)
(* totalSent, run a session.  Taking a number and comparing it with the    *)
(* cap are two steps.  Whoever wants the pool gone calls Wait: Stop's      *)
(* caller (waiter 0) and the watcher of the cycle c (waiter c), which may  *)
(* both be inside it.                                                      *)
(*                                                                         *)
(* Next lets the owner call Start only when the previous cycle is over and *)
(* nobody is inside Wait, see Quiescent.  Runner composes these actions    *)
(* with the callers the program has.                                       *)
(***************************************************************************)
EXTENDS Integers, FiniteSets

CONSTANTS
  Concurrency,    \* cfg.Concurrency
  TotalMessages,  \* cfg.TotalMessages, 0 for no cap
  Duration,       \* cfg.Duration in ticks, 0 for no time limit
  MaxCycles,      \* bound: Start calls
  MaxTokens,      \* bound: tokens the limiter hands out when there is no cap
  MaxTime         \* bound: ticks of the clock while one cycle runs

ASSUME GeneratorAssumption ==
  /\ Concurrency \in Nat
  /\ TotalMessages \in Nat
  /\ Duration \in Nat
  /\ MaxCycles \in Nat \ {0}
  /\ MaxTokens \in Nat
  /\ MaxTime \in Nat

Cycles  == 1 .. MaxCycles
Workers == Cycles \X (1 .. Concurrency)  \* the cycle that spawned it, its slot
Stopper == 0                             \* whoever runs Runner.Stop
Waiters == {Stopper} \union Cycles

VARIABLES
  cycle,        \* the cycle whose contexts g.sessionCancel, g.acceptCancel cancel
  running,      \* g.running
  startTime,    \* g.startTime
  elapsedBank,  \* g.elapsedBank
  totalSent,    \* g.totalSent
  acceptDone,   \* the accept context of each cycle is cancelled
  sessionDone,  \* the session context of each cycle is cancelled
  deadline,     \* when each cycle's timer fires, 0 when it has none
  worker,       \* where each worker goroutine is
  ticket,       \* n, the number a worker took from totalSent
  waiter,       \* where each caller of Wait is
  sessions,     \* history: sessionFn calls since the last Reset
  now,          \* the clock
  ran,          \* history: ticks since the last Reset in which the pool ran
  panicked      \* the WaitGroup panicked and the process is gone

genState == <<cycle, running, startTime, elapsedBank, totalSent, acceptDone,
              sessionDone, deadline, worker, ticket, waiter, sessions, now, ran>>
genVars  == <<genState, panicked>>

WorkerPhases == {"none", "loop", "limiter", "numbered", "session", "gone"}
WaiterPhases == {"out", "parked", "woken", "draining"}

TypeOK ==
  /\ cycle \in 0 .. MaxCycles
  /\ running \in BOOLEAN
  /\ startTime \in Nat
  /\ elapsedBank \in Nat
  /\ totalSent \in Nat
  /\ acceptDone \in [Cycles -> BOOLEAN]
  /\ sessionDone \in [Cycles -> BOOLEAN]
  /\ deadline \in [Cycles -> Nat]
  /\ worker \in [Workers -> WorkerPhases]
  /\ ticket \in [Workers -> Nat]
  /\ waiter \in [Waiters -> WaiterPhases]
  /\ sessions \in Nat
  /\ now \in Nat
  /\ ran \in Nat
  /\ panicked \in BOOLEAN

Init ==
  /\ cycle = 0
  /\ running = FALSE
  /\ startTime = 0
  /\ elapsedBank = 0
  /\ totalSent = 0
  /\ acceptDone = [c \in Cycles |-> FALSE]
  /\ sessionDone = [c \in Cycles |-> FALSE]
  /\ deadline = [c \in Cycles |-> 0]
  /\ worker = [w \in Workers |-> "none"]
  /\ ticket = [w \in Workers |-> 0]
  /\ waiter = [x \in Waiters |-> "out"]
  /\ sessions = 0
  /\ now = 0
  /\ ran = 0
  /\ panicked = FALSE

(***************************************************************************)
(* The WaitGroup: its counter is the number of workers alive.              *)
(***************************************************************************)
Alive(w) == worker[w] \notin {"none", "gone"}
WgIdle   == \A w \in Workers : ~ Alive(w)

-----------------------------------------------------------------------------
(***************************************************************************)
(* Start.  Spawning the pool is one step: until the last worker runs, the  *)
(* caller of Start is the only one who touches the new contexts.           *)
(***************************************************************************)
Remaining == Duration - elapsedBank

SpentBudget == Duration > 0 /\ Remaining <= 0
SpentBudget_OffByOne == Duration > 0 /\ Remaining < 0

\* The body of Start: spent says whether the time budget is used up, arms
\* whether it starts a timer for the rest.
Open(spent, arms) ==
  LET c == cycle + 1 IN
  /\ ~ running
  /\ cycle < MaxCycles
  /\ cycle' = c
  /\ running' = TRUE
  /\ startTime' = now
  /\ acceptDone' = [acceptDone EXCEPT ![c] = spent]
  /\ sessionDone' = [sessionDone EXCEPT ![c] = FALSE]
  /\ deadline' = [deadline EXCEPT ![c] =
                    IF arms /\ ~ spent THEN now + Remaining ELSE 0]
  /\ worker' = [w \in Workers |-> IF w[1] = c THEN "loop" ELSE worker[w]]
  /\ UNCHANGED <<elapsedBank, totalSent, ticket, waiter, sessions, now, ran, panicked>>

Start_OffByOne == Open(SpentBudget_OffByOne, Duration > 0)
\* A Resume does not arm the timer again.
Start_OneTimer == Open(SpentBudget, Duration > 0 /\ cycle = 0)

Start == Open(SpentBudget, Duration > 0)

\* Start returns without a word when g.running is set.
StartIgnored == running /\ UNCHANGED genVars

\* The timer goroutine; it ends without effect once accept is cancelled.
TimerFires(c) ==
  /\ deadline[c] # 0
  /\ now >= deadline[c]
  /\ ~ acceptDone[c]
  /\ acceptDone' = [acceptDone EXCEPT ![c] = TRUE]
  /\ UNCHANGED <<cycle, running, startTime, elapsedBank, totalSent, sessionDone,
                 deadline, worker, ticket, waiter, sessions, now, ran, panicked>>

\* The parent context of the current cycle is cancelled, and both of its own.
Cancel ==
  /\ cycle > 0
  /\ sessionDone' = [sessionDone EXCEPT ![cycle] = TRUE]
  /\ acceptDone' = [acceptDone EXCEPT ![cycle] = TRUE]
  /\ UNCHANGED <<cycle, running, startTime, elapsedBank, totalSent, deadline,
                 worker, ticket, waiter, sessions, now, ran, panicked>>

-----------------------------------------------------------------------------
(***************************************************************************)
(* The worker loop.                                                        *)
(***************************************************************************)
Goto(w, phase) == worker' = [worker EXCEPT ![w] = phase]

\* The deferred wg.Done; the last one releases every goroutine parked in Wait.
Depart(w, last) ==
  /\ Goto(w, "gone")
  /\ waiter' = IF last
                 THEN [x \in Waiters |-> IF waiter[x] = "parked"
                                           THEN "woken" ELSE waiter[x]]
                 ELSE waiter

\* One wg.Add(1) for the whole pool: the first worker to go is the last.
Leave_OneAdd(w) == Depart(w, TRUE)

Leave(w) == Depart(w, \A v \in Workers \ {w} : ~ Alive(v))

Accepting(w) ==
  /\ worker[w] = "loop"
  /\ ~ acceptDone[w[1]]
  /\ Goto(w, "limiter")
  /\ UNCHANGED <<cycle, running, startTime, elapsedBank, totalSent, acceptDone,
                 sessionDone, deadline, ticket, waiter, sessions, now, ran, panicked>>

\* Out of the loop check, or out of limiter.Wait with an error.
NotAccepting(w) ==
  /\ worker[w] \in {"loop", "limiter"}
  /\ acceptDone[w[1]]
  /\ Leave(w)
  /\ UNCHANGED <<cycle, running, startTime, elapsedBank, totalSent, acceptDone,
                 sessionDone, deadline, ticket, sessions, now, ran, panicked>>

TokensLeft == TotalMessages > 0 \/ totalSent < MaxTokens

\* limiter.Wait returns nil, also when accept is cancelled while the token
\* arrives, and the worker takes a number.
Number(w, n) ==
  /\ worker[w] = "limiter"
  /\ TokensLeft
  /\ totalSent' = totalSent + 1
  /\ ticket' = [ticket EXCEPT ![w] = n]
  /\ Goto(w, "numbered")
  /\ UNCHANGED <<cycle, running, startTime, elapsedBank, acceptDone, sessionDone,
                 deadline, waiter, sessions, now, ran, panicked>>

\* Takes the value before the increment, as a Load ahead of the Add would.
TakeNumber_LoadFirst(w) == Number(w, totalSent)

TakeNumber(w) == Number(w, totalSent + 1)

OverCap(w) == TotalMessages > 0 /\ ticket[w] > TotalMessages

BeginSession(w) ==
  /\ worker[w] = "numbered"
  /\ ~ OverCap(w)
  /\ sessions' = sessions + 1
  /\ ticket' = [ticket EXCEPT ![w] = 0]
  /\ Goto(w, "session")
  /\ UNCHANGED <<cycle, running, startTime, elapsedBank, totalSent, acceptDone,
                 sessionDone, deadline, waiter, now, ran, panicked>>

\* Cancels g.acceptCancel, the field: the current cycle, whichever w is of.
EndPool(w, aborts) ==
  /\ worker[w] = "numbered"
  /\ OverCap(w)
  /\ acceptDone' = [acceptDone EXCEPT ![cycle] = TRUE]
  /\ sessionDone' = [sessionDone EXCEPT ![cycle] = @ \/ aborts]
  /\ ticket' = [ticket EXCEPT ![w] = 0]
  /\ Leave(w)
  /\ UNCHANGED <<cycle, running, startTime, elapsedBank, totalSent, deadline,
                 sessions, now, ran, panicked>>

\* One context for the accept loop and the sessions.
CapReached_OneContext(w) == EndPool(w, TRUE)

CapReached(w) == EndPool(w, FALSE)

EndSession(w) ==
  /\ worker[w] = "session"
  /\ Goto(w, "loop")
  /\ UNCHANGED <<cycle, running, startTime, elapsedBank, totalSent, acceptDone,
                 sessionDone, deadline, ticket, waiter, sessions, now, ran, panicked>>

-----------------------------------------------------------------------------
(***************************************************************************)
(* Wait: wg.Wait, then the section under g.mu.  A parked goroutine that is *)
(* released and finds the counter above zero panics (sync.WaitGroup).      *)
(***************************************************************************)
MoveWaiter(x, phase) == waiter' = [waiter EXCEPT ![x] = phase]

EnterWait(x, passes) ==
  /\ waiter[x] = "out"
  /\ MoveWaiter(x, IF passes THEN "draining" ELSE "parked")
  /\ UNCHANGED <<cycle, running, startTime, elapsedBank, totalSent, acceptDone,
                 sessionDone, deadline, worker, ticket, sessions, now, ran, panicked>>

\* A Wait without the wg.Wait.
CallWait_Blind(x) == EnterWait(x, TRUE)

CallWait(x) == EnterWait(x, WgIdle)

Released(x) ==
  /\ waiter[x] = "woken"
  /\ IF WgIdle
       THEN MoveWaiter(x, "draining") /\ UNCHANGED panicked
       ELSE panicked' = TRUE /\ UNCHANGED waiter
  /\ UNCHANGED <<cycle, running, startTime, elapsedBank, totalSent, acceptDone,
                 sessionDone, deadline, worker, ticket, sessions, now, ran>>

Bank(x, time) ==
  /\ waiter[x] = "draining"
  /\ MoveWaiter(x, "out")
  /\ elapsedBank' = elapsedBank + time
  /\ running' = FALSE
  /\ UNCHANGED <<cycle, startTime, totalSent, acceptDone, sessionDone, deadline,
                 worker, ticket, sessions, now, ran, panicked>>

\* Banks for every caller, as without the test of g.running.
WaitReturns_BanksTwice(x) == Bank(x, now - startTime)
\* Subtracts the wrong way round.
WaitReturns_Swapped(x) == Bank(x, startTime - now)

WaitReturns(x) == Bank(x, IF running THEN now - startTime ELSE 0)

Reset ==
  /\ elapsedBank' = 0
  /\ startTime' = 0
  /\ totalSent' = 0
  /\ sessions' = 0
  /\ ran' = 0
  /\ UNCHANGED <<cycle, running, acceptDone, sessionDone, deadline, worker, ticket,
                 waiter, now, panicked>>

\* The clock is read only while the pool runs.
Tick ==
  /\ running
  /\ now - startTime < MaxTime
  /\ now' = now + 1
  /\ ran' = ran + 1
  /\ UNCHANGED <<cycle, running, startTime, elapsedBank, totalSent, acceptDone,
                 sessionDone, deadline, worker, ticket, waiter, sessions, panicked>>

-----------------------------------------------------------------------------
\* The previous cycle is over and nobody is inside Wait any more.
Quiescent == ~ running /\ WgIdle /\ \A x \in Waiters : waiter[x] = "out"

WorkerStep(w) ==
  \/ Accepting(w)
  \/ NotAccepting(w)
  \/ TakeNumber(w)
  \/ BeginSession(w)
  \/ CapReached(w)
  \/ EndSession(w)

WaiterStep(x) == Released(x) \/ WaitReturns(x)

\* The watcher of the current cycle waits for it, and so does a Stop.
Owner ==
  \/ Quiescent /\ Start
  \/ ~ running /\ WgIdle /\ Reset
  \/ Cancel
  \/ cycle > 0 /\ \E x \in {Stopper, cycle} : CallWait(x)

Next ==
  /\ ~ panicked
  /\ \/ Owner
     \/ \E w \in Workers : WorkerStep(w)
     \/ \E x \in Waiters : WaiterStep(x)
     \/ \E c \in Cycles : TimerFires(c)
     \/ Tick

SafeSpec == Init /\ [][Next]_genVars

-----------------------------------------------------------------------------
(* No more than TotalMessages sessions start between two Resets, over any  *)
(* number of Stops and Resumes, although workers take their number and     *)
(* test it in separate steps (load_generator.go:143-157).                  *)
CapHeld == TotalMessages > 0 => sessions <= TotalMessages

(* When Wait has returned to its first caller no worker of any cycle is    *)
(* left, so that what the caller does next is not disturbed by a straggler *)
(* (load_generator.go:183-191).                                            *)
DrainedWhenNotRunning == ~ running => WgIdle

(* A pool that is released and refilled never catches a goroutine between  *)
(* the two halves of wg.Wait, as long as the owner reopens only when it is *)
(* Quiescent.                                                              *)
NoWaitGroupReuse == ~ panicked

(* A cycle that stops accepting of its own accord has a reason: the cap is *)
(* used up, or the pool has really run for Duration since the last Reset,  *)
(* over however many Stops and Resumes, and although two goroutines return *)
(* from Wait in each of them (load_generator.go:102-117, 183-191).         *)
NaturalEndHasReason ==
  (running /\ acceptDone[cycle] /\ ~ sessionDone[cycle]) =>
    \/ TotalMessages > 0 /\ totalSent > TotalMessages
    \/ Duration > 0 /\ ran >= Duration

(* A Resume whose banked time already uses up Duration starts no session   *)
(* (load_generator.go:103-106).                                            *)
NoSessionOnSpentBudget ==
  (running /\ Duration > 0 /\ elapsedBank >= Duration) =>
    \A w \in Workers : w[1] = cycle => worker[w] \notin {"numbered", "session"}
=============================================================================
