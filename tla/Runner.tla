------------------------------- MODULE Runner -------------------------------
(***************************************************************************)
(* The lifecycle of a scenario (internal/engine/runner.go), with the       *)
(* worker pool and the collector it drives.                                *)
(*                                                                         *)
(* One goroutine, the user's (the TUI's Update loop, or the headless       *)
(* command), calls Start, Stop, Resume and Restart one after the other.    *)
(* Each of them is a sequence of steps: what it does under r.mu is one     *)
(* step, each call it waits in is several.  Every launched lifecycle       *)
(* leaves a watcher goroutine behind that waits for the pool, stops the    *)
(* collector through stopCollectorOnce, and settles the state.  Stop waits *)
(* for the same pool and uses the same Once, but not for the watcher: a    *)
(* watcher can still be on its way when the next lifecycle is launched.    *)
(* The history variable overtaken remembers it; no guard excludes it.      *)
(*                                                                         *)
(* A session sends one request here, and the onStart callback of a fresh   *)
(* run, which touches nothing of this state, is left out.                  *)
(***************************************************************************)
EXTENDS Integers, Sequences, FiniteSets

CONSTANTS
  Concurrency, TotalMessages, Duration,  \* of the generator, see LoadGenerator
  Capacity, Kinds,                       \* of the collector, see Collector
  MaxLives,                              \* bound: lifecycles launched
  MaxTokens, MaxTime, MaxSent            \* bounds of the two components

ASSUME RunnerAssumption ==
  /\ Concurrency \in Nat
  /\ TotalMessages \in Nat
  /\ Duration \in Nat
  /\ Capacity \in Nat
  /\ Kinds \subseteq {"err", "faf", "plain", "matched"}
  /\ "err" \in Kinds  \* a cancelled request is always possible
  /\ MaxLives \in Nat \ {0}
  /\ MaxTokens \in Nat
  /\ MaxTime \in Nat
  /\ MaxSent \in Nat

VARIABLES
  state,      \* r.state
  life,       \* lifecycles launched; also names ctxRoot and doneCh of the last one
  poolLife,   \* the lifecycle whose ctxRoot is the parent of the pool's contexts
  onceDone,   \* stopCollectorOnce has run
  onceHolder, \* who is inside its Do, Nobody if none
  command,    \* what the user's goroutine is executing
  user,       \* where it is in that
  watcher,    \* where the watcher of each lifecycle is
  heldCh,     \* the doneCh a watcher has read, 0 if none
  closedCh,   \* the doneChs that are closed
  terminals,  \* history: onTerminal calls before the close of each doneCh
  request,    \* the session of each worker awaits a reply
  aborted,    \* history: pools in which a request failed by cancellation
  stoppedBy,  \* history: pools the user has cancelled
  overtaken   \* history: a lifecycle was launched over an unsettled watcher

\* The state of the generator and of the collector.
VARIABLES
  cycle, running, startTime, elapsedBank, totalSent, acceptDone, sessionDone,
  deadline, worker, ticket, waiter, sessions, now, ran,
  sent, received, errors, dropped, recorded, matched, results, starts, stopwatch,
  drain, hand, closing, listens, pair, doneClosed, ackClosed, awaits, inFlight,
  unsent, panicked

Gen == INSTANCE LoadGenerator WITH MaxCycles <- MaxLives
Col == INSTANCE Collector WITH MaxStarts <- MaxLives

Lives == 1 .. MaxLives
User == 0  \* the user's goroutine, as a caller of generator.Wait and collector.Stop
Nobody == -1

lifecycle == <<state, life, poolLife>>
once      == <<onceDone, onceHolder>>
userVars  == <<command, user>>
watchVars == <<watcher, heldCh, closedCh, terminals>>
histVars  == <<aborted, stoppedBy, overtaken>>
genState  == <<cycle, running, startTime, elapsedBank, totalSent, acceptDone, sessionDone,
               deadline, worker, ticket, waiter, sessions, now, ran>>
genVars   == <<genState, panicked>>
colState  == <<sent, received, errors, dropped, recorded, matched, results, starts,
               stopwatch, drain, hand, closing, listens, pair, doneClosed, ackClosed,
               awaits, inFlight, unsent>>
colVars   == <<colState, panicked>>
runVars   == <<lifecycle, once, userVars, watchVars, histVars, request>>
vars      == <<runVars, genState, colState, panicked>>

\* Before a launch; SCRIPT_ERROR: an expr predicate did not compile.
InitialStates == {"IDLE", "SCRIPT_ERROR"}

Init ==
  /\ state \in InitialStates
  /\ life = 0
  /\ poolLife = 0
  /\ onceDone = FALSE
  /\ onceHolder = Nobody
  /\ command = "none"
  /\ user = "ready"
  /\ watcher = [l \in Lives |-> "none"]
  /\ heldCh = [l \in Lives |-> 0]
  /\ closedCh = {}
  /\ terminals = [l \in Lives |-> 0]
  /\ request = [w \in Gen!Workers |-> FALSE]
  /\ aborted = {}
  /\ stoppedBy = {}
  /\ overtaken = FALSE
  /\ Gen!Init
  /\ Col!Init

-----------------------------------------------------------------------------
(***************************************************************************)
(* The user's goroutine: the calls.                                        *)
(***************************************************************************)
At(phase) == user = phase
GoTo(phase) == user' = phase /\ UNCHANGED command
Return == user' = "ready" /\ command' = "none"

Call(cmd, phase) ==
  /\ At("ready")
  /\ command' = cmd
  /\ user' = phase
  /\ UNCHANGED <<lifecycle, once, watchVars, histVars, request, genState,
                 colState, panicked>>

CallStart == life < MaxLives /\ Call("Start", "launch")

CallResume == life < MaxLives /\ state = "STOPPED" /\ Call("Resume", "launch")

\* The key handlers look at State() before they call Stop.
CallStop == state = "RUNNING" /\ Call("Stop", "halt")

Restarting(stops) ==
  /\ life < MaxLives
  /\ Call("Restart", IF stops THEN "halt" ELSE "reset")

\* Resets under the feet of a running pool.
CallRestart_NoStop == Restarting(FALSE)

CallRestart == Restarting(state = "RUNNING")

(***************************************************************************)
(* startInternal: the section under r.mu, then generator.Start and the     *)
(* watcher.                                                                *)
(***************************************************************************)
StartableFrom(states) == state \in states

\* Without the test for a run under way.
Startable_WhileRunning == StartableFrom({"IDLE", "STOPPED", "RUNNING"})

Startable == StartableFrom({"IDLE", "STOPPED"})

\* The watcher of l has yet to look at the state.
Unsettled(l) == watcher[l] \in {"wait", "once", "drain", "settle"}

Refused ==
  /\ At("launch")
  /\ ~ Startable
  /\ Return
  /\ UNCHANGED <<lifecycle, once, watchVars, histVars, request, genState,
                 colState, panicked>>

Launch ==
  /\ At("launch")
  /\ Startable
  /\ Col!Start
  /\ onceDone' = FALSE
  /\ onceHolder' = Nobody
  /\ life' = life + 1
  /\ state' = "RUNNING"
  /\ GoTo("spawn")
  /\ overtaken' = (overtaken \/ \E l \in Lives : Unsettled(l))
  /\ UNCHANGED <<poolLife, watchVars, aborted, stoppedBy, request, genState>>

Spawn ==
  /\ At("spawn")
  /\ \/ Gen!Start /\ poolLife' = life
     \/ Gen!StartIgnored /\ UNCHANGED poolLife
  /\ watcher' = [watcher EXCEPT ![life] = "wait"]
  /\ Return
  /\ UNCHANGED <<state, life, once, heldCh, closedCh, terminals, histVars, request,
                 colState>>

(***************************************************************************)
(* Stop, which Restart calls too.                                          *)
(***************************************************************************)
Halt ==
  /\ At("halt")
  /\ IF state = "RUNNING"
       THEN state' = "STOPPED" /\ GoTo("cancel")
       ELSE Return /\ UNCHANGED state
  /\ UNCHANGED <<life, poolLife, once, watchVars, histVars, request, genState,
                 colState, panicked>>

\* r.ctxRootCancel() reaches the pool only if the pool was opened under it.
CancelRoot ==
  /\ At("cancel")
  /\ GoTo("wait")
  /\ IF poolLife = life
       THEN Gen!Cancel /\ stoppedBy' = stoppedBy \union {cycle}
       ELSE UNCHANGED <<stoppedBy, genVars>>
  /\ UNCHANGED <<lifecycle, once, watchVars, aborted, overtaken, request, colState>>

AwaitPool ==
  /\ At("wait")
  /\ \/ (Gen!CallWait(User) \/ Gen!Released(User)) /\ UNCHANGED userVars
     \/ Gen!WaitReturns(User) /\ GoTo("once")
  /\ UNCHANGED <<lifecycle, once, watchVars, histVars, request, colState>>

(***************************************************************************)
(* stopCollectorOnce.Do(collector.Stop) by x.                              *)
(***************************************************************************)
SkipsIf(cond) == cond /\ UNCHANGED <<once, colVars>>

\* Do as an atomic flag: a caller who is not the first does not wait for it.
OnceSkips_NoWait == SkipsIf(onceDone \/ onceHolder # Nobody)

OnceSkips == SkipsIf(onceDone)

OnceEnters(x) ==
  /\ ~ onceDone
  /\ onceHolder = Nobody
  /\ onceHolder' = x
  /\ UNCHANGED onceDone
  /\ Col!CloseDone(x)

\* The Once may have been overwritten by Launch while x was inside: x then
\* unlocks a mutex that is not locked, which is fatal.
OnceLeaves(x) ==
  /\ Col!AckReceived(x)
  /\ onceHolder = x
  /\ onceDone' = TRUE
  /\ onceHolder' = Nobody

OnceTorn(x) ==
  /\ awaits[x] # 0 /\ awaits[x] \in ackClosed
  /\ onceHolder # x
  /\ panicked' = TRUE
  /\ UNCHANGED <<once, colState>>

StopCollector ==
  /\ \/ At("once") /\ OnceSkips
     \/ At("drain") /\ OnceLeaves(User)
  /\ IF command = "Restart" THEN GoTo("reset") ELSE Return
  /\ UNCHANGED <<lifecycle, watchVars, histVars, request, genState>>

BeginStopCollector ==
  /\ At("once")
  /\ OnceEnters(User)
  /\ GoTo("drain")
  /\ UNCHANGED <<lifecycle, watchVars, histVars, request, genState>>

(***************************************************************************)
(* The rest of Restart, under r.mu, whatever the state is.                 *)
(***************************************************************************)
ResetRun ==
  /\ At("reset")
  /\ Col!ResetAll
  /\ Gen!Reset
  /\ state' = "IDLE"
  /\ GoTo("launch")
  /\ UNCHANGED <<life, poolLife, once, watchVars, histVars, request>>

-----------------------------------------------------------------------------
(***************************************************************************)
(* The watcher of lifecycle l.                                             *)
(***************************************************************************)
WatcherAt(l, phase) == watcher[l] = phase
WatcherTo(l, phase) == watcher' = [watcher EXCEPT ![l] = phase]

WaitThen(l, next) ==
  /\ WatcherAt(l, "wait")
  /\ \/ (Gen!CallWait(l) \/ Gen!Released(l)) /\ UNCHANGED watcher
     \/ Gen!WaitReturns(l) /\ WatcherTo(l, next)
  /\ UNCHANGED <<lifecycle, once, userVars, heldCh, closedCh, terminals, histVars,
                 request, colState>>

\* Settles as soon as the pool has drained.
WatchPool_SettlesFirst(l) == WaitThen(l, "settle")

WatchPool(l) == WaitThen(l, "once")

WatcherBeginsStop(l) ==
  /\ WatcherAt(l, "once")
  /\ OnceEnters(l)
  /\ WatcherTo(l, "drain")
  /\ UNCHANGED <<lifecycle, userVars, heldCh, closedCh, terminals, histVars, request,
                 genState>>

WatcherStopsCollector(l) ==
  /\ \/ WatcherAt(l, "once") /\ OnceSkips /\ WatcherTo(l, "settle")
     \/ WatcherAt(l, "drain") /\ OnceLeaves(l) /\ WatcherTo(l, "settle")
  /\ UNCHANGED <<lifecycle, userVars, heldCh, closedCh, terminals, histVars, request,
                 genState>>

\* The section under r.mu: from which states it makes DONE, and what follows.
SettleFrom(l, from, next) ==
  /\ WatcherAt(l, "settle")
  /\ IF state \in from
       THEN /\ state' = "DONE"
            /\ heldCh' = [heldCh EXCEPT ![l] = life]
            /\ WatcherTo(l, next)
       ELSE /\ WatcherTo(l, "gone")
            /\ UNCHANGED <<state, heldCh>>
  /\ UNCHANGED <<life, poolLife, once, userVars, closedCh, terminals, histVars, request,
                 genState, colState, panicked>>

\* Does not tell an external Stop from a natural end.
Settle_IgnoresStop(l) == SettleFrom(l, {"RUNNING", "STOPPED"}, "callback")
\* Closes doneCh without the callback, or does neither.
Settle_NoCallback(l) == SettleFrom(l, {"RUNNING"}, "close")
Settle_Silent(l) == SettleFrom(l, {"RUNNING"}, "gone")

Settle(l) == SettleFrom(l, {"RUNNING"}, "callback")

FireTerminal(l) ==
  /\ WatcherAt(l, "callback")
  /\ terminals' = [terminals EXCEPT ![heldCh[l]] = @ + 1]
  /\ WatcherTo(l, "close")
  /\ UNCHANGED <<lifecycle, once, userVars, heldCh, closedCh, histVars, request,
                 genState, colState, panicked>>

CloseDoneCh(l) ==
  /\ WatcherAt(l, "close")
  /\ IF heldCh[l] \in closedCh
       THEN panicked' = TRUE /\ UNCHANGED <<closedCh, watcher>>
       ELSE /\ closedCh' = closedCh \union {heldCh[l]}
            /\ WatcherTo(l, "gone")
            /\ UNCHANGED panicked
  /\ UNCHANGED <<lifecycle, once, userVars, heldCh, terminals, histVars, request,
                 genState, colState>>

-----------------------------------------------------------------------------
(***************************************************************************)
(* The workers and their sessions.                                         *)
(***************************************************************************)
PoolStep(w) ==
  /\ \/ Gen!Accepting(w)
     \/ Gen!NotAccepting(w)
     \/ Gen!TakeNumber(w)
     \/ Gen!BeginSession(w)
     \/ Gen!CapReached(w)
  /\ UNCHANGED <<runVars, colState>>

\* The check of ctx.Err() at the top of the step loop.
Skip(w) ==
  /\ worker[w] = "session" /\ ~ request[w]
  /\ sessionDone[w[1]]
  /\ Gen!EndSession(w)
  /\ UNCHANGED <<runVars, colState>>

\* The context may have been cancelled since the check.
Dispatch(w) ==
  /\ worker[w] = "session" /\ ~ request[w]
  /\ sent + unsent < MaxSent
  /\ request' = [request EXCEPT ![w] = TRUE]
  /\ Col!SubmitSent
  /\ UNCHANGED <<lifecycle, once, userVars, watchVars, histVars, genState>>

RenderFails(w) ==
  /\ worker[w] = "session" /\ ~ request[w]
  /\ sent + unsent < MaxSent
  /\ Col!SubmitUnsent
  /\ Gen!EndSession(w)
  /\ UNCHANGED runVars

\* Send returns: with the target's answer, or with an error when the context is
\* cancelled.
Answer(w, k) ==
  /\ request[w]
  /\ request' = [request EXCEPT ![w] = FALSE]
  /\ Col!Submit(k)
  /\ Gen!EndSession(w)
  /\ UNCHANGED <<lifecycle, once, userVars, watchVars, histVars>>

CancelledSend(w) ==
  /\ request[w]
  /\ sessionDone[w[1]]
  /\ request' = [request EXCEPT ![w] = FALSE]
  /\ Col!Submit("err")
  /\ Gen!EndSession(w)
  /\ aborted' = aborted \union {w[1]}
  /\ UNCHANGED <<lifecycle, once, userVars, watchVars, stoppedBy, overtaken>>

-----------------------------------------------------------------------------
UserCalls == CallStart \/ CallResume \/ CallStop \/ CallRestart

UserStep ==
  \/ Refused \/ Launch \/ Spawn
  \/ Halt \/ CancelRoot \/ AwaitPool \/ BeginStopCollector \/ StopCollector
  \/ ResetRun
  \/ At("drain") /\ OnceTorn(User) /\ UNCHANGED <<runVars, genState>>

WatcherStep(l) ==
  \/ WatchPool(l) \/ WatcherBeginsStop(l) \/ WatcherStopsCollector(l)
  \/ Settle(l) \/ FireTerminal(l) \/ CloseDoneCh(l)
  \/ WatcherAt(l, "drain") /\ OnceTorn(l) /\ UNCHANGED <<runVars, genState>>

SessionStep(w) ==
  \/ Skip(w) \/ Dispatch(w) \/ RenderFails(w)
  \/ \E k \in Kinds : Answer(w, k)
  \/ CancelledSend(w)

DrainStep(d) == Col!DrainStep(d) /\ UNCHANGED <<runVars, genState>>

TimerStep ==
  /\ (\E c \in Lives : Gen!TimerFires(c)) \/ Gen!Tick
  /\ UNCHANGED <<runVars, colState>>

Next ==
  /\ ~ panicked
  /\ \/ UserCalls \/ UserStep
     \/ \E l \in Lives : WatcherStep(l)
     \/ \E w \in Gen!Workers : PoolStep(w) \/ SessionStep(w)
     \/ \E d \in Lives : DrainStep(d)
     \/ TimerStep

SafeSpec == Init /\ [][Next]_vars

\* Goroutines are scheduled; a request is answered (its timeout sees to that);
\* nothing makes the user call anything.
Fairness ==
  /\ WF_vars(~ panicked /\ UserStep)
  /\ \A l \in Lives : WF_vars(~ panicked /\ WatcherStep(l)) /\ WF_vars(~ panicked /\ DrainStep(l))
  /\ \A w \in Gen!Workers : WF_vars(~ panicked /\ (PoolStep(w) \/ SessionStep(w)))
  /\ WF_vars(~ panicked /\ TimerStep)

Spec == SafeSpec /\ Fairness

-----------------------------------------------------------------------------
\* The figures of a run are final: nobody will change them any more.
Final ==
  /\ Gen!WgIdle
  /\ Col!Stopped
  /\ results = <<>>
  /\ inFlight = 0
  /\ sent + unsent = received + errors + dropped
  /\ ~ stopwatch

(* A lifecycle overtakes a watcher only after a Stop: Stop waits for the   *)
(* pool and the collector, not for the watcher.  A run that ends by itself *)
(* and is restarted never does, nor does a second Start (runner.go:314-    *)
(* 330, 421-437).                                                          *)
OvertakesAfterStop == overtaken => stoppedBy # {}

(* DONE is reached only after the pool has drained and the collector has   *)
(* stopped, "the only point at which the metrics are guaranteed final"     *)
(* (runner.go:356-361).                                                    *)
DoneAlwaysFinal == state = "DONE" => Final

(* So it is unless a watcher was overtaken: that one may find the RUNNING  *)
(* of the next lifecycle, see the run of DoneAlwaysFinal.                  *)
DoneMeansFinal == state = "DONE" /\ ~ overtaken => Final

(* When Stop has returned no straggler sends or counts anything in the     *)
(* STOPPED state the user sees (runner.go:421-437), unless a watcher was   *)
(* overtaken.                                                              *)
StopMeansFinal == state = "STOPPED" /\ command = "none" /\ ~ overtaken => Final

(* A request fails by cancellation only in a run the user has stopped: the *)
(* natural end of a run never aborts a sibling's request, however the      *)
(* watchers are scheduled (load_generator.go:17-29).                       *)
AbortsOnlyByStop == aborted \subseteq stoppedBy

(* onTerminal runs at most once for each lifecycle, and before its doneCh  *)
(* is closed, so that whoever waits for the channel finds the mail sends   *)
(* registered (runner.go:374-414), also with overtaken watchers.           *)
TerminalOnceThenClosed ==
  \A l \in Lives : terminals[l] <= 1 /\ (l \in closedCh => terminals[l] = 1)

(* A STOPPED runner leaves that state by a command of the user only: no    *)
(* watcher, however late, makes DONE of it (runner.go:385-392).            *)
OnlyUserLeavesStopped ==
  [][state = "STOPPED" /\ state' # "STOPPED" => command \in {"Resume", "Restart", "Start"}]_vars

(* No WaitGroup, channel or Once is misused as long as no lifecycle was    *)
(* launched over a watcher that was still inside them                      *)
(* (load_generator.go:121-123, collector.go:168, runner.go:330).           *)
NoPanic == panicked => overtaken

(* A run that ends by itself is announced: once DONE, the callback runs    *)
(* and doneCh closes (runner.go:381-415).                                  *)
DoneIsAnnounced == \A l \in Lives : (state = "DONE" /\ life = l) ~> l \in closedCh

(* A run with a limit ends, also when it has been parked and resumed: by   *)
(* its timer or the cap, the drained pool and a watcher, if not by the     *)
(* user, and whatever watchers were overtaken, or else the process is gone *)
(* (load_generator.go:102-157, runner.go:362-392).                         *)
RunEnds == state = "RUNNING" ~> state # "RUNNING" \/ panicked

(* Every command returns: Stop's two waits, for the pool and for the       *)
(* collector, end also with an overtaken watcher in both, or else the      *)
(* process is gone (runner.go:422-437).                                    *)
CommandsReturn == command # "none" ~> command = "none" \/ panicked

\* What Lifecycle calls the phase, and the outcomes it calls pending.
Draining == user \in {"cancel", "wait", "once", "drain"}
AbstractPhase == IF state = "STOPPED" /\ Draining THEN "STOPPING" ELSE state
Announcing == {l \in Lives : watcher[l] \in {"callback", "close"}}

Abstract == INSTANCE Lifecycle WITH
  phase   <- AbstractPhase,
  pending <- inFlight + Len(results) + Col!InHand,
  counted <- received + errors + dropped,
  owed    <- Cardinality(Announcing)

(* The runner with everything inside implements Lifecycle, until a watcher *)
(* is overtaken: in particular, no figure moves in IDLE, STOPPED or DONE,  *)
(* and each DONE is announced once.                                        *)
ImplementsLifecycle ==
  Abstract!Init /\ [][~ overtaken' => Abstract!Next]_(Abstract!lifeVars)

(* The runner keeps the rules under which the generator's own properties   *)
(* hold: it reopens the pool only when it is drained and nobody is inside  *)
(* Wait, and resets it only when it is drained (load_generator.go:76-215). *)
(* The launch that overtakes a watcher is the first step that may not.     *)
GeneratorContract ==
  Gen!Init /\ [][~ overtaken' => Gen!Next]_(Gen!genVars)

(* The same for the collector: sessions submit only between a Start and a  *)
(* Stop, there is one drain goroutine and one Stop at a time, and ResetAll *)
(* finds it stopped (collector.go:154-205).                                *)
CollectorContract ==
  Col!Init /\ [][~ overtaken' => Col!Next]_(Col!colVars)
=============================================================================
