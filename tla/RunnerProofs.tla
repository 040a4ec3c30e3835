----------------------------- MODULE RunnerProofs -----------------------------
(***************************************************************************)
(* Proofs about Runner: for every number of lifecycles and workers, every  *)
(* cap, time limit and buffer size, and every interleaving of the user,    *)
(* the watchers, the sessions, the drain goroutines and the timers.        *)
(*                                                                         *)
(* The first part needs nothing of the watchers' speed.  The second one is *)
(* about every behaviour too, up to the launch that overtakes an unsettled *)
(* watcher: until then a step of the runner is a step of each of its two   *)
(* components, or leaves it alone, and the lemmas of LoadGeneratorProofs   *)
(* and CollectorProofs carry over.                                         *)
(***************************************************************************)
EXTENDS Runner, FiniteSetTheorems, TLAPS

GenP == INSTANCE LoadGeneratorProofs WITH MaxCycles <- MaxLives
ColP == INSTANCE CollectorProofs WITH MaxStarts <- MaxLives

States == {"IDLE", "RUNNING", "STOPPED", "DONE", "SCRIPT_ERROR"}
Commands == {"none", "Start", "Resume", "Stop", "Restart"}
UserPhases ==
  {"ready", "launch", "spawn", "halt", "cancel", "wait", "once", "drain", "reset"}
WatcherPhases ==
  {"none", "wait", "once", "drain", "settle", "callback", "close", "gone"}

RunTyped ==
  /\ state \in States
  /\ life \in 0 .. MaxLives
  /\ life = starts
  /\ command \in Commands
  /\ user \in UserPhases
  /\ watcher \in [Lives -> WatcherPhases]
  /\ heldCh \in [Lives -> 0 .. MaxLives]
  /\ terminals \in [Lives -> Nat]

\* Which command the user's goroutine is in.
CommandKnown ==
  /\ user = "ready" <=> command = "none"
  /\ user \in {"launch", "spawn"} => command \in {"Start", "Resume", "Restart"}
  /\ user = "reset" => command = "Restart"

\* A watcher is there when its lifecycle has been spawned.
Spawned ==
  /\ user = "spawn" => life > 0 /\ watcher[life] = "none"
  /\ \A l \in Lives : l > life => watcher[l] = "none"

Announces(l) == watcher[l] \in {"callback", "close"}

\* A doneCh belongs to the one watcher that made DONE of the lifecycle it is of.
Held ==
  \A l \in Lives :
    /\ heldCh[l] <= life
    /\ heldCh[l] # 0 => watcher[l] \in {"callback", "close", "gone"}
    /\ Announces(l) => heldCh[l] # 0
    /\ heldCh[l] # 0 /\ heldCh[l] = life => state \in {"DONE", "IDLE"}
    /\ \A m \in Lives : heldCh[l] # 0 /\ heldCh[m] = heldCh[l] => l = m

\* What has been done to each doneCh.
Announced ==
  /\ \A l \in Lives : heldCh[l] # 0 =>
       terminals[heldCh[l]] = IF watcher[l] = "callback" THEN 0 ELSE 1
  /\ \A c \in Lives : (\A l \in Lives : heldCh[l] # c) => terminals[c] = 0
  /\ \A c \in closedCh : \E l \in Lives : heldCh[l] = c /\ watcher[l] = "gone"

Channels == RunTyped /\ CommandKnown /\ Spawned /\ Held /\ Announced

\* A session context is cancelled only by a Stop.
CancelledByStop ==
  /\ sessionDone \in [Lives -> BOOLEAN]
  /\ \A c \in Lives : sessionDone[c] => c \in stoppedBy
  /\ aborted \subseteq stoppedBy

-----------------------------------------------------------------------------
(***************************************************************************)
(* The channels and the callbacks, however late the watchers are.          *)
(***************************************************************************)
LEMMA InitChannels == Init => Channels /\ CancelledByStop
<1>. SUFFICES ASSUME Init PROVE Channels /\ CancelledByStop
  OBVIOUS
<1>. USE RunnerAssumption DEF Init, Lives
<1>1. RunTyped
  BY DEF RunTyped, States, Commands, UserPhases, WatcherPhases, InitialStates, Col!Init
<1>2. CommandKnown /\ Spawned
  BY DEF CommandKnown, Spawned
<1>3. Held /\ Announced
  BY DEF Held, Announces, Announced
<1>4. CancelledByStop
  BY DEF CancelledByStop, Gen!Init, Gen!Cycles
<1>. QED
  BY <1>1, <1>2, <1>3, <1>4 DEF Channels

LEMMA CallChannels ==
  ASSUME Channels, UserCalls
  PROVE  Channels'
<1>. USE DEF lifecycle, once, watchVars, histVars, colState
<1>1. /\ user = "ready"
      /\ \/ command' \in {"Start", "Resume"} /\ user' = "launch"
         \/ command' = "Stop" /\ user' = "halt"
         \/ command' = "Restart" /\ user' \in {"halt", "reset"}
      /\ UNCHANGED <<state, life, starts, watcher, heldCh, closedCh, terminals>>
  BY DEF UserCalls, CallStart, CallResume, CallStop, CallRestart, Restarting, Call, At
<1>2. RunTyped' /\ CommandKnown' /\ Spawned'
  BY <1>1 DEF Channels, RunTyped, CommandKnown, Spawned, Commands, UserPhases
<1>3. Held' /\ Announced'
  BY <1>1 DEF Channels, Held, Announces, Announced
<1>. QED
  BY <1>2, <1>3 DEF Channels

\* What a step of the user's goroutine does to the state and the watchers.
LEMMA UserChannels ==
  ASSUME Channels, UserStep
  PROVE  Channels'
<1>. USE RunnerAssumption DEF lifecycle, once, userVars, watchVars, histVars, colState,
         runVars, At, GoTo, Return, Channels, Lives
<1>1. CASE Launch
  <2>1. /\ life' = life + 1 /\ starts' = starts + 1 /\ life' \in Lives
        /\ state \notin {"RUNNING", "DONE"} /\ state' = "RUNNING"
        /\ user = "launch" /\ user' = "spawn" /\ command' = command
        /\ UNCHANGED <<watcher, heldCh, closedCh, terminals>>
    BY <1>1 DEF Launch, Startable, StartableFrom, Col!Start, RunTyped
  <2>2. RunTyped' /\ CommandKnown' /\ Spawned'
    BY <2>1 DEF RunTyped, CommandKnown, Spawned, UserPhases, States
  <2>3. Held' /\ Announced'
    BY <2>1 DEF Held, Announces, Announced, RunTyped
  <2>. QED
    BY <2>2, <2>3
<1>2. CASE Spawn
  <2>1. /\ user = "spawn" /\ user' = "ready" /\ command' = "none"
        /\ watcher' = [watcher EXCEPT ![life] = "wait"]
        /\ UNCHANGED <<state, life, starts, heldCh, closedCh, terminals>>
    BY <1>2 DEF Spawn
  <2>2. life \in Lives /\ watcher[life] = "none"
    BY <2>1 DEF Spawned, RunTyped
  <2>3. RunTyped' /\ CommandKnown' /\ Spawned'
    BY <2>1, <2>2 DEF RunTyped, CommandKnown, Spawned, UserPhases, WatcherPhases, Commands
  <2>4. \A l \in Lives : heldCh[l] # 0 => watcher'[l] = watcher[l]
    BY <2>1, <2>2 DEF Held, RunTyped
  <2>5. Held' /\ Announced'
    BY <2>1, <2>2, <2>4 DEF Held, Announces, Announced, RunTyped
  <2>. QED
    BY <2>3, <2>5
<1>3. CASE Halt
  <2>1. /\ user = "halt"
        /\ \/ state = "RUNNING" /\ state' = "STOPPED" /\ user' = "cancel" /\ UNCHANGED command
           \/ state' = state /\ user' = "ready" /\ command' = "none"
        /\ UNCHANGED <<life, starts, watcher, heldCh, closedCh, terminals>>
    BY <1>3 DEF Halt
  <2>2. RunTyped' /\ CommandKnown' /\ Spawned'
    BY <2>1 DEF RunTyped, CommandKnown, Spawned, UserPhases, Commands, States
  <2>3. Held' /\ Announced'
    BY <2>1 DEF Held, Announces, Announced
  <2>. QED
    BY <2>2, <2>3
<1>4. CASE ResetRun
  <2>1. /\ user = "reset" /\ user' = "launch" /\ command' = command /\ state' = "IDLE"
        /\ UNCHANGED <<life, starts, watcher, heldCh, closedCh, terminals>>
    BY <1>4 DEF ResetRun, Col!ResetAll
  <2>2. RunTyped' /\ CommandKnown' /\ Spawned'
    BY <2>1 DEF RunTyped, CommandKnown, Spawned, UserPhases, States
  <2>3. Held' /\ Announced'
    BY <2>1 DEF Held, Announces, Announced
  <2>. QED
    BY <2>2, <2>3
<1>5. CASE \/ Refused \/ CancelRoot \/ AwaitPool \/ BeginStopCollector \/ StopCollector
           \/ At("drain") /\ OnceTorn(User) /\ UNCHANGED <<runVars, genState>>
  <2>1. /\ \/ user' = "ready" /\ command' = "none"
           \/ /\ user' \in {"wait", "once", "drain"}
              /\ user \in {"cancel", "wait", "once", "drain"}
              /\ UNCHANGED command
           \/ user' = "reset" /\ command = "Restart" /\ UNCHANGED command
           \/ user' = user /\ command' = command
        /\ UNCHANGED <<state, life, starts, watcher, heldCh, closedCh, terminals>>
    BY <1>5 DEF Refused, CancelRoot, AwaitPool, BeginStopCollector, StopCollector, OnceTorn,
         OnceEnters, OnceSkips, SkipsIf, OnceLeaves, Col!CloseDone, Col!CloseAndAwait,
         Col!AckReceived, Col!Return, colVars
  <2>2. RunTyped' /\ CommandKnown' /\ Spawned'
    BY <2>1 DEF RunTyped, CommandKnown, Spawned, UserPhases, Commands
  <2>3. Held' /\ Announced'
    BY <2>1 DEF Held, Announces, Announced
  <2>. QED
    BY <2>2, <2>3
<1>. QED
  BY <1>1, <1>2, <1>3, <1>4, <1>5 DEF UserStep

LEMMA WatcherChannels ==
  ASSUME Channels, NEW l \in Lives, WatcherStep(l)
  PROVE  Channels'
<1>. USE RunnerAssumption DEF lifecycle, once, userVars, watchVars, histVars, colState,
         runVars, Channels, Lives, WatcherAt, WatcherTo
<1>1. CASE Settle(l)
  <2>1. /\ watcher[l] = "settle" /\ heldCh[l] = 0
        /\ \/ /\ state = "RUNNING" /\ state' = "DONE"
              /\ heldCh' = [heldCh EXCEPT ![l] = life]
              /\ watcher' = [watcher EXCEPT ![l] = "callback"]
           \/ state' = state /\ heldCh' = heldCh /\ watcher' = [watcher EXCEPT ![l] = "gone"]
        /\ UNCHANGED <<life, starts, user, command, closedCh, terminals>>
    BY <1>1 DEF Settle, SettleFrom, Held, RunTyped
  <2>2. RunTyped' /\ CommandKnown'
    <3>1. CommandKnown'
      BY <2>1 DEF CommandKnown
    <3>2. watcher' \in [Lives -> WatcherPhases]
      BY <2>1 DEF RunTyped, WatcherPhases
    <3>3. heldCh' \in [Lives -> 0 .. MaxLives]
      BY <2>1 DEF RunTyped
    <3>4. terminals' \in [Lives -> Nat]
      BY <2>1 DEF RunTyped
    <3>5. state' \in States
      BY <2>1 DEF RunTyped, States
    <3>. QED
      BY <2>1, <3>1, <3>2, <3>3, <3>4, <3>5 DEF RunTyped
  <2>3. l <= life /\ (user = "spawn" => l # life)
    BY <2>1 DEF Spawned, RunTyped
  <2>4. Spawned'
    BY <2>1, <2>3 DEF Spawned, RunTyped
  <2>5. CASE state = "RUNNING" /\ state' = "DONE"
    <3>0. /\ heldCh' = [heldCh EXCEPT ![l] = life]
          /\ watcher' = [watcher EXCEPT ![l] = "callback"]
      BY <2>1, <2>5
    <3>1. life \in Lives /\ \A m \in Lives : heldCh[m] # life
      BY <2>3, <2>5 DEF Held, RunTyped
    <3>2. Held'
      BY <2>1, <2>5, <3>0, <3>1 DEF Held, Announces, RunTyped
    <3>3. terminals[life] = 0 /\ heldCh'[l] = life /\ watcher'[l] = "callback"
      BY <3>0, <3>1 DEF Announced, RunTyped
    <3>4. \A m \in Lives \ {l} : heldCh'[m] = heldCh[m] /\ watcher'[m] = watcher[m]
      BY <3>0 DEF RunTyped
    <3>5. \A m \in Lives : heldCh'[m] # 0 =>
            terminals'[heldCh'[m]] = IF watcher'[m] = "callback" THEN 0 ELSE 1
      BY <2>1, <3>3, <3>4 DEF Announced
    <3>6. \A c \in Lives : (\A m \in Lives : heldCh'[m] # c) => terminals'[c] = 0
      BY <2>1, <3>1, <3>3, <3>4 DEF Announced
    <3>7. \A c \in closedCh' : \E m \in Lives : heldCh'[m] = c /\ watcher'[m] = "gone"
      BY <2>1, <3>4 DEF Announced
    <3>. QED
      BY <2>2, <2>4, <3>2, <3>5, <3>6, <3>7 DEF Announced
  <2>6. CASE state' = state /\ heldCh' = heldCh /\ watcher' = [watcher EXCEPT ![l] = "gone"]
    <3>1. Held'
      BY <2>1, <2>6 DEF Held, Announces, RunTyped
    <3>2. Announced'
      BY <2>1, <2>6 DEF Announced, RunTyped
    <3>. QED
      BY <2>2, <2>4, <3>1, <3>2
  <2>. QED
    BY <2>1, <2>5, <2>6
<1>2. CASE FireTerminal(l)
  <2>1. /\ watcher[l] = "callback" /\ heldCh[l] \in Lives
        /\ terminals' = [terminals EXCEPT ![heldCh[l]] = @ + 1]
        /\ watcher' = [watcher EXCEPT ![l] = "close"]
        /\ UNCHANGED <<state, life, starts, user, command, closedCh, heldCh>>
    BY <1>2 DEF FireTerminal, Held, Announces, RunTyped
  <2>2. RunTyped' /\ CommandKnown'
    <3>1. CommandKnown'
      BY <2>1 DEF CommandKnown
    <3>2. watcher' \in [Lives -> WatcherPhases]
      BY <2>1 DEF RunTyped, WatcherPhases
    <3>3. heldCh' \in [Lives -> 0 .. MaxLives]
      BY <2>1 DEF RunTyped
    <3>4. terminals' \in [Lives -> Nat]
      BY <2>1 DEF RunTyped
    <3>5. state' \in States
      BY <2>1 DEF RunTyped, States
    <3>. QED
      BY <2>1, <3>1, <3>2, <3>3, <3>4, <3>5 DEF RunTyped
  <2>3. Spawned' /\ Held'
    BY <2>1 DEF Spawned, Held, Announces, RunTyped
  <2>4. terminals[heldCh[l]] = 0
    BY <2>1 DEF Announced
  <2>5. \A m \in Lives : heldCh'[m] # 0 =>
          terminals'[heldCh'[m]] = IF watcher'[m] = "callback" THEN 0 ELSE 1
    <3>. TAKE m \in Lives
    <3>1. CASE m = l
      BY <2>1, <2>4, <3>1 DEF RunTyped
    <3>2. CASE m # l
      BY <2>1, <3>2 DEF RunTyped, Held, Announced
    <3>. QED
      BY <3>1, <3>2
  <2>6. \A c \in Lives : (\A m \in Lives : heldCh'[m] # c) => terminals'[c] = 0
    BY <2>1 DEF Announced, RunTyped
  <2>7. \A c \in closedCh' : \E m \in Lives : heldCh'[m] = c /\ watcher'[m] = "gone"
    BY <2>1 DEF Announced, RunTyped
  <2>. QED
    BY <2>2, <2>3, <2>5, <2>6, <2>7 DEF Announced
<1>3. CASE CloseDoneCh(l)
  <2>1. /\ watcher[l] = "close" /\ heldCh[l] # 0
        /\ \/ closedCh' = closedCh /\ watcher' = watcher
           \/ /\ closedCh' = closedCh \union {heldCh[l]}
              /\ watcher' = [watcher EXCEPT ![l] = "gone"]
        /\ UNCHANGED <<state, life, starts, user, command, terminals, heldCh>>
    BY <1>3 DEF CloseDoneCh, Held, Announces
  <2>2. RunTyped' /\ CommandKnown'
    <3>1. CommandKnown'
      BY <2>1 DEF CommandKnown
    <3>2. watcher' \in [Lives -> WatcherPhases]
      BY <2>1 DEF RunTyped, WatcherPhases
    <3>3. heldCh' \in [Lives -> 0 .. MaxLives]
      BY <2>1 DEF RunTyped
    <3>4. terminals' \in [Lives -> Nat]
      BY <2>1 DEF RunTyped
    <3>5. state' \in States
      BY <2>1 DEF RunTyped, States
    <3>. QED
      BY <2>1, <3>1, <3>2, <3>3, <3>4, <3>5 DEF RunTyped
  <2>3. Spawned' /\ Held'
    <3>1. Spawned'
      BY <2>1 DEF Spawned, RunTyped
    <3>2. Held'
      BY <2>1 DEF Held, Announces, RunTyped
    <3>. QED
      BY <3>1, <3>2
  <2>4. Announced'
    <3>1. \A m \in Lives : heldCh'[m] # 0 =>
            terminals'[heldCh'[m]] = IF watcher'[m] = "callback" THEN 0 ELSE 1
      BY <2>1 DEF Announced, RunTyped
    <3>2. \A c \in Lives : (\A m \in Lives : heldCh'[m] # c) => terminals'[c] = 0
      BY <2>1 DEF Announced
    <3>3. \A c \in closedCh' : \E m \in Lives : heldCh'[m] = c /\ watcher'[m] = "gone"
      BY <2>1 DEF Announced, RunTyped
    <3>. QED
      BY <3>1, <3>2, <3>3 DEF Announced
  <2>. QED
    BY <2>2, <2>3, <2>4
<1>4. CASE \/ WatchPool(l) \/ WatcherBeginsStop(l) \/ WatcherStopsCollector(l)
           \/ WatcherAt(l, "drain") /\ OnceTorn(l) /\ UNCHANGED <<runVars, genState>>
  <2>1. /\ watcher'[l] # watcher[l] =>
              /\ watcher[l] \in {"wait", "once", "drain"}
              /\ watcher'[l] \in {"once", "drain", "settle"}
        /\ \A m \in Lives \ {l} : watcher'[m] = watcher[m]
        /\ watcher' \in [Lives -> WatcherPhases]
        /\ UNCHANGED <<state, life, starts, user, command, heldCh, closedCh, terminals>>
    BY <1>4 DEF WatchPool, WaitThen, WatcherBeginsStop, WatcherStopsCollector, OnceTorn,
         OnceEnters, OnceSkips, SkipsIf, OnceLeaves, Col!CloseDone, Col!CloseAndAwait,
         Col!AckReceived, Col!Return, colVars, RunTyped, WatcherPhases
  <2>2. RunTyped' /\ CommandKnown'
    <3>1. CommandKnown'
      BY <2>1 DEF CommandKnown
    <3>2. watcher' \in [Lives -> WatcherPhases]
      BY <2>1 DEF RunTyped, WatcherPhases
    <3>3. heldCh' \in [Lives -> 0 .. MaxLives]
      BY <2>1 DEF RunTyped
    <3>4. terminals' \in [Lives -> Nat]
      BY <2>1 DEF RunTyped
    <3>5. state' \in States
      BY <2>1 DEF RunTyped, States
    <3>. QED
      BY <2>1, <3>1, <3>2, <3>3, <3>4, <3>5 DEF RunTyped
  <2>3. Spawned'
    BY <2>1 DEF Spawned, RunTyped
  <2>4. Held'
    BY <2>1 DEF Held, Announces, RunTyped
  <2>5. \A m \in Lives : heldCh[m] # 0 => watcher'[m] = watcher[m]
    BY <2>1 DEF Held
  <2>6. Announced'
    <3>1. \A c \in closedCh : \E m \in Lives : heldCh[m] = c /\ watcher'[m] = "gone"
      BY <2>1 DEF Announced
    <3>. QED
      BY <2>1, <2>5, <3>1 DEF Announced
  <2>. QED
    BY <2>2, <2>3, <2>4, <2>6
<1>. QED
  BY <1>1, <1>2, <1>3, <1>4 DEF WatcherStep

\* Workers, sessions, drain goroutines and timers do not touch any of it.
Elsewhere ==
  \/ \E w \in Gen!Workers : PoolStep(w) \/ SessionStep(w)
  \/ \E d \in Lives : DrainStep(d)
  \/ TimerStep

LEMMA ElsewhereLeavesRun ==
  ASSUME Elsewhere
  PROVE  UNCHANGED <<lifecycle, once, userVars, watchVars, stoppedBy, starts>>
<1>. USE DEF runVars, colState, histVars
<1>1. ASSUME NEW w \in Gen!Workers, PoolStep(w) \/ SessionStep(w)
      PROVE  UNCHANGED <<lifecycle, once, userVars, watchVars, stoppedBy, starts>>
  BY <1>1 DEF PoolStep, SessionStep, Skip, Dispatch, RenderFails, Answer, CancelledSend,
       Col!SubmitSent, Col!SubmitUnsent, Col!Submit
<1>2. ASSUME NEW d \in Lives, DrainStep(d)
      PROVE  UNCHANGED <<lifecycle, once, userVars, watchVars, stoppedBy, starts>>
  BY <1>2 DEF DrainStep, Col!DrainStep, Col!Select, Col!Take, Col!SeeDone, Col!Count,
       Col!Record, Col!Acknowledge, Col!Finish
<1>3. CASE TimerStep
  BY <1>3 DEF TimerStep
<1>. QED
  BY <1>1, <1>2, <1>3 DEF Elsewhere

LEMMA ChannelsUntouched ==
  ASSUME Channels, UNCHANGED <<lifecycle, userVars, watchVars, starts>>
  PROVE  Channels'
BY DEF Channels, RunTyped, CommandKnown, Spawned, Held, Announces, Announced, lifecycle,
       userVars, watchVars

LEMMA NextIs ==
  ASSUME Next
  PROVE  UserCalls \/ UserStep \/ (\E l \in Lives : WatcherStep(l)) \/ Elsewhere
BY DEF Next, Elsewhere

LEMMA StepChannels == Channels /\ [Next]_vars => Channels'
<1>. SUFFICES ASSUME Channels, [Next]_vars PROVE Channels'
  OBVIOUS
<1>1. CASE Next
  BY <1>1, NextIs, CallChannels, UserChannels, WatcherChannels, ElsewhereLeavesRun,
     ChannelsUntouched
<1>2. CASE UNCHANGED vars
  BY <1>2, ChannelsUntouched DEF vars, runVars, colState
<1>. QED
  BY <1>1, <1>2

LEMMA AlwaysChannels == SafeSpec => []Channels
<1>1. Init => Channels
  BY InitChannels
<1>. QED
  BY <1>1, StepChannels, PTL DEF SafeSpec

(* The terminal callback runs at most once for each lifecycle and before   *)
(* its doneCh is closed, whatever watchers of earlier lifecycles still do  *)
(* (runner.go:374-414).                                                    *)
THEOREM CallbackOnceBeforeClose == SafeSpec => []TerminalOnceThenClosed
<1>1. Channels => TerminalOnceThenClosed
  <2>. SUFFICES ASSUME Channels, NEW c \in Lives
                PROVE  terminals[c] <= 1 /\ (c \in closedCh => terminals[c] = 1)
    BY DEF TerminalOnceThenClosed
  <2>1. terminals[c] <= 1
    <3>1. CASE \E l \in Lives : heldCh[l] = c
      <4>1. PICK l \in Lives : heldCh[l] = c
        BY <3>1
      <4>. QED
        BY <4>1 DEF Channels, Announced, Lives
    <3>2. CASE \A l \in Lives : heldCh[l] # c
      BY <3>2 DEF Channels, Announced
    <3>. QED
      BY <3>1, <3>2
  <2>2. ASSUME c \in closedCh
        PROVE  terminals[c] = 1
    <3>1. PICK l \in Lives : heldCh[l] = c /\ watcher[l] = "gone"
      BY <2>2 DEF Channels, Announced
    <3>. QED
      BY <3>1 DEF Channels, Announced, Lives
  <2>. QED
    BY <2>1, <2>2
<1>. QED
  BY <1>1, AlwaysChannels, PTL

(* A STOPPED runner leaves that state by Start, Resume or Restart only: no *)
(* watcher, however stale, makes DONE of it (runner.go:385-392).           *)
THEOREM StopIsSticky == SafeSpec => OnlyUserLeavesStopped
<1>. DEFINE Leaves == state = "STOPPED" /\ state' # "STOPPED"
                        => command \in {"Resume", "Restart", "Start"}
<1>. USE DEF lifecycle, runVars
<1>1. ASSUME Channels, [Next]_vars
      PROVE  Leaves
  <2>. SUFFICES ASSUME state = "STOPPED", state' # "STOPPED"
                PROVE  command \in {"Resume", "Restart", "Start"}
    OBVIOUS
  <2>1. CASE UserCalls
    BY <2>1 DEF UserCalls, CallStart, CallResume, CallStop, CallRestart, Restarting, Call
  <2>2. CASE UserStep
    <3>1. Launch \/ ResetRun
      BY <2>2 DEF UserStep, Refused, Spawn, Halt, CancelRoot, AwaitPool, BeginStopCollector,
           StopCollector, At
    <3>. QED
      BY <1>1, <3>1 DEF Launch, ResetRun, At, Channels, CommandKnown
  <2>3. ASSUME NEW l \in Lives, WatcherStep(l)
        PROVE  FALSE
    BY <2>3 DEF WatcherStep, WatchPool, WaitThen, WatcherBeginsStop, WatcherStopsCollector,
         Settle, SettleFrom, FireTerminal, CloseDoneCh
  <2>4. CASE Elsewhere
    BY <2>4, ElsewhereLeavesRun
  <2>5. CASE UNCHANGED vars
    BY <2>5 DEF vars
  <2>. QED
    BY <1>1, <2>1, <2>2, <2>3, <2>4, <2>5, NextIs
<1>2. Channels /\ [Next]_vars => [Leaves]_vars
  BY <1>1
<1>. QED
  BY <1>2, AlwaysChannels, PTL DEF SafeSpec, OnlyUserLeavesStopped

-----------------------------------------------------------------------------
(***************************************************************************)
(* Cancelled requests.                                                     *)
(***************************************************************************)
\* What keeps or opens session contexts.
LEMMA NotCancelled ==
  ASSUME CancelledByStop, stoppedBy \subseteq stoppedBy',
         UNCHANGED aborted,
         \/ UNCHANGED sessionDone
         \/ \E c \in Lives : sessionDone' = [sessionDone EXCEPT ![c] = FALSE]
  PROVE  CancelledByStop'
BY DEF CancelledByStop

LEMMA UserCancels ==
  ASSUME RunTyped, CancelledByStop, UserCalls \/ UserStep
  PROVE  CancelledByStop'
<1>. USE DEF histVars, runVars, genState, genVars
<1>1. CASE CancelRoot
  <2>1. CASE poolLife = life
    <3>1. /\ sessionDone' = [sessionDone EXCEPT ![cycle] = TRUE]
          /\ stoppedBy' = stoppedBy \union {cycle}
          /\ aborted' = aborted
      BY <1>1, <2>1 DEF CancelRoot, Gen!Cancel
    <3>. QED
      BY <3>1 DEF CancelledByStop
  <2>2. CASE poolLife # life
    BY <1>1, <2>2, NotCancelled DEF CancelRoot
  <2>. QED
    BY <2>1, <2>2
<1>2. CASE Spawn
  <2>1. UNCHANGED <<aborted, stoppedBy>>
    BY <1>2 DEF Spawn
  <2>2. CASE Gen!Start
    <3>1. /\ sessionDone' = [sessionDone EXCEPT ![cycle + 1] = FALSE]
          /\ cycle' = cycle + 1
      BY <2>2 DEF Gen!Start, Gen!Open
    <3>. QED
      BY <2>1, <3>1 DEF CancelledByStop
  <2>3. CASE Gen!StartIgnored
    BY <2>1, <2>3, NotCancelled DEF Gen!StartIgnored, Gen!genVars, Gen!genState
  <2>. QED
    BY <1>2, <2>2, <2>3 DEF Spawn
<1>3. CASE AwaitPool
  <2>1. UNCHANGED <<aborted, stoppedBy, sessionDone>>
    BY <1>3 DEF AwaitPool, Gen!CallWait, Gen!EnterWait, Gen!Released, Gen!WaitReturns, Gen!Bank
  <2>. QED
    BY <2>1, NotCancelled
<1>4. CASE ResetRun
  BY <1>4, NotCancelled DEF ResetRun, Gen!Reset
<1>5. CASE \/ UserCalls \/ Refused \/ Launch \/ Halt \/ BeginStopCollector \/ StopCollector
           \/ At("drain") /\ OnceTorn(User) /\ UNCHANGED <<runVars, genState>>
  <2>1. UNCHANGED <<aborted, stoppedBy, sessionDone>>
    BY <1>5 DEF UserCalls, CallStart, CallResume, CallStop, CallRestart, Restarting, Call,
         Refused, Launch, Halt, BeginStopCollector, StopCollector
  <2>. QED
    BY <2>1, NotCancelled
<1>. QED
  BY <1>1, <1>2, <1>3, <1>4, <1>5 DEF UserStep

LEMMA WatcherCancels ==
  ASSUME CancelledByStop, NEW l \in Lives, WatcherStep(l)
  PROVE  CancelledByStop'
<1>1. UNCHANGED <<aborted, stoppedBy, sessionDone>>
  BY DEF WatcherStep, WatchPool, WaitThen, WatcherBeginsStop, WatcherStopsCollector, Settle,
     SettleFrom, FireTerminal, CloseDoneCh, Gen!CallWait, Gen!EnterWait, Gen!Released,
     Gen!WaitReturns, Gen!Bank, histVars, runVars, genState
<1>. QED
  BY <1>1, NotCancelled

LEMMA ElsewhereCancels ==
  ASSUME CancelledByStop, Elsewhere
  PROVE  CancelledByStop'
<1>. USE DEF histVars, runVars, genState, genVars
<1>0. stoppedBy' = stoppedBy
  BY ElsewhereLeavesRun
<1>1. ASSUME NEW w \in Gen!Workers, PoolStep(w)
      PROVE  CancelledByStop'
  <2>1. aborted' = aborted
    BY <1>1 DEF PoolStep
  <2>2. CASE Gen!CapReached(w)
    <3>1. sessionDone' = [sessionDone EXCEPT ![cycle] = @ \/ FALSE]
      BY <2>2 DEF Gen!CapReached, Gen!EndPool
    <3>. QED
      BY <1>0, <2>1, <3>1 DEF CancelledByStop
  <2>3. CASE Gen!Accepting(w) \/ Gen!NotAccepting(w) \/ Gen!TakeNumber(w) \/ Gen!BeginSession(w)
    <3>1. sessionDone' = sessionDone
      BY <2>3 DEF Gen!Accepting, Gen!NotAccepting, Gen!TakeNumber, Gen!Number, Gen!BeginSession
    <3>. QED
      BY <1>0, <2>1, <3>1, NotCancelled
  <2>. QED
    BY <1>1, <2>2, <2>3 DEF PoolStep
<1>2. ASSUME NEW w \in Gen!Workers, SessionStep(w)
      PROVE  CancelledByStop'
  <2>1. sessionDone' = sessionDone
    BY <1>2 DEF SessionStep, Skip, Dispatch, RenderFails, Answer, CancelledSend, Gen!EndSession
  <2>2. CASE CancelledSend(w)
    <3>1. w[1] \in Lives
      BY DEF Gen!Workers, Gen!Cycles, Lives
    <3>2. sessionDone[w[1]] /\ aborted' = aborted \union {w[1]}
      BY <2>2 DEF CancelledSend
    <3>. QED
      BY <1>0, <2>1, <3>1, <3>2 DEF CancelledByStop
  <2>3. CASE Skip(w) \/ Dispatch(w) \/ RenderFails(w) \/ \E k \in Kinds : Answer(w, k)
    <3>1. aborted' = aborted
      BY <2>3 DEF Skip, Dispatch, RenderFails, Answer
    <3>. QED
      BY <1>0, <2>1, <3>1, NotCancelled
  <2>. QED
    BY <1>2, <2>2, <2>3 DEF SessionStep
<1>3. CASE (\E d \in Lives : DrainStep(d)) \/ TimerStep
  <2>1. UNCHANGED <<aborted, sessionDone>>
    BY <1>3 DEF DrainStep, TimerStep, Gen!TimerFires, Gen!Tick
  <2>. QED
    BY <1>0, <2>1, NotCancelled
<1>. QED
  BY <1>1, <1>2, <1>3 DEF Elsewhere

(* A request fails by cancellation only in a run the user has stopped, for *)
(* whichever watcher, worker or timer acts in between                      *)
(* (load_generator.go:17-29).                                              *)
THEOREM OnlyStopAborts == SafeSpec => []AbortsOnlyByStop
<1>1. Init => CancelledByStop
  BY InitChannels
<1>2. Channels /\ CancelledByStop /\ [Next]_vars => CancelledByStop'
  <2>. SUFFICES ASSUME Channels, CancelledByStop, [Next]_vars PROVE CancelledByStop'
    OBVIOUS
  <2>1. CASE Next
    BY <2>1, NextIs, UserCancels, WatcherCancels, ElsewhereCancels DEF Channels
  <2>2. CASE UNCHANGED vars
    BY <2>2, NotCancelled DEF vars, runVars, histVars, genState
  <2>. QED
    BY <2>1, <2>2
<1>3. CancelledByStop => AbortsOnlyByStop
  BY DEF CancelledByStop, AbortsOnlyByStop
<1>. QED
  BY <1>1, <1>2, <1>3, AlwaysChannels, PTL DEF SafeSpec

-----------------------------------------------------------------------------
Stopping == user \in {"cancel", "wait", "once", "drain"}

\* Only the last lifecycle has an unsettled watcher; others may be announcing.
OneWatcher ==
  \A l \in Lives : (l # life \/ user = "spawn") =>
    watcher[l] \in {"none", "callback", "close", "gone"}

\* The pool is that of the last lifecycle spawned.
PoolOfLife ==
  /\ cycle = IF user = "spawn" THEN life - 1 ELSE life
  /\ poolLife = cycle
  /\ waiter[User] # "out" => user = "wait"
  /\ \A l \in Lives : waiter[l] # "out" => watcher[l] = "wait"

\* When the pool has drained.
Drained ==
  /\ running => life > 0 /\ user # "spawn" /\ ~ onceDone /\ onceHolder = Nobody
  /\ running => state = "RUNNING" \/ user \in {"cancel", "wait"}
  /\ user \in {"once", "drain"} => ~ running
  /\ \A l \in Lives : l = life /\ watcher[l] \notin {"none", "wait"} => ~ running

\* What the state says about the user's goroutine.
StateFits ==
  /\ Stopping => state = "STOPPED"
  /\ user = "reset" => state # "RUNNING"
  /\ user = "spawn" => state = "RUNNING" /\ ~ onceDone
  /\ life = 0 => state \in InitialStates
  /\ state = "SCRIPT_ERROR" => life = 0

\* The Once, and who is inside.
OnceHeld ==
  /\ onceDone \in BOOLEAN
  /\ onceHolder \in {Nobody} \union Col!Stoppers
  /\ user = "drain" <=> onceHolder = User
  /\ \A l \in Lives : watcher[l] = "drain" <=> onceHolder = l
  /\ onceHolder # Nobody => ~ onceDone

\* When it has run, and what that means for the collector.
OnceRan ==
  /\ state # "RUNNING" /\ ~ Stopping /\ life > 0 => onceDone
  /\ \A l \in Lives : l = life /\ watcher[l] \in {"settle", "callback", "close", "gone"} =>
       onceDone
  /\ \A x \in Col!Stoppers : awaits[x] # 0 <=> onceHolder = x
  /\ life = 0 \/ onceDone => Col!Stopped
  /\ life > 0 /\ ~ onceDone => ~ Col!Stopped

Waiting == {w \in Gen!Workers : request[w]}

\* As long as nobody has pressed Stop, only a running lifecycle has an unsettled
\* watcher.
BehindAfterStop ==
  stoppedBy = {} => (\A l \in Lives : Unsettled(l) => state = "RUNNING" \/ user = "cancel")

\* The requests under way are those the collector knows of.
Requests ==
  /\ request \in [Gen!Workers -> BOOLEAN]
  /\ \A w \in Gen!Workers : request[w] => worker[w] = "session"
  /\ inFlight = Cardinality(Waiting)

Placed == OneWatcher /\ PoolOfLife /\ Drained /\ StateFits /\ OnceHeld /\ OnceRan

Prompt == Placed /\ Requests

Parts ==
  /\ GenP!Typed /\ GenP!Pool
  /\ ColP!TypeOK /\ ColP!HandOver /\ ColP!NothingLost

RunnerInv == Channels /\ Prompt /\ Parts
-----------------------------------------------------------------------------
(***************************************************************************)
(* The components.  GenP and ColP are the same modules as Gen and Col,     *)
(* with their proofs; their constants satisfy what those proofs assume.    *)
(***************************************************************************)
LEMMA Assumptions == GenP!GeneratorAssumption /\ ColP!CollectorAssumption
BY RunnerAssumption DEF GenP!GeneratorAssumption, ColP!CollectorAssumption, ColP!AllKinds

LEMMA SameGenerator ==
  /\ Gen!Workers = GenP!Workers /\ Gen!Waiters = GenP!Waiters /\ Gen!Waiters = {User} \union Lives
  /\ Gen!WgIdle <=> GenP!WgIdle
  /\ Gen!Init <=> GenP!Init
  /\ Gen!Next <=> GenP!Next
<1>. USE DEF Gen!Workers, GenP!Workers, Gen!Cycles, GenP!Cycles, Gen!Waiters, GenP!Waiters,
         Gen!Stopper, GenP!Stopper, Gen!WgIdle, GenP!WgIdle, Gen!Alive, GenP!Alive
<1>1. Gen!Init <=> GenP!Init
  BY DEF Gen!Init, GenP!Init
<1>2. Gen!Next <=> GenP!Next
  BY DEF Gen!Next, GenP!Next, Gen!Owner, GenP!Owner, Gen!Quiescent, GenP!Quiescent,
         Gen!Start, GenP!Start, Gen!Open, GenP!Open, Gen!SpentBudget, GenP!SpentBudget,
         Gen!Remaining, GenP!Remaining, Gen!Reset, GenP!Reset, Gen!Cancel, GenP!Cancel,
         Gen!CallWait, GenP!CallWait, Gen!EnterWait, GenP!EnterWait,
         Gen!MoveWaiter, GenP!MoveWaiter, Gen!WorkerStep, GenP!WorkerStep,
         Gen!Accepting, GenP!Accepting, Gen!NotAccepting, GenP!NotAccepting,
         Gen!TakeNumber, GenP!TakeNumber, Gen!Number, GenP!Number,
         Gen!TokensLeft, GenP!TokensLeft, Gen!BeginSession, GenP!BeginSession,
         Gen!OverCap, GenP!OverCap, Gen!CapReached, GenP!CapReached,
         Gen!EndPool, GenP!EndPool, Gen!EndSession, GenP!EndSession,
         Gen!Leave, GenP!Leave, Gen!Depart, GenP!Depart, Gen!Goto, GenP!Goto,
         Gen!WaiterStep, GenP!WaiterStep, Gen!Released, GenP!Released,
         Gen!WaitReturns, GenP!WaitReturns, Gen!Bank, GenP!Bank,
         Gen!TimerFires, GenP!TimerFires, Gen!Tick, GenP!Tick
<1>. QED
  BY <1>1, <1>2 DEF User, Lives

LEMMA SameCollector ==
  /\ Col!Stoppers = ColP!Stoppers /\ Col!Stoppers = {User} \union Lives
  /\ Col!Drains = ColP!Drains /\ Col!Drains = Lives
  /\ Col!Stopped <=> ColP!Stopped
  /\ Col!InHand = ColP!InHand
  /\ Col!Init <=> ColP!Init
  /\ Col!Next <=> ColP!Next
<1>. USE DEF Col!Stoppers, ColP!Stoppers, Col!Drains, ColP!Drains, Col!Stopped, ColP!Stopped,
         Col!counters, ColP!counters, Col!handover, ColP!handover, Col!history, ColP!history
<1>1. Col!Stoppers = {User} \union Lives
  BY RunnerAssumption DEF User, Lives
<1>2. Col!InHand = ColP!InHand
  BY DEF Col!InHand, ColP!InHand
<1>3. Col!Init <=> ColP!Init
  BY DEF Col!Init, ColP!Init
<1>4. Col!Next <=> ColP!Next
  BY DEF Col!Next, ColP!Next, Col!Sessions, ColP!Sessions, Col!Owner, ColP!Owner,
         Col!StopStep, ColP!StopStep, Col!DrainStep, ColP!DrainStep, Col!Open, ColP!Open,
         Col!SubmitSent, ColP!SubmitSent, Col!Submit, ColP!Submit,
         Col!SubmitUnsent, ColP!SubmitUnsent, Col!Offer, ColP!Offer, Col!Post, ColP!Post,
         Col!Start, ColP!Start, Col!Select, ColP!Select, Col!Take, ColP!Take,
         Col!SeeDone, ColP!SeeDone, Col!Count, ColP!Count, Col!Record, ColP!Record,
         Col!LoopAgain, ColP!LoopAgain, Col!DrainAt, ColP!DrainAt,
         Col!Finish, ColP!Finish, Col!Acknowledge, ColP!Acknowledge,
         Col!CloseDone, ColP!CloseDone, Col!CloseAndAwait, ColP!CloseAndAwait,
         Col!AckReceived, ColP!AckReceived, Col!Return, ColP!Return,
         Col!ResetAll, ColP!ResetAll
<1>. QED
  BY <1>1, <1>2, <1>3, <1>4 DEF Lives

LEMMA GeneratorParts ==
  ASSUME GenP!Typed, GenP!Pool, Gen!Next \/ UNCHANGED genVars
  PROVE  GenP!Typed' /\ GenP!Pool'
<1>1. CASE Gen!Next
  BY <1>1, Assumptions, SameGenerator, GenP!StepTyped, GenP!StepPool
<1>2. CASE UNCHANGED genVars
  BY <1>2 DEF genVars, genState, GenP!Typed, GenP!TypeOK, GenP!Pool, GenP!WgIdle,
              GenP!Alive, GenP!LetOut
<1>. QED
  BY <1>1, <1>2

LEMMA CollectorParts ==
  ASSUME ColP!TypeOK, ColP!HandOver, ColP!NothingLost, Col!Next \/ UNCHANGED colVars
  PROVE  ColP!TypeOK' /\ ColP!HandOver' /\ ColP!NothingLost'
<1>1. CASE Col!Next
  BY <1>1, Assumptions, SameCollector, ColP!StepTyped, ColP!StepHandOver, ColP!StepAccount
<1>2. CASE UNCHANGED colVars
  <2>. USE <1>2 DEF colVars, colState
  <2>1. ColP!TypeOK'
    BY DEF ColP!TypeOK
  <2>2. ColP!HandOver'
    BY DEF ColP!HandOver, ColP!OneDrain, ColP!OneStop, ColP!FreshChannels, ColP!Listening,
           ColP!Quiet, ColP!Stopping, ColP!Stopped, ColP!Active
  <2>3. ColP!NothingLost'
    BY DEF ColP!NothingLost, ColP!InHand
  <2>. QED
    BY <2>1, <2>2, <2>3
<1>. QED
  BY <1>1, <1>2

LEMMA InitParts == Init => Parts
<1>. SUFFICES ASSUME Init PROVE Parts
  OBVIOUS
<1>1. GenP!Init /\ ColP!Init
  BY SameGenerator, SameCollector DEF Init
<1>2. GenP!Typed
  BY <1>1, Assumptions, GenP!InitTyped
<1>3. GenP!Pool
  BY <1>1 DEF GenP!Init, GenP!Pool, GenP!WgIdle, GenP!Alive, GenP!LetOut
<1>4. ColP!TypeOK
  BY <1>1, Assumptions, ColP!InitTyped
<1>5. ColP!HandOver
  BY <1>1, Assumptions DEF ColP!Init, ColP!HandOver, ColP!OneDrain, ColP!OneStop,
     ColP!FreshChannels, ColP!Listening, ColP!Quiet, ColP!Stopping, ColP!Stopped, ColP!Active,
     ColP!Drains, ColP!Stoppers, ColP!CollectorAssumption
<1>6. ColP!NothingLost
  BY <1>1 DEF ColP!Init, ColP!NothingLost, ColP!InHand
<1>. QED
  BY <1>2, <1>3, <1>4, <1>5, <1>6 DEF Parts

-----------------------------------------------------------------------------
(***************************************************************************)
(* What the invariant says at the places where a component is called.      *)
(***************************************************************************)
LEMMA BusyMeansOpen ==
  ASSUME RunnerInv, NEW w \in Gen!Workers, worker[w] \notin {"none", "gone"}
  PROVE  running /\ Col!Open
<1>1. running
  BY SameGenerator DEF RunnerInv, Parts, GenP!Pool, GenP!WgIdle, GenP!Alive
<1>2. ~ Col!Stopped /\ \A x \in Col!Stoppers : awaits[x] = 0
  BY <1>1, SameCollector DEF RunnerInv, Prompt, Placed, Drained, OnceRan, Nobody, User, Lives
<1>. QED
  BY <1>1, <1>2 DEF Col!Open

LEMMA WaitingFinite == IsFiniteSet(Waiting)
<1>0. IsFiniteSet(1 .. MaxLives) /\ IsFiniteSet(1 .. Concurrency)
  BY FS_Interval, RunnerAssumption
<1>1. IsFiniteSet(Gen!Workers)
  BY <1>0, FS_Product DEF Gen!Workers, Gen!Cycles
<1>2. Waiting \subseteq Gen!Workers
  BY DEF Waiting
<1>. QED
  BY <1>1, <1>2, FS_Subset

LEMMA IdleMeansNoRequest ==
  ASSUME RunnerInv, ~ running
  PROVE  Gen!WgIdle /\ inFlight = 0
<1>1. Gen!WgIdle
  BY SameGenerator DEF RunnerInv, Parts, GenP!Pool
<1>2. Waiting = {}
  BY <1>1 DEF Waiting, Gen!WgIdle, Gen!Alive, RunnerInv, Prompt, Requests
<1>. QED
  BY <1>1, <1>2, FS_EmptySet DEF RunnerInv, Prompt, Requests

LEMMA AtRest ==
  ASSUME RunnerInv, state # "RUNNING", ~ Stopping
  PROVE  ~ running /\ Col!Stopped
BY RunnerAssumption DEF RunnerInv, Channels, RunTyped, Prompt, Placed, Drained, OnceRan, Stopping

\* Whoever begins a Stop of the collector finds it open and without requests.
LEMMA MayBeginStop ==
  ASSUME RunnerInv, ~ onceDone, onceHolder = Nobody, ~ running, life > 0
  PROVE  Col!Open /\ inFlight = 0
<1>1. ~ Col!Stopped /\ \A x \in Col!Stoppers : awaits[x] = 0
  BY SameCollector DEF RunnerInv, Prompt, Placed, OnceRan, Nobody, User, Lives
<1>. QED
  BY <1>1, IdleMeansNoRequest DEF Col!Open

LEMMA StoppingHasLife ==
  ASSUME RunnerInv, Stopping
  PROVE  life > 0 /\ cycle = life /\ life \in Lives
BY RunnerAssumption
   DEF RunnerInv, Channels, RunTyped, Prompt, Placed, StateFits, PoolOfLife, Stopping, InitialStates, Lives

LEMMA BusyWatcher ==
  ASSUME RunnerInv, NEW l \in Lives, Unsettled(l)
  PROVE  l = life /\ life > 0 /\ user # "spawn" /\ cycle = life
<1>1. watcher[l] \notin {"none", "callback", "close", "gone"}
  BY DEF Unsettled
<1>2. l = life /\ user # "spawn"
  BY <1>1 DEF RunnerInv, Prompt, Placed, OneWatcher
<1>3. life > 0
  BY <1>2, RunnerAssumption DEF Lives
<1>4. cycle = life
  BY <1>2 DEF RunnerInv, Prompt, Placed, PoolOfLife
<1>. QED
  BY <1>2, <1>3, <1>4

-----------------------------------------------------------------------------
(***************************************************************************)
(* A step of the runner is a step of each component, or leaves it alone.   *)
(***************************************************************************)
GenObeys == Gen!Next \/ UNCHANGED genVars
ColObeys == Col!Next \/ UNCHANGED colVars

\* A step of the generator alone: it does not panic, so the collector rests.
LEMMA GeneratorAlone ==
  ASSUME Parts, Gen!Next, UNCHANGED colState
  PROVE  GenObeys /\ ColObeys
<1>1. ~ panicked /\ ~ panicked' /\ panicked \in BOOLEAN /\ panicked' \in BOOLEAN
  BY GeneratorParts DEF Parts, GenP!Pool, GenP!Typed, GenP!TypeOK
<1>. QED
  BY <1>1 DEF GenObeys, ColObeys, colVars

\* The same for the collector.
LEMMA CollectorAlone ==
  ASSUME Parts, Col!Next, UNCHANGED genState
  PROVE  GenObeys /\ ColObeys
<1>1. ~ panicked /\ ~ panicked' /\ panicked \in BOOLEAN /\ panicked' \in BOOLEAN
  BY CollectorParts DEF Parts, ColP!HandOver, ColP!TypeOK
<1>. QED
  BY <1>1 DEF GenObeys, ColObeys, genVars

\* The calls of generator.Wait, of the user's goroutine and of the watchers.
LEMMA WaitContract ==
  ASSUME RunnerInv, ~ panicked, UNCHANGED colState,
         NEW x \in {User} \union Lives, cycle > 0, x \in {User, cycle},
         Gen!CallWait(x) \/ Gen!Released(x) \/ Gen!WaitReturns(x)
  PROVE  GenObeys /\ ColObeys
<1>1. Gen!Next
  BY SameGenerator DEF Gen!Next, Gen!Owner, Gen!WaiterStep, Gen!Stopper, User
<1>. QED
  BY <1>1, GeneratorAlone DEF RunnerInv

\* stopCollectorOnce by x, the user's goroutine or a watcher, when the pool has drained.
LEMMA OnceContract ==
  ASSUME RunnerInv, ~ panicked, UNCHANGED genState, NEW x \in {User} \union Lives,
         \/ OnceEnters(x) /\ ~ running /\ life > 0
         \/ OnceLeaves(x)
         \/ OnceSkips
  PROVE  GenObeys /\ ColObeys
<1>1. CASE OnceEnters(x) /\ ~ running /\ life > 0
  <2>1. Col!Open /\ inFlight = 0
    BY <1>1, MayBeginStop DEF OnceEnters
  <2>2. Col!Next
    BY <1>1, <2>1, SameCollector DEF OnceEnters, Col!Next, Col!Owner
  <2>. QED
    BY <2>2, CollectorAlone DEF RunnerInv
<1>2. CASE OnceLeaves(x)
  <2>1. Col!Next
    BY <1>2, SameCollector DEF OnceLeaves, Col!Next, Col!StopStep
  <2>. QED
    BY <2>1, CollectorAlone DEF RunnerInv
<1>3. CASE OnceSkips
  BY <1>3 DEF OnceSkips, SkipsIf, GenObeys, ColObeys, genVars, colVars
<1>. QED
  BY <1>1, <1>2, <1>3

\* Nobody is torn out of the Once: x holds it as long as it waits in Stop.
LEMMA OnceNeverTorn ==
  ASSUME RunnerInv, NEW x \in {User} \union Lives
  PROVE  ~ OnceTorn(x)
BY SameCollector DEF RunnerInv, Prompt, Placed, OnceRan, OnceTorn

LEMMA UserContract ==
  ASSUME RunnerInv, ~ panicked, UserCalls \/ UserStep
  PROVE  GenObeys /\ ColObeys
<1>. USE DEF GenObeys, ColObeys, genVars, colVars
<1>1. CASE UserCalls \/ Refused \/ Halt
  BY <1>1 DEF UserCalls, CallStart, CallResume, CallStop, CallRestart, Restarting, Call,
              Refused, Halt
<1>2. CASE Launch
  <2>1. Col!Stopped
    BY <1>2, AtRest DEF Launch, At, Startable, StartableFrom, Stopping
  <2>2. Col!Next
    BY <1>2, <2>1 DEF Launch, Col!Next, Col!Owner
  <2>. QED
    BY <1>2, <2>2 DEF Launch, Col!Start
<1>3. CASE Spawn
  <2>1. ~ running /\ \A x \in Gen!Waiters : waiter[x] = "out"
    BY <1>3, SameGenerator DEF Spawn, At, RunnerInv, Prompt, Placed, Drained, OneWatcher, PoolOfLife
  <2>2. Gen!Start
    BY <1>3, <2>1 DEF Spawn, Gen!StartIgnored
  <2>3. Gen!Next
    BY <2>1, <2>2, IdleMeansNoRequest DEF Gen!Next, Gen!Owner, Gen!Quiescent
  <2>. QED
    BY <1>3, <2>2, <2>3 DEF Spawn, Gen!Start, Gen!Open
<1>4. CASE CancelRoot
  <2>1. CASE poolLife = life
    <3>1. Gen!Next
      BY <1>4, <2>1 DEF CancelRoot, Gen!Next, Gen!Owner
    <3>. QED
      BY <1>4, <2>1, <3>1 DEF CancelRoot, Gen!Cancel
  <2>2. CASE poolLife # life
    BY <1>4, <2>2 DEF CancelRoot
  <2>. QED
    BY <2>1, <2>2
<1>5. CASE AwaitPool
  <2>1. Stopping
    BY <1>5 DEF AwaitPool, At, Stopping
  <2>2. cycle > 0
    BY <2>1, StoppingHasLife
  <2>3. Gen!CallWait(User) \/ Gen!Released(User) \/ Gen!WaitReturns(User)
    BY <1>5 DEF AwaitPool
  <2>. QED
    BY <1>5, <2>2, <2>3, WaitContract DEF AwaitPool
<1>6. CASE BeginStopCollector
  <2>1. ~ running /\ Stopping
    BY <1>6 DEF BeginStopCollector, At, Stopping, RunnerInv, Prompt, Placed, Drained
  <2>2. life > 0
    BY <2>1, StoppingHasLife
  <2>. QED
    BY <1>6, <2>1, <2>2, OnceContract DEF BeginStopCollector
<1>7. CASE StopCollector
  <2>1. (OnceSkips \/ OnceLeaves(User)) /\ UNCHANGED genState
    BY <1>7 DEF StopCollector
  <2>. QED
    BY <2>1, OnceContract
<1>8. CASE ResetRun
  <2>1. ~ running /\ Col!Stopped
    BY <1>8, AtRest DEF ResetRun, At, Stopping, RunnerInv, Prompt, Placed, StateFits
  <2>2. Gen!Next
    BY <1>8, <2>1, IdleMeansNoRequest DEF ResetRun, Gen!Next, Gen!Owner
  <2>3. Col!Next
    BY <1>8, <2>1 DEF ResetRun, Col!Next, Col!Owner
  <2>. QED
    BY <2>2, <2>3
<1>. QED
  BY <1>1, <1>2, <1>3, <1>4, <1>5, <1>6, <1>7, <1>8, OnceNeverTorn DEF UserStep

LEMMA WatcherContract ==
  ASSUME RunnerInv, ~ panicked, NEW l \in Lives, WatcherStep(l)
  PROVE  GenObeys /\ ColObeys
<1>. USE DEF WatcherAt
<1>1. CASE WatchPool(l)
  <2>1. cycle > 0 /\ l = cycle
    BY <1>1, BusyWatcher DEF WatchPool, WaitThen, Unsettled
  <2>2. Gen!CallWait(l) \/ Gen!Released(l) \/ Gen!WaitReturns(l)
    BY <1>1 DEF WatchPool, WaitThen
  <2>. QED
    BY <1>1, <2>1, <2>2, WaitContract DEF WatchPool, WaitThen
<1>2. CASE WatcherBeginsStop(l)
  <2>1. l = life /\ life > 0
    BY <1>2, BusyWatcher DEF WatcherBeginsStop, Unsettled
  <2>2. ~ running
    BY <1>2, <2>1 DEF WatcherBeginsStop, RunnerInv, Prompt, Placed, Drained
  <2>. QED
    BY <1>2, <2>1, <2>2, OnceContract DEF WatcherBeginsStop
<1>3. CASE WatcherStopsCollector(l)
  <2>1. (OnceSkips \/ OnceLeaves(l)) /\ UNCHANGED genState
    BY <1>3 DEF WatcherStopsCollector
  <2>. QED
    BY <2>1, OnceContract
<1>4. CASE Settle(l) \/ FireTerminal(l)
  BY <1>4 DEF Settle, SettleFrom, FireTerminal, GenObeys, ColObeys, genVars, colVars
<1>5. CASE CloseDoneCh(l)
  <2>1. heldCh[l] \notin closedCh
    BY <1>5 DEF CloseDoneCh, RunnerInv, Channels, Announced, Held, Announces
  <2>. QED
    BY <1>5, <2>1 DEF CloseDoneCh, GenObeys, ColObeys, genVars, colVars
<1>. QED
  BY <1>1, <1>2, <1>3, <1>4, <1>5, OnceNeverTorn DEF WatcherStep

LEMMA ElsewhereContract ==
  ASSUME RunnerInv, ~ panicked, Elsewhere
  PROVE  GenObeys /\ ColObeys
<1>. USE DEF GenObeys, ColObeys, genVars, colVars
<1>1. ASSUME NEW w \in Gen!Workers, PoolStep(w)
      PROVE  GenObeys /\ ColObeys
  <2>1. Gen!Next
    BY <1>1 DEF PoolStep, Gen!Next, Gen!WorkerStep
  <2>. QED
    BY <1>1, <2>1, GeneratorAlone DEF PoolStep, RunnerInv
<1>2. ASSUME NEW w \in Gen!Workers, SessionStep(w)
      PROVE  GenObeys /\ ColObeys
  <2>1. worker[w] = "session"
    BY <1>2 DEF SessionStep, Skip, Dispatch, RenderFails, Answer, CancelledSend,
                RunnerInv, Prompt, Requests
  <2>2. Col!Open
    BY <2>1, BusyMeansOpen
  <2>3. Gen!EndSession(w) => Gen!Next /\ panicked' = panicked
    BY DEF Gen!Next, Gen!WorkerStep, Gen!EndSession
  <2>4. CASE Skip(w)
    BY <2>3, <2>4 DEF Skip
  <2>5. CASE Dispatch(w)
    <3>1. Col!Next
      BY <2>2, <2>5 DEF Dispatch, Col!Next, Col!Sessions
    <3>. QED
      BY <2>5, <3>1 DEF Dispatch, Col!SubmitSent
  <2>6. CASE RenderFails(w)
    <3>1. Col!Next
      BY <2>2, <2>6, RunnerAssumption DEF RenderFails, Col!Next, Col!Sessions
    <3>. QED
      BY <2>3, <2>6, <3>1 DEF RenderFails
  <2>7. ASSUME NEW k \in Kinds, Col!Submit(k), Gen!EndSession(w), request[w]
        PROVE  GenObeys /\ ColObeys
    <3>1. w \in Waiting
      BY <2>7 DEF Waiting
    <3>2. inFlight > 0
      BY <3>1, WaitingFinite, FS_EmptySet, FS_CardinalityType DEF RunnerInv, Prompt, Requests
    <3>3. Col!Next
      BY <2>2, <2>7, <3>2 DEF Col!Next, Col!Sessions
    <3>. QED
      BY <2>3, <2>7, <3>3
  <2>. QED
    BY <1>2, <2>4, <2>5, <2>6, <2>7, RunnerAssumption DEF SessionStep, Answer, CancelledSend
<1>3. ASSUME NEW d \in Lives, DrainStep(d)
      PROVE  GenObeys /\ ColObeys
  <2>1. Col!Next
    BY <1>3, SameCollector DEF DrainStep, Col!Next
  <2>. QED
    BY <1>3, <2>1, CollectorAlone DEF DrainStep, RunnerInv
<1>4. CASE TimerStep
  <2>1. Gen!Next
    BY <1>4 DEF TimerStep, Gen!Next, Gen!Cycles, Lives
  <2>. QED
    BY <1>4, <2>1, GeneratorAlone DEF TimerStep, RunnerInv
<1>. QED
  BY <1>1, <1>2, <1>3, <1>4 DEF Elsewhere

LEMMA StepContract ==
  ASSUME RunnerInv, Next
  PROVE  GenObeys /\ ColObeys
BY NextIs, UserContract, WatcherContract, ElsewhereContract DEF Next

LEMMA StepParts ==
  ASSUME RunnerInv, Next
  PROVE  Parts'
BY StepContract, GeneratorParts, CollectorParts DEF RunnerInv, Parts, GenObeys, ColObeys

-----------------------------------------------------------------------------
(***************************************************************************)
(* The requests under way.                                                 *)
(***************************************************************************)
LEMMA RequestsUntouched ==
  ASSUME Requests, UNCHANGED <<request, inFlight>>,
         \A w \in Gen!Workers : request[w] => worker'[w] = worker[w]
  PROVE  Requests'
<1>1. Waiting' = Waiting
  BY DEF Waiting
<1>. QED
  BY <1>1 DEF Requests

LEMMA SessionRequests ==
  ASSUME RunnerInv, NEW w \in Gen!Workers, SessionStep(w)
  PROVE  Requests'
<1>. USE DEF RunnerInv, Prompt, Requests
<1>0. worker \in [Gen!Workers -> GenP!WorkerPhases]
  BY SameGenerator DEF Parts, GenP!Typed, GenP!TypeOK
<1>1. Gen!EndSession(w) =>
        worker'[w] = "loop" /\ \A v \in Gen!Workers \ {w} : worker'[v] = worker[v]
  BY <1>0 DEF Gen!EndSession, Gen!Goto
<1>2. CASE Skip(w) \/ RenderFails(w)
  <2>1. ~ request[w] /\ UNCHANGED <<request, inFlight>> /\ Gen!EndSession(w)
    BY <1>2 DEF Skip, RenderFails, Col!SubmitUnsent, runVars, colState
  <2>2. Waiting' = Waiting
    BY <2>1 DEF Waiting
  <2>. QED
    BY <1>1, <2>1, <2>2
<1>3. CASE Dispatch(w)
  <2>1. /\ w \notin Waiting /\ worker[w] = "session" /\ worker' = worker
        /\ request' = [request EXCEPT ![w] = TRUE]
        /\ inFlight' = inFlight + 1
    BY <1>3 DEF Dispatch, Col!SubmitSent, Waiting, genState
  <2>2. Waiting' = Waiting \union {w}
    BY <2>1 DEF Waiting
  <2>3. Cardinality(Waiting') = Cardinality(Waiting) + 1
    BY <2>1, <2>2, WaitingFinite, FS_AddElement
  <2>. QED
    BY <2>1, <2>3
<1>4. CASE (\E k \in Kinds : Answer(w, k)) \/ CancelledSend(w)
  <2>1. /\ w \in Waiting /\ Gen!EndSession(w)
        /\ request' = [request EXCEPT ![w] = FALSE]
        /\ inFlight' = inFlight - 1
    BY <1>4 DEF Answer, CancelledSend, Col!Submit, Waiting
  <2>2. Waiting' = Waiting \ {w}
    BY <2>1 DEF Waiting
  <2>3. Cardinality(Waiting') = Cardinality(Waiting) - 1
    BY <2>1, <2>2, WaitingFinite, FS_RemoveElement
  <2>. QED
    BY <1>1, <2>1, <2>3
<1>. QED
  BY <1>2, <1>3, <1>4 DEF SessionStep

LEMMA StepRequests ==
  ASSUME RunnerInv, Next
  PROVE  Requests'
<1>. USE DEF RunnerInv, Prompt, runVars, colState, genState
<1>0. worker \in [Gen!Workers -> GenP!WorkerPhases] /\ request \in [Gen!Workers -> BOOLEAN]
  BY SameGenerator DEF Parts, GenP!Typed, GenP!TypeOK, Requests
<1>1. CASE UserCalls \/ UserStep
  <2>1. UNCHANGED <<request, inFlight>>
    BY <1>1 DEF UserCalls, CallStart, CallResume, CallStop, CallRestart, Restarting, Call,
         UserStep, Refused, Launch, Spawn, Halt, CancelRoot, AwaitPool, BeginStopCollector,
         StopCollector, ResetRun, OnceEnters, OnceSkips, SkipsIf, OnceLeaves, OnceTorn,
         Col!Start, Col!ResetAll, Col!CloseDone, Col!CloseAndAwait, Col!AckReceived, Col!Return,
         Col!history, colVars
  <2>2. CASE Spawn
    <3>1. ~ running
      BY <2>2 DEF Spawn, At, Placed, Drained
    <3>2. \A w \in Gen!Workers : ~ request[w]
      BY <3>1, IdleMeansNoRequest DEF Requests, Gen!WgIdle, Gen!Alive
    <3>. QED
      BY <2>1, <3>2, RequestsUntouched
  <2>3. CASE ~ Spawn
    <3>1. worker' = worker
      BY <1>1, <2>3 DEF UserCalls, CallStart, CallResume, CallStop, CallRestart, Restarting,
           Call, UserStep, Refused, Launch, Halt, CancelRoot, AwaitPool, BeginStopCollector,
           StopCollector, ResetRun, Gen!Cancel, Gen!CallWait, Gen!EnterWait, Gen!Released,
           Gen!WaitReturns, Gen!Bank, Gen!Reset, genVars
    <3>. QED
      BY <2>1, <3>1, RequestsUntouched
  <2>. QED
    BY <2>2, <2>3
<1>2. ASSUME NEW l \in Lives, WatcherStep(l)
      PROVE  Requests'
  <2>1. UNCHANGED <<request, inFlight, worker>>
    BY <1>2 DEF WatcherStep, WatchPool, WaitThen, WatcherBeginsStop, WatcherStopsCollector,
         Settle, SettleFrom, FireTerminal, CloseDoneCh, OnceEnters, OnceSkips, SkipsIf,
         OnceLeaves, OnceTorn, Gen!CallWait, Gen!EnterWait, Gen!Released, Gen!WaitReturns,
         Gen!Bank, Col!CloseDone, Col!CloseAndAwait, Col!AckReceived, Col!Return, Col!history,
         colVars
  <2>. QED
    BY <2>1, RequestsUntouched
<1>3. ASSUME NEW w \in Gen!Workers, PoolStep(w)
      PROVE  Requests'
  <2>1. UNCHANGED <<request, inFlight>>
    BY <1>3 DEF PoolStep
  <2>2. worker[w] # "session" /\ \A v \in Gen!Workers \ {w} : worker'[v] = worker[v]
    BY <1>0, <1>3 DEF PoolStep, Gen!Accepting, Gen!NotAccepting, Gen!TakeNumber, Gen!Number,
         Gen!BeginSession, Gen!CapReached, Gen!EndPool, Gen!Leave, Gen!Depart, Gen!Goto
  <2>3. \A v \in Gen!Workers : request[v] => worker'[v] = worker[v]
    BY <2>2 DEF Requests
  <2>. QED
    BY <2>1, <2>3, RequestsUntouched
<1>4. CASE (\E d \in Lives : DrainStep(d)) \/ TimerStep
  <2>1. UNCHANGED <<request, inFlight, worker>>
    BY <1>4 DEF DrainStep, TimerStep, Gen!TimerFires, Gen!Tick, Col!DrainStep, Col!Select,
         Col!Take, Col!SeeDone, Col!Count, Col!Record, Col!Acknowledge, Col!Finish, Col!history
  <2>. QED
    BY <2>1, RequestsUntouched
<1>. QED
  BY <1>1, <1>2, <1>3, <1>4, SessionRequests, NextIs DEF Elsewhere

-----------------------------------------------------------------------------
(***************************************************************************)
(* Where everybody is.                                                     *)
(***************************************************************************)
\* While no Stop waits, the drain goroutine stays; once stopped, none acts.
LEMMA DrainKeepsStopped ==
  ASSUME Parts, NEW d \in Lives, Col!DrainStep(d)
  PROVE  /\ UNCHANGED awaits
         /\ Col!Stopped' <=> Col!Stopped
<1>. USE SameCollector DEF Parts, ColP!TypeOK
<1>1. UNCHANGED awaits
  BY DEF Col!DrainStep, Col!Select, Col!Take, Col!SeeDone, Col!Count, Col!Record,
         Col!Acknowledge, Col!Finish, Col!handover
<1>2. drain[d] \notin {"none", "gone"}
  BY DEF Col!DrainStep, Col!Select, Col!Take, Col!SeeDone, Col!Count, Col!Record,
         Col!Acknowledge, Col!Finish
<1>3. ~ Col!Stopped
  BY <1>2 DEF Col!Stopped
<1>4. CASE Col!Acknowledge(d)
  <2>1. pair \in doneClosed
    BY <1>2, <1>4 DEF Col!Acknowledge, Col!Finish, ColP!HandOver, ColP!Listening, ColP!Active
  <2>2. \E x \in Col!Stoppers : awaits[x] # 0
    BY <2>1 DEF ColP!HandOver, ColP!OneStop, ColP!Stopping
  <2>. QED
    BY <1>1, <1>3, <2>2 DEF Col!Stopped
<1>5. CASE ~ Col!Acknowledge(d)
  <2>1. drain'[d] \notin {"none", "gone"}
    BY <1>2, <1>5 DEF Col!DrainStep, Col!Select, Col!Take, Col!SeeDone, Col!Count, Col!Record,
         Col!LoopAgain, Col!DrainAt
  <2>. QED
    BY <1>1, <1>3, <2>1 DEF Col!Stopped
<1>. QED
  BY <1>1, <1>4, <1>5

\* What the workers do to those who wait for them.
LEMMA PoolStepWaiters ==
  ASSUME Parts, NEW w \in Gen!Workers, PoolStep(w)
  PROVE  /\ UNCHANGED <<running, cycle, runVars, colState>>
         /\ \A x \in Gen!Waiters : waiter'[x] # "out" => waiter[x] # "out"
BY SameGenerator
   DEF Parts, GenP!Typed, GenP!TypeOK, PoolStep, Gen!Accepting, Gen!NotAccepting,
       Gen!TakeNumber, Gen!Number, Gen!BeginSession, Gen!CapReached, Gen!EndPool, Gen!Leave,
       Gen!Depart

LEMMA ElsewherePlaced ==
  ASSUME RunnerInv, Elsewhere
  PROVE  Placed'
<1>. USE DEF RunnerInv, runVars, colState
<1>. DEFINE Harmless ==
       /\ UNCHANGED <<running, cycle, awaits>>
       /\ \A x \in Gen!Waiters : waiter'[x] # "out" => waiter[x] # "out"
       /\ Col!Stopped' <=> Col!Stopped
<1>1. Harmless
  <2>1. ASSUME NEW w \in Gen!Workers, PoolStep(w)
        PROVE  Harmless
    BY <2>1, PoolStepWaiters DEF Col!Stopped
  <2>2. ASSUME NEW w \in Gen!Workers, SessionStep(w)
        PROVE  Harmless
    <3>1. UNCHANGED <<running, cycle, waiter, awaits, drain>>
      BY <2>2 DEF SessionStep, Skip, Dispatch, RenderFails, Answer, CancelledSend,
           Gen!EndSession, Col!SubmitSent, Col!Submit, Col!SubmitUnsent, Col!handover, genState
    <3>. QED
      BY <3>1 DEF Col!Stopped
  <2>3. ASSUME NEW d \in Lives, DrainStep(d)
        PROVE  Harmless
    BY <2>3, DrainKeepsStopped DEF DrainStep, genState
  <2>4. CASE TimerStep
    BY <2>4 DEF TimerStep, Gen!TimerFires, Gen!Tick, Col!Stopped
  <2>. QED
    BY <2>1, <2>2, <2>3, <2>4 DEF Elsewhere
<1>2. UNCHANGED <<lifecycle, once, userVars, watchVars>>
  BY ElsewhereLeavesRun
<1>. USE <1>1, <1>2, SameGenerator DEF lifecycle, once, userVars, watchVars, Prompt, Placed
<1>3. OneWatcher' /\ StateFits'
  BY DEF OneWatcher, StateFits, Stopping
<1>4. PoolOfLife'
  BY DEF PoolOfLife, User
<1>5. Drained'
  BY DEF Drained
<1>6. OnceHeld' /\ OnceRan'
  BY DEF OnceHeld, OnceRan, Stopping
<1>. QED
  BY <1>3, <1>4, <1>5, <1>6

\* A step of one caller of Wait.
LEMMA WaiterMoves ==
  ASSUME Parts, NEW x \in {User} \union Lives,
         Gen!CallWait(x) \/ Gen!Released(x) \/ Gen!WaitReturns(x)
  PROVE  /\ UNCHANGED cycle
         /\ running' => running
         /\ \A y \in ({User} \union Lives) \ {x} : waiter'[y] = waiter[y]
         /\ Gen!WaitReturns(x) => ~ running' /\ waiter'[x] = "out"
BY SameGenerator
   DEF Parts, GenP!Typed, GenP!TypeOK, Gen!CallWait, Gen!EnterWait, Gen!Released,
       Gen!WaitReturns, Gen!Bank, Gen!MoveWaiter

\* A call of stopCollectorOnce that waits or returns.
LEMMA OnceMoves ==
  ASSUME RunnerInv, NEW x \in {User} \union Lives
  PROVE  /\ OnceEnters(x) /\ ~ running /\ life > 0 =>
              /\ ~ onceDone /\ onceHolder = Nobody /\ ~ onceDone' /\ onceHolder' = x
              /\ \A y \in Col!Stoppers : awaits'[y] # 0 <=> y = x
              /\ ~ Col!Stopped'
         /\ OnceLeaves(x) =>
              /\ onceHolder = x /\ onceDone' /\ onceHolder' = Nobody
              /\ \A y \in Col!Stoppers : awaits'[y] = 0
              /\ \A d \in Col!Drains : drain[d] \in {"none", "gone"}
              /\ Col!Stopped'
<1>. USE SameCollector DEF RunnerInv, Parts, ColP!TypeOK
<1>1. ASSUME OnceEnters(x), ~ running, life > 0
      PROVE  /\ ~ onceDone /\ onceHolder = Nobody /\ ~ onceDone' /\ onceHolder' = x
             /\ \A y \in Col!Stoppers : awaits'[y] # 0 <=> y = x
             /\ ~ Col!Stopped'
  <2>1. /\ ~ onceDone /\ onceHolder = Nobody /\ ~ onceDone' /\ onceHolder' = x
        /\ Col!CloseDone(x)
    BY <1>1 DEF OnceEnters
  <2>2. Col!Open
    BY <1>1, <2>1, MayBeginStop
  <2>3. pair \notin doneClosed /\ \A y \in Col!Stoppers : awaits[y] = 0
    BY <2>2 DEF Col!Open, ColP!HandOver, ColP!OneStop, ColP!Stopping
  <2>4. awaits' = [awaits EXCEPT ![x] = pair] /\ pair # 0
    BY <2>1, <2>3 DEF Col!CloseDone, Col!CloseAndAwait
  <2>5. \A y \in Col!Stoppers : awaits'[y] # 0 <=> y = x
    BY <2>3, <2>4
  <2>. QED
    BY <2>1, <2>5 DEF Col!Stopped
<1>2. ASSUME OnceLeaves(x)
      PROVE  /\ onceHolder = x /\ onceDone' /\ onceHolder' = Nobody
             /\ \A y \in Col!Stoppers : awaits'[y] = 0
             /\ \A d \in Col!Drains : drain[d] \in {"none", "gone"}
             /\ Col!Stopped'
  <2>1. /\ onceHolder = x /\ onceDone' /\ onceHolder' = Nobody
        /\ awaits[x] # 0 /\ awaits[x] \in ackClosed
        /\ awaits' = [awaits EXCEPT ![x] = 0] /\ drain' = drain
    BY <1>2 DEF OnceLeaves, Col!AckReceived, Col!Return
  <2>2. \A y \in Col!Stoppers : awaits'[y] = 0
    BY <2>1 DEF ColP!HandOver, ColP!OneStop
  <2>3. \A d \in Col!Drains : drain[d] \in {"none", "gone"}
    BY <2>1 DEF ColP!HandOver, ColP!OneStop, ColP!Listening, ColP!Active
  <2>. QED
    BY <2>1, <2>2, <2>3 DEF Col!Stopped
<1>. QED
  BY <1>1, <1>2

LEMMA WatcherPlaced ==
  ASSUME RunnerInv, NEW l \in Lives, WatcherStep(l)
  PROVE  Placed'
<1>. USE RunnerAssumption DEF runVars, colState, genState, lifecycle, once, userVars, WatcherAt,
         WatcherTo, User, Nobody, Lives
<1>0. watcher \in [Lives -> WatcherPhases] /\ life \in 0 .. MaxLives
  BY DEF RunnerInv, Channels, RunTyped
<1>1. watcher[l] \in {"wait", "once", "drain", "settle"} =>
        l = life /\ life > 0 /\ user # "spawn" /\ cycle = life
  BY BusyWatcher DEF Unsettled
<1>2. CASE WatchPool(l)
  <2>1. /\ watcher[l] = "wait"
        /\ \/ watcher' = watcher /\ (Gen!CallWait(l) \/ Gen!Released(l))
           \/ watcher' = [watcher EXCEPT ![l] = "once"] /\ Gen!WaitReturns(l)
        /\ UNCHANGED <<state, life, poolLife, onceDone, onceHolder, command, user, awaits, drain>>
    BY <1>2 DEF WatchPool, WaitThen
  <2>2. /\ UNCHANGED cycle
        /\ running' => running
        /\ \A y \in ({User} \union Lives) \ {l} : waiter'[y] = waiter[y]
        /\ watcher' # watcher => ~ running' /\ waiter'[l] = "out"
    BY <2>1, WaiterMoves DEF RunnerInv
  <2>3. Col!Stopped' <=> Col!Stopped
    BY <2>1 DEF Col!Stopped
  <2>. USE <1>0, <1>1, <2>1, <2>2, <2>3 DEF RunnerInv, Prompt, Placed
  <2>4. OneWatcher' /\ StateFits'
    BY DEF OneWatcher, StateFits, Stopping
  <2>5. PoolOfLife'
    BY DEF PoolOfLife
  <2>6. Drained'
    BY DEF Drained
  <2>7. OnceHeld' /\ OnceRan'
    BY DEF OnceHeld, OnceRan, Stopping
  <2>. QED
    BY <2>4, <2>5, <2>6, <2>7
<1>3. CASE WatcherBeginsStop(l)
  <2>1. /\ watcher[l] = "once" /\ OnceEnters(l)
        /\ watcher' = [watcher EXCEPT ![l] = "drain"]
        /\ UNCHANGED <<state, life, poolLife, command, user, running, cycle, waiter>>
    BY <1>3 DEF WatcherBeginsStop
  <2>2. ~ running /\ l = life /\ life > 0
    BY <1>1, <2>1 DEF RunnerInv, Prompt, Placed, Drained
  <2>3. /\ ~ onceDone /\ onceHolder = Nobody /\ ~ onceDone' /\ onceHolder' = l /\ onceDone' = onceDone
        /\ \A y \in Col!Stoppers : awaits'[y] # 0 <=> y = l
        /\ ~ Col!Stopped'
    BY <2>1, <2>2, OnceMoves DEF OnceEnters
  <2>. USE <1>0, <1>1, <2>1, <2>2, <2>3 DEF RunnerInv, Prompt, Placed
  <2>4. OneWatcher' /\ StateFits'
    BY DEF OneWatcher, StateFits, Stopping
  <2>5. PoolOfLife' /\ Drained'
    BY DEF PoolOfLife, Drained
  <2>6. OnceHeld'
    BY SameCollector DEF OnceHeld
  <2>7. OnceRan'
    BY DEF OnceRan, Stopping
  <2>. QED
    BY <2>4, <2>5, <2>6, <2>7
<1>4. CASE WatcherStopsCollector(l)
  <2>1. /\ watcher[l] \in {"once", "drain"}
        /\ watcher' = [watcher EXCEPT ![l] = "settle"]
        /\ UNCHANGED <<state, life, poolLife, command, user, running, cycle, waiter>>
    BY <1>4 DEF WatcherStopsCollector
  <2>2. /\ onceDone' /\ onceDone' \in BOOLEAN /\ onceHolder' = Nobody
        /\ \A y \in Col!Stoppers : awaits'[y] = 0
        /\ Col!Stopped'
        /\ onceHolder \in {Nobody, l}
    <3>1. CASE watcher[l] = "drain" /\ OnceLeaves(l)
      <4>1. onceDone' \in BOOLEAN
        BY <3>1, Zenon DEF OnceLeaves
      <4>. QED
        BY <3>1, <4>1, OnceMoves
    <3>2. CASE watcher[l] = "once" /\ OnceSkips
      <4>1. UNCHANGED <<onceDone, onceHolder, awaits, drain>> /\ onceDone
        BY <3>2 DEF OnceSkips, SkipsIf, colVars
      <4>. QED
        BY <4>1, SameCollector DEF RunnerInv, Prompt, Placed, OnceHeld, OnceRan, Col!Stopped
    <3>. QED
      BY <1>4, <3>1, <3>2 DEF WatcherStopsCollector
  <2>3. ~ running
    BY <1>1, <2>1 DEF RunnerInv, Prompt, Placed, Drained
  <2>. USE <1>0, <1>1, <2>1, <2>2, <2>3 DEF RunnerInv, Prompt, Placed
  <2>4. OneWatcher' /\ StateFits'
    BY DEF OneWatcher, StateFits, Stopping
  <2>5. PoolOfLife' /\ Drained'
    BY DEF PoolOfLife, Drained
  <2>6. OnceHeld'
    BY DEF OnceHeld
  <2>7. OnceRan'
    BY SameCollector DEF OnceRan, Stopping
  <2>. QED
    BY <2>4, <2>5, <2>6, <2>7
<1>5. CASE Settle(l)
  <2>1. /\ watcher[l] = "settle"
        /\ \/ state = "RUNNING" /\ state' = "DONE" /\ watcher' = [watcher EXCEPT ![l] = "callback"]
           \/ state' = state /\ watcher' = [watcher EXCEPT ![l] = "gone"]
        /\ UNCHANGED <<life, poolLife, onceDone, onceHolder, command, user, running, cycle, waiter,
                       awaits, drain>>
    BY <1>5 DEF Settle, SettleFrom
  <2>2. onceDone /\ ~ running /\ (Col!Stopped' <=> Col!Stopped)
    BY <1>1, <2>1 DEF RunnerInv, Prompt, Placed, OnceRan, Drained, Col!Stopped
  <2>. USE <1>0, <1>1, <2>1, <2>2 DEF RunnerInv, Prompt, Placed
  <2>4. OneWatcher'
    BY DEF OneWatcher
  <2>5. StateFits'
    BY DEF StateFits, Stopping, InitialStates
  <2>6. PoolOfLife' /\ Drained'
    BY DEF PoolOfLife, Drained
  <2>7. OnceHeld' /\ OnceRan'
    BY DEF OnceHeld, OnceRan, Stopping
  <2>. QED
    BY <2>4, <2>5, <2>6, <2>7
<1>6. CASE FireTerminal(l) \/ CloseDoneCh(l)
  <2>1. /\ watcher[l] \in {"callback", "close"}
        /\ watcher'[l] \in {"callback", "close", "gone"}
        /\ \A m \in Lives \ {l} : watcher'[m] = watcher[m]
        /\ UNCHANGED <<state, life, poolLife, onceDone, onceHolder, command, user, running, cycle,
                       waiter, awaits, drain>>
    BY <1>0, <1>6 DEF FireTerminal, CloseDoneCh, WatcherPhases
  <2>2. Col!Stopped' <=> Col!Stopped
    BY <2>1 DEF Col!Stopped
  <2>. USE <1>0, <2>1, <2>2 DEF RunnerInv, Prompt, Placed
  <2>4. OneWatcher' /\ StateFits'
    BY DEF OneWatcher, StateFits, Stopping
  <2>5. PoolOfLife' /\ Drained'
    BY DEF PoolOfLife, Drained
  <2>6. OnceHeld' /\ OnceRan'
    BY DEF OnceHeld, OnceRan, Stopping
  <2>. QED
    BY <2>4, <2>5, <2>6
<1>. QED
  BY <1>2, <1>3, <1>4, <1>5, <1>6, OnceNeverTorn DEF WatcherStep

LEMMA CallPlaced ==
  ASSUME RunnerInv, UserCalls
  PROVE  Placed'
<1>. USE DEF lifecycle, once, watchVars, genState, colState, RunnerInv, Prompt, Placed
<1>1. /\ user = "ready"
      /\ \/ user' \in {"launch", "halt"}
         \/ user' = "reset" /\ state # "RUNNING"
      /\ UNCHANGED <<state, life, poolLife, onceDone, onceHolder, watcher, running, cycle, waiter,
                     awaits, drain>>
  BY DEF UserCalls, CallStart, CallResume, CallStop, CallRestart, Restarting, Call, At
<1>2. Col!Stopped' <=> Col!Stopped
  BY <1>1 DEF Col!Stopped
<1>3. OneWatcher' /\ StateFits'
  BY <1>1 DEF OneWatcher, StateFits, Stopping
<1>4. PoolOfLife' /\ Drained'
  BY <1>1 DEF PoolOfLife, Drained
<1>5. OnceHeld' /\ OnceRan'
  BY <1>1, <1>2 DEF OnceHeld, OnceRan, Stopping
<1>. QED
  BY <1>3, <1>4, <1>5

LEMMA LaunchPlaced ==
  ASSUME RunnerInv, Launch, ~ overtaken'
  PROVE  Placed'
<1>. USE RunnerAssumption DEF watchVars, genState, RunnerInv, Prompt, Placed, At, GoTo, Lives
<1>1. /\ user = "launch" /\ user' = "spawn" /\ state' = "RUNNING" /\ state # "RUNNING"
      /\ life' = life + 1 /\ ~ onceDone' /\ onceDone' = FALSE /\ onceHolder' = Nobody
      /\ \A l \in Lives : ~ Unsettled(l)
      /\ Col!Start
      /\ UNCHANGED <<poolLife, watcher, running, cycle, waiter>>
  BY DEF Launch, Startable, StartableFrom
<1>2. ~ running /\ Col!Stopped
  BY <1>1, AtRest DEF Stopping
<1>3. life \in 0 .. MaxLives
  BY DEF Channels, RunTyped
<1>4. awaits' = awaits /\ ~ Col!Stopped'
  <2>1. /\ starts + 1 \in Col!Drains /\ awaits' = awaits
        /\ drain' = [drain EXCEPT ![starts + 1] = "loop"]
    BY <1>1, <1>3 DEF Channels, RunTyped, Col!Start, Col!DrainAt, Col!Drains
  <2>2. drain'[starts + 1] = "loop"
    BY <2>1, SameCollector DEF Parts, ColP!TypeOK
  <2>. QED
    BY <2>1, <2>2 DEF Col!Stopped
<1>5. \A x \in Col!Stoppers : awaits[x] = 0
  BY <1>2 DEF Col!Stopped
<1>6. \A l \in Lives : watcher[l] \in {"none", "callback", "close", "gone"}
  BY <1>1 DEF Channels, RunTyped, WatcherPhases, Unsettled
<1>7. OneWatcher' /\ StateFits' /\ PoolOfLife' /\ Drained'
  <2>1. OneWatcher' /\ StateFits'
    BY <1>1, <1>3, <1>6 DEF OneWatcher, StateFits, Stopping
  <2>2. PoolOfLife' /\ Drained'
    BY <1>1, <1>2, <1>3, <1>6 DEF PoolOfLife, Drained, User
  <2>. QED
    BY <2>1, <2>2
<1>8. OnceHeld'
  <2>1. onceDone' \in BOOLEAN
    BY <1>1, Zenon
  <2>. QED
    BY <1>1, <1>6, <2>1 DEF OnceHeld, Nobody, User
<1>9. OnceRan'
  BY <1>1, <1>3, <1>4, <1>5, SameCollector DEF OnceRan, Stopping, Nobody, User, Channels, Spawned
<1>. QED
  BY <1>7, <1>8, <1>9

LEMMA SpawnPlaced ==
  ASSUME RunnerInv, Spawn
  PROVE  Placed'
<1>. USE RunnerAssumption DEF once, colState, RunnerInv, Prompt, Placed, At, Return, Lives
<1>1. /\ user = "spawn" /\ user' = "ready"
      /\ watcher' = [watcher EXCEPT ![life] = "wait"]
      /\ Gen!Start /\ poolLife' = life
      /\ UNCHANGED <<state, life, onceDone, onceHolder, awaits, drain>>
  BY DEF Spawn, Gen!StartIgnored, Drained
<1>2. cycle' = cycle + 1 /\ running' /\ waiter' = waiter
  BY <1>1 DEF Gen!Start, Gen!Open
<1>3. /\ life \in Lives /\ watcher[life] = "none" /\ watcher \in [Lives -> WatcherPhases]
      /\ watcher'[life] = "wait" /\ \A l \in Lives \ {life} : watcher'[l] = watcher[l]
  BY <1>1 DEF Channels, RunTyped, Spawned
<1>4. Col!Stopped' <=> Col!Stopped
  BY <1>1 DEF Col!Stopped
<1>5. onceHolder = Nobody /\ ~ onceDone /\ state = "RUNNING"
  <2>1. \A l \in Lives : onceHolder # l
    BY <1>1 DEF OneWatcher, OnceHeld
  <2>. QED
    BY <1>1, <2>1, SameCollector DEF OnceHeld, StateFits
<1>6. OneWatcher' /\ StateFits'
  BY <1>1, <1>3, <1>5 DEF OneWatcher, StateFits, Stopping
<1>7. PoolOfLife'
  BY <1>1, <1>2, <1>3 DEF PoolOfLife
<1>8. Drained'
  BY <1>1, <1>3, <1>5 DEF Drained
<1>9. OnceHeld' /\ OnceRan'
  <2>1. OnceHeld'
    BY <1>1, <1>3, <1>5 DEF OnceHeld, Nobody
  <2>2. OnceRan'
    BY <1>1, <1>3, <1>4, <1>5 DEF OnceRan, Stopping
  <2>. QED
    BY <2>1, <2>2
<1>. QED
  BY <1>6, <1>7, <1>8, <1>9

LEMMA StopPlaced ==
  ASSUME RunnerInv, Halt \/ CancelRoot \/ AwaitPool \/ BeginStopCollector \/ StopCollector
  PROVE  Placed'
<1>. USE DEF lifecycle, once, watchVars, histVars, genState, colState, RunnerInv, Prompt, Placed,
         At, GoTo, Return
<1>1. CASE Halt
  <2>1. /\ user = "halt"
        /\ \/ state = "RUNNING" /\ state' = "STOPPED" /\ user' = "cancel"
           \/ state # "RUNNING" /\ state' = state /\ user' = "ready"
        /\ UNCHANGED <<life, poolLife, onceDone, onceHolder, watcher, running, cycle, waiter, awaits,
                       drain>>
    BY <1>1 DEF Halt
  <2>2. Col!Stopped' <=> Col!Stopped
    BY <2>1 DEF Col!Stopped
  <2>3. OneWatcher' /\ StateFits'
    BY <2>1 DEF OneWatcher, StateFits, Stopping, InitialStates
  <2>4. PoolOfLife' /\ Drained'
    BY <2>1 DEF PoolOfLife, Drained
  <2>5. OnceHeld' /\ OnceRan'
    BY <2>1, <2>2 DEF OnceHeld, OnceRan, Stopping
  <2>. QED
    BY <2>3, <2>4, <2>5
<1>2. CASE CancelRoot
  <2>1. /\ user = "cancel" /\ user' = "wait"
        /\ UNCHANGED <<state, life, poolLife, onceDone, onceHolder, watcher, running, cycle, waiter,
                       awaits, drain>>
    BY <1>2 DEF CancelRoot, Gen!Cancel, genVars
  <2>2. Col!Stopped' <=> Col!Stopped
    BY <2>1 DEF Col!Stopped
  <2>3. OneWatcher' /\ StateFits'
    BY <2>1 DEF OneWatcher, StateFits, Stopping
  <2>4. PoolOfLife' /\ Drained'
    BY <2>1 DEF PoolOfLife, Drained
  <2>5. OnceHeld' /\ OnceRan'
    BY <2>1, <2>2 DEF OnceHeld, OnceRan, Stopping
  <2>. QED
    BY <2>3, <2>4, <2>5
<1>3. CASE AwaitPool
  <2>1. /\ user = "wait"
        /\ \/ user' = "wait" /\ (Gen!CallWait(User) \/ Gen!Released(User))
           \/ user' = "once" /\ Gen!WaitReturns(User)
        /\ UNCHANGED <<state, life, poolLife, onceDone, onceHolder, watcher, awaits, drain>>
    BY <1>3 DEF AwaitPool, userVars
  <2>2. /\ UNCHANGED cycle
        /\ running' => running
        /\ \A l \in Lives : waiter'[l] = waiter[l]
        /\ user' = "once" => ~ running' /\ waiter'[User] = "out"
    BY <2>1, WaiterMoves DEF User, Lives
  <2>3. Col!Stopped' <=> Col!Stopped
    BY <2>1 DEF Col!Stopped
  <2>4. OneWatcher' /\ StateFits'
    BY <2>1 DEF OneWatcher, StateFits, Stopping
  <2>5. PoolOfLife'
    BY <2>1, <2>2 DEF PoolOfLife
  <2>6. Drained'
    BY <2>1, <2>2 DEF Drained
  <2>7. OnceHeld' /\ OnceRan'
    BY <2>1, <2>3 DEF OnceHeld, OnceRan, Stopping
  <2>. QED
    BY <2>4, <2>5, <2>6, <2>7
<1>4. CASE BeginStopCollector
  <2>1. /\ user = "once" /\ user' = "drain" /\ OnceEnters(User)
        /\ UNCHANGED <<state, life, poolLife, watcher, running, cycle, waiter>>
    BY <1>4 DEF BeginStopCollector
  <2>2. ~ running /\ life > 0
    BY <2>1, StoppingHasLife DEF Drained, Stopping
  <2>3. /\ ~ onceDone /\ onceHolder = Nobody /\ onceHolder' = User /\ onceDone' = onceDone
        /\ \A y \in Col!Stoppers : awaits'[y] # 0 <=> y = User
        /\ ~ Col!Stopped'
    BY <2>1, <2>2, OnceMoves DEF OnceEnters
  <2>4. OneWatcher' /\ StateFits'
    BY <2>1 DEF OneWatcher, StateFits, Stopping
  <2>5. PoolOfLife' /\ Drained'
    BY <2>1, <2>2 DEF PoolOfLife, Drained
  <2>6. OnceHeld'
    BY <2>1, <2>3, SameCollector DEF OnceHeld, User, Nobody, Lives
  <2>7. OnceRan'
    BY <2>1, <2>2, <2>3 DEF OnceRan, Stopping
  <2>. QED
    BY <2>4, <2>5, <2>6, <2>7
<1>5. CASE StopCollector
  <2>1. /\ user \in {"once", "drain"} /\ user' \in {"reset", "ready"}
        /\ UNCHANGED <<state, life, poolLife, watcher, running, cycle, waiter>>
    BY <1>5 DEF StopCollector
  <2>2. /\ onceDone' /\ onceDone' \in BOOLEAN /\ onceHolder' = Nobody
        /\ \A y \in Col!Stoppers : awaits'[y] = 0
        /\ Col!Stopped'
        /\ onceHolder \in {Nobody, User}
    <3>1. CASE OnceLeaves(User)
      <4>1. onceDone' \in BOOLEAN
        BY <3>1, Zenon DEF OnceLeaves
      <4>. QED
        BY <3>1, <4>1, OnceMoves
    <3>2. CASE OnceSkips
      <4>1. UNCHANGED <<onceDone, onceHolder, awaits, drain>> /\ onceDone
        BY <3>2 DEF OnceSkips, SkipsIf, colVars
      <4>. QED
        BY <4>1, SameCollector DEF OnceHeld, OnceRan, Col!Stopped
    <3>. QED
      BY <1>5, <3>1, <3>2 DEF StopCollector
  <2>3. ~ running /\ life > 0 /\ state = "STOPPED"
    BY <2>1, StoppingHasLife DEF Drained, Stopping, StateFits
  <2>4. OneWatcher' /\ StateFits'
    BY <2>1, <2>3 DEF OneWatcher, StateFits, Stopping
  <2>5. PoolOfLife' /\ Drained'
    BY <2>1, <2>3 DEF PoolOfLife, Drained
  <2>6. OnceHeld'
    BY <2>1, <2>2, SameCollector DEF OnceHeld, User, Nobody, Lives
  <2>7. OnceRan'
    BY <2>1, <2>2, <2>3, SameCollector DEF OnceRan, Stopping, User, Nobody, Lives
  <2>. QED
    BY <2>4, <2>5, <2>6, <2>7
<1>. QED
  BY <1>1, <1>2, <1>3, <1>4, <1>5

LEMMA UserPlaced ==
  ASSUME RunnerInv, UserStep, ~ overtaken'
  PROVE  Placed'
<1>. USE DEF RunnerInv, Prompt, Placed
<1>1. CASE Refused
  <2>1. /\ user = "launch" /\ user' = "ready"
        /\ UNCHANGED <<state, life, poolLife, onceDone, onceHolder, watcher, running, cycle, waiter,
                       awaits, drain>>
    BY <1>1 DEF Refused, At, Return, lifecycle, once, watchVars, genState, colState
  <2>2. Col!Stopped' <=> Col!Stopped
    BY <2>1 DEF Col!Stopped
  <2>3. OneWatcher' /\ StateFits'
    BY <2>1 DEF OneWatcher, StateFits, Stopping
  <2>4. PoolOfLife' /\ Drained'
    BY <2>1 DEF PoolOfLife, Drained
  <2>5. OnceHeld' /\ OnceRan'
    BY <2>1, <2>2 DEF OnceHeld, OnceRan, Stopping
  <2>. QED
    BY <2>3, <2>4, <2>5
<1>2. CASE ResetRun
  <2>1. /\ user = "reset" /\ user' = "launch" /\ state' = "IDLE"
        /\ UNCHANGED <<life, poolLife, onceDone, onceHolder, watcher, running, cycle, waiter, awaits,
                       drain>>
    BY <1>2 DEF ResetRun, At, GoTo, once, watchVars, Gen!Reset, Col!ResetAll, Col!handover
  <2>2. ~ running /\ state # "RUNNING" /\ (Col!Stopped' <=> Col!Stopped)
    BY <2>1, AtRest DEF StateFits, Stopping, Col!Stopped
  <2>3. OneWatcher' /\ StateFits'
    BY <2>1 DEF OneWatcher, StateFits, Stopping, InitialStates
  <2>4. PoolOfLife' /\ Drained'
    BY <2>1, <2>2 DEF PoolOfLife, Drained
  <2>5. OnceHeld' /\ OnceRan'
    BY <2>1, <2>2 DEF OnceHeld, OnceRan, Stopping
  <2>. QED
    BY <2>3, <2>4, <2>5
<1>. QED
  BY <1>1, <1>2, LaunchPlaced, SpawnPlaced, StopPlaced, OnceNeverTorn DEF UserStep

-----------------------------------------------------------------------------
(***************************************************************************)
(* The invariant.                                                          *)
(***************************************************************************)
LEMMA InitRunner == Init => RunnerInv
<1>. SUFFICES ASSUME Init PROVE RunnerInv
  OBVIOUS
<1>1. Channels /\ Parts
  BY InitChannels, InitParts
<1>. USE RunnerAssumption DEF Init, User, Nobody, Lives
<1>2. OneWatcher /\ StateFits
  BY Zenon DEF OneWatcher, StateFits, Stopping, InitialStates
<1>3. PoolOfLife /\ Drained
  BY SameGenerator DEF PoolOfLife, Drained, Gen!Init
<1>4. Col!Stopped /\ \A x \in Col!Stoppers : awaits[x] = 0
  BY DEF Col!Init, Col!Stopped
<1>5. OnceHeld
  <2>1. onceDone \in BOOLEAN
    BY Zenon
  <2>. QED
    BY <2>1 DEF OnceHeld
<1>6. OnceRan
  BY <1>4, SameCollector DEF OnceRan, Stopping, InitialStates
<1>7. Requests
  <2>1. Waiting = {}
    BY DEF Waiting
  <2>. QED
    BY <2>1, FS_EmptySet DEF Requests, Col!Init
<1>. QED
  BY <1>1, <1>2, <1>3, <1>5, <1>6, <1>7 DEF RunnerInv, Prompt, Placed

LEMMA RunnerUntouched ==
  ASSUME RunnerInv, UNCHANGED vars
  PROVE  RunnerInv'
<1>. USE DEF vars, runVars, lifecycle, once, userVars, watchVars, histVars, genState, colState,
         RunnerInv, Prompt, Placed
<1>1. Channels'
  BY ChannelsUntouched
<1>2. OneWatcher' /\ PoolOfLife' /\ Drained' /\ StateFits'
  BY DEF OneWatcher, PoolOfLife, Drained, StateFits, Stopping
<1>3. OnceHeld' /\ OnceRan'
  BY DEF OnceHeld, OnceRan, Stopping, Col!Stopped
<1>4. Requests'
  BY RequestsUntouched
<1>5. Parts'
  BY GeneratorParts, CollectorParts DEF Parts, genVars, colVars
<1>. QED
  BY <1>1, <1>2, <1>3, <1>4, <1>5

LEMMA StepRunner ==
  ASSUME RunnerInv, [Next]_vars, ~ overtaken'
  PROVE  RunnerInv'
<1>1. CASE Next
  <2>1. Placed'
    BY <1>1, NextIs, CallPlaced, UserPlaced, WatcherPlaced, ElsewherePlaced
  <2>. QED
    BY <1>1, <2>1, StepChannels, StepRequests, StepParts DEF RunnerInv, Prompt
<1>. QED
  BY <1>1, RunnerUntouched

\* What has been overtaken stays so.
LEMMA OnceOvertaken ==
  ASSUME [Next]_vars, overtaken
  PROVE  overtaken'
<1>. USE DEF vars, runVars, histVars
<1>1. CASE UserCalls
  BY <1>1 DEF UserCalls, CallStart, CallResume, CallStop, CallRestart, Restarting, Call
<1>2. CASE UserStep
  BY <1>2 DEF UserStep, Refused, Launch, Spawn, Halt, CancelRoot, AwaitPool, BeginStopCollector,
       StopCollector, ResetRun
<1>3. ASSUME NEW l \in Lives, WatcherStep(l)
      PROVE  overtaken'
  BY <1>3 DEF WatcherStep, WatchPool, WaitThen, WatcherBeginsStop, WatcherStopsCollector,
       Settle, SettleFrom, FireTerminal, CloseDoneCh
<1>4. CASE Elsewhere
  BY <1>4 DEF Elsewhere, PoolStep, SessionStep, Skip, Dispatch, RenderFails, Answer,
       CancelledSend, DrainStep, TimerStep
<1>. QED
  BY <1>1, <1>2, <1>3, <1>4, NextIs

\* The invariant holds up to the launch that overtakes a watcher.
LEMMA AlwaysRunner == SafeSpec => [](overtaken \/ RunnerInv)
<1>1. (overtaken \/ RunnerInv) /\ [Next]_vars => (overtaken \/ RunnerInv)'
  BY StepRunner, OnceOvertaken
<1>. QED
  BY <1>1, InitRunner, PTL DEF SafeSpec

-----------------------------------------------------------------------------
(***************************************************************************)
(* What follows.                                                           *)
(***************************************************************************)
\* Without a drain goroutine nothing is left to count.
LEMMA NoDrainMeansEmpty ==
  ASSUME Parts, \A d \in Lives : drain[d] \in {"none", "gone"}
  PROVE  Col!InHand = 0 /\ results = <<>> /\ inFlight = 0
<1>. USE SameCollector DEF Parts
<1>1. results = <<>> /\ inFlight = 0
  BY DEF ColP!HandOver, ColP!Quiet, ColP!Active
<1>2. starts # 0 => starts \in Lives
  BY RunnerAssumption DEF ColP!TypeOK, Lives
<1>. QED
  BY <1>1, <1>2 DEF Col!InHand

LEMMA StoppedIsEmpty ==
  ASSUME Parts, Col!Stopped
  PROVE  Col!InHand = 0 /\ results = <<>> /\ inFlight = 0 /\ ~ stopwatch
<1>1. ~ stopwatch
  BY SameCollector DEF Parts, ColP!HandOver, ColP!Quiet
<1>. QED
  BY <1>1, NoDrainMeansEmpty, SameCollector DEF Col!Stopped

LEMMA AtRestIsFinal ==
  ASSUME RunnerInv, state # "RUNNING", ~ Stopping
  PROVE  Final
<1>1. ~ running /\ Col!Stopped
  BY AtRest
<1>2. Gen!WgIdle
  BY <1>1, IdleMeansNoRequest
<1>3. Col!InHand = 0 /\ results = <<>> /\ inFlight = 0 /\ ~ stopwatch
  BY <1>1, StoppedIsEmpty DEF RunnerInv
<1>4. sent + unsent = received + errors + dropped
  BY <1>3, SameCollector DEF RunnerInv, Parts, ColP!NothingLost, ColP!TypeOK
<1>. QED
  BY <1>1, <1>2, <1>3, <1>4 DEF Final

(* No WaitGroup, channel or Once is misused unless a lifecycle has been    *)
(* launched over an unsettled watcher, for however many lifecycles and     *)
(* workers (load_generator.go:121-123, 183-184, collector.go:164-183,      *)
(* runner.go:330, 362-437).                                                *)
THEOREM ProcessSurvives == SafeSpec => []NoPanic
<1>1. overtaken \/ RunnerInv => NoPanic
  BY DEF RunnerInv, Parts, GenP!Pool, NoPanic
<1>. QED
  BY <1>1, AlwaysRunner, PTL

(* Once DONE, the figures are final: the pool has drained, every outcome   *)
(* is counted and the clock has stopped, unless a watcher was overtaken    *)
(* (runner.go:362-372).                                                    *)
THEOREM DoneIsFinal == SafeSpec => []DoneMeansFinal
<1>1. overtaken \/ RunnerInv => DoneMeansFinal
  BY AtRestIsFinal DEF DoneMeansFinal, RunnerInv, Prompt, Placed, StateFits
<1>. QED
  BY <1>1, AlwaysRunner, PTL

(* So they are when Stop has returned and the user sees STOPPED            *)
(* (runner.go:421-437).                                                    *)
THEOREM StopIsFinal == SafeSpec => []StopMeansFinal
<1>1. overtaken \/ RunnerInv => StopMeansFinal
  BY AtRestIsFinal DEF StopMeansFinal, RunnerInv, Channels, CommandKnown, Stopping
<1>. QED
  BY <1>1, AlwaysRunner, PTL

-----------------------------------------------------------------------------
(***************************************************************************)
(* Where overtaking comes from.                                            *)
(***************************************************************************)
\* The record of the user's Stops only grows.
LEMMA StopsAreRemembered ==
  ASSUME [Next]_vars
  PROVE  stoppedBy \subseteq stoppedBy'
<1>. USE DEF vars, runVars, histVars
<1>1. CASE UserCalls
  BY <1>1 DEF UserCalls, CallStart, CallResume, CallStop, CallRestart, Restarting, Call
<1>2. CASE UserStep
  BY <1>2 DEF UserStep, Refused, Launch, Spawn, Halt, CancelRoot, AwaitPool, BeginStopCollector,
       StopCollector, ResetRun
<1>3. ASSUME NEW l \in Lives, WatcherStep(l)
      PROVE  stoppedBy \subseteq stoppedBy'
  BY <1>3 DEF WatcherStep, WatchPool, WaitThen, WatcherBeginsStop, WatcherStopsCollector,
       Settle, SettleFrom, FireTerminal, CloseDoneCh
<1>. QED
  BY <1>1, <1>2, <1>3, ElsewhereLeavesRun, NextIs

LEMMA StepBehind ==
  ASSUME RunnerInv, BehindAfterStop, [Next]_vars
  PROVE  BehindAfterStop'
<1>. USE DEF RunnerInv, Prompt, Placed, BehindAfterStop
<1>. SUFFICES ASSUME stoppedBy' = {}, NEW l \in Lives, Unsettled(l)'
              PROVE  state' = "RUNNING" \/ user' = "cancel"
  OBVIOUS
<1>0. stoppedBy = {}
  BY StopsAreRemembered
<1>. USE DEF At, GoTo, Return
<1>1. CASE UserCalls
  <2>1. user = "ready" /\ UNCHANGED <<state, watcher>>
    BY <1>1 DEF UserCalls, CallStart, CallResume, CallStop, CallRestart, Restarting, Call,
         lifecycle, watchVars
  <2>. QED
    BY <1>0, <2>1 DEF Unsettled
<1>2. CASE Launch
  BY <1>2 DEF Launch
<1>3. CASE Spawn
  BY <1>3 DEF Spawn, StateFits
<1>4. CASE Halt
  BY <1>0, <1>4 DEF Halt, watchVars, Unsettled
<1>5. CASE CancelRoot
  <2>1. poolLife = life
    BY <1>5, StoppingHasLife DEF CancelRoot, PoolOfLife, Stopping
  <2>2. stoppedBy' # {}
    BY <1>5, <2>1 DEF CancelRoot
  <2>. QED
    BY <2>2
<1>6. CASE ResetRun
  BY <1>0, <1>6 DEF ResetRun, watchVars, StateFits, Unsettled
<1>7. CASE \/ Refused \/ AwaitPool \/ BeginStopCollector \/ StopCollector
           \/ At("drain") /\ OnceTorn(User) /\ UNCHANGED <<runVars, genState>>
  <2>1. user # "cancel" /\ UNCHANGED <<state, watcher>>
    BY <1>7 DEF Refused, AwaitPool, BeginStopCollector, StopCollector, runVars, lifecycle, watchVars
  <2>. QED
    BY <1>0, <2>1 DEF Unsettled
<1>8. ASSUME NEW m \in Lives, WatcherStep(m)
      PROVE  state' = "RUNNING" \/ user' = "cancel"
  <2>0. watcher \in [Lives -> WatcherPhases]
    BY DEF Channels, RunTyped
  <2>1. CASE Settle(m)
    <3>1. watcher[m] = "settle" /\ watcher'[m] \in {"callback", "gone"}
          /\ \A k \in Lives \ {m} : watcher'[k] = watcher[k]
      BY <2>0, <2>1 DEF Settle, SettleFrom, WatcherAt, WatcherTo
    <3>2. m = life
      BY <3>1, BusyWatcher DEF Unsettled
    <3>3. l # m /\ Unsettled(l)
      BY <3>1 DEF Unsettled
    <3>4. l = life
      BY <3>3, BusyWatcher
    <3>. QED
      BY <3>2, <3>3, <3>4
  <2>2. CASE ~ Settle(m)
    <3>1. UNCHANGED <<state, user>>
      BY <1>8, <2>2 DEF WatcherStep, WatchPool, WaitThen, WatcherBeginsStop,
           WatcherStopsCollector, FireTerminal, CloseDoneCh, runVars, lifecycle, userVars
    <3>2. Unsettled(l)
      BY <1>8, <2>0, <2>2 DEF WatcherStep, WatchPool, WaitThen, WatcherBeginsStop,
           WatcherStopsCollector, FireTerminal, CloseDoneCh, runVars, watchVars, WatcherAt,
           WatcherTo, Unsettled
    <3>. QED
      BY <1>0, <3>1, <3>2
  <2>. QED
    BY <2>1, <2>2
<1>9. CASE Elsewhere \/ UNCHANGED vars
  <2>1. UNCHANGED <<state, user, watcher>>
    BY <1>9, ElsewhereLeavesRun DEF lifecycle, userVars, watchVars, vars, runVars
  <2>. QED
    BY <1>0, <2>1 DEF Unsettled
<1>. QED
  BY <1>1, <1>2, <1>3, <1>4, <1>5, <1>6, <1>7, <1>8, <1>9, NextIs DEF UserStep

(* A lifecycle is launched over an unsettled watcher only after the user   *)
(* has stopped a run: all that is proved up to that launch holds for good  *)
(* where runs end by themselves and are restarted from DONE                *)
(* (runner.go:314-330, 421-437).                                           *)
THEOREM OvertakingNeedsAStop == SafeSpec => []OvertakesAfterStop
<1>. DEFINE Inv == overtaken \/ (RunnerInv /\ BehindAfterStop)
<1>1. Init => Inv /\ OvertakesAfterStop
  BY InitRunner DEF Init, BehindAfterStop, Unsettled, OvertakesAfterStop
<1>2. Inv /\ [Next]_vars => Inv'
  BY StepRunner, StepBehind, OnceOvertaken
<1>3. Inv /\ OvertakesAfterStop /\ [Next]_vars => OvertakesAfterStop'
  <2>. SUFFICES ASSUME Inv, OvertakesAfterStop, [Next]_vars, overtaken'
                PROVE  stoppedBy' # {}
    BY DEF OvertakesAfterStop
  <2>1. CASE overtaken
    BY <2>1, StopsAreRemembered DEF OvertakesAfterStop
  <2>2. CASE ~ overtaken /\ Launch
    <3>1. PICK l \in Lives : Unsettled(l)
      BY <2>2 DEF Launch
    <3>2. user = "launch" /\ state # "RUNNING"
      BY <2>2 DEF Launch, At, Startable, StartableFrom
    <3>3. stoppedBy # {}
      BY <2>2, <3>1, <3>2 DEF BehindAfterStop
    <3>. QED
      BY <3>3, StopsAreRemembered
  <2>3. CASE ~ overtaken /\ ~ Launch
    <3>. USE DEF vars, runVars, histVars
    <3>1. CASE UserCalls
      BY <2>3, <3>1 DEF UserCalls, CallStart, CallResume, CallStop, CallRestart, Restarting, Call
    <3>2. CASE UserStep
      BY <2>3, <3>2 DEF UserStep, Refused, Spawn, Halt, CancelRoot, AwaitPool,
           BeginStopCollector, StopCollector, ResetRun
    <3>3. ASSUME NEW l \in Lives, WatcherStep(l)
          PROVE  FALSE
      BY <2>3, <3>3 DEF WatcherStep, WatchPool, WaitThen, WatcherBeginsStop,
           WatcherStopsCollector, Settle, SettleFrom, FireTerminal, CloseDoneCh
    <3>4. CASE Elsewhere
      BY <2>3, <3>4 DEF Elsewhere, PoolStep, SessionStep, Skip, Dispatch, RenderFails, Answer,
           CancelledSend, DrainStep, TimerStep
    <3>. QED
      BY <2>3, <3>1, <3>2, <3>3, <3>4, NextIs
  <2>. QED
    BY <2>1, <2>2, <2>3
<1>. QED
  BY <1>1, <1>2, <1>3, PTL DEF SafeSpec

-----------------------------------------------------------------------------
(***************************************************************************)
(* The components' rules of use.                                           *)
(***************************************************************************)
(* Up to the launch that overtakes a watcher the runner keeps to the rules *)
(* of the generator (load_generator.go:76-215).                            *)
THEOREM RunnerObeysGenerator == SafeSpec => GeneratorContract
<1>1. Init => Gen!Init
  BY DEF Init
<1>2. (overtaken \/ RunnerInv) /\ [Next]_vars => [~ overtaken' => Gen!Next]_(Gen!genVars)
  <2>1. ASSUME RunnerInv, Next
        PROVE  [Gen!Next]_(Gen!genVars)
    BY <2>1, StepContract DEF GenObeys, genVars, genState, Gen!genVars, Gen!genState
  <2>2. ASSUME UNCHANGED vars
        PROVE  UNCHANGED Gen!genVars
    BY <2>2 DEF vars, genState, Gen!genVars, Gen!genState
  <2>. QED
    BY <2>1, <2>2, OnceOvertaken
<1>. QED
  BY <1>1, <1>2, AlwaysRunner, PTL DEF SafeSpec, GeneratorContract

(* And to those of the collector: sessions submit only between a Start and *)
(* a Stop, with one drain goroutine and one Stop at a time                 *)
(* (collector.go:154-205).                                                 *)
THEOREM RunnerObeysCollector == SafeSpec => CollectorContract
<1>1. Init => Col!Init
  BY DEF Init
<1>2. (overtaken \/ RunnerInv) /\ [Next]_vars => [~ overtaken' => Col!Next]_(Col!colVars)
  <2>. USE DEF colState, Col!colVars, Col!colState, Col!counters, Col!handover, Col!history
  <2>1. ASSUME RunnerInv, Next
        PROVE  [Col!Next]_(Col!colVars)
    BY <2>1, StepContract DEF ColObeys, colVars
  <2>2. ASSUME UNCHANGED vars
        PROVE  UNCHANGED Col!colVars
    BY <2>2 DEF vars
  <2>. QED
    BY <2>1, <2>2, OnceOvertaken
<1>. QED
  BY <1>1, <1>2, AlwaysRunner, PTL DEF SafeSpec, CollectorContract

-----------------------------------------------------------------------------
(***************************************************************************)
(* The refinement: every step of the runner is a step of Lifecycle, or     *)
(* leaves what Lifecycle sees alone.                                       *)
(***************************************************************************)
Pending == inFlight + Len(results) + Col!InHand
Counted == received + errors + dropped
Owed == Cardinality(Announcing)

Refines == Abstract!Next \/ UNCHANGED <<AbstractPhase, Pending, Counted, Owed>>

LEMMA RefinesIs == Refines <=> [Abstract!Next]_(Abstract!lifeVars)
BY DEF Refines, Abstract!lifeVars, Pending, Counted, Owed

LEMMA PendingTyped ==
  ASSUME Parts
  PROVE  /\ results \in Seq(Kinds) /\ Len(results) \in Nat
         /\ inFlight \in Nat /\ Col!InHand \in {0, 1}
         /\ received \in Nat /\ errors \in Nat /\ dropped \in Nat
BY DEF Parts, ColP!TypeOK, Col!InHand

LEMMA AnnouncingFinite == IsFiniteSet(Announcing)
<1>1. IsFiniteSet(1 .. MaxLives)
  BY FS_Interval, RunnerAssumption
<1>2. Announcing \subseteq 1 .. MaxLives
  BY DEF Announcing, Lives
<1>. QED
  BY <1>1, <1>2, FS_Subset

LEMMA SameFigures ==
  ASSUME UNCHANGED <<inFlight, results, starts, drain, received, errors, dropped>>
  PROVE  UNCHANGED <<Pending, Counted>>
BY DEF Pending, Counted, Col!InHand

LEMMA SameOwed ==
  ASSUME \A l \in Lives : watcher'[l] \in {"callback", "close"} <=> watcher[l] \in {"callback", "close"}
  PROVE  UNCHANGED Owed
<1>1. Announcing' = Announcing
  BY DEF Announcing
<1>. QED
  BY <1>1 DEF Owed

LEMMA UserRefines ==
  ASSUME RunnerInv, UserCalls \/ UserStep
  PROVE  Refines
<1>. USE DEF lifecycle, once, userVars, watchVars, histVars, genState, colState, At, GoTo, Return,
         AbstractPhase, Draining, Refines
<1>1. CASE UserCalls \/ Refused \/ Spawn \/ CancelRoot \/ AwaitPool \/ BeginStopCollector
  <2>1. UNCHANGED <<inFlight, results, starts, drain, received, errors, dropped>>
    BY <1>1 DEF UserCalls, CallStart, CallResume, CallStop, CallRestart, Restarting, Call,
         Refused, Spawn, CancelRoot, AwaitPool, BeginStopCollector, OnceEnters, Col!CloseDone,
         Col!CloseAndAwait, Col!counters, Col!history
  <2>2. UNCHANGED AbstractPhase
    <3>1. /\ UNCHANGED state
          /\ user \in {"cancel", "wait", "once", "drain"} <=>
               user' \in {"cancel", "wait", "once", "drain"}
      BY <1>1 DEF UserCalls, CallStart, CallResume, CallStop, CallRestart, Restarting, Call,
           Refused, Spawn, CancelRoot, AwaitPool, BeginStopCollector
    <3>. QED
      BY <3>1
  <2>3. UNCHANGED Owed
    <3>1. CASE Spawn
      <4>1. watcher[life] = "none" /\ watcher' = [watcher EXCEPT ![life] = "wait"]
        BY <3>1 DEF Spawn, RunnerInv, Channels, Spawned
      <4>2. watcher \in [Lives -> WatcherPhases]
        BY DEF RunnerInv, Channels, RunTyped
      <4>. QED
        BY <4>1, <4>2, SameOwed
    <3>2. CASE ~ Spawn
      <4>1. watcher' = watcher
        BY <1>1, <3>2 DEF UserCalls, CallStart, CallResume, CallStop, CallRestart, Restarting,
             Call, Refused, CancelRoot, AwaitPool, BeginStopCollector
      <4>. QED
        BY <4>1, SameOwed
    <3>. QED
      BY <3>1, <3>2
  <2>. QED
    BY <2>1, <2>2, <2>3, SameFigures
<1>2. CASE Launch
  <2>1. /\ user = "launch" /\ user' = "spawn" /\ state' = "RUNNING"
        /\ state \notin {"RUNNING", "DONE", "SCRIPT_ERROR"} /\ Col!Start /\ watcher' = watcher
    BY <1>2 DEF Launch, Startable, StartableFrom
  <2>2. AbstractPhase \in {"IDLE", "STOPPED"} /\ AbstractPhase' = "RUNNING"
    BY <2>1 DEF RunnerInv, Channels, RunTyped, States
  <2>3. Pending' = Pending /\ Counted' = Counted
    <3>1. Col!InHand = 0
      BY <2>1, AtRest, StoppedIsEmpty DEF Stopping, RunnerInv
    <3>2. /\ starts + 1 \in Lives /\ starts' = starts + 1
          /\ drain' = [drain EXCEPT ![starts + 1] = "loop"]
          /\ UNCHANGED <<inFlight, results, received, errors, dropped>>
      BY <2>1, RunnerAssumption DEF Col!Start, Col!DrainAt, Col!counters, Col!history, RunnerInv,
         Channels, RunTyped, Lives
    <3>3. drain'[starts'] = "loop"
      BY <3>2, SameCollector DEF RunnerInv, Parts, ColP!TypeOK
    <3>4. Col!InHand' = 0
      BY <3>3 DEF Col!InHand
    <3>. QED
      BY <3>1, <3>2, <3>4 DEF Pending, Counted
  <2>4. Owed' = Owed
    BY <2>1, SameOwed
  <2>. QED
    BY <2>2, <2>3, <2>4 DEF Abstract!Next, Abstract!Launch, Pending, Counted, Owed
<1>3. CASE Halt
  <2>1. UNCHANGED <<Pending, Counted, Owed>>
    BY <1>3, SameFigures, SameOwed DEF Halt
  <2>2. CASE state = "RUNNING"
    <3>1. AbstractPhase = "RUNNING" /\ AbstractPhase' = "STOPPING"
      BY <1>3, <2>2 DEF Halt
    <3>. QED
      BY <2>1, <3>1 DEF Abstract!Next, Abstract!Stop, Pending, Counted, Owed
  <2>3. CASE state # "RUNNING"
    <3>1. UNCHANGED AbstractPhase
      BY <1>3, <2>3 DEF Halt
    <3>. QED
      BY <2>1, <3>1
  <2>. QED
    BY <2>2, <2>3
<1>4. CASE StopCollector
  <2>1. /\ user \in {"once", "drain"} /\ user' \in {"reset", "ready"}
        /\ OnceSkips \/ OnceLeaves(User)
        /\ UNCHANGED <<state, watcher>>
    BY <1>4 DEF StopCollector
  <2>2. AbstractPhase = "STOPPING" /\ AbstractPhase' = "STOPPED"
    BY <2>1 DEF RunnerInv, Prompt, Placed, StateFits, Stopping
  <2>3. UNCHANGED <<inFlight, results, starts, drain, received, errors, dropped>>
    BY <2>1 DEF OnceSkips, SkipsIf, OnceLeaves, colVars, Col!AckReceived, Col!Return,
                Col!counters, Col!history
  <2>4. \A d \in Lives : drain[d] \in {"none", "gone"}
    BY <2>1, OnceMoves, SameCollector
       DEF OnceSkips, SkipsIf, RunnerInv, Prompt, Placed, OnceRan, Col!Stopped
  <2>5. Pending = 0
    BY <2>4, NoDrainMeansEmpty DEF Pending, RunnerInv
  <2>. QED
    BY <2>1, <2>2, <2>3, <2>5, SameFigures, SameOwed
       DEF Abstract!Next, Abstract!Park, Pending, Counted, Owed
<1>5. CASE ResetRun
  <2>1. /\ user = "reset" /\ user' = "launch" /\ state' = "IDLE" /\ watcher' = watcher
        /\ UNCHANGED <<inFlight, results, starts, drain>>
        /\ received' = 0 /\ errors' = 0 /\ dropped' = 0
    BY <1>5 DEF ResetRun, Col!ResetAll
  <2>2. /\ AbstractPhase \in {"IDLE", "STOPPED", "DONE", "SCRIPT_ERROR"}
        /\ AbstractPhase' = "IDLE"
    BY <2>1 DEF RunnerInv, Channels, RunTyped, States, Prompt, Placed, StateFits
  <2>3. Pending = 0 /\ Pending' = 0
    <3>1. Col!InHand = 0 /\ results = <<>> /\ inFlight = 0
      BY <2>1, AtRest, StoppedIsEmpty DEF Stopping, RunnerInv, Prompt, Placed, StateFits
    <3>2. Col!InHand' = Col!InHand
      BY <2>1 DEF Col!InHand
    <3>. QED
      BY <2>1, <3>1, <3>2 DEF Pending
  <2>4. Counted' = 0 /\ Owed' = Owed
    BY <2>1, SameOwed DEF Counted
  <2>. QED
    BY <2>2, <2>3, <2>4 DEF Abstract!Next, Abstract!Reset, Pending, Counted, Owed
<1>. QED
  BY <1>1, <1>2, <1>3, <1>4, <1>5, OnceNeverTorn DEF UserStep

LEMMA WatcherRefines ==
  ASSUME RunnerInv, NEW l \in Lives, WatcherStep(l)
  PROVE  Refines
<1>. USE DEF lifecycle, once, userVars, genState, colState, WatcherAt, WatcherTo,
         AbstractPhase, Draining, Refines
<1>0. watcher \in [Lives -> WatcherPhases]
  BY DEF RunnerInv, Channels, RunTyped
<1>1. CASE WatchPool(l) \/ WatcherBeginsStop(l) \/ WatcherStopsCollector(l)
  <2>1. UNCHANGED <<inFlight, results, starts, drain, received, errors, dropped, state, user>>
    BY <1>1 DEF WatchPool, WaitThen, WatcherBeginsStop, WatcherStopsCollector, OnceEnters,
         OnceSkips, SkipsIf, OnceLeaves, colVars, Col!CloseDone, Col!CloseAndAwait,
         Col!AckReceived, Col!Return, Col!counters, Col!history
  <2>2. /\ watcher[l] \in {"wait", "once", "drain"} /\ watcher'[l] \in {"wait", "once", "drain", "settle"}
        /\ \A m \in Lives \ {l} : watcher'[m] = watcher[m]
    BY <1>0, <1>1 DEF WatchPool, WaitThen, WatcherBeginsStop, WatcherStopsCollector
  <2>. QED
    BY <2>1, <2>2, SameFigures, SameOwed
<1>2. CASE Settle(l)
  <2>1. watcher[l] = "settle" /\ UNCHANGED <<user, inFlight, results, starts, drain, received, errors, dropped>>
    BY <1>2 DEF Settle, SettleFrom
  <2>2. CASE state = "RUNNING"
    <3>1. state' = "DONE" /\ watcher' = [watcher EXCEPT ![l] = "callback"]
      BY <1>2, <2>2 DEF Settle, SettleFrom
    <3>2. Col!Stopped
      <4>1. Unsettled(l)
        BY <2>1 DEF Unsettled
      <4>2. l = life
        BY <4>1, BusyWatcher
      <4>. QED
        BY <2>1, <4>2 DEF RunnerInv, Prompt, Placed, OnceRan
    <3>3. Pending = 0
      BY <3>2, StoppedIsEmpty DEF Pending, RunnerInv
    <3>4. Announcing' = Announcing \union {l} /\ l \notin Announcing
      BY <1>0, <2>1, <3>1 DEF Announcing
    <3>5. Owed' = Owed + 1
      BY <3>4, AnnouncingFinite, FS_AddElement DEF Owed
    <3>6. UNCHANGED <<Pending, Counted>>
      BY <2>1, SameFigures
    <3>. QED
      BY <2>1, <2>2, <3>1, <3>3, <3>5, <3>6
         DEF Abstract!Next, Abstract!Complete, Pending, Counted, Owed
  <2>3. CASE state # "RUNNING"
    <3>1. state' = state /\ watcher' = [watcher EXCEPT ![l] = "gone"]
      BY <1>2, <2>3 DEF Settle, SettleFrom
    <3>. QED
      BY <1>0, <2>1, <3>1, SameFigures, SameOwed
  <2>. QED
    BY <2>2, <2>3
<1>3. CASE FireTerminal(l)
  <2>1. /\ watcher[l] = "callback" /\ watcher' = [watcher EXCEPT ![l] = "close"]
        /\ UNCHANGED <<state, user, inFlight, results, starts, drain, received, errors, dropped>>
    BY <1>3 DEF FireTerminal
  <2>. QED
    BY <1>0, <2>1, SameFigures, SameOwed
<1>4. CASE CloseDoneCh(l)
  <2>1. heldCh[l] \notin closedCh
    BY <1>4 DEF CloseDoneCh, RunnerInv, Channels, Announced, Held, Announces
  <2>2. /\ watcher[l] = "close" /\ watcher' = [watcher EXCEPT ![l] = "gone"]
        /\ UNCHANGED <<state, user, inFlight, results, starts, drain, received, errors, dropped>>
    BY <1>4, <2>1 DEF CloseDoneCh
  <2>3. l \in Announcing /\ Announcing' = Announcing \ {l}
    BY <1>0, <2>2 DEF Announcing
  <2>4. Owed > 0 /\ Owed' = Owed - 1
    BY <2>3, AnnouncingFinite, FS_RemoveElement, FS_EmptySet, FS_CardinalityType DEF Owed
  <2>5. UNCHANGED <<AbstractPhase, Pending, Counted>>
    BY <2>2, SameFigures
  <2>. QED
    BY <2>4, <2>5 DEF Abstract!Next, Abstract!Announce, Pending, Counted, Owed
<1>. QED
  BY <1>1, <1>2, <1>3, <1>4, OnceNeverTorn DEF WatcherStep

\* The outcome k enters the buffer, or the figures as dropped.
LEMMA OfferFigures ==
  ASSUME Parts, NEW k \in Kinds, Col!Offer(k)
  PROVE  /\ results' \in Seq(Kinds)
         /\ \/ Len(results') = Len(results) + 1 /\ dropped' = dropped
            \/ Len(results') = Len(results) /\ dropped' = dropped + 1
<1>1. results \in Seq(Kinds) /\ dropped \in Nat
  BY DEF Parts, ColP!TypeOK
<1>2. CASE Len(results) < Capacity
  BY <1>1, <1>2 DEF Col!Offer, Col!Post
<1>3. CASE ~ (Len(results) < Capacity)
  BY <1>1, <1>3 DEF Col!Offer, Col!Post
<1>. QED
  BY <1>2, <1>3

\* Where a session may send, Lifecycle is RUNNING or STOPPING.
LEMMA BusyPhase ==
  ASSUME RunnerInv, NEW w \in Gen!Workers, worker[w] = "session"
  PROVE  AbstractPhase \in {"RUNNING", "STOPPING"}
<1>1. running
  BY BusyMeansOpen
<1>2. state = "RUNNING" \/ (user \in {"cancel", "wait"} /\ state = "STOPPED")
  BY <1>1 DEF RunnerInv, Prompt, Placed, Drained, StateFits, Stopping
<1>. QED
  BY <1>2 DEF AbstractPhase, Draining

LEMMA SessionRefines ==
  ASSUME RunnerInv, NEW w \in Gen!Workers, SessionStep(w)
  PROVE  Refines
<1>. USE DEF Refines
<1>0. UNCHANGED <<AbstractPhase, Owed>>
  <2>1. UNCHANGED <<state, user, watcher>>
    BY ElsewhereLeavesRun DEF Elsewhere, lifecycle, userVars, watchVars
  <2>. QED
    BY <2>1, SameOwed DEF AbstractPhase, Draining
<1>1. AbstractPhase \in {"RUNNING", "STOPPING"}
  <2>1. worker[w] = "session"
    BY DEF SessionStep, Skip, Dispatch, RenderFails, Answer, CancelledSend, RunnerInv, Prompt,
       Requests
  <2>. QED
    BY <2>1, BusyPhase
<1>2. Parts
  BY DEF RunnerInv
<1>3. CASE Skip(w)
  BY <1>0, <1>3, SameFigures DEF Skip, colState
<1>4. CASE Dispatch(w)
  <2>1. inFlight' = inFlight + 1 /\ UNCHANGED <<results, starts, drain, received, errors, dropped>>
    BY <1>4 DEF Dispatch, Col!SubmitSent
  <2>2. Pending' = Pending + 1 /\ Counted' = Counted
    BY <1>2, <2>1, PendingTyped DEF Pending, Counted, Col!InHand
  <2>. QED
    BY <1>0, <1>1, <2>2 DEF Abstract!Next, Abstract!Request, Pending, Counted, Owed
<1>5. CASE RenderFails(w)
  <2>1. Col!Offer("err") /\ UNCHANGED <<inFlight, starts, drain, received, errors>>
    BY <1>5 DEF RenderFails, Col!SubmitUnsent
  <2>2. Col!InHand' = Col!InHand
    BY <2>1 DEF Col!InHand
  <2>3. \/ Len(results') = Len(results) + 1 /\ dropped' = dropped
        \/ Len(results') = Len(results) /\ dropped' = dropped + 1
    BY <1>2, <2>1, OfferFigures, RunnerAssumption
  <2>4. \/ Pending' = Pending + 1 /\ Counted' = Counted
        \/ Pending' = Pending /\ Counted' = Counted + 1
    <3>1. Len(results') = Len(results) + 1 => Pending' = Pending + 1
      BY <1>2, <2>1, <2>2, PendingTyped DEF Pending
    <3>2. Len(results') = Len(results) => Pending' = Pending
      BY <2>1, <2>2 DEF Pending
    <3>3. dropped' = dropped + 1 => Counted' = Counted + 1
      BY <1>2, <2>1, PendingTyped DEF Counted
    <3>4. dropped' = dropped => Counted' = Counted
      BY <2>1 DEF Counted
    <3>. QED
      BY <2>3, <3>1, <3>2, <3>3, <3>4
  <2>. QED
    BY <1>0, <1>1, <2>4 DEF Abstract!Next, Abstract!Request, Abstract!Lost, Pending, Counted, Owed
<1>6. CASE (\E k \in Kinds : Answer(w, k)) \/ CancelledSend(w)
  <2>1. PICK k \in Kinds : Col!Submit(k) /\ request[w]
    BY <1>6, RunnerAssumption DEF Answer, CancelledSend
  <2>2. Col!Offer(k) /\ inFlight' = inFlight - 1 /\ UNCHANGED <<starts, drain, received, errors>>
    BY <2>1 DEF Col!Submit
  <2>3. Col!InHand' = Col!InHand
    BY <2>2 DEF Col!InHand
  <2>4. inFlight > 0
    <3>1. w \in Waiting
      BY <2>1 DEF Waiting
    <3>. QED
      BY <3>1, WaitingFinite, FS_EmptySet, FS_CardinalityType DEF RunnerInv, Prompt, Requests
  <2>5. \/ Pending' = Pending /\ Counted' = Counted
        \/ Pending' = Pending - 1 /\ Counted' = Counted + 1
    <3>1. \/ Len(results') = Len(results) + 1 /\ dropped' = dropped
          \/ Len(results') = Len(results) /\ dropped' = dropped + 1
      BY <1>2, <2>2, OfferFigures
    <3>2. Len(results') = Len(results) + 1 => Pending' = Pending
      BY <1>2, <2>2, <2>3, PendingTyped DEF Pending
    <3>3. Len(results') = Len(results) => Pending' = Pending - 1
      BY <1>2, <2>2, <2>3, PendingTyped DEF Pending
    <3>4. dropped' = dropped + 1 => Counted' = Counted + 1
      BY <1>2, <2>2, PendingTyped DEF Counted
    <3>5. dropped' = dropped => Counted' = Counted
      BY <2>2 DEF Counted
    <3>. QED
      BY <3>1, <3>2, <3>3, <3>4, <3>5
  <2>6. Pending > 0
    BY <1>2, <2>4, PendingTyped DEF Pending
  <2>. QED
    BY <1>0, <2>5, <2>6 DEF Abstract!Next, Abstract!Outcome, Pending, Counted, Owed
<1>. QED
  BY <1>3, <1>4, <1>5, <1>6 DEF SessionStep

LEMMA DrainRefines ==
  ASSUME RunnerInv, NEW d \in Lives, DrainStep(d)
  PROVE  Refines
<1>. USE DEF Refines
<1>0. UNCHANGED <<AbstractPhase, Owed>>
  <2>1. UNCHANGED <<state, user, watcher>>
    BY ElsewhereLeavesRun DEF Elsewhere, lifecycle, userVars, watchVars
  <2>. QED
    BY <2>1, SameOwed DEF AbstractPhase, Draining
<1>1. Parts /\ starts \in Nat /\ drain \in [Lives -> ColP!DrainPhases]
  BY SameCollector DEF RunnerInv, Parts, ColP!TypeOK
<1>2. d = starts
  <2>1. drain[d] \notin {"none", "gone"}
    BY DEF DrainStep, Col!DrainStep, Col!Select, Col!Take, Col!SeeDone, Col!Count, Col!Record,
       Col!Acknowledge, Col!Finish
  <2>. QED
    BY <1>1, <2>1, SameCollector DEF Parts, ColP!HandOver, ColP!OneDrain, Lives
<1>3. starts # 0
  BY <1>2 DEF Lives
<1>4. CASE Col!Take(d)
  <2>1. /\ drain[d] = "take" /\ drain' = [drain EXCEPT ![d] = "count"]
        /\ results # <<>> /\ results' = Tail(results)
        /\ UNCHANGED <<inFlight, starts, received, errors, dropped>>
    BY <1>4 DEF Col!Take, Col!DrainAt, Col!counters, Col!history
  <2>2. Col!InHand = 0 /\ Col!InHand' = 1
    BY <1>1, <1>2, <1>3, <2>1 DEF Col!InHand
  <2>3. Len(results') = Len(results) - 1
    BY <1>1, <2>1, PendingTyped
  <2>4. UNCHANGED <<Pending, Counted>>
    BY <1>1, <2>1, <2>2, <2>3, PendingTyped DEF Pending, Counted
  <2>. QED
    BY <1>0, <2>4
<1>5. CASE Col!Count(d)
  <2>1. /\ drain[d] = "count" /\ drain'[d] \in {"loop", "take", "record"}
        /\ \/ errors' = errors + 1 /\ received' = received
           \/ errors' = errors /\ received' = received + 1
        /\ UNCHANGED <<inFlight, results, starts, dropped>>
    BY <1>1, <1>5 DEF Col!Count, Col!LoopAgain, Col!DrainAt, Col!history
  <2>2. Col!InHand = 1 /\ Col!InHand' = 0
    BY <1>2, <1>3, <2>1 DEF Col!InHand
  <2>3. Pending > 0 /\ Pending' = Pending - 1
    BY <1>1, <2>1, <2>2, PendingTyped DEF Pending
  <2>4. Counted' = Counted + 1
    <3>1. CASE errors' = errors + 1 /\ received' = received
      BY <1>1, <2>1, <3>1, PendingTyped DEF Counted
    <3>2. CASE errors' = errors /\ received' = received + 1
      BY <1>1, <2>1, <3>2, PendingTyped DEF Counted
    <3>. QED
      BY <2>1, <3>1, <3>2
  <2>. QED
    BY <1>0, <2>3, <2>4 DEF Abstract!Next, Abstract!Outcome, Pending, Counted, Owed
<1>6. CASE Col!Select(d) \/ Col!SeeDone(d) \/ Col!Record(d) \/ Col!Acknowledge(d)
  <2>1. /\ drain[d] # "count" /\ drain'[d] # "count"
        /\ UNCHANGED <<inFlight, results, starts, received, errors, dropped>>
    BY <1>1, <1>6 DEF Col!Select, Col!SeeDone, Col!Record, Col!Acknowledge, Col!Finish,
         Col!LoopAgain, Col!DrainAt, Col!counters, Col!history
  <2>2. Col!InHand' = Col!InHand
    BY <1>2, <2>1 DEF Col!InHand
  <2>. QED
    BY <1>0, <2>1, <2>2 DEF Pending, Counted
<1>. QED
  BY <1>4, <1>5, <1>6 DEF DrainStep, Col!DrainStep

LEMMA ElsewhereRefines ==
  ASSUME RunnerInv, Elsewhere
  PROVE  Refines
<1>1. CASE (\E w \in Gen!Workers : PoolStep(w)) \/ TimerStep
  <2>1. UNCHANGED <<state, user, watcher, inFlight, results, starts, drain, received, errors, dropped>>
    BY <1>1 DEF PoolStep, TimerStep, runVars, lifecycle, userVars, watchVars, colState,
         Col!counters, Col!history
  <2>2. UNCHANGED <<AbstractPhase, Owed>>
    BY <2>1, SameOwed DEF AbstractPhase, Draining
  <2>. QED
    BY <2>1, <2>2, SameFigures DEF Refines
<1>. QED
  BY <1>1, SessionRefines, DrainRefines DEF Elsewhere

(* The runner, with pool, collector, watchers and the user's calls, does   *)
(* what Lifecycle promises: figures grow in RUNNING and while a Stop       *)
(* drains only, DONE and STOPPED are entered with nothing left to count,   *)
(* each DONE is announced once (runner.go:240-442, collector.go:154-267),  *)
(* up to the launch that overtakes the watcher of an earlier lifecycle.    *)
THEOREM RunnerImplementsLifecycle == SafeSpec => ImplementsLifecycle
<1>1. Init => Abstract!Init
  <2>. SUFFICES ASSUME Init PROVE Abstract!Init
    OBVIOUS
  <2>1. AbstractPhase \in {"IDLE", "SCRIPT_ERROR"}
    BY DEF Init, InitialStates, AbstractPhase
  <2>2. Pending = 0 /\ Counted = 0
    BY DEF Init, Col!Init, Pending, Counted, Col!InHand
  <2>3. Announcing = {}
    BY DEF Init, Announcing
  <2>4. Owed = 0
    BY <2>3, FS_EmptySet DEF Owed
  <2>. QED
    BY <2>1, <2>2, <2>4 DEF Abstract!Init, Pending, Counted, Owed
<1>2. (overtaken \/ RunnerInv) /\ [Next]_vars => [~ overtaken' => Abstract!Next]_(Abstract!lifeVars)
  <2>1. ASSUME RunnerInv, Next
        PROVE  Refines
    BY <2>1, NextIs, UserRefines, WatcherRefines, ElsewhereRefines
  <2>2. ASSUME UNCHANGED vars
        PROVE  Refines
    <3>1. UNCHANGED <<state, user, watcher, inFlight, results, starts, drain, received, errors,
                      dropped>>
      BY <2>2 DEF vars, runVars, lifecycle, userVars, watchVars, colState
    <3>2. UNCHANGED <<AbstractPhase, Owed>>
      BY <3>1, SameOwed DEF AbstractPhase, Draining
    <3>. QED
      BY <3>1, <3>2, SameFigures DEF Refines
  <2>. QED
    BY <2>1, <2>2, RefinesIs, OnceOvertaken
<1>. QED
  BY <1>1, <1>2, AlwaysRunner, PTL DEF SafeSpec, ImplementsLifecycle


(* What is proved of the components alone holds inside the runner, as long *)
(* as no watcher was overtaken: however often the user parks and resumes   *)
(* between two resets, the workers of all cycles together begin no more    *)
(* sessions than total_messages, a run ends by itself only for a reason, a *)
(* Resume with no time left sends nothing, and each request has one        *)
(* outcome in one counter (load_generator.go:76-215,                       *)
(* collector.go:154-245).                                                  *)
THEOREM ComponentsKeepTheirPromises ==
  SafeSpec => [](~ overtaken =>
                   /\ Gen!CapHeld /\ Gen!NaturalEndHasReason /\ Gen!NoSessionOnSpentBudget
                   /\ Col!NothingLost /\ Col!FinalWhenStopped)
<1>. DEFINE Inv == overtaken \/ (GenP!Cap /\ GenP!Time)
<1>1. Init => Inv
  BY Assumptions, SameGenerator, GenP!InitCap, GenP!InitTime DEF Init
<1>2. (overtaken \/ RunnerInv) /\ Inv /\ [Next]_vars => Inv'
  <2>. SUFFICES ASSUME RunnerInv, GenP!Cap, GenP!Time, [Next]_vars
                PROVE  (GenP!Cap /\ GenP!Time)'
    BY OnceOvertaken
  <2>1. Gen!Next \/ UNCHANGED genVars
    BY StepContract DEF GenObeys, vars, genVars
  <2>2. CASE Gen!Next
    BY <2>2, Assumptions, SameGenerator, GenP!StepCap, GenP!StepTime DEF RunnerInv, Parts
  <2>3. CASE UNCHANGED genVars
    <3>1. UNCHANGED GenP!genVars
      BY <2>3 DEF genVars, genState, GenP!genVars, GenP!genState
    <3>. QED
      BY <3>1, Assumptions, GenP!CapUntouched, GenP!TimeUntouched
  <2>. QED
    BY <2>1, <2>2, <2>3
<1>3. RunnerInv /\ GenP!Cap /\ GenP!Time =>
        /\ Gen!CapHeld /\ Gen!NaturalEndHasReason /\ Gen!NoSessionOnSpentBudget
        /\ Col!NothingLost /\ Col!FinalWhenStopped
  <2>. SUFFICES ASSUME RunnerInv, GenP!Cap, GenP!Time
                PROVE  /\ Gen!CapHeld /\ Gen!NaturalEndHasReason /\ Gen!NoSessionOnSpentBudget
                       /\ Col!NothingLost /\ Col!FinalWhenStopped
    OBVIOUS
  <2>1. GenP!CapHeld /\ GenP!NaturalEndHasReason /\ GenP!NoSessionOnSpentBudget
    BY Assumptions, GenP!CapSuffices, GenP!TimeSuffices DEF RunnerInv, Parts
  <2>2. ColP!NothingLost /\ ColP!FinalWhenStopped
    BY Assumptions, ColP!HandOverSuffices DEF RunnerInv, Parts
  <2>3. Gen!CapHeld /\ Gen!NaturalEndHasReason /\ Gen!NoSessionOnSpentBudget
    BY <2>1, SameGenerator
       DEF Gen!CapHeld, GenP!CapHeld, Gen!NaturalEndHasReason, GenP!NaturalEndHasReason,
           Gen!NoSessionOnSpentBudget, GenP!NoSessionOnSpentBudget
  <2>4. Col!NothingLost /\ Col!FinalWhenStopped
    BY <2>2, SameCollector
       DEF Col!NothingLost, ColP!NothingLost, Col!FinalWhenStopped, ColP!FinalWhenStopped
  <2>. QED
    BY <2>3, <2>4
<1>. QED
  BY <1>1, <1>2, <1>3, AlwaysRunner, PTL DEF SafeSpec
=============================================================================
